----------------------------- MODULE AcoRouting ------------------------------
(***************************************************************************)
(* The ant-colony routing protocol (src/aco/model/aco-routing-protocol.cc) *)
(* run by every node of an ad-hoc radio network.                           *)
(*                                                                         *)
(* A node that wants a route broadcasts a forward ant (F-ANT); every node  *)
(* that hears it for the first time remembers the way back and rebroadcasts*)
(* it; the destination answers with one backward ant (B-ANT) that walks    *)
(* back along those breadcrumbs and leaves pheromone and a forward route.  *)
(*                                                                         *)
(* ns-3 runs one event at a time, so a handler is atomic; what interleaves *)
(* is the order in which frames arrive and timers fire.  A unicast SendTo  *)
(* calls RouteOutput of the SAME node before it returns (the socket is     *)
(* bound to "any"), so the handlers that send a B-ANT contain a whole      *)
(* RouteOutput, which may itself start a new discovery.                    *)
(***************************************************************************)
EXTENDS AcoRTable

CONSTANTS
    Link,            \* Link[n]: the nodes that may ever be in radio range of n
    Lossy,           \* TRUE: any frame may be lost or out of range
    Prompt,          \* TRUE: a frame takes less than a tick, FALSE: any time
    TicksPerSecond,  \* time unit of the model
    RouteLifetime,   \* the Seconds(15.0) of every new entry, in ticks
    RreqRetries,     \* m_rreqRetries
    PUnit,           \* the integer that stands for pheromone 1.0
    Requesters,      \* the nodes whose applications send
    Targets,         \* the destinations they send to
    MaxSends,        \* bound: application packets in a behaviour
    MaxTime          \* bound: the last instant, in ticks

ASSUME LinkAssumption == Link \in [Nodes -> SUBSET Nodes]
ASSUME RadioAssumption == Lossy \in BOOLEAN /\ Prompt \in BOOLEAN
ASSUME TimeAssumption ==
    /\ TicksPerSecond \in Nat \ {0}
    /\ RouteLifetime \in Nat
    /\ MaxTime \in Nat
ASSUME LimitAssumption ==
    /\ RreqRetries \in Nat \ {0}
    /\ PUnit \in Nat \ {0}
    /\ MaxSends \in Nat
ASSUME TrafficAssumption == Requesters \subseteq Nodes /\ Targets \subseteq Nodes

VARIABLES
    now,              \* Simulator::Now()
    rtable,           \* m_routingTable of each node
    seenAnts,         \* the keys of m_seenAnts of each node
    requestId,        \* m_requestId of each node
    discoveryStart,   \* m_discoveryStart of each node: ONE instant, whatever the destination
    addressReqTimer,  \* m_addressReqTimer of each node: the instant of expiry, or NoTimer
    simulatedQueue,   \* m_simulatedQueue of each node
    evapTimer,        \* when m_pheromoneEvapTimer of each node fires next
    air,              \* the frames in flight
    sends,            \* application packets sent so far
    ants,             \* history: every ant launched, and when
    visited,          \* history: the ants <<src, id>> each node has processed
    known             \* history: the destinations each node ever had an entry for

vars == <<now, rtable, seenAnts, requestId, discoveryStart, addressReqTimer,
          simulatedQueue, evapTimer, air, sends, ants, visited, known>>

NoTimer == -1

\* A frame on the way to one receiver: "to" is the radio receiver, ipSrc and
\* ipDst the IP header, (src, dst, id) the AntPacket.  A broadcast is one frame
\* for each receiver, with the receiver as ipDst.
Frame == [kind : {"F-ANT", "B-ANT", "DATA"}, ipSrc : Nodes, ipDst : Nodes, to : Nodes,
          src : Nodes, dst : Nodes, id : Nat]

Unicast(kind, n, ipDst, src, dst, id) ==
    [kind |-> kind, ipSrc |-> n, ipDst |-> ipDst, to |-> ipDst,
     src |-> src, dst |-> dst, id |-> id]

Broadcast(n, src, dst, id) ==
    {Unicast("F-ANT", n, m, src, dst, id) : m \in Nodes \ {n}}

\* What can be in the air after n transmits the frames S: receivers out of range
\* get nothing, and a lossy network loses any of the others.
Radio(n, keep, S) ==
    LET heard == {f \in S : f.to \in Link[n]}
    IN  IF Lossy THEN {keep \cup h : h \in SUBSET heard} ELSE {keep \cup heard}

Ants == [src : Nodes, dst : Nodes, id : Nat, at : Nat]

TypeOK ==
    /\ now \in Nat
    /\ rtable \in [Nodes -> Table]
    /\ seenAnts \in [Nodes -> SUBSET Nat]
    /\ requestId \in [Nodes -> Nat]
    /\ discoveryStart \in [Nodes -> Nat]
    /\ addressReqTimer \in [Nodes -> [Nodes -> Nat \cup {NoTimer}]]
    /\ simulatedQueue \in [Nodes -> 0..63]
    /\ evapTimer \in [Nodes -> Nat]
    /\ air \subseteq Frame
    /\ sends \in Nat
    /\ ants \subseteq Ants
    /\ visited \in [Nodes -> SUBSET (Nodes \X Nat)]
    /\ known \in [Nodes -> SUBSET Nodes]

\* The state Start leaves, with the radio interface up and its socket open.
Init ==
    /\ now = 0
    /\ rtable = [n \in Nodes |-> EmptyTable]
    /\ seenAnts = [n \in Nodes |-> {}]
    /\ requestId = [n \in Nodes |-> 0]
    /\ discoveryStart = [n \in Nodes |-> 0]
    /\ addressReqTimer = [n \in Nodes |-> [d \in Nodes |-> NoTimer]]
    /\ simulatedQueue = [n \in Nodes |-> 0]
    /\ evapTimer = [n \in Nodes |-> TicksPerSecond]
    /\ air = {}
    /\ sends = 0
    /\ ants = {}
    /\ visited = [n \in Nodes |-> {}]
    /\ known = [n \in Nodes |-> {}]

-----------------------------------------------------------------------------
\* The key of m_seenAnts: the code builds (src << 32) | antId in 64 bits, and the
\* map's uint32_t key type keeps the low half of it.
SeenKey(src, id) == id

\* Mutant: numbers are taken for the age of an ant, as a sequence number would be.
NotTheNewest(n, f) == \E k \in seenAnts[n] : SeenKey(f.src, f.id) <= k

AlreadySeen(n, f) == SeenKey(f.src, f.id) \in seenAnts[n]

\* Mutants: the key is never stored, or only by the nodes that relay the ant.
ForgetAnt(n, f) ==
    /\ UNCHANGED seenAnts
    /\ visited' = [visited EXCEPT ![n] = @ \cup {<<f.src, f.id>>}]

RememberRelayedAnt(n, f) ==
    /\ seenAnts' = [seenAnts EXCEPT ![n] =
                       IF n = f.dst THEN @ ELSE @ \cup {SeenKey(f.src, f.id)}]
    /\ visited' = [visited EXCEPT ![n] = @ \cup {<<f.src, f.id>>}]

\* The ant's key enters m_seenAnts.
Remember(n, f) ==
    /\ seenAnts' = [seenAnts EXCEPT ![n] = @ \cup {SeenKey(f.src, f.id)}]
    /\ visited' = [visited EXCEPT ![n] = @ \cup {<<f.src, f.id>>}]

\* RouteOutput uses a VALID route only while its pheromone is at least 0.1.
Strong(T, d) == HasValidRoute(T, d) /\ 10 * T[d].pheromone >= PUnit

\* A hit drains five packets of the simulated queue; a miss adds two, caps the
\* sum at 64 and takes one away.
\* (Mutant: without the guard.)
DrainUnguarded(q) == q - 5

Drain(q) == IF q > 5 THEN q - 5 ELSE 0

Fill(q) == (IF q + 2 > 64 THEN 64 ELSE q + 2) - 1

SetTable(n, T) ==
    /\ rtable' = [rtable EXCEPT ![n] = T]
    /\ known' = [known EXCEPT ![n] = @ \cup {d \in Nodes : HasRoute(T, d)}]

\* m_requestId is incremented first.  (Mutant: it is not.)
SameRequestId(n) == requestId[n]

NextRequestId(n) == requestId[n] + 1

\* m_addressReqTimer[d].IsRunning(): no second discovery of d meanwhile.
\* (Mutant: the timer is not looked at.)
NeverSearching(n, d) == FALSE

Searching(n, d) == addressReqTimer[n][d] # NoTimer

SendRequest(n, d, keep) ==
    LET id == NextRequestId(n)
    IN  /\ requestId' = [requestId EXCEPT ![n] = id]
        /\ discoveryStart' = [discoveryStart EXCEPT ![n] = now]
        /\ ants' = ants \cup {[src |-> n, dst |-> d, id |-> id, at |-> now]}
        /\ air' \in Radio(n, keep, Broadcast(n, n, d, id))

RouteHit(n, T, d, keep, pkt) ==
    /\ Strong(T, d)
    /\ SetTable(n, T)
    /\ simulatedQueue' = [simulatedQueue EXCEPT ![n] = Drain(@)]
    /\ air' \in Radio(n, keep, {[pkt EXCEPT !.to = T[d].nextHop]})
    /\ UNCHANGED <<requestId, discoveryStart, ants, addressReqTimer>>

\* The packet is not kept (the Enqueue is commented out): only the ant leaves.
RouteMiss(n, T, d, keep) ==
    /\ ~Strong(T, d)
    /\ SetTable(n, IF HasValidRoute(T, d) THEN DeleteRoute(T, d) ELSE T)
    /\ simulatedQueue' = [simulatedQueue EXCEPT ![n] = Fill(@)]
    /\ \/ /\ ~Searching(n, d)
          /\ SendRequest(n, d, keep)
          /\ addressReqTimer' = [addressReqTimer EXCEPT ![n][d] = now + TicksPerSecond]
       \/ /\ Searching(n, d)
          /\ air' = keep
          /\ UNCHANGED <<requestId, discoveryStart, ants, addressReqTimer>>

\* RouteOutput of node n for the packet pkt to d, on a table T already purged.
RouteOutput(n, T, d, keep, pkt) ==
    RouteHit(n, T, d, keep, pkt) \/ RouteMiss(n, T, d, keep)

\* The application of n sends a packet to d.
AppSend(n, d) ==
    /\ sends < MaxSends
    /\ sends' = sends + 1
    /\ RouteOutput(n, Purge(rtable[n], now), d, air, Unicast("DATA", n, d, n, d, sends))
    /\ UNCHANGED <<now, seenAnts, evapTimer, visited>>

-----------------------------------------------------------------------------
\* Mutant: the neighbour is remembered under the wrong gateway.
CrossedBreadcrumbs(T, src, sender) ==
    LET T1 == AddRoute(T, src, NewEntry(sender, PUnit, RouteLifetime, now))
    IN  AddRoute(T1, sender, NewEntry(src, PUnit, RouteLifetime, now))

\* The table after the first part of the F-ANT handler: a breadcrumb to the
\* ant's source and a one-hop route to the neighbour, each only if absent.
Breadcrumbs(T, src, sender) ==
    LET crumb(d) == NewEntry(sender, PUnit, RouteLifetime, now)
    IN  AddRoute(AddRoute(T, src, crumb(src)), sender, crumb(sender))

\* RecvAco returns early on its own frames and on an F-ANT it has seen.
DiscardAnt(n, f) ==
    /\ f.kind # "DATA"
    /\ f.ipSrc = n \/ (f.kind = "F-ANT" /\ AlreadySeen(n, f))
    /\ air' = air \ {f}
    /\ UNCHANGED <<now, rtable, seenAnts, requestId, discoveryStart, addressReqTimer,
                   simulatedQueue, evapTimer, sends, ants, visited, known>>

\* Mutant: the answer's source and destination are swapped, as a reply's usually are.
ReversedAnswer(n, f) == Unicast("B-ANT", n, f.ipSrc, f.dst, f.src, f.id)

\* The backward ant keeps the source, the destination and the id of the forward one.
Answer(n, f) == Unicast("B-ANT", n, f.ipSrc, f.src, f.dst, f.id)

\* The F-ANT branch of RecvAco: answer if the ant is for this node (the answer
\* goes through RouteOutput for the neighbour), rebroadcast otherwise.
RecvForwardAnt(n, f) ==
    LET T == Breadcrumbs(Purge(rtable[n], now), f.src, f.ipSrc)
        keep == air \ {f}
    IN  /\ f.kind = "F-ANT"
        /\ f.ipSrc # n
        /\ ~AlreadySeen(n, f)
        /\ Remember(n, f)
        /\ \/ /\ n = f.dst
              /\ RouteOutput(n, T, f.ipSrc, keep, Answer(n, f))
           \/ /\ n # f.dst
              /\ SetTable(n, T)
              /\ air' \in Radio(n, keep, Broadcast(n, f.src, f.dst, f.id))
              /\ UNCHANGED <<requestId, discoveryStart, addressReqTimer, simulatedQueue, ants>>
        /\ UNCHANGED <<now, evapTimer, sends>>

\* 1.0 / delay, the delay taken from this node's own m_discoveryStart; a delay of nothing
\* (within one instant of the model) counts as a millisecond.
Deposit(n) ==
    LET delay == now - discoveryStart[n]
    IN  IF delay <= 0 THEN 1000 * PUnit ELSE (PUnit * TicksPerSecond) \div delay

\* Mutants: no route is added, or an existing one gets a new lifetime.
ReinforceExisting(n, T, d, sender) ==
    IF HasRoute(T, d)
    THEN Update(T, d, [T[d] EXCEPT !.pheromone = @ + Deposit(n), !.nextHop = sender])
    ELSE T

ReinforceAndRefresh(n, T, d, sender) ==
    LET fresh == NewEntry(sender, PUnit + Deposit(n), RouteLifetime, now)
    IN  IF HasRoute(T, d) THEN Update(T, d, fresh) ELSE AddRoute(T, d, fresh)

\* The table after the B-ANT branch has recorded the forward route: an existing
\* entry keeps its flag and its lifetime, even if it is INVALID.
Reinforce(n, T, d, sender) ==
    IF HasRoute(T, d)
    THEN Update(T, d, [T[d] EXCEPT !.pheromone = @ + Deposit(n), !.nextHop = sender])
    ELSE AddRoute(T, d, NewEntry(sender, PUnit + Deposit(n), RouteLifetime, now))

\* The B-ANT branch of RecvAco.  At home nothing is left to do (m_queue, which
\* SendPacketFromQueue empties, is never filled); elsewhere the ant goes on to the
\* breadcrumb's next hop, through RouteOutput for that neighbour, or is dropped.
RecvBackwardAnt(n, f) ==
    LET T == Reinforce(n, Purge(rtable[n], now), f.dst, f.ipSrc)
        keep == air \ {f}
        back == T[f.src].nextHop
    IN  /\ f.kind = "B-ANT"
        /\ f.ipSrc # n
        /\ \/ /\ n # f.src
              /\ HasValidRoute(T, f.src)
              /\ RouteOutput(n, T, back, keep,
                             Unicast("B-ANT", n, back, f.src, f.dst, f.id))
           \/ /\ n = f.src \/ ~HasValidRoute(T, f.src)
              /\ SetTable(n, T)
              /\ air' = keep
              /\ UNCHANGED <<requestId, discoveryStart, addressReqTimer, simulatedQueue, ants>>
        /\ UNCHANGED <<now, seenAnts, evapTimer, sends, visited>>

DeliverData(n, f) ==
    /\ f.kind = "DATA"
    /\ air' = air \ {f}
    /\ UNCHANGED <<now, rtable, seenAnts, requestId, discoveryStart, addressReqTimer,
                   simulatedQueue, evapTimer, sends, ants, visited, known>>

\* RouteInput for a packet that is not for n: forward on a VALID route, whatever
\* its pheromone, or drop.
Forward(n, f) ==
    LET T == Purge(rtable[n], now)
    IN  /\ SetTable(n, T)
        /\ \/ /\ HasValidRoute(T, f.ipDst)
              /\ air' \in Radio(n, air \ {f}, {[f EXCEPT !.to = T[f.ipDst].nextHop]})
           \/ /\ ~HasValidRoute(T, f.ipDst)
              /\ air' = air \ {f}
        /\ UNCHANGED <<now, seenAnts, requestId, discoveryStart, addressReqTimer,
                       simulatedQueue, evapTimer, sends, ants, visited>>

Receive(n, f) ==
    /\ f.to = n
    /\ \/ /\ f.ipDst = n
          /\ \/ DiscardAnt(n, f)
             \/ RecvForwardAnt(n, f)
             \/ RecvBackwardAnt(n, f)
             \/ DeliverData(n, f)
       \/ /\ f.ipDst # n
          /\ Forward(n, f)

-----------------------------------------------------------------------------
\* rho = 0.2 + 0.5 * queue / 64, at most 0.5, in 640ths (the IN_SEARCH branch of
\* RouteRequestTimerExpire caps the same formula at 0.9 instead).
Rho(q, cap) == IF 128 + 5 * q > cap THEN cap ELSE 128 + 5 * q

Evaporated(e, rho) == [e EXCEPT !.pheromone = (@ * (640 - rho)) \div 640]

\* RouteRequestTimerExpire: nothing without an entry; with one, another ant,
\* unless the entry has used up its retries.
RouteRequestTimerExpire(n, d) ==
    LET T0 == Purge(rtable[n], now)
        T == IF HasRoute(T0, d) /\ T0[d].flag = "IN_SEARCH"
             THEN Update(T0, d, Evaporated(T0[d], Rho(simulatedQueue[n], 576)))
             ELSE T0
        tired == HasRoute(T, d) /\ T[d].reqCount >= RreqRetries
    IN  /\ addressReqTimer[n][d] = now
        /\ addressReqTimer' = [addressReqTimer EXCEPT ![n][d] = NoTimer]
        /\ SetTable(n, IF tired THEN DeleteRoute(T, d) ELSE T)
        /\ IF HasRoute(T, d) /\ ~tired
           THEN SendRequest(n, d, air)
           ELSE UNCHANGED <<requestId, discoveryStart, ants, air>>
        /\ UNCHANGED <<now, seenAnts, simulatedQueue, evapTimer, sends, visited>>

\* EvaporatePheromones: every entry of the table, whatever its flag, without a
\* Purge first.
EvaporatePheromones(n) ==
    LET rho == Rho(simulatedQueue[n], 320)
        T == rtable[n]
    IN  /\ evapTimer[n] = now
        /\ evapTimer' = [evapTimer EXCEPT ![n] = now + TicksPerSecond]
        /\ SetTable(n, [d \in Nodes |-> IF HasRoute(T, d) THEN Evaporated(T[d], rho) ELSE Absent])
        /\ UNCHANGED <<now, seenAnts, requestId, discoveryStart, addressReqTimer,
                       simulatedQueue, air, sends, ants, visited>>

\* Time passes, but not past a timer that is due.
Tick ==
    /\ now < MaxTime
    /\ Prompt => air = {}
    /\ \A n \in Nodes : evapTimer[n] > now /\ \A d \in Nodes : addressReqTimer[n][d] # now
    /\ now' = now + 1
    /\ UNCHANGED <<rtable, seenAnts, requestId, discoveryStart, addressReqTimer,
                   simulatedQueue, evapTimer, air, sends, ants, visited, known>>

Next ==
    \/ \E n \in Requesters, d \in Targets : n # d /\ AppSend(n, d)
    \/ \E f \in air : Receive(f.to, f)
    \/ \E n \in Nodes, d \in Nodes : RouteRequestTimerExpire(n, d)
    \/ \E n \in Nodes : EvaporatePheromones(n)
    \/ Tick

Spec == Init /\ [][Next]_vars

\* Every frame the radio accepted reaches its receiver.
Fairness == WF_vars(\E f \in air : Receive(f.to, f))

FairSpec == Spec /\ Fairness
=============================================================================
