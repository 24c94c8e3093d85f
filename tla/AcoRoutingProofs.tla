-------------------------- MODULE AcoRoutingProofs ---------------------------
(***************************************************************************)
(* Machine-checked proofs about AcoRouting, for any number of nodes, any   *)
(* radio topology, lossy or not, and any lifetimes and bounds.             *)
(*                                                                         *)
(* The inductive invariant IndInv is handled in two halves: what it says of*)
(* the nodes (NodeInv) and what it says of the frames in flight (AirInv).  *)
(* A handler replaces one table by a table that is still good and puts     *)
(* good frames on the air; the lemmas say so for each building block.      *)
(***************************************************************************)
EXTENDS AcoRoutingProperties, TLAPS

\* An entry for d that node n may hold when each node m has known K[m].
GoodEntry(K, n, d, e) ==
    /\ e \in RoutingTableEntry
    /\ e.flag # "IN_SEARCH" /\ e.reqCount = 0
    /\ e.nextHop # n
    /\ e.nextHop = d \/ d \in K[e.nextHop]

GoodTable(K, n, T) ==
    /\ T \in Table
    /\ \A d \in Nodes : HasRoute(T, d) => GoodEntry(K, n, d, T[d])

\* A frame that may be in flight.
GoodFrame(f) ==
    /\ f \in Frame
    /\ f.kind = "F-ANT" => f.ipDst = f.to
    /\ f.kind # "DATA" =>
          \E a \in ants : a.src = f.src /\ a.dst = f.dst /\ a.id = f.id
    /\ f.kind = "B-ANT" => <<f.src, f.id>> \in visited[f.dst]
    /\ Trail(f)

AirInv == (\A f \in air : GoodFrame(f)) /\ SingleBackwardAnt

NodeInv ==
    /\ now \in Nat /\ sends \in Nat
    /\ \A n \in Nodes : GoodTable(known, n, rtable[n])
    /\ rtable \in [Nodes -> Table]
    /\ seenAnts \in [Nodes -> SUBSET Nat]
    /\ requestId \in [Nodes -> Nat]
    /\ discoveryStart \in [Nodes -> Nat]
    /\ addressReqTimer \in [Nodes -> [Nodes -> Nat \cup {NoTimer}]]
    /\ simulatedQueue \in [Nodes -> 0..63]
    /\ evapTimer \in [Nodes -> Nat]
    /\ ants \subseteq Ants
    /\ visited \in [Nodes -> SUBSET (Nodes \X Nat)]
    /\ known \in [Nodes -> SUBSET Nodes]
    /\ AntsNumbered
    /\ \A n \in Nodes : \A v \in visited[n] : SeenKey(v[1], v[2]) \in seenAnts[n]

\* The two halves are the invariant.
LEMMA Halves == IndInv <=> NodeInv /\ AirInv
<1>1. ASSUME IndInv PROVE NodeInv
  <2>1. ASSUME NEW n \in Nodes PROVE GoodTable(known, n, rtable[n])
    <3>1. rtable[n] \in Table
      BY <1>1 DEF IndInv, TypeOK
    <3>2. ASSUME NEW d \in Nodes, HasRoute(rtable[n], d) PROVE GoodEntry(known, n, d, rtable[n][d])
      BY <1>1, <3>1, <3>2
      DEF IndInv, GoodEntry, Table, HasRoute, NextHopKnewRoute, NoRetryBookkeeping
    <3> QED BY <3>1, <3>2 DEF GoodTable
  <2> QED BY <1>1, <2>1 DEF IndInv, TypeOK, NodeInv, FilterCovers
<1>2. ASSUME IndInv PROVE AirInv
  BY <1>2 DEF IndInv, TypeOK, AirInv, GoodFrame, TrailsKnown, AntsAuthentic, FilterCovers
<1>3. ASSUME NodeInv, AirInv PROVE IndInv
  <2>1. TypeOK
    BY <1>3 DEF NodeInv, AirInv, GoodFrame, TypeOK
  <2>2. NextHopKnewRoute /\ NoRetryBookkeeping
    BY <1>3 DEF NodeInv, GoodTable, GoodEntry, NextHopKnewRoute, NoRetryBookkeeping
  <2>3. AntsAuthentic /\ FilterCovers /\ TrailsKnown /\ SingleBackwardAnt
    BY <1>3 DEF NodeInv, AirInv, GoodFrame, TrailsKnown, AntsAuthentic, FilterCovers
  <2> QED BY <1>3, <2>1, <2>2, <2>3 DEF IndInv, NodeInv
<1> QED BY <1>1, <1>2, <1>3

-----------------------------------------------------------------------------
\* The operations of the routing table keep a good table good.

LEMMA InvalidateGood ==
    ASSUME NEW K, NEW n, NEW d \in Nodes, NEW e, GoodEntry(K, n, d, e), NEW t \in Nat
    PROVE  GoodEntry(K, n, d, Invalidate(e, t))
<1>1. t + BadLinkLifetime \in Nat
  BY BadLinkLifetimeAssumption
<1> QED BY <1>1 DEF Invalidate, GoodEntry, RoutingTableEntry, RouteFlags

LEMMA ReinforcedGood ==
    ASSUME NEW K, NEW n \in Nodes, NEW d \in Nodes, NEW e, GoodEntry(K, n, d, e), NEW p \in Nat,
           NEW sender \in Nodes, sender # n, sender = d \/ d \in K[sender]
    PROVE  GoodEntry(K, n, d, [e EXCEPT !.pheromone = @ + p, !.nextHop = sender])
<1>1. e \in RoutingTableEntry /\ e.flag # "IN_SEARCH" /\ e.reqCount = 0
  BY DEF GoodEntry
<1> DEFINE q == e.pheromone + p
           f == [e EXCEPT !.pheromone = q, !.nextHop = sender]
<1>2. q \in Nat
  BY <1>1 DEF RoutingTableEntry
<1> HIDE DEF q
<1>3. f \in RoutingTableEntry /\ f.nextHop = sender /\ f.flag = e.flag /\ f.reqCount = e.reqCount
  BY <1>1, <1>2 DEF RoutingTableEntry
<1> HIDE DEF f
<1>4. GoodEntry(K, n, d, f)
  BY <1>1, <1>3 DEF GoodEntry
<1> QED BY <1>4 DEF f, q

LEMMA PurgeGood ==
    ASSUME NEW K, NEW n \in Nodes, NEW T, GoodTable(K, n, T), NEW t \in Nat
    PROVE  GoodTable(K, n, Purge(T, t))
<1> SUFFICES ASSUME NEW d \in Nodes
             PROVE  /\ PurgeEntry(T[d], t) \in RoutingTableEntry \cup {Absent}
                    /\ PurgeEntry(T[d], t) # Absent => GoodEntry(K, n, d, PurgeEntry(T[d], t))
  BY DEF GoodTable, Table, Purge, HasRoute
<1>1. CASE T[d] = Absent
  BY <1>1 DEF PurgeEntry
<1>2. CASE T[d] # Absent
  <2>1. T[d] \in RoutingTableEntry /\ GoodEntry(K, n, d, T[d])
    BY <1>2 DEF GoodTable, GoodEntry, HasRoute
  <2>2. Invalidate(T[d], t) \in RoutingTableEntry /\ GoodEntry(K, n, d, Invalidate(T[d], t))
    <3>1. GoodEntry(K, n, d, Invalidate(T[d], t))
      BY <2>1, InvalidateGood
    <3> QED BY <3>1 DEF GoodEntry
  <2> QED BY <2>1, <2>2 DEF PurgeEntry
<1> QED BY <1>1, <1>2

LEMMA AddRouteGood ==
    ASSUME NEW K, NEW n \in Nodes, NEW T, GoodTable(K, n, T), NEW d \in Nodes, NEW e, GoodEntry(K, n, d, e)
    PROVE  GoodTable(K, n, AddRoute(T, d, e)) /\ HasRoute(AddRoute(T, d, e), d)
  BY DEF GoodTable, GoodEntry, Table, AddRoute, HasRoute, RoutingTableEntry, RouteFlags, Absent

LEMMA DeleteRouteGood ==
    ASSUME NEW K, NEW n \in Nodes, NEW T, GoodTable(K, n, T), NEW d \in Nodes
    PROVE  GoodTable(K, n, DeleteRoute(T, d))
  BY DEF GoodTable, GoodEntry, Table, DeleteRoute, HasRoute, Absent

LEMMA UpdateGood ==
    ASSUME NEW K, NEW n \in Nodes, NEW T, GoodTable(K, n, T), NEW d \in Nodes, NEW e, GoodEntry(K, n, d, e)
    PROVE  GoodTable(K, n, Update(T, d, e)) /\ (HasRoute(T, d) => HasRoute(Update(T, d, e), d))
  BY DEF GoodTable, GoodEntry, Table, Update, HasRoute, RoutingTableEntry, RouteFlags, Absent

LEMMA NewEntryGood ==
    ASSUME NEW K, NEW n \in Nodes, NEW d \in Nodes, NEW hop \in Nodes, NEW p \in Nat, now \in Nat,
           hop # n, hop = d \/ d \in K[hop]
    PROVE  GoodEntry(K, n, d, NewEntry(hop, p, RouteLifetime, now))
  BY TimeAssumption DEF GoodEntry, NewEntry, RoutingTableEntry, RouteFlags

LEMMA BreadcrumbsGood ==
    ASSUME NEW K, NEW n \in Nodes, NEW T, GoodTable(K, n, T), now \in Nat,
           NEW src \in Nodes, NEW sender \in Nodes, sender # n,
           sender = src \/ src \in K[sender]
    PROVE  /\ GoodTable(K, n, Breadcrumbs(T, src, sender))
           /\ HasRoute(Breadcrumbs(T, src, sender), src)
<1> DEFINE crumb(d) == NewEntry(sender, PUnit, RouteLifetime, now)
           T1 == AddRoute(T, src, crumb(src))
<1>1. GoodEntry(K, n, src, crumb(src)) /\ GoodEntry(K, n, sender, crumb(sender))
  BY NewEntryGood, LimitAssumption
<1>2. GoodTable(K, n, T1) /\ HasRoute(T1, src)
  BY <1>1, AddRouteGood
<1>3. GoodTable(K, n, AddRoute(T1, sender, crumb(sender)))
  BY <1>1, <1>2, AddRouteGood
<1>4. HasRoute(AddRoute(T1, sender, crumb(sender)), src)
  BY <1>1, <1>2, <1>3 DEF AddRoute, HasRoute, GoodTable, Table, NewEntry, Absent
<1> QED BY <1>3, <1>4 DEF Breadcrumbs

LEMMA DepositNat == ASSUME NodeInv, NEW n \in Nodes PROVE Deposit(n) \in Nat
<1>1. now \in Nat /\ discoveryStart[n] \in Nat
  BY DEF NodeInv
<1>2. PUnit * TicksPerSecond \in Nat /\ 1000 * PUnit \in Nat
  BY LimitAssumption, TimeAssumption
<1>3. \A a, b \in Nat : b > 0 => a \div b \in Nat
  OBVIOUS
<1> QED BY <1>1, <1>2, <1>3 DEF Deposit

LEMMA ReinforceGood ==
    ASSUME NEW K, NodeInv, NEW n \in Nodes, NEW T, GoodTable(K, n, T), NEW d \in Nodes,
           NEW sender \in Nodes, sender # n, sender = d \/ d \in K[sender]
    PROVE  GoodTable(K, n, Reinforce(n, T, d, sender)) /\ HasRoute(Reinforce(n, T, d, sender), d)
<1>1. Deposit(n) \in Nat /\ PUnit + Deposit(n) \in Nat /\ now \in Nat
  BY DepositNat, LimitAssumption DEF NodeInv
<1>2. CASE HasRoute(T, d)
  <2> DEFINE e == [T[d] EXCEPT !.pheromone = @ + Deposit(n), !.nextHop = sender]
  <2>1. GoodEntry(K, n, d, e)
    BY <1>1, <1>2, ReinforcedGood DEF GoodTable
  <2>2. GoodTable(K, n, Update(T, d, e)) /\ HasRoute(Update(T, d, e), d)
    BY <2>1, <1>2, UpdateGood
  <2> QED BY <1>2, <2>2 DEF Reinforce
<1>3. CASE ~HasRoute(T, d)
  <2> DEFINE e == NewEntry(sender, PUnit + Deposit(n), RouteLifetime, now)
  <2>1. GoodEntry(K, n, d, e)
    BY <1>1, NewEntryGood
  <2>2. GoodTable(K, n, AddRoute(T, d, e)) /\ HasRoute(AddRoute(T, d, e), d)
    BY <2>1, AddRouteGood
  <2> QED BY <1>3, <2>2 DEF Reinforce
<1> QED BY <1>2, <1>3

LEMMA EvaporatedGood ==
    ASSUME NEW K, NEW n \in Nodes, NEW d \in Nodes, NEW e, GoodEntry(K, n, d, e), NEW rho \in 0..640
    PROVE  GoodEntry(K, n, d, Evaporated(e, rho))
<1>1. e.pheromone \in Nat /\ 640 - rho \in Nat
  BY DEF GoodEntry, RoutingTableEntry
<1>2. e.pheromone * (640 - rho) \in Nat
  BY <1>1
<1>3. (e.pheromone * (640 - rho)) \div 640 \in Nat
  BY <1>2
<1> QED BY <1>3 DEF GoodEntry, Evaporated, RoutingTableEntry
-----------------------------------------------------------------------------
\* The part of NodeInv that RouteOutput can change, and the part it cannot.

TablesInv ==
    /\ \A n \in Nodes : GoodTable(known, n, rtable[n])
    /\ rtable \in [Nodes -> Table]
    /\ known \in [Nodes -> SUBSET Nodes]

LaunchInv ==
    /\ requestId \in [Nodes -> Nat]
    /\ discoveryStart \in [Nodes -> Nat]
    /\ ants \subseteq Ants
    /\ AntsNumbered

TimersInv ==
    /\ addressReqTimer \in [Nodes -> [Nodes -> Nat \cup {NoTimer}]]
    /\ simulatedQueue \in [Nodes -> 0..63]

RestInv ==
    /\ now \in Nat /\ sends \in Nat
    /\ seenAnts \in [Nodes -> SUBSET Nat]
    /\ evapTimer \in [Nodes -> Nat]
    /\ visited \in [Nodes -> SUBSET (Nodes \X Nat)]
    /\ \A n \in Nodes : \A v \in visited[n] : SeenKey(v[1], v[2]) \in seenAnts[n]

LEMMA NodeParts == NodeInv <=> TablesInv /\ LaunchInv /\ TimersInv /\ RestInv
BY DEF NodeInv, TablesInv, LaunchInv, TimersInv, RestInv

\* What a node has known or processed, and what was launched, is never forgotten.
HistoryGrows ==
    /\ \A m \in Nodes : known[m] \subseteq known'[m]
    /\ \A m \in Nodes : visited[m] \subseteq visited'[m]
    /\ ants \subseteq ants'

LEMMA SetTableGood ==
    ASSUME TablesInv, NEW n \in Nodes, NEW T, GoodTable(known, n, T), SetTable(n, T)
    PROVE  /\ TablesInv'
           /\ \A m \in Nodes : known[m] \subseteq known'[m]
           /\ \A d \in Nodes : HasRoute(T, d) => d \in known'[n]
<1>1. rtable' = [rtable EXCEPT ![n] = T] /\ T \in Table /\ rtable' \in [Nodes -> Table]
  BY DEF SetTable, TablesInv, GoodTable
<1>2. /\ known' \in [Nodes -> SUBSET Nodes]
      /\ \A m \in Nodes : known[m] \subseteq known'[m]
      /\ \A d \in Nodes : HasRoute(T, d) => d \in known'[n]
  BY DEF SetTable, TablesInv
<1>3. ASSUME NEW m \in Nodes PROVE GoodTable(known', m, rtable'[m])
  <2>1. GoodTable(known, m, rtable'[m])
    BY <1>1 DEF TablesInv
  <2> QED BY <2>1, <1>2 DEF GoodTable, GoodEntry, RoutingTableEntry
<1> QED BY <1>1, <1>2, <1>3 DEF TablesInv

LEMMA RadioFrames ==
    ASSUME NEW n, NEW keep, NEW S, NEW a \in Radio(n, keep, S)
    PROVE  keep \subseteq a /\ a \subseteq keep \cup S
BY DEF Radio

LEMMA BroadcastFrames ==
    ASSUME NEW n \in Nodes, NEW src \in Nodes, NEW dst \in Nodes, NEW id \in Nat,
           NEW f \in Broadcast(n, src, dst, id)
    PROVE  /\ f \in Frame /\ f.kind = "F-ANT" /\ f.ipSrc = n /\ f.ipDst = f.to
           /\ f.ipDst # n /\ f.src = src /\ f.dst = dst /\ f.id = id
BY DEF Broadcast, Unicast, Frame

\* A step that keeps some frames and adds good ones, none of which doubles a
\* backward ant, preserves what is said of the air.
LEMMA AirGood ==
    ASSUME AirInv, HistoryGrows, NEW keep, keep \subseteq air, NEW S,
           air' \subseteq keep \cup S,
           \A f \in S : GoodFrame(f)',
           \A f, g \in keep \cup S :
               f \in S /\ f.kind = "B-ANT" /\ g.kind = "B-ANT" /\ SameAnt(f, g) => f = g
    PROVE  AirInv'
<1>1. ASSUME NEW f \in air' PROVE GoodFrame(f)'
  <2>1. CASE f \in S
    BY <2>1
  <2>2. CASE f \in air
    <3>1. GoodFrame(f)
      BY <2>2 DEF AirInv
    <3>2. f.ipSrc \in Nodes /\ f.ipDst \in Nodes /\ f.dst \in Nodes
      BY <3>1 DEF GoodFrame, Frame
    <3> QED BY <3>1, <3>2 DEF GoodFrame, Trail, HistoryGrows
  <2> QED BY <2>1, <2>2
<1>2. SingleBackwardAnt'
  <2> SUFFICES ASSUME NEW f \in air', NEW g \in air',
                      f.kind = "B-ANT", g.kind = "B-ANT", SameAnt(f, g)
               PROVE  f = g
    BY DEF SingleBackwardAnt, SameAnt
  <2>1. CASE f \in S
    BY <2>1
  <2>2. CASE g \in S
    BY <2>2 DEF SameAnt
  <2>3. CASE f \notin S /\ g \notin S
    BY <2>3 DEF AirInv, SingleBackwardAnt
  <2> QED BY <2>1, <2>2, <2>3
<1> QED BY <1>1, <1>2 DEF AirInv

LEMMA AirShrinks == ASSUME AirInv, HistoryGrows, air' \subseteq air PROVE AirInv'
<1> DEFINE S == {}
<1>1. /\ \A f \in S : GoodFrame(f)'
      /\ \A f, g \in air \cup S :
            f \in S /\ f.kind = "B-ANT" /\ g.kind = "B-ANT" /\ SameAnt(f, g) => f = g
  OBVIOUS
<1>2. air' \subseteq air \cup S
  OBVIOUS
<1> HIDE DEF S
<1> QED BY <1>1, <1>2, AirGood

\* A launch: the ant gets a fresh number, and only its frames are added to the air.
LEMMA SendRequestGood ==
    ASSUME LaunchInv, now \in Nat, NEW n \in Nodes, NEW d \in Nodes, NEW keep,
           SendRequest(n, d, keep)
    PROVE  /\ LaunchInv' /\ ants \subseteq ants'
           /\ requestId[n] + 1 \in Nat
           /\ air' \subseteq keep \cup Broadcast(n, n, d, requestId[n] + 1)
           /\ \E a \in ants' : a.src = n /\ a.dst = d /\ a.id = requestId[n] + 1
<1> DEFINE id == requestId[n] + 1
           new == [src |-> n, dst |-> d, id |-> id, at |-> now]
<1>1. id \in Nat /\ new \in Ants
  BY DEF LaunchInv, Ants
<1>2. /\ requestId' = [requestId EXCEPT ![n] = id] /\ ants' = ants \cup {new}
      /\ requestId' \in [Nodes -> Nat] /\ discoveryStart' \in [Nodes -> Nat]
      /\ ants' \subseteq Ants
  BY <1>1 DEF SendRequest, NextRequestId, LaunchInv
<1>3. \A a \in ants : ~SameAnt(a, new) /\ ~SameAnt(new, a)
  <2> SUFFICES ASSUME NEW a \in ants PROVE ~(a.src = n /\ a.id = id)
    BY DEF SameAnt
  <2>1. a.id <= requestId[a.src] /\ a.id \in Nat /\ a.src \in Nodes
    BY DEF LaunchInv, AntsNumbered, Ants
  <2> QED BY <2>1 DEF LaunchInv
<1>4. AntsNumbered'
  <2>1. ASSUME NEW a \in ants' PROVE a.id <= requestId'[a.src]
    <3>1. CASE a \in ants
      <4>1. a.id <= requestId[a.src] /\ a.id \in Nat /\ a.src \in Nodes
        BY <3>1 DEF LaunchInv, AntsNumbered, Ants
      <4>2. requestId[a.src] <= requestId'[a.src] /\ requestId[a.src] \in Nat
            /\ requestId'[a.src] \in Nat
        BY <4>1, <1>2 DEF LaunchInv
      <4> QED BY <4>1, <4>2
    <3>2. CASE a = new
      BY <3>2, <1>1, <1>2 DEF LaunchInv
    <3> QED BY <3>1, <3>2, <1>2
  <2>2. ASSUME NEW a \in ants', NEW b \in ants', SameAnt(a, b) PROVE a = b
    BY <2>2, <1>2, <1>3 DEF LaunchInv, AntsNumbered
  <2> QED BY <2>1, <2>2 DEF AntsNumbered, SameAnt
<1>5. air' \subseteq keep \cup Broadcast(n, n, d, id)
  BY RadioFrames DEF SendRequest, NextRequestId
<1> QED BY <1>1, <1>2, <1>4, <1>5 DEF LaunchInv

\* RouteOutput, called by any handler: good table in, good tables out; the packet and
\* the frames of a new ant are all it adds to the air.
LEMMA RouteOutputGood ==
    ASSUME TablesInv, LaunchInv, TimersInv, AirInv, now \in Nat,
           \A m \in Nodes : visited[m] \subseteq visited'[m],
           NEW n \in Nodes, NEW T, GoodTable(known, n, T), NEW d \in Nodes,
           NEW keep, keep \subseteq air, NEW pkt \in Frame,
           pkt.kind # "F-ANT", pkt.ipSrc = n, pkt.ipDst # n,
           pkt.kind = "B-ANT" =>
               /\ \E a \in ants : a.src = pkt.src /\ a.dst = pkt.dst /\ a.id = pkt.id
               /\ <<pkt.src, pkt.id>> \in visited'[pkt.dst]
               /\ n = pkt.dst \/ HasRoute(T, pkt.dst)
               /\ pkt.ipDst = pkt.src \/ pkt.src \in known[pkt.ipDst]
               /\ \A g \in keep : ~(g.kind = "B-ANT" /\ SameAnt(g, pkt)),
           RouteOutput(n, T, d, keep, pkt)
    PROVE  TablesInv' /\ LaunchInv' /\ TimersInv' /\ AirInv'
<1>1. CASE RouteHit(n, T, d, keep, pkt)
  <2> DEFINE f0 == [pkt EXCEPT !.to = T[d].nextHop]
  <2>1. SetTable(n, T) /\ HasRoute(T, d)
        /\ UNCHANGED <<requestId, discoveryStart, ants, addressReqTimer>>
    BY <1>1 DEF RouteHit, Strong, HasValidRoute
  <2>2. TablesInv' /\ (\A m \in Nodes : known[m] \subseteq known'[m])
        /\ (\A e \in Nodes : HasRoute(T, e) => e \in known'[n])
    BY <2>1, SetTableGood
  <2>3. LaunchInv'
    BY <2>1 DEF LaunchInv, AntsNumbered
  <2>4. TimersInv'
    BY <1>1 DEF RouteHit, TimersInv, Drain
  <2>5. T[d].nextHop \in Nodes
    BY <2>1 DEF GoodTable, GoodEntry, RoutingTableEntry
  <2>6. /\ f0 \in Frame /\ f0.kind = pkt.kind /\ f0.ipSrc = n /\ f0.ipDst = pkt.ipDst
        /\ f0.src = pkt.src /\ f0.dst = pkt.dst /\ f0.id = pkt.id
    BY <2>5 DEF Frame
  <2> HIDE DEF f0
  <2>7. ASSUME NEW f \in {f0} PROVE GoodFrame(f)'
    <3>1. f.kind \in {"B-ANT", "DATA"} /\ f.dst \in Nodes /\ f.ipDst \in Nodes
      BY <2>6 DEF Frame
    <3> QED BY <2>1, <2>2, <2>6, <3>1 DEF GoodFrame, Trail
  <2>8. ASSUME NEW f \in keep \cup {f0}, NEW g \in keep \cup {f0},
               f \in {f0}, f.kind = "B-ANT", g.kind = "B-ANT", SameAnt(f, g)
        PROVE  f = g
    BY <2>6, <2>8 DEF SameAnt
  <2>9. air' \subseteq keep \cup {f0}
    BY <1>1, RadioFrames DEF RouteHit, f0
  <2>10. AirInv'
    BY <2>1, <2>2, <2>7, <2>8, <2>9, AirGood DEF HistoryGrows
  <2> QED BY <2>2, <2>3, <2>4, <2>10
<1>2. CASE RouteMiss(n, T, d, keep)
  <2> DEFINE T1 == IF HasValidRoute(T, d) THEN DeleteRoute(T, d) ELSE T
  <2>1. GoodTable(known, n, T1) /\ SetTable(n, T1)
    BY <1>2, DeleteRouteGood DEF RouteMiss
  <2>2. TablesInv' /\ (\A m \in Nodes : known[m] \subseteq known'[m])
    BY <2>1, SetTableGood
  <2>3. simulatedQueue' \in [Nodes -> 0..63]
    BY <1>2 DEF RouteMiss, TimersInv, Fill
  <2>4. CASE addressReqTimer[n][d] = NoTimer
    <3>1. SendRequest(n, d, keep)
          /\ addressReqTimer' = [addressReqTimer EXCEPT ![n][d] = now + TicksPerSecond]
      BY <1>2, <2>4 DEF RouteMiss, Searching
    <3>2. TimersInv'
      BY <2>3, <3>1, TimeAssumption DEF TimersInv
    <3> DEFINE id == requestId[n] + 1
               S == Broadcast(n, n, d, id)
    <3>3. /\ LaunchInv' /\ ants \subseteq ants' /\ id \in Nat /\ air' \subseteq keep \cup S
          /\ \E a \in ants' : a.src = n /\ a.dst = d /\ a.id = id
      BY <3>1, SendRequestGood
    <3> HIDE DEF id
    <3>4. \A f \in S : /\ f \in Frame /\ f.kind = "F-ANT" /\ f.ipSrc = n /\ f.ipDst = f.to
                       /\ f.ipDst # n /\ f.src = n /\ f.dst = d /\ f.id = id
      BY <3>3, BroadcastFrames
    <3>5. \A f \in S : GoodFrame(f)'
      BY <3>3, <3>4 DEF GoodFrame, Trail
    <3>6. AirInv'
      <4> HIDE DEF S
      <4> QED BY <2>2, <3>3, <3>4, <3>5, AirGood DEF HistoryGrows
    <3> QED BY <2>2, <3>2, <3>3, <3>6
  <2>5. CASE addressReqTimer[n][d] # NoTimer
    <3>1. air' = keep /\ UNCHANGED <<requestId, discoveryStart, ants, addressReqTimer>>
      BY <1>2, <2>5 DEF RouteMiss, Searching
    <3>2. LaunchInv' /\ TimersInv'
      BY <2>3, <3>1 DEF LaunchInv, AntsNumbered, TimersInv
    <3>3. HistoryGrows /\ air' \subseteq keep
      BY <2>2, <3>1 DEF HistoryGrows
    <3>4. AirInv'
      BY <3>3, AirShrinks
    <3> QED BY <2>2, <3>2, <3>4
  <2> QED BY <2>4, <2>5
<1> QED BY <1>1, <1>2 DEF RouteOutput

-----------------------------------------------------------------------------
\* Every handler preserves the invariant.

LEMMA AppSendGood ==
    ASSUME NodeInv, AirInv, NEW n \in Nodes, NEW d \in Nodes, n # d, AppSend(n, d)
    PROVE  NodeInv' /\ AirInv'
<1> DEFINE T == Purge(rtable[n], now)
           pkt == Unicast("DATA", n, d, n, d, sends)
<1>1. TablesInv /\ LaunchInv /\ TimersInv /\ RestInv
  BY NodeParts
<1>2. now \in Nat /\ GoodTable(known, n, T)
  BY <1>1, PurgeGood DEF TablesInv, RestInv
<1>3. pkt \in Frame /\ pkt.kind = "DATA" /\ pkt.ipSrc = n /\ pkt.ipDst # n
  BY <1>1 DEF Unicast, Frame, RestInv
<1>4. RouteOutput(n, T, d, air, pkt) /\ visited' = visited
  BY DEF AppSend
<1>5. RestInv'
  BY <1>1 DEF AppSend, RestInv
<1> HIDE DEF T, pkt
<1>6. TablesInv' /\ LaunchInv' /\ TimersInv' /\ AirInv'
  BY <1>1, <1>2, <1>3, <1>4, RouteOutputGood
<1>7. NodeInv'
  BY <1>5, <1>6, NodeParts DEF NodeInv, TablesInv, LaunchInv, TimersInv, RestInv
<1> QED BY <1>6, <1>7

LEMMA DiscardAntGood ==
    ASSUME NodeInv, AirInv, NEW f \in air, DiscardAnt(f.to, f)
    PROVE  NodeInv' /\ AirInv'
<1>1. NodeInv'
  BY DEF DiscardAnt, NodeInv, AntsNumbered
<1>2. AirInv'
  BY AirShrinks DEF DiscardAnt, HistoryGrows
<1> QED BY <1>1, <1>2

LEMMA DeliverDataGood ==
    ASSUME NodeInv, AirInv, NEW f \in air, DeliverData(f.to, f)
    PROVE  NodeInv' /\ AirInv'
<1>1. NodeInv'
  BY DEF DeliverData, NodeInv, AntsNumbered
<1>2. AirInv'
  BY AirShrinks DEF DeliverData, HistoryGrows
<1> QED BY <1>1, <1>2

LEMMA RecvForwardAntGood ==
    ASSUME NodeInv, AirInv, NEW f \in air, RecvForwardAnt(f.to, f)
    PROVE  NodeInv' /\ AirInv'
<1> DEFINE n == f.to
           T == Breadcrumbs(Purge(rtable[n], now), f.src, f.ipSrc)
           keep == air \ {f}
<1>1. TablesInv /\ LaunchInv /\ TimersInv /\ RestInv /\ now \in Nat
  BY NodeParts DEF RestInv
<1>2. /\ n \in Nodes /\ f.src \in Nodes /\ f.dst \in Nodes /\ f.ipSrc \in Nodes /\ f.id \in Nat
      /\ f.kind = "F-ANT" /\ f.ipSrc # n /\ GoodFrame(f)
  BY DEF AirInv, GoodFrame, Frame, RecvForwardAnt
<1>3. f.ipSrc = f.src \/ f.src \in known[f.ipSrc]
  BY <1>2 DEF GoodFrame, Trail
<1>4. GoodTable(known, n, Purge(rtable[n], now))
  BY <1>1, <1>2, PurgeGood DEF TablesInv
<1>5. GoodTable(known, n, T) /\ HasRoute(T, f.src)
  BY <1>1, <1>2, <1>3, <1>4, BreadcrumbsGood
<1>6. /\ visited' = [visited EXCEPT ![n] = @ \cup {<<f.src, f.id>>}]
      /\ seenAnts' = [seenAnts EXCEPT ![n] = @ \cup {SeenKey(f.src, f.id)}]
      /\ SeenKey(f.src, f.id) \notin seenAnts[n]
      /\ UNCHANGED <<now, evapTimer, sends>>
  BY DEF RecvForwardAnt, Remember, AlreadySeen
<1>7. RestInv' /\ (\A m \in Nodes : visited[m] \subseteq visited'[m])
      /\ <<f.src, f.id>> \in visited'[n]
  BY <1>1, <1>2, <1>6 DEF RestInv, SeenKey
<1>8. \A g \in air : g.kind = "B-ANT" /\ SameAnt(g, f) => g.dst # n
  <2> SUFFICES ASSUME NEW g \in air, g.kind = "B-ANT", SameAnt(g, f), g.dst = n PROVE FALSE
    OBVIOUS
  <2>1. <<g.src, g.id>> \in visited[n]
    BY DEF AirInv, GoodFrame
  <2>2. SeenKey(g.src, g.id) \in seenAnts[n]
    BY <1>1, <1>2, <2>1 DEF RestInv
  <2> QED BY <1>6, <2>2 DEF SameAnt, SeenKey
<1>9. \A g \in air : g.kind = "B-ANT" /\ SameAnt(g, f) => g.dst = f.dst
  <2> SUFFICES ASSUME NEW g \in air, g.kind = "B-ANT", SameAnt(g, f) PROVE g.dst = f.dst
    OBVIOUS
  <2>1. PICK a \in ants : a.src = f.src /\ a.dst = f.dst /\ a.id = f.id
    BY <1>2 DEF GoodFrame
  <2>2. PICK b \in ants : b.src = g.src /\ b.dst = g.dst /\ b.id = g.id
    BY DEF AirInv, GoodFrame
  <2>3. a = b
    BY <1>1, <2>1, <2>2 DEF SameAnt, LaunchInv, AntsNumbered
  <2> QED BY <2>1, <2>2, <2>3
<1>10. CASE n = f.dst
  <2> DEFINE pkt == Unicast("B-ANT", n, f.ipSrc, f.src, f.dst, f.id)
  <2>1. RouteOutput(n, T, f.ipSrc, keep, pkt)
    BY <1>10 DEF RecvForwardAnt, Answer
  <2>2. /\ pkt \in Frame /\ pkt.kind = "B-ANT" /\ pkt.ipSrc = n /\ pkt.ipDst = f.ipSrc
        /\ pkt.src = f.src /\ pkt.dst = f.dst /\ pkt.id = f.id
    BY <1>2 DEF Unicast, Frame
  <2> HIDE DEF pkt, T
  <2>3. \A g \in keep : ~(g.kind = "B-ANT" /\ SameAnt(g, pkt))
    BY <1>8, <1>9, <1>10, <2>2 DEF SameAnt
  <2>4. \E a \in ants : a.src = pkt.src /\ a.dst = pkt.dst /\ a.id = pkt.id
    BY <1>2, <2>2 DEF GoodFrame
  <2>5. /\ <<pkt.src, pkt.id>> \in visited'[pkt.dst] /\ n = pkt.dst
        /\ pkt.ipDst # n /\ (pkt.ipDst = pkt.src \/ pkt.src \in known[pkt.ipDst])
    BY <1>2, <1>3, <1>7, <1>10, <2>2
  <2>6. keep \subseteq air /\ pkt.kind # "F-ANT"
    BY <2>2
  <2>7. TablesInv' /\ LaunchInv' /\ TimersInv' /\ AirInv'
    <3> HIDE DEF n, keep
    <3> QED BY <1>1, <1>2, <1>5, <1>7, <2>1, <2>2, <2>3, <2>4, <2>5, <2>6, RouteOutputGood
  <2> QED BY <1>7, <2>7 DEF NodeInv, TablesInv, LaunchInv, TimersInv, RestInv
<1>11. CASE n # f.dst
  <2> DEFINE S == Broadcast(n, f.src, f.dst, f.id)
  <2>1. /\ SetTable(n, T) /\ air' \in Radio(n, keep, S)
        /\ UNCHANGED <<requestId, discoveryStart, addressReqTimer, simulatedQueue, ants>>
    BY <1>11 DEF RecvForwardAnt
  <2> HIDE DEF T
  <2>2. TablesInv' /\ (\A m \in Nodes : known[m] \subseteq known'[m]) /\ f.src \in known'[n]
    BY <1>1, <1>2, <1>5, <2>1, SetTableGood
  <2>3. LaunchInv' /\ TimersInv'
    BY <1>1, <2>1 DEF LaunchInv, AntsNumbered, TimersInv
  <2>4. air' \subseteq keep \cup S
    BY <2>1, RadioFrames
  <2>5. \A g \in S : /\ g \in Frame /\ g.kind = "F-ANT" /\ g.ipSrc = n /\ g.ipDst = g.to
                     /\ g.ipDst # n /\ g.src = f.src /\ g.dst = f.dst /\ g.id = f.id
    BY <1>2, BroadcastFrames
  <2> HIDE DEF S
  <2>6. \A g \in S : GoodFrame(g)'
    BY <1>2, <2>1, <2>2, <2>5 DEF GoodFrame, Trail
  <2>7. AirInv'
    BY <1>7, <2>1, <2>2, <2>4, <2>5, <2>6, AirGood DEF HistoryGrows
  <2> QED BY <1>7, <2>2, <2>3, <2>7 DEF NodeInv, TablesInv, LaunchInv, TimersInv, RestInv
<1> QED BY <1>10, <1>11

LEMMA RecvBackwardAntGood ==
    ASSUME NodeInv, AirInv, NEW f \in air, RecvBackwardAnt(f.to, f)
    PROVE  NodeInv' /\ AirInv'
<1> DEFINE n == f.to
           T == Reinforce(n, Purge(rtable[n], now), f.dst, f.ipSrc)
           keep == air \ {f}
           back == T[f.src].nextHop
<1>1. TablesInv /\ LaunchInv /\ TimersInv /\ RestInv /\ now \in Nat
  BY NodeParts DEF RestInv
<1>2. /\ n \in Nodes /\ f.src \in Nodes /\ f.dst \in Nodes /\ f.ipSrc \in Nodes /\ f.id \in Nat
      /\ f.kind = "B-ANT" /\ f.ipSrc # n /\ GoodFrame(f)
  BY DEF AirInv, GoodFrame, Frame, RecvBackwardAnt
<1>3. f.ipSrc = f.dst \/ f.dst \in known[f.ipSrc]
  BY <1>2 DEF GoodFrame, Trail
<1>4. GoodTable(known, n, Purge(rtable[n], now))
  BY <1>1, <1>2, PurgeGood DEF TablesInv
<1>5. GoodTable(known, n, T) /\ HasRoute(T, f.dst)
  BY <1>2, <1>3, <1>4, ReinforceGood
<1>6. UNCHANGED <<now, seenAnts, evapTimer, sends, visited>>
  BY DEF RecvBackwardAnt
<1>7. RestInv' /\ (\A m \in Nodes : visited[m] \subseteq visited'[m])
  BY <1>1, <1>6 DEF RestInv
<1>8. CASE /\ n # f.src /\ HasValidRoute(T, f.src)
           /\ RouteOutput(n, T, back, keep, Unicast("B-ANT", n, back, f.src, f.dst, f.id))
  <2> DEFINE pkt == Unicast("B-ANT", n, back, f.src, f.dst, f.id)
  <2>1. back \in Nodes /\ back # n /\ (back = f.src \/ f.src \in known[back])
    BY <1>2, <1>5, <1>8 DEF HasValidRoute, GoodTable, GoodEntry, RoutingTableEntry
  <2>2. /\ pkt \in Frame /\ pkt.kind = "B-ANT" /\ pkt.ipSrc = n /\ pkt.ipDst = back
        /\ pkt.src = f.src /\ pkt.dst = f.dst /\ pkt.id = f.id
    BY <1>2, <2>1 DEF Unicast, Frame
  <2>3. RouteOutput(n, T, back, keep, pkt)
    BY <1>8
  <2> HIDE DEF pkt, back, T
  <2>4. \A g \in keep : ~(g.kind = "B-ANT" /\ SameAnt(g, pkt))
    BY <1>2, <2>2 DEF SameAnt, AirInv, SingleBackwardAnt
  <2>5. /\ \E a \in ants : a.src = pkt.src /\ a.dst = pkt.dst /\ a.id = pkt.id
        /\ <<pkt.src, pkt.id>> \in visited'[pkt.dst]
        /\ HasRoute(T, pkt.dst)
        /\ pkt.ipDst # n /\ (pkt.ipDst = pkt.src \/ pkt.src \in known[pkt.ipDst])
    BY <1>2, <1>5, <1>6, <2>1, <2>2 DEF GoodFrame
  <2>6. keep \subseteq air /\ pkt.kind # "F-ANT"
    BY <2>2
  <2>7. TablesInv' /\ LaunchInv' /\ TimersInv' /\ AirInv'
    <3> HIDE DEF n, keep
    <3> QED BY <1>1, <1>2, <1>5, <1>7, <2>1, <2>2, <2>3, <2>4, <2>5, <2>6, RouteOutputGood
  <2> QED BY <1>7, <2>7 DEF NodeInv, TablesInv, LaunchInv, TimersInv, RestInv
<1>9. CASE /\ SetTable(n, T) /\ air' = keep
           /\ UNCHANGED <<requestId, discoveryStart, addressReqTimer, simulatedQueue, ants>>
  <2> HIDE DEF T
  <2>1. TablesInv' /\ (\A m \in Nodes : known[m] \subseteq known'[m])
    BY <1>1, <1>2, <1>5, <1>9, SetTableGood
  <2>2. LaunchInv' /\ TimersInv'
    BY <1>1, <1>9 DEF LaunchInv, AntsNumbered, TimersInv
  <2>3. AirInv'
    BY <1>7, <1>9, <2>1, AirShrinks DEF HistoryGrows
  <2> QED BY <1>7, <2>1, <2>2, <2>3 DEF NodeInv, TablesInv, LaunchInv, TimersInv, RestInv
<1> QED BY <1>8, <1>9 DEF RecvBackwardAnt

LEMMA ForwardGood ==
    ASSUME NodeInv, AirInv, NEW f \in air, f.ipDst # f.to, Forward(f.to, f)
    PROVE  NodeInv' /\ AirInv'
<1> DEFINE n == f.to
           T == Purge(rtable[n], now)
           keep == air \ {f}
<1>1. TablesInv /\ LaunchInv /\ TimersInv /\ RestInv /\ now \in Nat
  BY NodeParts DEF RestInv
<1>2. n \in Nodes /\ f.ipDst \in Nodes /\ GoodFrame(f) /\ f \in Frame /\ f.kind # "F-ANT"
  BY DEF AirInv, GoodFrame, Frame
<1>3. GoodTable(known, n, T)
  BY <1>1, <1>2, PurgeGood DEF TablesInv
<1>4. /\ SetTable(n, T)
      /\ UNCHANGED <<now, seenAnts, requestId, discoveryStart, addressReqTimer,
                     simulatedQueue, evapTimer, sends, ants, visited>>
  BY DEF Forward
<1>5. RestInv' /\ LaunchInv' /\ TimersInv'
  BY <1>1, <1>4 DEF RestInv, LaunchInv, AntsNumbered, TimersInv
<1>6. TablesInv' /\ HistoryGrows
  <2> HIDE DEF T
  <2> QED BY <1>1, <1>2, <1>3, <1>4, SetTableGood DEF HistoryGrows
<1>7. CASE /\ HasValidRoute(T, f.ipDst)
           /\ air' \in Radio(n, air \ {f}, {[f EXCEPT !.to = T[f.ipDst].nextHop]})
  <2> DEFINE g == [f EXCEPT !.to = T[f.ipDst].nextHop]
  <2>1. T[f.ipDst].nextHop \in Nodes
    BY <1>2, <1>3, <1>7 DEF HasValidRoute, GoodTable, GoodEntry, RoutingTableEntry
  <2>2. /\ g \in Frame /\ g.kind = f.kind /\ g.ipSrc = f.ipSrc /\ g.ipDst = f.ipDst
        /\ g.src = f.src /\ g.dst = f.dst /\ g.id = f.id
    BY <1>2, <2>1 DEF Frame
  <2>3. air' \subseteq keep \cup {g}
    BY <1>7, RadioFrames
  <2> HIDE DEF g
  <2>4. GoodFrame(g)
    BY <1>2, <2>2 DEF GoodFrame, Trail
  <2>5. ASSUME NEW h \in {g} PROVE GoodFrame(h)'
    <3>1. GoodFrame(h) /\ h.ipSrc \in Nodes /\ h.ipDst \in Nodes /\ h.dst \in Nodes
      BY <2>2, <2>4 DEF Frame
    <3> QED BY <1>6, <3>1 DEF GoodFrame, Trail, HistoryGrows
  <2>6. \A h \in keep : ~(g.kind = "B-ANT" /\ h.kind = "B-ANT" /\ SameAnt(g, h))
    BY <2>2 DEF AirInv, SingleBackwardAnt, SameAnt
  <2>7. \A x, y \in keep \cup {g} :
            x \in {g} /\ x.kind = "B-ANT" /\ y.kind = "B-ANT" /\ SameAnt(x, y) => x = y
    BY <2>6
  <2>8. AirInv'
    BY <1>6, <2>3, <2>5, <2>7, AirGood
  <2> QED BY <1>5, <1>6, <2>8 DEF NodeInv, TablesInv, LaunchInv, TimersInv, RestInv
<1>8. CASE air' = air \ {f}
  <2>1. AirInv'
    BY <1>6, <1>8, AirShrinks
  <2> QED BY <1>5, <1>6, <2>1 DEF NodeInv, TablesInv, LaunchInv, TimersInv, RestInv
<1> QED BY <1>7, <1>8 DEF Forward

LEMMA RhoBounds ==
    ASSUME NEW q \in 0..63, NEW cap \in {320, 576}
    PROVE  Rho(q, cap) \in 0..640
BY DEF Rho

LEMMA RouteRequestTimerExpireGood ==
    ASSUME NodeInv, AirInv, NEW n \in Nodes, NEW d \in Nodes, RouteRequestTimerExpire(n, d)
    PROVE  NodeInv' /\ AirInv'
<1> DEFINE T0 == Purge(rtable[n], now)
           T == IF HasRoute(T0, d) /\ T0[d].flag = "IN_SEARCH"
                THEN Update(T0, d, Evaporated(T0[d], Rho(simulatedQueue[n], 576)))
                ELSE T0
           tired == HasRoute(T, d) /\ T[d].reqCount >= RreqRetries
           T1 == IF tired THEN DeleteRoute(T, d) ELSE T
<1>1. TablesInv /\ LaunchInv /\ TimersInv /\ RestInv /\ now \in Nat
  BY NodeParts DEF RestInv
<1>2. GoodTable(known, n, T0)
  BY <1>1, PurgeGood DEF TablesInv
<1>3. T = T0
  BY <1>2 DEF GoodTable, GoodEntry
<1>4. GoodTable(known, n, T1) /\ SetTable(n, T1)
  <2>1. SetTable(n, T1)
    BY DEF RouteRequestTimerExpire
  <2> HIDE DEF T0
  <2> QED BY <1>2, <1>3, <2>1, DeleteRouteGood
<1>5. /\ addressReqTimer' = [addressReqTimer EXCEPT ![n][d] = NoTimer]
      /\ UNCHANGED <<now, seenAnts, simulatedQueue, evapTimer, sends, visited>>
      /\ \/ SendRequest(n, d, air)
         \/ UNCHANGED <<requestId, discoveryStart, ants, air>>
  BY DEF RouteRequestTimerExpire
<1> HIDE DEF T1
<1>6. TimersInv' /\ RestInv'
  BY <1>1, <1>5 DEF TimersInv, RestInv
<1>7. TablesInv' /\ (\A m \in Nodes : known[m] \subseteq known'[m])
  BY <1>1, <1>4, SetTableGood
<1>8. CASE SendRequest(n, d, air)
  <2> DEFINE id == requestId[n] + 1
             S == Broadcast(n, n, d, id)
  <2>1. /\ LaunchInv' /\ ants \subseteq ants' /\ id \in Nat /\ air' \subseteq air \cup S
        /\ \E a \in ants' : a.src = n /\ a.dst = d /\ a.id = id
    BY <1>1, <1>8, SendRequestGood
  <2> HIDE DEF id
  <2>2. \A f \in S : /\ f \in Frame /\ f.kind = "F-ANT" /\ f.ipSrc = n /\ f.ipDst = f.to
                     /\ f.ipDst # n /\ f.src = n /\ f.dst = d /\ f.id = id
    BY <2>1, BroadcastFrames
  <2>3. \A f \in S : GoodFrame(f)'
    BY <2>1, <2>2 DEF GoodFrame, Trail
  <2> HIDE DEF S
  <2>4. AirInv'
    BY <1>5, <1>7, <2>1, <2>2, <2>3, AirGood DEF HistoryGrows
  <2> QED BY <1>6, <1>7, <2>1, <2>4 DEF NodeInv, TablesInv, LaunchInv, TimersInv, RestInv
<1>9. CASE UNCHANGED <<requestId, discoveryStart, ants, air>>
  <2>1. LaunchInv'
    BY <1>1, <1>9 DEF LaunchInv, AntsNumbered
  <2>2. AirInv'
    BY <1>5, <1>7, <1>9, AirShrinks DEF HistoryGrows
  <2> QED BY <1>6, <1>7, <2>1, <2>2 DEF NodeInv, TablesInv, LaunchInv, TimersInv, RestInv
<1> QED BY <1>5, <1>8, <1>9

LEMMA EvaporatePheromonesGood ==
    ASSUME NodeInv, AirInv, NEW n \in Nodes, EvaporatePheromones(n)
    PROVE  NodeInv' /\ AirInv'
<1> DEFINE rho == Rho(simulatedQueue[n], 320)
           T == rtable[n]
           T1 == [d \in Nodes |-> IF HasRoute(T, d) THEN Evaporated(T[d], rho) ELSE Absent]
<1>1. TablesInv /\ LaunchInv /\ TimersInv /\ RestInv /\ now \in Nat
  BY NodeParts DEF RestInv
<1>2. rho \in 0..640
  <2>1. simulatedQueue[n] \in 0..63
    BY <1>1 DEF TimersInv
  <2>2. 320 \in {320, 576}
    OBVIOUS
  <2> HIDE DEF T1
  <2> QED BY <2>1, <2>2, RhoBounds, Zenon
<1> HIDE DEF rho
<1>3. ASSUME NEW d \in Nodes, HasRoute(T, d) PROVE GoodEntry(known, n, d, Evaporated(T[d], rho))
  <2>1. GoodEntry(known, n, d, T[d])
    BY <1>1, <1>3 DEF TablesInv, GoodTable
  <2> QED BY <1>2, <2>1, EvaporatedGood
<1>4. GoodTable(known, n, T1)
  BY <1>3 DEF GoodTable, GoodEntry, Table, HasRoute
<1>5. /\ SetTable(n, T1)
      /\ evapTimer' = [evapTimer EXCEPT ![n] = now + TicksPerSecond]
      /\ UNCHANGED <<now, seenAnts, requestId, discoveryStart, addressReqTimer,
                     simulatedQueue, air, sends, ants, visited>>
  BY DEF EvaporatePheromones, rho
<1>6. LaunchInv' /\ TimersInv' /\ RestInv'
  BY <1>1, <1>5, TimeAssumption DEF LaunchInv, AntsNumbered, TimersInv, RestInv
<1> HIDE DEF T1
<1>7. TablesInv' /\ HistoryGrows
  BY <1>1, <1>4, <1>5, SetTableGood DEF HistoryGrows
<1>8. AirInv'
  BY <1>5, <1>7, AirShrinks
<1> QED BY <1>6, <1>7, <1>8 DEF NodeInv, TablesInv, LaunchInv, TimersInv, RestInv

LEMMA TickGood == ASSUME NodeInv, AirInv, Tick PROVE NodeInv' /\ AirInv'
<1>1. NodeInv'
  BY DEF Tick, NodeInv, AntsNumbered
<1>2. AirInv'
  BY AirShrinks DEF Tick, HistoryGrows
<1> QED BY <1>1, <1>2

-----------------------------------------------------------------------------
LEMMA InitInv == Init => NodeInv /\ AirInv
<1> SUFFICES ASSUME Init PROVE NodeInv /\ AirInv
  OBVIOUS
<1>1. TablesInv
  BY DEF Init, TablesInv, GoodTable, Table, EmptyTable, HasRoute
<1>2. LaunchInv /\ TimersInv /\ RestInv
  BY TimeAssumption
  DEF Init, LaunchInv, AntsNumbered, TimersInv, RestInv
<1>3. AirInv
  BY DEF Init, AirInv, SingleBackwardAnt
<1> QED BY <1>1, <1>2, <1>3, NodeParts

LEMMA NextInv == IndInv /\ [Next]_vars => IndInv'
<1>0. NodeInv' /\ AirInv' => IndInv'
  BY Halves, PTL
<1> SUFFICES ASSUME IndInv, [Next]_vars PROVE NodeInv' /\ AirInv'
  BY <1>0
<1>1. NodeInv /\ AirInv
  BY Halves
<1>2. CASE \E n \in Requesters, d \in Targets : n # d /\ AppSend(n, d)
  BY <1>1, <1>2, AppSendGood, TrafficAssumption
<1>3. CASE \E f \in air : Receive(f.to, f)
  BY <1>1, <1>3, DiscardAntGood, RecvForwardAntGood, RecvBackwardAntGood, DeliverDataGood,
     ForwardGood DEF Receive
<1>4. CASE \E n \in Nodes, d \in Nodes : RouteRequestTimerExpire(n, d)
  BY <1>1, <1>4, RouteRequestTimerExpireGood
<1>5. CASE \E n \in Nodes : EvaporatePheromones(n)
  BY <1>1, <1>5, EvaporatePheromonesGood
<1>6. CASE Tick
  BY <1>1, <1>6, TickGood
<1>7. CASE UNCHANGED vars
  <2>1. NodeInv'
    BY <1>1, <1>7 DEF vars, NodeInv, AntsNumbered
  <2>2. AirInv'
    BY <1>1, <1>7, AirShrinks DEF vars, HistoryGrows
  <2> QED BY <2>1, <2>2
<1> QED BY <1>2, <1>3, <1>4, <1>5, <1>6, <1>7 DEF Next

\* IndInv holds in every reachable state.
THEOREM Invariance == Spec => []IndInv
<1>1. Init => IndInv
  BY InitInv, Halves
<1> QED BY <1>1, NextInv, PTL DEF Spec

\* TypeOK holds in every reachable state; in particular the simulated queue never
\* reaches its cap of 64, because a miss takes one packet away after the cap.
THEOREM TypeCorrect == Spec => []TypeOK
<1>1. IndInv => TypeOK
  BY DEF IndInv
<1> QED BY <1>1, Invariance, PTL

\* At most one backward ant of each discovery is ever in flight (RecvAco).
THEOREM BackwardAntIsAToken == Spec => []SingleBackwardAnt
<1>1. IndInv => SingleBackwardAnt
  BY DEF IndInv
<1> QED BY <1>1, Invariance, PTL

\* Ants in flight are launched ants, and answers are answers to ants that arrived.
THEOREM AntsAreAuthentic == Spec => []AntsAuthentic
<1>1. IndInv => AntsAuthentic
  BY DEF IndInv
<1> QED BY <1>1, Invariance, PTL

\* The next hop of every route is its destination or a node that has known one.
THEOREM RoutesComeFromRoutes == Spec => []NextHopKnewRoute
<1>1. IndInv => NextHopKnewRoute
  BY DEF IndInv
<1> QED BY <1>1, Invariance, PTL

-----------------------------------------------------------------------------
\* What StormBound says of one new frame.
FirstTransmission(f) ==
    \/ f.ipSrc = f.src /\ f.id = requestId[f.src] + 1 /\ f.id = requestId'[f.src]
    \/ f.id \notin seenAnts[f.ipSrc] /\ f.id \in seenAnts'[f.ipSrc]

Calm == \A f \in air' \ air : f.kind = "F-ANT" => FirstTransmission(f)

LEMMA SendRequestCalm ==
    ASSUME LaunchInv, NEW n \in Nodes, NEW d \in Nodes, NEW keep, keep \subseteq air,
           SendRequest(n, d, keep)
    PROVE  Calm
<1> DEFINE id == requestId[n] + 1
           S == Broadcast(n, n, d, id)
<1>1. id \in Nat /\ requestId'[n] = id
  BY DEF SendRequest, NextRequestId, LaunchInv
<1>2. air' \subseteq keep \cup S
  BY RadioFrames DEF SendRequest, NextRequestId
<1> HIDE DEF id
<1>3. \A f \in S : f.ipSrc = n /\ f.src = n /\ f.id = id
  BY <1>1, BroadcastFrames
<1> HIDE DEF S
<1>4. \A f \in air' \ air : f \in S
  BY <1>2
<1> QED BY <1>1, <1>3, <1>4 DEF Calm, FirstTransmission, id

LEMMA RouteOutputCalm ==
    ASSUME LaunchInv, NEW n \in Nodes, NEW T, NEW d \in Nodes, NEW keep, keep \subseteq air,
           NEW pkt \in Frame, pkt.kind # "F-ANT", RouteOutput(n, T, d, keep, pkt)
    PROVE  Calm
<1>1. CASE RouteHit(n, T, d, keep, pkt)
  <2> DEFINE g == [pkt EXCEPT !.to = T[d].nextHop]
  <2>1. g.kind = pkt.kind
    BY DEF Frame
  <2>2. air' \subseteq keep \cup {g}
    BY <1>1, RadioFrames DEF RouteHit
  <2> QED BY <2>1, <2>2 DEF Calm
<1>2. CASE RouteMiss(n, T, d, keep)
  <2>1. SendRequest(n, d, keep) \/ air' = keep
    BY <1>2 DEF RouteMiss
  <2> QED BY <2>1, SendRequestCalm DEF Calm
<1> QED BY <1>1, <1>2 DEF RouteOutput

LEMMA ReceiveCalm ==
    ASSUME NodeInv, AirInv, NEW f \in air, Receive(f.to, f)
    PROVE  Calm
<1> DEFINE n == f.to
           keep == air \ {f}
<1>1. LaunchInv /\ f \in Frame /\ n \in Nodes /\ f.src \in Nodes /\ f.dst \in Nodes
      /\ f.ipSrc \in Nodes /\ f.ipDst \in Nodes /\ f.id \in Nat
      /\ (f.kind = "F-ANT" => f.ipDst = f.to) /\ seenAnts \in [Nodes -> SUBSET Nat]
  BY NodeParts DEF AirInv, GoodFrame, Frame, RestInv
<1>2. CASE RecvForwardAnt(n, f)
  <2> DEFINE T == Breadcrumbs(Purge(rtable[n], now), f.src, f.ipSrc)
             pkt == Unicast("B-ANT", n, f.ipSrc, f.src, f.dst, f.id)
  <2>1. CASE RouteOutput(n, T, f.ipSrc, keep, pkt)
    <3>1. pkt \in Frame /\ pkt.kind # "F-ANT"
      BY <1>1 DEF Unicast, Frame
    <3> HIDE DEF T, pkt
    <3> QED BY <1>1, <2>1, <3>1, RouteOutputCalm
  <2>2. CASE air' \in Radio(n, keep, Broadcast(n, f.src, f.dst, f.id))
    <3>1. \A g \in air' \ air : g.ipSrc = n /\ g.id = f.id
      BY <1>1, <2>2, RadioFrames, BroadcastFrames
    <3>2. f.id \notin seenAnts[n] /\ f.id \in seenAnts'[n]
      BY <1>1, <1>2 DEF RecvForwardAnt, AlreadySeen, Remember, SeenKey
    <3> QED BY <3>1, <3>2 DEF Calm, FirstTransmission
  <2> QED BY <1>2, <2>1, <2>2 DEF RecvForwardAnt, Answer
<1>3. CASE RecvBackwardAnt(n, f)
  <2> DEFINE T == Reinforce(n, Purge(rtable[n], now), f.dst, f.ipSrc)
             back == T[f.src].nextHop
             pkt == Unicast("B-ANT", n, back, f.src, f.dst, f.id)
  <2>1. CASE HasValidRoute(T, f.src) /\ RouteOutput(n, T, back, keep, pkt)
    <3>1. GoodTable(known, n, Purge(rtable[n], now))
      BY <1>1, PurgeGood, NodeParts DEF TablesInv, RestInv
    <3>2. f.ipSrc # n /\ (f.ipSrc = f.dst \/ f.dst \in known[f.ipSrc])
      BY <1>3 DEF RecvBackwardAnt, AirInv, GoodFrame, Trail
    <3>3. GoodTable(known, n, T)
      BY <1>1, <3>1, <3>2, ReinforceGood
    <3>4. back \in Nodes
      BY <1>1, <2>1, <3>3 DEF HasValidRoute, GoodTable, GoodEntry, RoutingTableEntry
    <3>5. pkt \in Frame /\ pkt.kind # "F-ANT"
      BY <1>1, <3>4 DEF Unicast, Frame
    <3>6. RouteOutput(n, T, back, keep, pkt)
      BY <2>1
    <3> HIDE DEF T, pkt, back
    <3> QED BY <1>1, <3>4, <3>5, <3>6, RouteOutputCalm
  <2>2. CASE air' = keep
    BY <2>2 DEF Calm
  <2> QED BY <1>3, <2>1, <2>2 DEF RecvBackwardAnt
<1>4. CASE DiscardAnt(n, f) \/ DeliverData(n, f)
  BY <1>4 DEF DiscardAnt, DeliverData, Calm
<1>5. CASE f.ipDst # n /\ Forward(n, f)
  <2> DEFINE T == Purge(rtable[n], now)
             g == [f EXCEPT !.to = T[f.ipDst].nextHop]
  <2>1. g.kind # "F-ANT"
    BY <1>1, <1>5 DEF Frame
  <2>2. air' \subseteq keep \cup {g}
    BY <1>5, RadioFrames DEF Forward
  <2> QED BY <2>1, <2>2 DEF Calm
<1> QED BY <1>2, <1>3, <1>4, <1>5 DEF Receive

\* No node puts the same forward ant on the air twice, its own excepted: the flood of
\* an ant ends after one transmission of each node (RecvAco's duplicate filter).
THEOREM FloodsEnd == Spec => StormBound
<1>1. IndInv /\ [Next]_vars => [Calm]_vars
  <2> SUFFICES ASSUME IndInv, Next PROVE Calm
    OBVIOUS
  <2>1. NodeInv /\ AirInv /\ LaunchInv
    BY Halves, NodeParts
  <2>2. CASE \E n \in Requesters, d \in Targets : n # d /\ AppSend(n, d)
    <3>1. PICK n \in Requesters, d \in Targets : AppSend(n, d)
      BY <2>2
    <3> DEFINE T == Purge(rtable[n], now)
               pkt == Unicast("DATA", n, d, n, d, sends)
    <3>2. n \in Nodes /\ d \in Nodes /\ pkt \in Frame /\ pkt.kind # "F-ANT"
      BY <2>1, TrafficAssumption DEF Unicast, Frame, NodeInv
    <3>3. RouteOutput(n, T, d, air, pkt)
      BY <3>1 DEF AppSend
    <3> HIDE DEF T, pkt
    <3> QED BY <2>1, <3>2, <3>3, RouteOutputCalm
  <2>3. CASE \E f \in air : Receive(f.to, f)
    BY <2>1, <2>3, ReceiveCalm
  <2>4. CASE \E n \in Nodes, d \in Nodes : RouteRequestTimerExpire(n, d)
    <3>1. PICK n \in Nodes, d \in Nodes : RouteRequestTimerExpire(n, d)
      BY <2>4
    <3>2. SendRequest(n, d, air) \/ air' = air
      BY <3>1 DEF RouteRequestTimerExpire
    <3> QED BY <2>1, <3>2, SendRequestCalm DEF Calm
  <2>5. CASE (\E n \in Nodes : EvaporatePheromones(n)) \/ Tick
    BY <2>5 DEF EvaporatePheromones, Tick, Calm
  <2> QED BY <2>2, <2>3, <2>4, <2>5 DEF Next
<1>2. StormBound <=> [][Calm]_vars
  BY DEF StormBound, Calm, FirstTransmission
<1> QED BY <1>1, <1>2, Invariance, PTL DEF Spec
=============================================================================
