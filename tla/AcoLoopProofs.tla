---------------------------- MODULE AcoLoopProofs ----------------------------
(***************************************************************************)
(* Further theorems of AcoRouting, for any network: how often a node       *)
(* launches ants (AntRateBounded), and what holds of a network in which    *)
(* one node asks, or in which nothing can have expired yet: its routes run *)
(* in no circle (LoopFree), its answers find their way (AnswersFindTheWay),*)
(* its floods do not shadow each other (OwnFloodsUnshadowed) and answers   *)
(* that come home leave a route (YoungHomecomings).                        *)
(*                                                                         *)
(* The first needs only what a step does to the clock, to the search timers*)
(* and to the ants launched: SearchStep.  The second follows the flood of  *)
(* the asker s: breadcrumbs to s are only ever added, to a node nobody     *)
(* sends anything for s through yet, and every other route runs against    *)
(* one of them.  The last part needs to know that a frame leaves the air   *)
(* with its receiver only (Arrival), and what the filter holds.            *)
(***************************************************************************)
EXTENDS AcoRoutingProofs

\* What a step can do to the searches.
NewAnt(n, d) == [src |-> n, dst |-> d, id |-> requestId[n] + 1, at |-> now]

Idle == UNCHANGED <<now, ants, addressReqTimer>>

Launch(n, d) ==
    /\ n # d
    /\ addressReqTimer[n][d] = NoTimer
    /\ addressReqTimer' = [addressReqTimer EXCEPT ![n][d] = now + TicksPerSecond]
    /\ ants' = ants \cup {NewAnt(n, d)}
    /\ now' = now

Timeout(n, d) ==
    /\ addressReqTimer[n][d] = now
    /\ addressReqTimer' = [addressReqTimer EXCEPT ![n][d] = NoTimer]
    /\ ants' = ants \/ ants' = ants \cup {NewAnt(n, d)}
    /\ now' = now

Wait ==
    /\ \A n, d \in Nodes : addressReqTimer[n][d] # now
    /\ now' = now + 1
    /\ UNCHANGED <<ants, addressReqTimer>>

SearchStep == Idle \/ Wait \/ \E n, d \in Nodes : Launch(n, d) \/ Timeout(n, d)

LEMMA RouteOutputSearches ==
    ASSUME NEW n \in Nodes, NEW T, NEW d \in Nodes, n # d, NEW keep, NEW pkt, now' = now,
           RouteOutput(n, T, d, keep, pkt)
    PROVE  Idle \/ Launch(n, d)
<1>1. CASE RouteHit(n, T, d, keep, pkt)
  BY <1>1 DEF RouteHit, Idle
<1>2. CASE RouteMiss(n, T, d, keep)
  BY <1>2 DEF RouteMiss, Searching, SendRequest, NextRequestId, Idle, Launch, NewAnt
<1> QED BY <1>1, <1>2 DEF RouteOutput

\* The neighbour a backward ant is handed to is another node.
LEMMA BackwardHop ==
    ASSUME NodeInv, AirInv, NEW f \in air, RecvBackwardAnt(f.to, f),
           NEW T, T = Reinforce(f.to, Purge(rtable[f.to], now), f.dst, f.ipSrc)
    PROVE  /\ GoodTable(known, f.to, T)
           /\ HasValidRoute(T, f.src) => T[f.src].nextHop \in Nodes \ {f.to}
<1>1. /\ f.to \in Nodes /\ f.src \in Nodes /\ f.dst \in Nodes /\ f.ipSrc \in Nodes
      /\ f.ipSrc # f.to /\ (f.ipSrc = f.dst \/ f.dst \in known[f.ipSrc])
  BY DEF RecvBackwardAnt, AirInv, GoodFrame, Frame, Trail
<1>2. GoodTable(known, f.to, Purge(rtable[f.to], now))
  BY <1>1, PurgeGood DEF NodeInv
<1>3. GoodTable(known, f.to, T)
  BY <1>1, <1>2, ReinforceGood
<1> QED BY <1>1, <1>3 DEF GoodTable, GoodEntry, RoutingTableEntry, HasValidRoute

LEMMA ReceiveSearches ==
    ASSUME NodeInv, AirInv, NEW f \in air, Receive(f.to, f)
    PROVE  Idle \/ \E n, d \in Nodes : Launch(n, d)
<1> DEFINE n == f.to
           keep == air \ {f}
<1>1. n \in Nodes /\ f.ipSrc \in Nodes
  BY DEF AirInv, GoodFrame, Frame
<1>2. CASE RecvForwardAnt(n, f)
  <2> DEFINE T == Breadcrumbs(Purge(rtable[n], now), f.src, f.ipSrc)
             pkt == Answer(n, f)
  <2>1. f.ipSrc # n /\ now' = now /\ (RouteOutput(n, T, f.ipSrc, keep, pkt) \/ Idle)
    BY <1>2 DEF RecvForwardAnt, Idle
  <2> HIDE DEF T, pkt
  <2> QED BY <1>1, <2>1, RouteOutputSearches
<1>3. CASE RecvBackwardAnt(n, f)
  <2> DEFINE T == Reinforce(n, Purge(rtable[n], now), f.dst, f.ipSrc)
             back == T[f.src].nextHop
             pkt == Unicast("B-ANT", n, back, f.src, f.dst, f.id)
  <2>1. now' = now /\ ((HasValidRoute(T, f.src) /\ RouteOutput(n, T, back, keep, pkt)) \/ Idle)
    BY <1>3 DEF RecvBackwardAnt, Idle
  <2>2. HasValidRoute(T, f.src) => back \in Nodes \ {n}
    BY <1>3, BackwardHop
  <2> HIDE DEF T, back, pkt
  <2> QED BY <1>1, <2>1, <2>2, RouteOutputSearches
<1>4. CASE DiscardAnt(n, f) \/ DeliverData(n, f) \/ Forward(n, f)
  BY <1>4 DEF DiscardAnt, DeliverData, Forward, Idle
<1> QED BY <1>2, <1>3, <1>4 DEF Receive

LEMMA StepSearches ==
    ASSUME NodeInv, AirInv, [Next]_vars
    PROVE  SearchStep
<1>1. ASSUME NEW n \in Requesters, NEW d \in Targets, n # d, AppSend(n, d) PROVE SearchStep
  <2> DEFINE T == Purge(rtable[n], now)
             pkt == Unicast("DATA", n, d, n, d, sends)
  <2>1. RouteOutput(n, T, d, air, pkt) /\ now' = now /\ n \in Nodes /\ d \in Nodes
    BY <1>1, TrafficAssumption DEF AppSend
  <2> HIDE DEF T, pkt
  <2> QED BY <1>1, <2>1, RouteOutputSearches DEF SearchStep
<1>2. ASSUME NEW f \in air, Receive(f.to, f) PROVE SearchStep
  BY <1>2, ReceiveSearches DEF SearchStep
<1>3. ASSUME NEW n \in Nodes, NEW d \in Nodes, RouteRequestTimerExpire(n, d) PROVE SearchStep
  <2>1. Timeout(n, d)
    BY <1>3 DEF RouteRequestTimerExpire, SendRequest, NextRequestId, Timeout, NewAnt
  <2> QED BY <2>1 DEF SearchStep
<1>4. ASSUME NEW n \in Nodes, EvaporatePheromones(n) PROVE SearchStep
  BY <1>4 DEF EvaporatePheromones, SearchStep, Idle
<1>5. CASE Tick
  BY <1>5 DEF Tick, SearchStep, Wait
<1>6. CASE UNCHANGED vars
  BY <1>6 DEF vars, SearchStep, Idle
<1> QED BY <1>1, <1>2, <1>3, <1>4, <1>5, <1>6 DEF Next

-----------------------------------------------------------------------------
\* SearchesLaunched and RateInv: where the searches stand.

SearchesInv == SearchesLaunched /\ RateInv

LEMMA LaunchSearches ==
    ASSUME NodeInv, SearchesInv, NEW n \in Nodes, NEW d \in Nodes,
           n # d,
           \A a \in ants : a.src = n /\ a.dst = d /\ addressReqTimer[n][d] # NoTimer =>
                              a.at + TicksPerSecond <= now,
           ants' = ants \cup {NewAnt(n, d)}
    PROVE  /\ \A a \in ants' : a \in Ants
           /\ AntRateBounded'
           /\ \A a, b \in ants' : a.src = n /\ a.dst = d /\ b.src = n /\ b.dst = d /\ a.id < b.id
                 => a \in ants
           /\ \A a \in ants' : a.src # a.dst
           /\ NewAnt(n, d) \in ants'
<1> DEFINE new == NewAnt(n, d)
<1>1. /\ new \in Ants /\ new.src = n /\ new.dst = d /\ new.id = requestId[n] + 1 /\ new.at = now
      /\ \A a \in ants : a \in Ants
  BY DEF NodeInv, Ants, NewAnt
<1>2. \A a \in ants : a.src = n => a.id < new.id
  <2> SUFFICES ASSUME NEW a \in ants, a.src = n PROVE a.id < new.id
    OBVIOUS
  <2>1. a.id <= requestId[n] /\ a.id \in Nat /\ requestId[n] \in Nat
    BY DEF NodeInv, AntsNumbered, Ants
  <2> QED BY <1>1, <2>1
<1> HIDE DEF new
<1>3. ants' = ants \cup {new}
  BY DEF new
<1>4. \A a, b \in ants' : a.src = n /\ b.src = n /\ a.id < b.id => a \in ants
  BY <1>1, <1>2, <1>3 DEF Ants
<1>5. AntRateBounded'
  <2> SUFFICES ASSUME NEW a \in ants', NEW b \in ants', NEW c \in ants',
                      SameErrand(a, b), SameErrand(b, c), a.id < b.id, b.id < c.id
               PROVE  a.at + TicksPerSecond <= c.at
    BY DEF AntRateBounded, SameErrand
  <2>1. CASE c \in ants
    <3>1. a \in ants /\ b \in ants
      BY <1>1, <1>2, <1>3, <2>1 DEF SameErrand, Ants
    <3> QED BY <2>1, <3>1 DEF SearchesInv, RateInv, AntRateBounded
  <2>2. CASE c = new
    <3>1. a \in ants /\ b \in ants /\ a.src = n /\ a.dst = d /\ b.src = n /\ b.dst = d
      BY <1>1, <1>2, <1>3, <2>2 DEF SameErrand, Ants
    <3>2. addressReqTimer[n][d] = NoTimer => a.at + TicksPerSecond <= now
      BY <3>1 DEF SearchesInv, RateInv
    <3> QED BY <1>1, <2>2, <3>1, <3>2
  <2> QED BY <1>3, <2>1, <2>2
<1>6. \A a \in ants' : a.src # a.dst
  BY <1>1, <1>3 DEF SearchesInv, SearchesLaunched
<1> QED BY <1>1, <1>3, <1>4, <1>5, <1>6 DEF new

LEMMA SearchesKept ==
    ASSUME NodeInv, SearchesInv, SearchStep
    PROVE  SearchesInv'
<1>0. now \in Nat /\ ants \subseteq Ants /\ TicksPerSecond \in Nat \ {0}
      /\ addressReqTimer \in [Nodes -> [Nodes -> Nat \cup {NoTimer}]] /\ NoTimer \notin Nat
  BY TimeAssumption DEF NodeInv, NoTimer
<1> DEFINE Mine(n, d) == {a \in ants : a.src = n /\ a.dst = d}
           Slot(n, d) == IF addressReqTimer[n][d] # NoTimer
                         THEN /\ now <= addressReqTimer[n][d]
                              /\ \A a \in Mine(n, d) : a.at + TicksPerSecond <= addressReqTimer[n][d]
                         ELSE \A a, b \in Mine(n, d) : a.id < b.id => a.at + TicksPerSecond <= now
<1>1. SearchesLaunched /\ (\A a \in ants : a.at <= now) /\ AntRateBounded
      /\ \A n, d \in Nodes : Slot(n, d)
  BY DEF SearchesInv, RateInv
<1>2. SUFFICES SearchesLaunched' /\ (\A a \in ants' : a.at <= now') /\ AntRateBounded'
               /\ \A n, d \in Nodes : Slot(n, d)'
  BY DEF SearchesInv, RateInv
<1>3. CASE Idle
  BY <1>1, <1>3 DEF Idle, SearchesLaunched, AntRateBounded
<1>4. CASE Wait
  <2>1. now' = now + 1 /\ ants' = ants /\ addressReqTimer' = addressReqTimer
    BY <1>4 DEF Wait
  <2>2. \A a \in ants : a.at \in Nat
    BY <1>0 DEF Ants
  <2>3. ASSUME NEW n \in Nodes, NEW d \in Nodes PROVE Slot(n, d)'
    <3>1. addressReqTimer[n][d] # NoTimer => now + 1 <= addressReqTimer[n][d]
      <4>1. addressReqTimer[n][d] \in Nat \cup {NoTimer} /\ addressReqTimer[n][d] # now
        BY <1>0, <1>4 DEF Wait
      <4>2. addressReqTimer[n][d] # NoTimer => now <= addressReqTimer[n][d]
        BY <1>1
      <4> DEFINE x == addressReqTimer[n][d]
      <4>3. x \in Nat \cup {NoTimer} /\ x # now /\ (x # NoTimer => now <= x) /\ now \in Nat
        BY <1>0, <4>1, <4>2
      <4> HIDE DEF x, Slot
      <4>4. x # NoTimer => now + 1 <= x
        BY <4>3
      <4> QED BY <4>4 DEF x
    <3>2. \A a \in Mine(n, d) : a.at + TicksPerSecond <= now => a.at + TicksPerSecond <= now + 1
      BY <1>0, <2>2
    <3> QED BY <1>1, <2>1, <3>1, <3>2
  <2> QED BY <1>0, <1>1, <2>1, <2>2, <2>3 DEF SearchesLaunched, AntRateBounded
<1>5. ASSUME NEW n \in Nodes, NEW d \in Nodes, Launch(n, d) \/ Timeout(n, d)
      PROVE  SearchesLaunched' /\ (\A a \in ants' : a.at <= now') /\ AntRateBounded'
             /\ \A m, e \in Nodes : Slot(m, e)'
  <2>1. n # d
    BY <1>0, <1>1, <1>5 DEF Launch, Timeout, SearchesLaunched
  <2>2. /\ now' = now
        /\ ants' = ants \/ ants' = ants \cup {NewAnt(n, d)}
        /\ \A m, e \in Nodes : <<m, e>> # <<n, d>> => addressReqTimer'[m][e] = addressReqTimer[m][e]
    BY <1>0, <1>5 DEF Launch, Timeout
  <2>3. \A a \in Mine(n, d) : addressReqTimer[n][d] # NoTimer => a.at + TicksPerSecond <= now
    BY <1>0, <1>1, <1>5 DEF Launch, Timeout
  <2>4. NewAnt(n, d).at = now /\ NewAnt(n, d).src = n /\ NewAnt(n, d).dst = d
    BY DEF NewAnt
  <2>5. /\ ants' \subseteq Ants
        /\ AntRateBounded'
        /\ \A a, b \in Mine(n, d)' : a.id < b.id => a \in ants
        /\ \A a \in ants' : a.src # a.dst
    <3>1. CASE ants' = ants
      BY <1>0, <1>1, <3>1 DEF AntRateBounded, SearchesLaunched
    <3>2. CASE ants' = ants \cup {NewAnt(n, d)}
      BY <2>1, <2>3, <3>2, LaunchSearches
    <3> QED BY <2>2, <3>1, <3>2
  <2>6. ASSUME NEW m \in Nodes, NEW e \in Nodes PROVE Slot(m, e)'
    <3>1. CASE <<m, e>> # <<n, d>>
      <4>1. Mine(m, e)' = Mine(m, e) /\ addressReqTimer'[m][e] = addressReqTimer[m][e]
        BY <2>2, <2>4, <3>1
      <4> QED BY <1>1, <2>2, <4>1
    <3>2. CASE m = n /\ e = d /\ Launch(n, d)
      <4>1. addressReqTimer'[n][d] = now + TicksPerSecond
        BY <1>0, <3>2 DEF Launch
      <4>2. \A a \in Mine(n, d)' : a.at \in Nat /\ a.at <= now
        BY <1>0, <1>1, <2>2, <2>4 DEF Ants
      <4> QED BY <1>0, <2>2, <3>2, <4>1, <4>2
    <3>3. CASE m = n /\ e = d /\ Timeout(n, d)
      <4>1. addressReqTimer'[n][d] = NoTimer
        BY <1>0, <3>3 DEF Timeout
      <4>2. addressReqTimer[n][d] # NoTimer
        BY <1>0, <3>3 DEF Timeout
      <4>3. \A a \in Mine(n, d) : a.at + TicksPerSecond <= now
        BY <2>3, <4>2
      <4>4. \A a, b \in Mine(n, d)' : a.id < b.id => a.at + TicksPerSecond <= now
        BY <2>5, <4>3
      <4> QED BY <2>2, <3>3, <4>1, <4>4
    <3> QED BY <1>5, <3>1, <3>2, <3>3
  <2>7. SearchesLaunched'
    <3>1. ASSUME NEW m \in Nodes, NEW e \in Nodes, addressReqTimer'[m][e] # NoTimer
          PROVE  m # e /\ \E a \in ants' : a.src = m
      <4>1. CASE addressReqTimer[m][e] # NoTimer
        BY <1>1, <2>2, <4>1 DEF SearchesLaunched
      <4>2. CASE addressReqTimer[m][e] = NoTimer
        <5>1. m = n /\ e = d
          BY <2>2, <3>1, <4>2
        <5>2. ants' = ants \cup {NewAnt(n, d)}
          BY <1>0, <1>5, <3>1, <4>2, <5>1 DEF Launch, Timeout
        <5> QED BY <2>1, <2>4, <5>1, <5>2
      <4> QED BY <4>1, <4>2
    <3> QED BY <2>5, <3>1 DEF SearchesLaunched
  <2>8. \A a \in ants' : a.at <= now'
    BY <1>0, <1>1, <2>2, <2>4
  <2> QED BY <2>5, <2>6, <2>7, <2>8
<1> HIDE DEF Slot
<1> QED BY <1>3, <1>4, <1>5 DEF SearchStep

LEMMA SearchesAlways == Spec => []SearchesInv
<1>1. Init => SearchesInv
  BY TimeAssumption DEF Init, SearchesInv, SearchesLaunched, RateInv, AntRateBounded
<1>2. IndInv /\ SearchesInv /\ [Next]_vars => SearchesInv'
  BY Halves, StepSearches, SearchesKept
<1> QED BY <1>1, <1>2, Invariance, PTL DEF Spec

\* Of three ants of a node for one destination the last leaves at least a second after the
\* first (RouteOutput and RouteRequestTimerExpire share m_addressReqTimer).
THEOREM AntsAreRare == Spec => []AntRateBounded
<1>1. SearchesInv => AntRateBounded
  BY DEF SearchesInv, RateInv
<1> QED BY <1>1, SearchesAlways, PTL

-----------------------------------------------------------------------------
\* Before the first lifetime is over no lookup changes a table, and every handler leaves
\* tables of VALID entries with at least that lifetime.

LEMMA PurgeIdle ==
    ASSUME NEW T \in Table, FreshTable(T), now \in Nat, now <= RouteLifetime
    PROVE  Purge(T, now) = T
<1> SUFFICES ASSUME NEW d \in Nodes PROVE PurgeEntry(T[d], now) = T[d]
  BY DEF Table, Purge
<1>1. T[d] = Absent \/ (T[d].lifeTime \in Nat /\ T[d].lifeTime >= RouteLifetime)
  BY DEF FreshTable, HasRoute, Table, RoutingTableEntry
<1>2. T[d] # Absent => T[d].lifeTime >= now
  BY <1>1, TimeAssumption
<1> QED BY <1>2 DEF PurgeEntry

LEMMA NewEntryLasts ==
    ASSUME now \in Nat, NEW hop, NEW p
    PROVE  LET e == NewEntry(hop, p, RouteLifetime, now)
           IN  e # Absent /\ e.flag = "VALID" /\ e.lifeTime >= RouteLifetime /\ e.nextHop = hop
BY TimeAssumption DEF NewEntry, Absent

\* The breadcrumbs of the F-ANT branch: absent entries only, over the sender.
LEMMA BreadcrumbsFresh ==
    ASSUME NEW T \in Table, FreshTable(T), now \in Nat,
           NEW src \in Nodes, NEW sender \in Nodes, NEW U, U = Breadcrumbs(T, src, sender)
    PROVE  /\ FreshTable(U)
           /\ \A d \in Nodes : HasRoute(T, d) => U[d] = T[d]
           /\ \A d \in Nodes : HasRoute(U, d) => U[d] = T[d] \/ d = src \/ U[d].nextHop = d
<1> DEFINE e == NewEntry(sender, PUnit, RouteLifetime, now)
           T1 == AddRoute(T, src, e)
<1>1. e # Absent /\ e.flag = "VALID" /\ e.lifeTime >= RouteLifetime /\ e.nextHop = sender
  BY NewEntryLasts
<1>2. U = AddRoute(T1, sender, e)
  BY DEF Breadcrumbs
<1> HIDE DEF e
<1>3. \A d \in Nodes : T1[d] = IF d = src /\ ~HasRoute(T, src) THEN e ELSE T[d]
  BY DEF AddRoute, Table
<1>4. \A d \in Nodes : U[d] = IF d = sender /\ ~HasRoute(T1, sender) THEN e ELSE T1[d]
  BY <1>2 DEF AddRoute, Table
<1> HIDE DEF T1
<1> QED BY <1>1, <1>3, <1>4 DEF FreshTable, HasRoute

\* The B-ANT branch: the entry for d leads over the sender, the others are as before.
LEMMA ReinforceFresh ==
    ASSUME NEW T \in Table, FreshTable(T), now \in Nat, NEW n,
           NEW d \in Nodes, NEW sender \in Nodes, NEW U, U = Reinforce(n, T, d, sender)
    PROVE  FreshTable(U) /\ U[d].nextHop = sender /\ \A c \in Nodes \ {d} : U[c] = T[c]
<1> DEFINE e == NewEntry(sender, PUnit + Deposit(n), RouteLifetime, now)
           g == [T[d] EXCEPT !.pheromone = @ + Deposit(n), !.nextHop = sender]
<1>1. e.flag = "VALID" /\ e.lifeTime >= RouteLifetime /\ e.nextHop = sender
  BY NewEntryLasts
<1>2. CASE ~HasRoute(T, d)
  <2>1. U = [T EXCEPT ![d] = e]
    BY <1>2 DEF Reinforce, AddRoute
  <2> HIDE DEF e
  <2> QED BY <1>1, <2>1 DEF FreshTable, HasRoute, Table
<1>3. CASE HasRoute(T, d)
  <2>1. U = [T EXCEPT ![d] = g]
    BY <1>3 DEF Reinforce, Update
  <2>2. T[d] \in RoutingTableEntry /\ T[d].flag = "VALID" /\ T[d].lifeTime >= RouteLifetime
    BY <1>3 DEF FreshTable, HasRoute, Table
  <2>3. g.nextHop = sender /\ g.flag = "VALID" /\ g.lifeTime >= RouteLifetime
    BY <2>2 DEF RoutingTableEntry
  <2> HIDE DEF g
  <2> QED BY <2>1, <2>3 DEF FreshTable, HasRoute, Table
<1> QED BY <1>2, <1>3

LEMMA DeleteFresh ==
    ASSUME NEW T \in Table, FreshTable(T), NEW d \in Nodes
    PROVE  /\ FreshTable(DeleteRoute(T, d))
           /\ \A c \in Nodes : HasRoute(DeleteRoute(T, d), c) => DeleteRoute(T, d)[c] = T[c]
BY DEF FreshTable, DeleteRoute, HasRoute, Table

\* The evaporation of a whole table.
Evaporation(T, rho) ==
    [d \in Nodes |-> IF HasRoute(T, d) THEN Evaporated(T[d], rho) ELSE Absent]

LEMMA EvaporationFresh ==
    ASSUME NEW T \in Table, FreshTable(T), NEW rho, NEW U, U = Evaporation(T, rho)
    PROVE  /\ FreshTable(U)
           /\ \A d \in Nodes : HasRoute(U, d) <=> HasRoute(T, d)
           /\ \A d \in Nodes : HasRoute(T, d) => U[d].nextHop = T[d].nextHop
<1> SUFFICES ASSUME NEW d \in Nodes
             PROVE  /\ HasRoute(U, d) <=> HasRoute(T, d)
                    /\ HasRoute(T, d) => /\ U[d].nextHop = T[d].nextHop
                                         /\ U[d].flag = T[d].flag
                                         /\ U[d].lifeTime = T[d].lifeTime
  BY DEF FreshTable
<1>1. CASE HasRoute(T, d)
  <2>1. T[d] \in RoutingTableEntry /\ U[d] = Evaporated(T[d], rho)
    BY <1>1 DEF HasRoute, Table, Evaporation
  <2> QED BY <1>1, <2>1 DEF Evaporated, RoutingTableEntry, HasRoute, Absent, RouteFlags
<1>2. CASE ~HasRoute(T, d)
  BY <1>2 DEF HasRoute, Evaporation
<1> QED BY <1>1, <1>2

LEMMA SetTableFresh ==
    ASSUME NodeInv, RoutesFresh, NEW n \in Nodes, NEW T, FreshTable(T), SetTable(n, T), now' = now
    PROVE  RoutesFresh'
<1>1. \A m \in Nodes : rtable'[m] = IF m = n THEN T ELSE rtable[m]
  BY DEF SetTable, NodeInv, Table
<1> QED BY <1>1 DEF RoutesFresh, FreshTable

LEMMA RouteOutputFresh ==
    ASSUME NodeInv, RoutesFresh, NEW n \in Nodes, NEW T \in Table, FreshTable(T), now' = now,
           NEW d \in Nodes, NEW keep, NEW pkt, RouteOutput(n, T, d, keep, pkt)
    PROVE  RoutesFresh'
<1> DEFINE U == IF HasValidRoute(T, d) THEN DeleteRoute(T, d) ELSE T
<1>1. SetTable(n, T) \/ SetTable(n, U)
  BY DEF RouteOutput, RouteHit, RouteMiss
<1>2. FreshTable(U)
  BY DeleteFresh
<1> HIDE DEF U
<1> QED BY <1>1, <1>2, SetTableFresh

LEMMA ReceiveFresh ==
    ASSUME NodeInv, AirInv, RoutesFresh, NEW f \in air, Receive(f.to, f)
    PROVE  RoutesFresh'
<1> DEFINE n == f.to
           T == rtable[n]
           keep == air \ {f}
<1>1. /\ n \in Nodes /\ f.ipSrc \in Nodes /\ f.src \in Nodes /\ f.dst \in Nodes
      /\ now \in Nat /\ T \in Table
  BY DEF AirInv, GoodFrame, Frame, NodeInv
<1>2. now' = now
  BY DEF Receive, DiscardAnt, RecvForwardAnt, RecvBackwardAnt, DeliverData, Forward
<1>3. SUFFICES ASSUME now <= RouteLifetime PROVE RoutesFresh'
  BY <1>2 DEF RoutesFresh
<1>4. FreshTable(T) /\ Purge(T, now) = T
  <2>1. FreshTable(T)
    BY <1>1, <1>3 DEF RoutesFresh
  <2> QED BY <1>1, <1>3, <2>1, PurgeIdle
<1>5. CASE DiscardAnt(n, f) \/ DeliverData(n, f)
  BY <1>5 DEF DiscardAnt, DeliverData, RoutesFresh, FreshTable
<1>6. CASE Forward(n, f)
  <2>1. SetTable(n, T)
    BY <1>4, <1>6 DEF Forward
  <2> QED BY <1>1, <1>2, <1>4, <2>1, SetTableFresh
<1>7. CASE RecvForwardAnt(n, f)
  <2> DEFINE U == Breadcrumbs(T, f.src, f.ipSrc)
  <2>1. FreshTable(U)
    BY <1>1, <1>4, BreadcrumbsFresh
  <2>2. GoodTable(known, n, U)
    <3>1. f.ipSrc # n /\ (f.ipSrc = f.src \/ f.src \in known[f.ipSrc]) /\ GoodTable(known, n, T)
      BY <1>1, <1>7 DEF RecvForwardAnt, AirInv, GoodFrame, Trail, NodeInv
    <3> QED BY <1>1, <3>1, BreadcrumbsGood
  <2>3. RouteOutput(n, U, f.ipSrc, keep, Answer(n, f)) \/ SetTable(n, U)
    BY <1>4, <1>7 DEF RecvForwardAnt
  <2> HIDE DEF U
  <2> QED BY <1>1, <1>2, <2>1, <2>2, <2>3, RouteOutputFresh, SetTableFresh DEF GoodTable
<1>8. CASE RecvBackwardAnt(n, f)
  <2> DEFINE U == Reinforce(n, T, f.dst, f.ipSrc)
             back == U[f.src].nextHop
             pkt == Unicast("B-ANT", n, back, f.src, f.dst, f.id)
  <2>1. FreshTable(U)
    BY <1>1, <1>4, ReinforceFresh
  <2>2. GoodTable(known, n, U) /\ (HasValidRoute(U, f.src) => back \in Nodes)
    BY <1>4, <1>8, BackwardHop
  <2>3. (HasValidRoute(U, f.src) /\ RouteOutput(n, U, back, keep, pkt)) \/ SetTable(n, U)
    BY <1>4, <1>8 DEF RecvBackwardAnt
  <2> HIDE DEF U, back, pkt
  <2> QED BY <1>1, <1>2, <2>1, <2>2, <2>3, RouteOutputFresh, SetTableFresh DEF GoodTable
<1> QED BY <1>5, <1>6, <1>7, <1>8 DEF Receive

LEMMA FreshKept ==
    ASSUME NodeInv, AirInv, RoutesFresh, [Next]_vars
    PROVE  RoutesFresh'
<1>1. ASSUME NEW n \in Nodes, now <= RouteLifetime
      PROVE  rtable[n] \in Table /\ FreshTable(rtable[n]) /\ Purge(rtable[n], now) = rtable[n]
  <2>1. rtable[n] \in Table /\ FreshTable(rtable[n]) /\ now \in Nat
    BY <1>1 DEF RoutesFresh, NodeInv
  <2> QED BY <1>1, <2>1, PurgeIdle
<1>2. ASSUME NEW n \in Requesters, NEW d \in Targets, AppSend(n, d) PROVE RoutesFresh'
  <2>1. now' = now /\ n \in Nodes /\ d \in Nodes
    BY <1>2, TrafficAssumption DEF AppSend
  <2>2. SUFFICES ASSUME now <= RouteLifetime PROVE RoutesFresh'
    BY <2>1 DEF RoutesFresh
  <2>3. RouteOutput(n, rtable[n], d, air, Unicast("DATA", n, d, n, d, sends))
    BY <1>1, <1>2, <2>1, <2>2 DEF AppSend
  <2> QED BY <1>1, <2>1, <2>2, <2>3, RouteOutputFresh
<1>3. ASSUME NEW f \in air, Receive(f.to, f) PROVE RoutesFresh'
  BY <1>3, ReceiveFresh
<1>4. ASSUME NEW n \in Nodes, NEW d \in Nodes, RouteRequestTimerExpire(n, d) PROVE RoutesFresh'
  <2>1. now' = now
    BY <1>4 DEF RouteRequestTimerExpire
  <2>2. SUFFICES ASSUME now <= RouteLifetime PROVE RoutesFresh'
    BY <2>1 DEF RoutesFresh
  <2> DEFINE T == rtable[n]
  <2>3. T \in Table /\ FreshTable(T) /\ Purge(T, now) = T
    BY <1>1, <2>2
  <2>4. ~(HasRoute(T, d) /\ T[d].flag = "IN_SEARCH")
    BY <2>3 DEF FreshTable
  <2>5. SetTable(n, T) \/ SetTable(n, DeleteRoute(T, d))
    BY <1>4, <2>3, <2>4 DEF RouteRequestTimerExpire
  <2> HIDE DEF T
  <2> QED BY <2>1, <2>3, <2>5, DeleteFresh, SetTableFresh
<1>5. ASSUME NEW n \in Nodes, EvaporatePheromones(n) PROVE RoutesFresh'
  <2>1. now' = now /\ SetTable(n, Evaporation(rtable[n], Rho(simulatedQueue[n], 320)))
    BY <1>5 DEF EvaporatePheromones, Evaporation
  <2>2. SUFFICES ASSUME now <= RouteLifetime PROVE RoutesFresh'
    BY <2>1 DEF RoutesFresh
  <2> QED BY <1>1, <2>1, <2>2, EvaporationFresh, SetTableFresh
<1>6. CASE Tick
  BY <1>6, TimeAssumption DEF Tick, RoutesFresh, FreshTable, NodeInv
<1>7. CASE UNCHANGED vars
  BY <1>7 DEF vars, RoutesFresh, FreshTable
<1> QED BY <1>2, <1>3, <1>4, <1>5, <1>6, <1>7 DEF Next

-----------------------------------------------------------------------------
\* The tree of the asker s.

\* Where a step of a network in which s alone has asked starts, and still does after it.
Asking(s) ==
    /\ NodeInv /\ AirInv /\ NodeInv' /\ AirInv'
    /\ SearchesLaunched /\ RoutesFresh /\ RoutesFresh'
    /\ Alone(s) /\ Alone(s)'
    /\ Tree(s)

\* What a handler of n may make of its table: a breadcrumb to s stays what it is, another
\* route leads to the neighbour itself or against a breadcrumb.
Grown(n, T, s) ==
    /\ T \in Table
    /\ n # s /\ HasRoute(rtable[n], s) => HasRoute(T, s) /\ T[s].nextHop = rtable[n][s].nextHop
    /\ \A d \in Nodes \ {s} : n # d /\ HasRoute(T, d) =>
           T[d].nextHop = d \/ WayBack(n, T[d].nextHop, s)

\* A backward ant that left its destination runs against a breadcrumb.
Homeward(f, s) == f.kind = "B-ANT" => f.ipSrc = f.dst \/ WayBack(f.ipDst, f.ipSrc, s)

LEMMA TreeKept ==
    ASSUME NEW s \in Nodes, Asking(s), NEW n \in Nodes, NEW T, Grown(n, T, s), SetTable(n, T),
           \A f \in air' \ air : Homeward(f, s)'
    PROVE  Tree(s)'
<1>1. /\ \A m \in Nodes : rtable'[m] = IF m = n THEN T ELSE rtable[m]
      /\ \A m \in Nodes : known'[m] = IF m = n THEN known[n] \cup {d \in Nodes : HasRoute(T, d)}
                                      ELSE known[m]
  BY DEF SetTable, Asking, NodeInv
<1>2. \A m \in Nodes \ {s} : HasRoute(rtable[m], s) =>
          HasRoute(rtable'[m], s) /\ rtable'[m][s].nextHop = rtable[m][s].nextHop
  BY <1>1 DEF Grown
<1>3. \A x \in Nodes, m \in Nodes : WayBack(x, m, s) => WayBack(x, m, s)'
  BY <1>2 DEF WayBack
<1>4. \A m \in Nodes, d \in Nodes : HasRoute(rtable[m], d) =>
          LET hop == rtable[m][d].nextHop
          IN  hop \in Nodes /\ hop # m /\ (hop = d \/ d \in known[hop])
  BY DEF Asking, NodeInv, GoodTable, GoodEntry, RoutingTableEntry
<1>5. \A m \in Nodes, d \in Nodes : HasRoute(rtable'[m], d) =>
          rtable'[m][d].nextHop \in Nodes /\ rtable'[m][d].nextHop # m
  BY DEF Asking, NodeInv, GoodTable, GoodEntry, RoutingTableEntry
<1>6. ASSUME NEW m \in Nodes \ {s}, s \in known'[m] PROVE HasRoute(rtable'[m], s)
  <2>1. CASE s \in known[m]
    BY <1>2, <2>1 DEF Asking, Tree
  <2>2. CASE s \notin known[m]
    BY <1>1, <1>6, <2>2
  <2> QED BY <2>1, <2>2
<1>7. ASSUME NEW S \in SUBSET Nodes, Circle(S, s)' PROVE FALSE
  <2>1. \A m \in S : m # s /\ HasRoute(rtable'[m], s) /\ rtable'[m][s].nextHop \in S
    BY <1>7 DEF Circle, HasValidRoute
  <2>2. ASSUME NEW m \in S PROVE HasRoute(rtable[m], s)
    <3>1. SUFFICES ASSUME ~HasRoute(rtable[m], s) PROVE FALSE
      OBVIOUS
    <3>2. PICK x \in S : rtable'[x][s].nextHop = m
      BY <1>7 DEF Circle
    <3>3. x # m
      BY <1>5, <2>1, <3>2
    <3>4. m = n
      BY <1>1, <2>1, <3>1
    <3>5. HasRoute(rtable[x], s) /\ rtable[x][s].nextHop = m
      BY <1>1, <2>1, <3>2, <3>3, <3>4
    <3>6. s \in known[m]
      BY <1>4, <2>1, <3>5
    <3> QED BY <2>1, <3>1, <3>6 DEF Asking, Tree
  <2>3. \A m \in S : rtable'[m][s].nextHop = rtable[m][s].nextHop
    BY <1>2, <2>1, <2>2
  <2>4. \A m \in S : HasValidRoute(rtable[m], s)
    BY <2>2 DEF HasValidRoute, Asking, RoutesFresh, FreshTable, Alone
  <2>5. Circle(S, s)
    BY <1>7, <2>1, <2>3, <2>4 DEF Circle
  <2> QED BY <2>5 DEF Asking, Tree
<1>8. ASSUME NEW m \in Nodes, NEW d \in Nodes \ {s}, m # d, HasRoute(rtable'[m], d),
             NEW hop, hop = rtable'[m][d].nextHop
      PROVE  hop = d \/ WayBack(m, hop, s)'
  <2>1. hop \in Nodes
    BY <1>5, <1>8
  <2>2. hop = d \/ WayBack(m, hop, s)
    <3>1. CASE m = n
      BY <1>1, <1>8, <3>1 DEF Grown
    <3>2. CASE m # n
      BY <1>1, <1>8, <3>2 DEF Asking, Tree
    <3> QED BY <3>1, <3>2
  <2> QED BY <1>3, <2>1, <2>2
<1>9. ASSUME NEW f \in air' PROVE Homeward(f, s)'
  <2>1. CASE f \in air
    <3>1. f.ipSrc \in Nodes /\ f.ipDst \in Nodes
      BY <2>1 DEF Asking, AirInv, GoodFrame, Frame
    <3> QED BY <1>3, <2>1, <3>1 DEF Asking, Tree, Homeward
  <2> QED BY <2>1
<1> QED BY <1>6, <1>7, <1>8, <1>9 DEF Tree, Homeward, WayBack

\* A step that changes no table and puts no new backward ant on the air.
LEMMA TreeSame ==
    ASSUME NEW s \in Nodes, Tree(s), UNCHANGED <<rtable, known>>, air' \subseteq air
    PROVE  Tree(s)'
BY DEF Tree, Circle, WayBack

\* Only s searches: whoever misses a route to another node is s.
LEMMA MissIsAskers ==
    ASSUME NEW s \in Nodes, Asking(s), NEW n \in Nodes, NEW T, NEW d \in Nodes, NEW keep,
           RouteMiss(n, T, d, keep)
    PROVE  n = s
<1>1. CASE Searching(n, d)
  BY <1>1 DEF Searching, Asking, SearchesLaunched, Alone
<1>2. CASE SendRequest(n, d, keep)
  <2>1. NewAnt(n, d) \in ants' /\ NewAnt(n, d).src = n
    BY <1>2 DEF SendRequest, NextRequestId, NewAnt
  <2> QED BY <2>1 DEF Asking, Alone
<1> QED BY <1>1, <1>2 DEF RouteMiss

LEMMA RouteOutputTree ==
    ASSUME NEW s \in Nodes, Asking(s), NEW n \in Nodes, NEW T, Grown(n, T, s), NEW d \in Nodes,
           NEW keep, keep \subseteq air, NEW pkt \in Frame, pkt.ipSrc = n,
           pkt.kind = "B-ANT" =>
               n = pkt.dst \/ (n # s /\ HasRoute(T, s) /\ T[s].nextHop = pkt.ipDst),
           RouteOutput(n, T, d, keep, pkt)
    PROVE  Tree(s)'
<1>1. CASE RouteHit(n, T, d, keep, pkt)
  <2> DEFINE g == [pkt EXCEPT !.to = T[d].nextHop]
  <2>1. SetTable(n, T) /\ air' \subseteq keep \cup {g}
    BY <1>1, RadioFrames DEF RouteHit
  <2>2. g.kind = pkt.kind /\ g.ipSrc = n /\ g.ipDst = pkt.ipDst /\ g.dst = pkt.dst
    BY DEF Frame
  <2> HIDE DEF g
  <2>3. rtable'[n] = T
    BY <2>1 DEF SetTable, Asking, NodeInv
  <2>4. Homeward(g, s)'
    BY <2>2, <2>3 DEF Homeward, WayBack
  <2>5. \A f \in air' \ air : Homeward(f, s)'
    BY <2>1, <2>4
  <2> QED BY <2>1, <2>5, TreeKept
<1>2. CASE RouteMiss(n, T, d, keep)
  <2> DEFINE U == IF HasValidRoute(T, d) THEN DeleteRoute(T, d) ELSE T
             S == Broadcast(n, n, d, requestId[n] + 1)
  <2>1. n = s
    BY <1>2, MissIsAskers
  <2>2. SetTable(n, U)
    BY <1>2 DEF RouteMiss
  <2>3. Grown(n, U, s)
    BY <2>1 DEF Grown, DeleteRoute, HasRoute, Table
  <2>4. air' \subseteq keep \cup S
    BY <1>2, RadioFrames DEF RouteMiss, SendRequest, NextRequestId
  <2>5. requestId[n] + 1 \in Nat
    BY DEF Asking, NodeInv
  <2>6. \A f \in S : f.kind = "F-ANT"
    BY <2>5, BroadcastFrames
  <2> HIDE DEF U, S
  <2>7. \A f \in air' \ air : Homeward(f, s)'
    BY <2>4, <2>6 DEF Homeward
  <2> QED BY <2>2, <2>3, <2>7, TreeKept
<1> QED BY <1>1, <1>2 DEF RouteOutput

\* The table as it is can stay.
LEMMA GrownSame ==
    ASSUME NEW s \in Nodes, Asking(s), NEW n \in Nodes
    PROVE  Grown(n, rtable[n], s) /\ FreshTable(rtable[n]) /\ Purge(rtable[n], now) = rtable[n]
<1>1. rtable[n] \in Table /\ FreshTable(rtable[n]) /\ now \in Nat /\ now <= RouteLifetime
  BY DEF Asking, NodeInv, Alone, RoutesFresh
<1> QED BY <1>1, PurgeIdle DEF Grown, Asking, Tree

LEMMA ForwardAntTree ==
    ASSUME NEW s \in Nodes, Asking(s), NEW f \in air, RecvForwardAnt(f.to, f)
    PROVE  Tree(s)'
<1> DEFINE n == f.to
           T == Breadcrumbs(rtable[n], f.src, f.ipSrc)
           keep == air \ {f}
           pkt == Answer(n, f)
           S == Broadcast(n, f.src, f.dst, f.id)
<1>1. /\ n \in Nodes /\ f.ipSrc \in Nodes /\ f.src \in Nodes /\ f.dst \in Nodes /\ f.id \in Nat
      /\ now \in Nat /\ rtable[n] \in Table /\ f.kind = "F-ANT"
  BY DEF Asking, AirInv, GoodFrame, Frame, NodeInv, RecvForwardAnt
<1>2. f.src = s
  <2>1. PICK a \in ants : a.src = f.src
    BY <1>1 DEF Asking, AirInv, GoodFrame
  <2> QED BY <2>1 DEF Asking, Alone
<1>3. Purge(rtable[n], now) = rtable[n] /\ Grown(n, rtable[n], s) /\ FreshTable(rtable[n])
  BY <1>1, GrownSame
<1>4. Grown(n, T, s)
  <2>1. /\ \A d \in Nodes : HasRoute(rtable[n], d) => T[d] = rtable[n][d]
        /\ \A d \in Nodes : HasRoute(T, d) => T[d] = rtable[n][d] \/ d = s \/ T[d].nextHop = d
    BY <1>1, <1>2, <1>3, BreadcrumbsFresh
  <2>2. T \in Table
    <3>1. /\ f.ipSrc # n /\ (f.ipSrc = f.src \/ f.src \in known[f.ipSrc])
          /\ GoodTable(known, n, rtable[n])
      BY <1>1 DEF RecvForwardAnt, Asking, AirInv, GoodFrame, Trail, NodeInv
    <3>2. GoodTable(known, n, T)
      BY <1>1, <3>1, BreadcrumbsGood
    <3> QED BY <3>2 DEF GoodTable
  <2> HIDE DEF T
  <2> QED BY <1>3, <2>1, <2>2 DEF Grown, HasRoute
<1>5. pkt \in Frame /\ pkt.ipSrc = n /\ pkt.dst = f.dst
  BY <1>1 DEF Answer, Unicast, Frame
<1>6. \/ n = f.dst /\ RouteOutput(n, T, f.ipSrc, keep, pkt)
      \/ SetTable(n, T) /\ air' \in Radio(n, keep, S)
  BY <1>3 DEF RecvForwardAnt
<1>7. \A g \in S : g.kind = "F-ANT"
  BY <1>1, BroadcastFrames
<1> HIDE DEF T, pkt, S
<1>8. CASE n = f.dst /\ RouteOutput(n, T, f.ipSrc, keep, pkt)
  BY <1>1, <1>4, <1>5, <1>8, RouteOutputTree
<1>9. CASE SetTable(n, T) /\ air' \in Radio(n, keep, S)
  <2>1. air' \subseteq keep \cup S
    BY <1>9, RadioFrames
  <2>2. \A g \in air' \ air : Homeward(g, s)'
    BY <1>7, <2>1 DEF Homeward
  <2> QED BY <1>1, <1>4, <1>9, <2>2, TreeKept
<1> QED BY <1>6, <1>8, <1>9

LEMMA BackwardAntTree ==
    ASSUME NEW s \in Nodes, Asking(s), NEW f \in air, f.ipDst = f.to, RecvBackwardAnt(f.to, f)
    PROVE  Tree(s)'
<1> DEFINE n == f.to
           T == Reinforce(n, rtable[n], f.dst, f.ipSrc)
           keep == air \ {f}
           back == T[f.src].nextHop
           pkt == Unicast("B-ANT", n, back, f.src, f.dst, f.id)
<1>1. /\ n \in Nodes /\ f.ipSrc \in Nodes /\ f.src \in Nodes /\ f.dst \in Nodes /\ f.id \in Nat
      /\ now \in Nat /\ rtable[n] \in Table /\ f.kind = "B-ANT"
  BY DEF Asking, AirInv, GoodFrame, Frame, NodeInv, RecvBackwardAnt
<1>2. f.src = s /\ f.dst # s
  <2>1. PICK a \in ants : a.src = f.src /\ a.dst = f.dst
    BY <1>1 DEF Asking, AirInv, GoodFrame
  <2> QED BY <2>1 DEF Asking, Alone, SearchesLaunched
<1>3. Purge(rtable[n], now) = rtable[n] /\ Grown(n, rtable[n], s) /\ FreshTable(rtable[n])
  BY <1>1, GrownSame
<1>4. GoodTable(known, n, T) /\ (HasValidRoute(T, f.src) => back \in Nodes)
  BY <1>3, BackwardHop DEF Asking
<1>5. Grown(n, T, s)
  <2>1. T[f.dst].nextHop = f.ipSrc /\ \A d \in Nodes \ {f.dst} : T[d] = rtable[n][d]
    BY <1>1, <1>3, ReinforceFresh
  <2>2. f.ipSrc = f.dst \/ WayBack(n, f.ipSrc, s)
    BY <1>1 DEF Asking, Tree
  <2> HIDE DEF T
  <2> QED BY <1>2, <1>3, <1>4, <2>1, <2>2 DEF Grown, HasRoute, GoodTable
<1>6. \/ n # f.src /\ HasValidRoute(T, f.src) /\ RouteOutput(n, T, back, keep, pkt)
      \/ SetTable(n, T) /\ air' = keep
  BY <1>3 DEF RecvBackwardAnt
<1> HIDE DEF T
<1>7. CASE n # f.src /\ HasValidRoute(T, f.src) /\ RouteOutput(n, T, back, keep, pkt)
  <2>1. pkt \in Frame /\ pkt.ipSrc = n /\ pkt.ipDst = back
    BY <1>1, <1>4, <1>7 DEF Unicast, Frame
  <2>2. n # s /\ HasRoute(T, s) /\ T[s].nextHop = pkt.ipDst
    BY <1>2, <1>7, <2>1 DEF HasValidRoute
  <2> HIDE DEF pkt
  <2> QED BY <1>1, <1>4, <1>5, <1>7, <2>1, <2>2, RouteOutputTree
<1>8. CASE SetTable(n, T) /\ air' = keep
  BY <1>1, <1>5, <1>8, TreeKept
<1> QED BY <1>6, <1>7, <1>8

LEMMA ForwardTree ==
    ASSUME NEW s \in Nodes, Asking(s), NEW f \in air, Forward(f.to, f)
    PROVE  Tree(s)'
<1> DEFINE n == f.to
           T == rtable[n]
<1>1. n \in Nodes /\ f \in Frame
  BY DEF Asking, AirInv, GoodFrame, Frame
<1>2. Purge(T, now) = T /\ Grown(n, T, s)
  BY <1>1, GrownSame
<1>3. PICK g : /\ g = [f EXCEPT !.to = T[f.ipDst].nextHop]
               /\ air' \subseteq air \cup {g}
  <2>1. air' \subseteq air \cup {[f EXCEPT !.to = T[f.ipDst].nextHop]}
    BY <1>2, RadioFrames DEF Forward
  <2> QED BY <2>1
<1>4. /\ g.kind = f.kind /\ g.ipSrc = f.ipSrc /\ g.ipDst = f.ipDst /\ g.dst = f.dst
      /\ f.ipSrc \in Nodes
  BY <1>1, <1>3 DEF Frame
<1>5. SetTable(n, T)
  BY <1>2 DEF Forward
<1>6. rtable' = rtable
  BY <1>1, <1>5 DEF SetTable, Asking, NodeInv
<1>7. Homeward(g, s)'
  <2>1. Homeward(f, s)
    BY DEF Asking, Tree, Homeward
  <2> QED BY <1>4, <1>6, <2>1 DEF Homeward, WayBack
<1>8. \A h \in air' \ air : Homeward(h, s)'
  BY <1>3, <1>7
<1> QED BY <1>1, <1>2, <1>5, <1>8, TreeKept

LEMMA TimerTree ==
    ASSUME NEW s \in Nodes, Asking(s), NEW n \in Nodes, NEW d \in Nodes,
           RouteRequestTimerExpire(n, d)
    PROVE  Tree(s)'
<1> DEFINE T == rtable[n]
           S == Broadcast(n, n, d, requestId[n] + 1)
<1>1. n = s
  <2>1. addressReqTimer[n][d] # NoTimer
    BY DEF RouteRequestTimerExpire, NoTimer, Asking, NodeInv
  <2> QED BY <2>1 DEF Asking, SearchesLaunched, Alone
<1>2. T \in Table /\ Purge(T, now) = T /\ FreshTable(T) /\ Grown(n, T, s)
  BY GrownSame DEF Grown
<1>3. PICK U \in {T, DeleteRoute(T, d)} : SetTable(n, U)
  BY <1>2 DEF RouteRequestTimerExpire, FreshTable
<1>4. Grown(n, U, s)
  BY <1>1, <1>2, <1>3 DEF Grown, DeleteRoute, HasRoute, Table
<1>5. air' \subseteq air \cup S
  BY RadioFrames DEF RouteRequestTimerExpire, SendRequest, NextRequestId
<1>6. requestId[n] + 1 \in Nat
  BY DEF Asking, NodeInv
<1>7. \A f \in S : f.kind = "F-ANT"
  BY <1>6, BroadcastFrames
<1> HIDE DEF S
<1>8. \A f \in air' \ air : Homeward(f, s)'
  BY <1>5, <1>7 DEF Homeward
<1> QED BY <1>3, <1>4, <1>8, TreeKept

LEMMA EvaporationTree ==
    ASSUME NEW s \in Nodes, Asking(s), NEW n \in Nodes, EvaporatePheromones(n)
    PROVE  Tree(s)'
<1> DEFINE T == rtable[n]
           U == Evaporation(T, Rho(simulatedQueue[n], 320))
<1>1. SetTable(n, U) /\ air' = air
  BY DEF EvaporatePheromones, Evaporation
<1>2. T \in Table /\ FreshTable(T) /\ Grown(n, T, s)
  BY GrownSame DEF Grown
<1>3. /\ \A d \in Nodes : HasRoute(U, d) <=> HasRoute(T, d)
      /\ \A d \in Nodes : HasRoute(T, d) => U[d].nextHop = T[d].nextHop
  BY <1>2, EvaporationFresh
<1>4. U \in Table
  <2>1. rtable'[n] = U /\ rtable'[n] \in Table
    BY <1>1 DEF SetTable, Asking, NodeInv
  <2> QED BY <2>1
<1> HIDE DEF U
<1>5. Grown(n, U, s)
  BY <1>2, <1>3, <1>4 DEF Grown
<1> QED BY <1>1, <1>5, TreeKept

LEMMA StepTree ==
    ASSUME NEW s \in Nodes, Asking(s), [Next]_vars
    PROVE  Tree(s)'
<1>1. ASSUME NEW n \in Requesters, NEW d \in Targets, AppSend(n, d) PROVE Tree(s)'
  <2> DEFINE pkt == Unicast("DATA", n, d, n, d, sends)
  <2>1. n \in Nodes /\ d \in Nodes /\ RouteOutput(n, Purge(rtable[n], now), d, air, pkt)
    BY <1>1, TrafficAssumption DEF AppSend
  <2>2. pkt \in Frame /\ pkt.ipSrc = n /\ pkt.kind = "DATA"
    BY <2>1 DEF Unicast, Frame, Asking, NodeInv
  <2> HIDE DEF pkt
  <2>3. Grown(n, rtable[n], s) /\ Purge(rtable[n], now) = rtable[n]
    BY <2>1, GrownSame
  <2> QED BY <2>1, <2>2, <2>3, RouteOutputTree
<1>2. ASSUME NEW f \in air, Receive(f.to, f) PROVE Tree(s)'
  <2>1. CASE DiscardAnt(f.to, f) \/ DeliverData(f.to, f)
    BY <2>1, TreeSame DEF DiscardAnt, DeliverData, Asking
  <2> QED BY <1>2, <2>1, ForwardAntTree, BackwardAntTree, ForwardTree DEF Receive
<1>3. CASE \E n, d \in Nodes : RouteRequestTimerExpire(n, d)
  BY <1>3, TimerTree
<1>4. CASE \E n \in Nodes : EvaporatePheromones(n)
  BY <1>4, EvaporationTree
<1>5. CASE Tick
  BY <1>5, TreeSame DEF Tick, Asking
<1>6. CASE UNCHANGED vars
  BY <1>6, TreeSame DEF vars, Asking
<1> QED BY <1>1, <1>2, <1>3, <1>4, <1>5, <1>6 DEF Next

\* Whoever is alone after a step was alone before it.
LEMMA AloneBefore ==
    ASSUME NodeInv, SearchStep, NEW s, Alone(s)'
    PROVE  Alone(s)
BY TimeAssumption DEF NodeInv, SearchStep, Idle, Wait, Launch, Timeout, Alone

LEMMA LoopInvariant == Spec => []LoopInv
<1>1. Init => LoopInv
  <2> SUFFICES ASSUME Init PROVE LoopInv
    OBVIOUS
  <2>1. SearchesLaunched
    BY DEF Init, SearchesLaunched
  <2>2. \A n, d \in Nodes : ~HasRoute(rtable[n], d)
    BY DEF Init, EmptyTable, HasRoute
  <2>3. RoutesFresh
    BY <2>2 DEF RoutesFresh, FreshTable
  <2>4. ASSUME NEW s \in Nodes PROVE Tree(s)
    BY <2>2 DEF Init, Tree, Circle, HasValidRoute
  <2> QED BY <2>1, <2>3, <2>4 DEF LoopInv
<1>2. ASSUME IndInv, IndInv', SearchesInv', LoopInv, [Next]_vars
      PROVE  LoopInv'
  <2>1. NodeInv /\ AirInv /\ SearchStep
    BY <1>2, Halves, StepSearches
  <2>2. NodeInv' /\ AirInv'
    BY <1>2, Halves, PTL
  <2>3. RoutesFresh' /\ SearchesLaunched'
    BY <1>2, <2>1, FreshKept DEF LoopInv, SearchesInv
  <2>4. ASSUME NEW s \in Nodes, Alone(s)' PROVE Tree(s)'
    <3>1. Asking(s)
      BY <1>2, <2>1, <2>2, <2>3, <2>4, AloneBefore DEF Asking, LoopInv
    <3> QED BY <1>2, <3>1, StepTree
  <2> QED BY <2>3, <2>4 DEF LoopInv
<1> QED BY <1>1, <1>2, Invariance, SearchesAlways, PTL DEF Spec

\* One asker is an asker.
LEMMA SomebodyAlone ==
    ASSUME NodeInv, now <= RouteLifetime, OneAsker, Nodes # {}
    PROVE  \E s \in Nodes : Alone(s)
<1>1. CASE ants = {}
  BY <1>1 DEF Alone
<1>2. CASE ants # {}
  BY <1>2 DEF NodeInv, Ants, Alone, OneAsker
<1> QED BY <1>1, <1>2

\* As long as one node has asked and nothing can have expired, VALID routes run in no circle.
THEOREM RoutesRunInNoCircle == Spec => []LoopFree
<1>1. IndInv /\ LoopInv => LoopFree
  <2> SUFFICES ASSUME IndInv, LoopInv, now <= RouteLifetime, OneAsker,
                      NEW d \in Nodes, NEW S \in SUBSET Nodes, Circle(S, d)
               PROVE  FALSE
    BY DEF LoopFree
  <2>1. NodeInv
    BY Halves
  <2>2. PICK s \in Nodes : Alone(s)
    BY <2>1, SomebodyAlone
  <2>3. Tree(s)
    BY <2>2 DEF LoopInv
  <2>4. CASE d = s
    BY <2>3, <2>4 DEF Tree
  <2>5. CASE d # s
    <3>1. \A n \in S : /\ n # d /\ HasRoute(rtable[n], d)
                       /\ rtable[n][d].nextHop \in S /\ rtable[n][d].nextHop # d
      BY DEF Circle, HasValidRoute
    <3>2. \A n \in S : WayBack(n, rtable[n][d].nextHop, s)
      BY <2>3, <2>5, <3>1 DEF Tree
    <3>3. \A m \in S : \E n \in S : rtable[n][d].nextHop = m /\ WayBack(n, m, s)
      BY <3>2 DEF Circle
    <3>4. \A m \in S : m # s /\ HasRoute(rtable[m], s) /\ rtable[m][s].nextHop \in S
      BY <3>3 DEF WayBack
    <3>5. \A n \in S : \E m \in S : rtable[m][s].nextHop = n
      BY <3>1, <3>2 DEF WayBack
    <3>6. \A m \in S : HasValidRoute(rtable[m], s)
      BY <3>4 DEF HasValidRoute, LoopInv, RoutesFresh, FreshTable
    <3>7. Circle(S, s)
      BY <3>4, <3>5, <3>6 DEF Circle
    <3> QED BY <2>3, <3>7 DEF Tree
  <2> QED BY <2>4, <2>5
<1> QED BY <1>1, Invariance, LoopInvariant, PTL

\* Under the same conditions whoever an answer is handed to can hand it on (RecvAco): it was
\* sent to somebody who has had a breadcrumb, and breadcrumbs are never lost (Tree).
THEOREM AnswersFindTheirWay == Spec => []AnswersFindTheWay
<1>1. IndInv /\ LoopInv => AnswersFindTheWay
  <2> SUFFICES ASSUME IndInv, LoopInv, now <= RouteLifetime, OneAsker,
                      NEW f \in air, f.kind = "B-ANT", f.ipDst # f.src
               PROVE  HasValidRoute(rtable[f.ipDst], f.src)
    BY DEF AnswersFindTheWay
  <2>1. NodeInv /\ GoodFrame(f)
    BY Halves DEF AirInv
  <2>2. f.ipDst \in Nodes /\ f.src \in Nodes /\ f.src \in known[f.ipDst]
    BY <2>1 DEF GoodFrame, Frame, Trail
  <2>3. Alone(f.src)
    <3>1. PICK a \in ants : a.src = f.src
      BY <2>1 DEF GoodFrame
    <3> QED BY <3>1 DEF Alone, OneAsker
  <2>4. HasRoute(rtable[f.ipDst], f.src)
    BY <2>2, <2>3 DEF LoopInv, Tree
  <2> QED BY <2>2, <2>4 DEF LoopInv, RoutesFresh, FreshTable, HasValidRoute
<1> QED BY <1>1, Invariance, LoopInvariant, PTL

-----------------------------------------------------------------------------
\* What becomes of one frame.

\* A frame leaves the air with its receiver only.
LEMMA Arrival ==
    ASSUME NodeInv, AirInv, [Next]_vars, NEW f \in air, Arrived(f)
    PROVE  Receive(f.to, f)
<1>1. \A n, T, d, keep, pkt : RouteOutput(n, T, d, keep, pkt) => keep \subseteq air'
  BY RadioFrames DEF RouteOutput, RouteHit, RouteMiss, SendRequest
<1>2. ASSUME NEW n, NEW d, AppSend(n, d) PROVE FALSE
  BY <1>1, <1>2 DEF AppSend, Arrived
<1>3. ASSUME NEW g \in air, Receive(g.to, g) PROVE g = f
  <2>1. air \ {g} \subseteq air'
    <3>1. CASE RecvForwardAnt(g.to, g) \/ RecvBackwardAnt(g.to, g)
      BY <1>1, <3>1, RadioFrames DEF RecvForwardAnt, RecvBackwardAnt
    <3>2. CASE DiscardAnt(g.to, g) \/ DeliverData(g.to, g) \/ Forward(g.to, g)
      BY <3>2, RadioFrames DEF DiscardAnt, DeliverData, Forward
    <3> QED BY <1>3, <3>1, <3>2 DEF Receive
  <2> QED BY <2>1 DEF Arrived
<1>4. ASSUME NEW n, NEW d, RouteRequestTimerExpire(n, d) PROVE FALSE
  BY <1>4, RadioFrames DEF RouteRequestTimerExpire, SendRequest, Arrived
<1>5. ~(\E n \in Nodes : EvaporatePheromones(n)) /\ ~Tick /\ ~UNCHANGED vars
  BY DEF EvaporatePheromones, Tick, vars, Arrived
<1> QED BY <1>2, <1>3, <1>4, <1>5 DEF Next

\* The filter changes only when an ant is processed, and no launch is forgotten.
LEMMA Processing ==
    ASSUME NodeInv, AirInv, [Next]_vars
    PROVE  /\ ants \subseteq ants'
           /\ \/ UNCHANGED <<seenAnts, visited>>
              \/ \E f \in air : f.to \in Nodes /\ f.kind = "F-ANT" /\ Remember(f.to, f)
<1>1. ants \subseteq ants'
  BY StepSearches DEF SearchStep, Idle, Wait, Launch, Timeout
<1>2. ASSUME NEW f \in air, Receive(f.to, f)
      PROVE  \/ UNCHANGED <<seenAnts, visited>>
             \/ f.to \in Nodes /\ f.kind = "F-ANT" /\ Remember(f.to, f)
  <2>1. f.to \in Nodes
    BY DEF AirInv, GoodFrame, Frame
  <2> QED
    BY <1>2, <2>1 DEF Receive, DiscardAnt, RecvForwardAnt, RecvBackwardAnt, DeliverData, Forward
<1>3. ASSUME ~\E f \in air : Receive(f.to, f) PROVE UNCHANGED <<seenAnts, visited>>
  <2>1. \A n, d : AppSend(n, d) => UNCHANGED <<seenAnts, visited>>
    BY DEF AppSend
  <2>2. \A n, d : RouteRequestTimerExpire(n, d) => UNCHANGED <<seenAnts, visited>>
    BY DEF RouteRequestTimerExpire
  <2>3. \A n : EvaporatePheromones(n) => UNCHANGED <<seenAnts, visited>>
    BY DEF EvaporatePheromones
  <2>4. Tick \/ UNCHANGED vars => UNCHANGED <<seenAnts, visited>>
    BY DEF Tick, vars
  <2> QED
    BY <1>3, <2>1, <2>2, <2>3, <2>4 DEF Next
<1> QED BY <1>1, <1>2, <1>3

LEMMA FilterStaysHonest == Spec => []FilterHonest
<1>1. Init => FilterHonest
  BY DEF Init, FilterHonest
<1>2. ASSUME IndInv, FilterHonest, [Next]_vars PROVE FilterHonest'
  <2>1. NodeInv /\ AirInv
    BY <1>2, Halves
  <2>2. ants \subseteq ants'
    BY <1>2, <2>1, Processing
  <2>3. CASE UNCHANGED <<seenAnts, visited>>
    BY <1>2, <2>2, <2>3 DEF FilterHonest
  <2>4. ASSUME NEW f \in air, f.to \in Nodes, f.kind = "F-ANT", Remember(f.to, f)
        PROVE  FilterHonest'
    <3> DEFINE v0 == <<f.src, f.id>>
    <3>1. /\ \A n \in Nodes : visited'[n] = IF n = f.to THEN visited[n] \cup {v0} ELSE visited[n]
          /\ \A n \in Nodes : seenAnts'[n] = IF n = f.to THEN seenAnts[n] \cup {f.id}
                                             ELSE seenAnts[n]
      BY <2>1, <2>4 DEF Remember, NodeInv, SeenKey
    <3>2. PICK a \in ants : a.src = v0[1] /\ a.id = v0[2]
      BY <2>1, <2>4 DEF AirInv, GoodFrame
    <3>3. SeenKey(v0[1], v0[2]) = f.id
      BY DEF SeenKey
    <3> HIDE DEF v0
    <3>4. ASSUME NEW n \in Nodes, NEW v \in visited'[n]
          PROVE  \E b \in ants' : b.src = v[1] /\ b.id = v[2]
      <4>1. v \in visited[n] \/ v = v0
        BY <3>1, <3>4
      <4>2. v \in visited[n] => \E b \in ants : b.src = v[1] /\ b.id = v[2]
        BY <1>2 DEF FilterHonest
      <4> QED BY <2>2, <3>2, <4>1, <4>2
    <3>5. ASSUME NEW n \in Nodes, NEW k \in seenAnts'[n]
          PROVE  \E v \in visited'[n] : SeenKey(v[1], v[2]) = k
      <4>1. visited[n] \subseteq visited'[n] /\ (k \in seenAnts[n] \/ (k = f.id /\ v0 \in visited'[n]))
        BY <3>1, <3>5
      <4>2. k \in seenAnts[n] => \E v \in visited[n] : SeenKey(v[1], v[2]) = k
        BY <1>2 DEF FilterHonest
      <4> QED BY <3>3, <4>1, <4>2
    <3>6. \A k : SeenKey(k[1], k[2])' = SeenKey(k[1], k[2])
      BY DEF SeenKey
    <3> QED BY <3>4, <3>5, <3>6 DEF FilterHonest
  <2> QED BY <1>2, <2>1, <2>3, <2>4, Processing
<1> QED BY <1>1, <1>2, Invariance, PTL DEF Spec

\* What OwnFloodsUnshadowed says of a step.
Unshadowed ==
    OneAsker => \A f \in air :
        (Arrived(f) /\ f.kind = "F-ANT" /\ visited' = visited) =>
            <<f.src, f.id>> \in visited[f.to]

\* While one node asks, an F-ANT is thrown away only by a node that has processed it: its
\* key entered the filter with an ant of the same number, and of the only source.
THEOREM OneAskersFloodsUnshadowed == Spec => OwnFloodsUnshadowed
<1>1. IndInv /\ FilterHonest /\ [Next]_vars => [Unshadowed]_vars
  <2> SUFFICES ASSUME IndInv, FilterHonest, [Next]_vars, OneAsker, NEW f \in air, Arrived(f),
                      f.kind = "F-ANT", visited' = visited
               PROVE  <<f.src, f.id>> \in visited[f.to]
    BY DEF Unshadowed
  <2>1. NodeInv /\ AirInv /\ GoodFrame(f) /\ f.to \in Nodes
    BY Halves DEF AirInv, GoodFrame, Frame
  <2>2. DiscardAnt(f.to, f) \/ RecvForwardAnt(f.to, f)
    BY <2>1, Arrival DEF Receive, RecvBackwardAnt, DeliverData, GoodFrame
  <2>3. CASE RecvForwardAnt(f.to, f)
    BY <2>1, <2>3 DEF RecvForwardAnt, Remember, NodeInv
  <2>4. CASE DiscardAnt(f.to, f)
    <3>1. f.id \in seenAnts[f.to]
      BY <2>1, <2>4 DEF DiscardAnt, AlreadySeen, SeenKey, GoodFrame, Trail
    <3>2. PICK v \in visited[f.to] : v[2] = f.id
      BY <2>1, <3>1 DEF FilterHonest, SeenKey
    <3>3. PICK a \in ants : a.src = v[1]
      BY <2>1, <3>2 DEF FilterHonest
    <3>4. PICK b \in ants : b.src = f.src
      BY <2>1 DEF GoodFrame
    <3>5. v[1] = f.src
      BY <3>3, <3>4 DEF OneAsker
    <3>6. v = <<v[1], v[2]>>
      BY <2>1, <3>2 DEF NodeInv
    <3> QED BY <3>2, <3>5, <3>6
  <2> QED BY <2>2, <2>3, <2>4
<1>2. OwnFloodsUnshadowed <=> [][Unshadowed]_vars
  BY DEF OwnFloodsUnshadowed, Unshadowed
<1> QED BY <1>1, <1>2, Invariance, FilterStaysHonest, PTL DEF Spec

\* What YoungHomecomings says of a step.
Established ==
    now <= RouteLifetime => \A f \in air :
        (Arrived(f) /\ f.kind = "B-ANT" /\ f.to = f.src /\ f.ipDst = f.src) =>
            HasValidRoute(rtable'[f.src], f.dst)

\* Before the first lifetime is over, a backward ant that comes home leaves its source with
\* a VALID route: it finds no entry, or one that is VALID (RecvAco).
THEOREM HomecomingsHelpWhileYoung == Spec => YoungHomecomings
<1>1. IndInv /\ LoopInv /\ [Next]_vars => [Established]_vars
  <2> SUFFICES ASSUME IndInv, LoopInv, [Next]_vars, now <= RouteLifetime, NEW f \in air,
                      Arrived(f), f.kind = "B-ANT", f.to = f.src, f.ipDst = f.src
               PROVE  HasValidRoute(rtable'[f.src], f.dst)
    BY DEF Established
  <2> DEFINE n == f.src
             T == Reinforce(n, rtable[n], f.dst, f.ipSrc)
  <2>1. NodeInv /\ AirInv /\ GoodFrame(f) /\ n \in Nodes /\ f.dst \in Nodes /\ f.ipSrc \in Nodes
        /\ now \in Nat /\ rtable[n] \in Table
    BY Halves DEF AirInv, GoodFrame, Frame, NodeInv
  <2>2. RecvBackwardAnt(n, f)
    BY <2>1, Arrival DEF Receive, DiscardAnt, RecvForwardAnt, DeliverData, GoodFrame, Trail
  <2>3. FreshTable(rtable[n]) /\ Purge(rtable[n], now) = rtable[n]
    <3>1. FreshTable(rtable[n])
      BY <2>1 DEF LoopInv, RoutesFresh
    <3> QED BY <2>1, <3>1, PurgeIdle
  <2>4. SetTable(n, T)
    BY <2>2, <2>3 DEF RecvBackwardAnt
  <2>5. FreshTable(T)
    BY <2>1, <2>3, ReinforceFresh
  <2>6. HasRoute(T, f.dst)
    <3>1. f.ipSrc # n /\ (f.ipSrc = f.dst \/ f.dst \in known[f.ipSrc])
      BY <2>1 DEF GoodFrame, Trail
    <3>2. GoodTable(known, n, rtable[n])
      BY <2>1 DEF NodeInv
    <3> QED BY <2>1, <3>1, <3>2, ReinforceGood
  <2> HIDE DEF T
  <2>7. rtable'[n] = T
    BY <2>1, <2>4 DEF SetTable, NodeInv
  <2> QED BY <2>1, <2>5, <2>6, <2>7 DEF FreshTable, HasValidRoute
<1>2. YoungHomecomings <=> [][Established]_vars
  BY DEF YoungHomecomings, Established
<1> QED BY <1>1, <1>2, Invariance, LoopInvariant, PTL DEF Spec
=============================================================================
