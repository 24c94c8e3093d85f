------------------------ MODULE AcoRefinementProofs -------------------------
(***************************************************************************)
(* AcoRouting implements its two abstract specifications, by step          *)
(* refinement of every handler.                                            *)
(*                                                                         *)
(* RouteLifecycle: every entry of every routing table lives the abstract   *)
(* life.  A handler looks a route up, which purges the table, then may add *)
(* an entry, change the pheromone and next hop of one, or delete a valid   *)
(* one.  Handled says what the handler has in its hands before it deletes: *)
(* it is reflexive only on purged entries, so no handler can both age a    *)
(* route and prolong it in one step.                                       *)
(*                                                                         *)
(* AntDiscovery: every ant of every node is launched once, taken up once by*)
(* each node, and answered once.  A step is seen as AntStep: it launches at*)
(* most one ant, with a new number, and either no ant is taken up and no   *)
(* answer is born, or one ant is taken up by a node new to it, answers in  *)
(* flight stay, and one is born only if that node is the goal.             *)
(***************************************************************************)
EXTENDS AcoLoopProofs

State(e) == IF e = Absent THEN "UNKNOWN" ELSE e.flag

Expires(e) == IF e = Absent THEN 0 ELSE e.lifeTime

SameLife(e, g) == State(g) = State(e) /\ Expires(g) = Expires(e)

Fresh(g, t) == State(g) = "VALID" /\ Expires(g) = t + RouteLifetime

Gone(g) == State(g) = "UNKNOWN" /\ Expires(g) = 0

Quarantined(e, g, t) ==
    /\ State(e) = "VALID" /\ Expires(e) < t
    /\ State(g) = "INVALID" /\ Expires(g) = t + BadLinkLifetime

Handled(e, g, t) ==
    \/ SameLife(e, g) /\ (State(e) = "UNKNOWN" \/ Expires(e) >= t)
    \/ Quarantined(e, g, t)
    \/ /\ State(e) = "UNKNOWN" \/ (State(e) = "INVALID" /\ Expires(e) < t)
       /\ Fresh(g, t) \/ Gone(g)

\* One step of the abstract life, or none, on entries.
Aged(e, g, t) ==
    \/ SameLife(e, g)
    \/ Quarantined(e, g, t)
    \/ State(e) = "UNKNOWN" /\ Fresh(g, t)
    \/ State(e) = "INVALID" /\ Expires(e) < t /\ (Fresh(g, t) \/ Gone(g))
    \/ State(e) = "VALID" /\ Expires(e) >= t /\ Gone(g)

\* The entries a table can hold.
Usable(e) == e = Absent \/ (/\ e \in RoutingTableEntry
                            /\ e.flag # "IN_SEARCH" /\ e.reqCount = 0)

LEMMA UsableStates ==
    ASSUME NEW e, Usable(e)
    PROVE  /\ State(e) \in {"UNKNOWN", "VALID", "INVALID"}
           /\ Expires(e) \in Nat
           /\ State(e) = "UNKNOWN" => e = Absent /\ Expires(e) = 0
           /\ e # Absent => State(e) = e.flag /\ Expires(e) = e.lifeTime
BY DEF Usable, State, Expires, RoutingTableEntry, RouteFlags

LEMMA GoodUsable ==
    ASSUME NEW K, NEW n, NEW T, GoodTable(K, n, T), NEW c \in Nodes
    PROVE  Usable(T[c])
BY DEF GoodTable, GoodEntry, HasRoute, Usable

-----------------------------------------------------------------------------
\* What handlers do with an entry keeps it Handled.

LEMMA PurgeHandled ==
    ASSUME NEW e, Usable(e), NEW t \in Nat
    PROVE  Handled(e, PurgeEntry(e, t), t)
<1>1. CASE e = Absent
  BY <1>1 DEF PurgeEntry, Handled, SameLife, State
<1>2. CASE e # Absent /\ e.lifeTime >= t
  BY <1>2 DEF PurgeEntry, Handled, SameLife, Expires
<1>3. CASE e # Absent /\ ~(e.lifeTime >= t) /\ e.flag = "INVALID"
  BY <1>3, UsableStates DEF PurgeEntry, Handled, Gone, State, Expires
<1>4. CASE e # Absent /\ ~(e.lifeTime >= t) /\ e.flag # "INVALID"
  <2> DEFINE g == Invalidate(e, t)
  <2>1. e \in RoutingTableEntry /\ e.flag = "VALID" /\ e.lifeTime \in Nat
    BY <1>4 DEF Usable, RoutingTableEntry, RouteFlags
  <2>2. g.flag = "INVALID" /\ g.lifeTime = t + BadLinkLifetime
    BY <1>4, <2>1 DEF Invalidate, RoutingTableEntry
  <2>3. g # Absent /\ PurgeEntry(e, t) = g
    BY <1>4, <2>2 DEF PurgeEntry, Absent
  <2> HIDE DEF g
  <2> QED BY <1>4, <2>1, <2>2, <2>3 DEF Handled, Quarantined, State, Expires
<1> QED BY <1>1, <1>2, <1>3, <1>4

LEMMA FreshHandled ==
    ASSUME NEW e, NEW t, Handled(e, Absent, t), NEW g, Fresh(g, t)
    PROVE  Handled(e, g, t)
BY DEF Handled, SameLife, Quarantined, State

LEMMA SameHandled ==
    ASSUME NEW e, NEW h, NEW t, Handled(e, h, t), NEW g, SameLife(h, g)
    PROVE  Handled(e, g, t)
BY DEF Handled, SameLife, Quarantined, Fresh, Gone

LEMMA HandledAged ==
    ASSUME NEW e, NEW g, NEW t, Handled(e, g, t), Usable(e)
    PROVE  Aged(e, g, t)
BY UsableStates DEF Handled, Aged, SameLife, Gone

\* Deleting a route that is valid after the purge: it was valid and unexpired, or the
\* handler has just learned it.
LEMMA DeletedAged ==
    ASSUME NEW e, NEW h, NEW t, Handled(e, h, t), Usable(e), State(h) = "VALID"
    PROVE  Aged(e, Absent, t)
<1>1. State(Absent) = "UNKNOWN" /\ Expires(Absent) = 0
  BY DEF State, Expires
<1> QED BY <1>1, UsableStates DEF Handled, Aged, SameLife, Gone, Quarantined

LEMMA NewEntryFresh ==
    ASSUME NEW hop, NEW p
    PROVE  Fresh(NewEntry(hop, p, RouteLifetime, now), now)
BY DEF NewEntry, Fresh, State, Expires, Absent

-----------------------------------------------------------------------------
\* The same for the tables, and for the table a handler leaves.

HandledTable(T0, T, t) == \A c \in Nodes : Handled(T0[c], T[c], t)

LEMMA PurgeHandledTable ==
    ASSUME NEW K, NEW n, NEW T, GoodTable(K, n, T), NEW t \in Nat
    PROVE  HandledTable(T, Purge(T, t), t)
BY GoodUsable, PurgeHandled DEF HandledTable, Purge

LEMMA AddRouteHandled ==
    ASSUME NEW T0, NEW T \in [Nodes -> RoutingTableEntry \cup {Absent}], NEW t, NEW d \in Nodes,
           NEW e, HandledTable(T0, T, t), Fresh(e, t)
    PROVE  HandledTable(T0, AddRoute(T, d, e), t)
<1> SUFFICES ASSUME NEW c \in Nodes, ~HasRoute(T, d)
             PROVE  Handled(T0[c], [T EXCEPT ![d] = e][c], t)
  BY DEF HandledTable, AddRoute
<1>1. CASE c = d
  <2>1. Handled(T0[c], Absent, t)
    BY <1>1 DEF HandledTable, HasRoute
  <2> QED BY <1>1, <2>1, FreshHandled
<1>2. CASE c # d
  BY <1>2 DEF HandledTable
<1> QED BY <1>1, <1>2

LEMMA BreadcrumbsHandled ==
    ASSUME NEW T0, NEW n \in Nodes, NEW T, GoodTable(known, n, T), now \in Nat,
           NEW src \in Nodes, NEW sender \in Nodes, HandledTable(T0, T, now),
           sender # n, sender = src \/ src \in known[sender]
    PROVE  HandledTable(T0, Breadcrumbs(T, src, sender), now)
<1> DEFINE crumb(d) == NewEntry(sender, PUnit, RouteLifetime, now)
           T1 == AddRoute(T, src, crumb(src))
<1>1. GoodTable(known, n, T1)
  BY NewEntryGood, AddRouteGood, LimitAssumption
<1>2. T \in Table /\ T1 \in Table
  BY <1>1 DEF GoodTable
<1>3. HandledTable(T0, T1, now)
  BY <1>2, NewEntryFresh, AddRouteHandled DEF Table
<1> HIDE DEF T1
<1>4. HandledTable(T0, AddRoute(T1, sender, crumb(sender)), now)
  BY <1>2, <1>3, NewEntryFresh, AddRouteHandled DEF Table
<1> QED BY <1>4 DEF Breadcrumbs, T1

LEMMA ReinforceHandled ==
    ASSUME NEW T0, NEW n \in Nodes, NEW T, GoodTable(known, n, T), NEW d \in Nodes,
           NEW sender, HandledTable(T0, T, now)
    PROVE  HandledTable(T0, Reinforce(n, T, d, sender), now)
<1>1. T \in [Nodes -> RoutingTableEntry \cup {Absent}]
  BY DEF GoodTable, Table
<1>2. CASE HasRoute(T, d)
  <2> DEFINE q == T[d].pheromone + Deposit(n)
             g == [T[d] EXCEPT !.pheromone = q, !.nextHop = sender]
  <2>1. T[d] \in RoutingTableEntry /\ T[d] # Absent
    BY <1>1, <1>2 DEF HasRoute
  <2>2. Reinforce(n, T, d, sender) = [T EXCEPT ![d] = g]
    BY <1>2 DEF Reinforce, Update
  <2> HIDE DEF q
  <2>3. g.flag = T[d].flag /\ g.lifeTime = T[d].lifeTime
    BY <2>1 DEF RoutingTableEntry
  <2>4. g # Absent
    BY <2>1, <2>3 DEF RoutingTableEntry, RouteFlags, Absent
  <2> HIDE DEF g
  <2>5. SameLife(T[d], g)
    BY <2>1, <2>3, <2>4 DEF SameLife, State, Expires
  <2>6. Handled(T0[d], g, now)
    BY <2>5, SameHandled DEF HandledTable
  <2> QED BY <1>1, <2>2, <2>6 DEF HandledTable
<1>3. CASE ~HasRoute(T, d)
  <2> DEFINE e == NewEntry(sender, PUnit + Deposit(n), RouteLifetime, now)
  <2>1. HandledTable(T0, AddRoute(T, d, e), now)
    BY <1>1, NewEntryFresh, AddRouteHandled
  <2> QED BY <1>3, <2>1 DEF Reinforce
<1> QED BY <1>2, <1>3

-----------------------------------------------------------------------------
\* Every handler ages every entry of every node by one abstract step at most.

TablesAge == \A m, c \in Nodes : Aged(rtable[m][c], rtable'[m][c], now)

\* A handler that installs a handled table, less a route that is valid in it.
LEMMA InstallAges ==
    ASSUME TablesInv, NEW n \in Nodes, NEW T, HandledTable(rtable[n], T, now),
           NEW d, NEW T1, T1 = T \/ (T1 = DeleteRoute(T, d) /\ HasValidRoute(T, d)),
           NEW K, GoodTable(K, n, T), SetTable(n, T1)
    PROVE  TablesAge
<1> SUFFICES ASSUME NEW m \in Nodes, NEW c \in Nodes
             PROVE  Aged(rtable[m][c], rtable'[m][c], now)
  BY DEF TablesAge
<1>1. rtable' = [rtable EXCEPT ![n] = T1] /\ rtable \in [Nodes -> Table]
  BY DEF SetTable, TablesInv
<1>2. T \in [Nodes -> RoutingTableEntry \cup {Absent}]
  BY DEF GoodTable, Table
<1>3. CASE m # n
  BY <1>1, <1>3 DEF Aged, SameLife
<1>4. CASE m = n
  <2>1. rtable'[m] = T1 /\ Usable(rtable[n][c]) /\ Handled(rtable[n][c], T[c], now)
    BY <1>1, <1>4, GoodUsable DEF TablesInv, HandledTable
  <2>2. CASE T1[c] = T[c]
    BY <1>4, <2>1, <2>2, HandledAged
  <2>3. CASE T1[c] # T[c]
    <3>1. c = d /\ T1[c] = Absent /\ HasValidRoute(T, d)
      BY <1>2, <2>3 DEF DeleteRoute
    <3>2. State(T[c]) = "VALID"
      BY <3>1 DEF HasValidRoute, HasRoute, State
    <3> QED BY <1>4, <2>1, <3>1, <3>2, DeletedAged
  <2> QED BY <2>2, <2>3
<1> QED BY <1>3, <1>4

LEMMA RouteOutputAges ==
    ASSUME TablesInv, NEW n \in Nodes, NEW T, HandledTable(rtable[n], T, now),
           NEW d, NEW keep, NEW pkt, GoodTable(known, n, T), RouteOutput(n, T, d, keep, pkt)
    PROVE  TablesAge
<1>1. CASE RouteHit(n, T, d, keep, pkt)
  BY <1>1, InstallAges DEF RouteHit
<1>2. CASE RouteMiss(n, T, d, keep)
  <2> DEFINE T1 == IF HasValidRoute(T, d) THEN DeleteRoute(T, d) ELSE T
  <2>1. SetTable(n, T1) /\ (T1 = T \/ (T1 = DeleteRoute(T, d) /\ HasValidRoute(T, d)))
    BY <1>2 DEF RouteMiss
  <2> HIDE DEF T1
  <2> QED BY <2>1, InstallAges
<1> QED BY <1>1, <1>2 DEF RouteOutput

LEMMA AppSendAges ==
    ASSUME NodeInv, NEW n \in Nodes, NEW d \in Nodes, AppSend(n, d)
    PROVE  TablesAge
<1> DEFINE T == Purge(rtable[n], now)
<1>1. TablesInv /\ now \in Nat
  BY NodeParts DEF RestInv
<1>2. GoodTable(known, n, T) /\ HandledTable(rtable[n], T, now)
  BY <1>1, PurgeGood, PurgeHandledTable DEF TablesInv
<1>3. RouteOutput(n, T, d, air, Unicast("DATA", n, d, n, d, sends))
  BY DEF AppSend
<1> HIDE DEF T
<1> QED BY <1>1, <1>2, <1>3, RouteOutputAges

LEMMA RecvForwardAntAges ==
    ASSUME NodeInv, AirInv, NEW f \in air, RecvForwardAnt(f.to, f)
    PROVE  TablesAge
<1> DEFINE n == f.to
           T0 == Purge(rtable[n], now)
           T == Breadcrumbs(T0, f.src, f.ipSrc)
<1>1. TablesInv /\ now \in Nat
  BY NodeParts DEF RestInv
<1>2. /\ n \in Nodes /\ f.src \in Nodes /\ f.ipSrc \in Nodes /\ f.ipSrc # n
      /\ f.ipSrc = f.src \/ f.src \in known[f.ipSrc]
  BY DEF AirInv, GoodFrame, Frame, Trail, RecvForwardAnt
<1>3. GoodTable(known, n, T0) /\ HandledTable(rtable[n], T0, now)
  BY <1>1, <1>2, PurgeGood, PurgeHandledTable DEF TablesInv
<1>4. \/ RouteOutput(n, T, f.ipSrc, air \ {f}, Answer(n, f))
      \/ SetTable(n, T)
  BY DEF RecvForwardAnt
<1> HIDE DEF n, T0
<1>5. GoodTable(known, n, T) /\ HandledTable(rtable[n], T, now)
  BY <1>1, <1>2, <1>3, BreadcrumbsGood, BreadcrumbsHandled
<1> HIDE DEF T
<1> QED BY <1>1, <1>2, <1>4, <1>5, RouteOutputAges, InstallAges

LEMMA RecvBackwardAntAges ==
    ASSUME NodeInv, AirInv, NEW f \in air, RecvBackwardAnt(f.to, f)
    PROVE  TablesAge
<1> DEFINE n == f.to
           T0 == Purge(rtable[n], now)
           T == Reinforce(n, T0, f.dst, f.ipSrc)
           back == T[f.src].nextHop
<1>1. TablesInv /\ now \in Nat
  BY NodeParts DEF RestInv
<1>2. /\ n \in Nodes /\ f.dst \in Nodes /\ f.ipSrc \in Nodes /\ f.ipSrc # n
      /\ f.ipSrc = f.dst \/ f.dst \in known[f.ipSrc]
  BY DEF AirInv, GoodFrame, Frame, Trail, RecvBackwardAnt
<1>3. GoodTable(known, n, T0) /\ HandledTable(rtable[n], T0, now)
  BY <1>1, <1>2, PurgeGood, PurgeHandledTable DEF TablesInv
<1>4. \/ RouteOutput(n, T, back, air \ {f}, Unicast("B-ANT", n, back, f.src, f.dst, f.id))
      \/ SetTable(n, T)
  BY DEF RecvBackwardAnt
<1> HIDE DEF n, T0
<1>5. GoodTable(known, n, T) /\ HandledTable(rtable[n], T, now)
  BY <1>1, <1>2, <1>3, ReinforceGood, ReinforceHandled
<1> HIDE DEF T, back
<1> QED BY <1>1, <1>2, <1>4, <1>5, RouteOutputAges, InstallAges

LEMMA ForwardAges ==
    ASSUME NodeInv, AirInv, NEW f \in air, Forward(f.to, f)
    PROVE  TablesAge
<1> DEFINE n == f.to
           T == Purge(rtable[n], now)
<1>1. TablesInv /\ now \in Nat /\ n \in Nodes
  BY NodeParts DEF RestInv, AirInv, GoodFrame, Frame
<1>2. GoodTable(known, n, T) /\ HandledTable(rtable[n], T, now) /\ SetTable(n, T)
  BY <1>1, PurgeGood, PurgeHandledTable DEF TablesInv, Forward
<1> HIDE DEF n, T
<1> QED BY <1>1, <1>2, InstallAges

LEMMA RouteRequestTimerExpireAges ==
    ASSUME NodeInv, NEW n \in Nodes, NEW d \in Nodes, RouteRequestTimerExpire(n, d)
    PROVE  TablesAge
<1> DEFINE T == Purge(rtable[n], now)
<1>1. TablesInv /\ now \in Nat
  BY NodeParts DEF RestInv
<1>2. GoodTable(known, n, T) /\ HandledTable(rtable[n], T, now)
  BY <1>1, PurgeGood, PurgeHandledTable DEF TablesInv
<1>3. HasRoute(T, d) => T[d].flag # "IN_SEARCH" /\ T[d].reqCount = 0
  BY <1>2 DEF GoodTable, GoodEntry
<1>4. SetTable(n, T)
  BY <1>3, LimitAssumption DEF RouteRequestTimerExpire
<1> HIDE DEF T
<1> QED BY <1>1, <1>2, <1>4, InstallAges

LEMMA EvaporatePheromonesAges ==
    ASSUME NodeInv, NEW n \in Nodes, EvaporatePheromones(n)
    PROVE  TablesAge
<1> SUFFICES ASSUME NEW m \in Nodes, NEW c \in Nodes
             PROVE  Aged(rtable[m][c], rtable'[m][c], now)
  BY DEF TablesAge
<1>1. TablesInv
  BY NodeParts
<1>2. CASE m # n
  BY <1>1, <1>2 DEF EvaporatePheromones, SetTable, TablesInv, Aged, SameLife
<1>3. CASE m = n
  <2> DEFINE rho == Rho(simulatedQueue[n], 320)
             e == rtable[n][c]
  <2>1. rtable'[n][c] = IF e # Absent THEN Evaporated(e, rho) ELSE Absent
    BY <1>1 DEF EvaporatePheromones, SetTable, TablesInv, HasRoute
  <2>2. Usable(e)
    BY <1>1, GoodUsable DEF TablesInv
  <2> HIDE DEF e, rho
  <2>3. CASE e = Absent
    BY <1>3, <2>1, <2>3 DEF Aged, SameLife, e
  <2>4. CASE e # Absent
    <3> DEFINE p == (e.pheromone * (640 - rho)) \div 640
               g == [e EXCEPT !.pheromone = p]
    <3>1. rtable'[n][c] = g /\ e \in RoutingTableEntry
      BY <2>1, <2>2, <2>4 DEF Evaporated, Usable
    <3> HIDE DEF p
    <3>2. g.flag = e.flag /\ g.lifeTime = e.lifeTime /\ g # Absent
      BY <3>1 DEF RoutingTableEntry, RouteFlags, Absent
    <3> HIDE DEF g
    <3>3. SameLife(e, g)
      BY <2>4, <3>2 DEF SameLife, State, Expires
    <3> QED BY <1>3, <3>1, <3>3 DEF Aged, e
  <2> QED BY <2>3, <2>4
<1> QED BY <1>2, <1>3

LEMMA NextAges ==
    ASSUME IndInv, Next
    PROVE  \/ TablesAge /\ now' = now
           \/ rtable' = rtable /\ now' = now + 1
<1>1. NodeInv /\ AirInv
  BY Halves
<1>2. CASE \E n \in Requesters, d \in Targets : n # d /\ AppSend(n, d)
  BY <1>1, <1>2, AppSendAges, TrafficAssumption DEF AppSend
<1>3. CASE \E f \in air : Receive(f.to, f)
  <2>1. PICK f \in air : Receive(f.to, f)
    BY <1>3
  <2>2. CASE DiscardAnt(f.to, f) \/ DeliverData(f.to, f)
    BY <2>2 DEF DiscardAnt, DeliverData, TablesAge, Aged, SameLife
  <2>3. CASE RecvForwardAnt(f.to, f)
    BY <1>1, <2>3, RecvForwardAntAges DEF RecvForwardAnt
  <2>4. CASE RecvBackwardAnt(f.to, f)
    BY <1>1, <2>4, RecvBackwardAntAges DEF RecvBackwardAnt
  <2>5. CASE Forward(f.to, f)
    BY <1>1, <2>5, ForwardAges DEF Forward
  <2> QED BY <2>1, <2>2, <2>3, <2>4, <2>5 DEF Receive
<1>4. CASE \E n \in Nodes, d \in Nodes : RouteRequestTimerExpire(n, d)
  <2>1. PICK n \in Nodes, d \in Nodes : RouteRequestTimerExpire(n, d)
    BY <1>4
  <2>2. now' = now
    BY <2>1 DEF RouteRequestTimerExpire
  <2> QED BY <1>1, <2>1, <2>2, RouteRequestTimerExpireAges
<1>5. CASE \E n \in Nodes : EvaporatePheromones(n)
  BY <1>1, <1>5, EvaporatePheromonesAges DEF EvaporatePheromones
<1>6. CASE Tick
  BY <1>6 DEF Tick
<1> QED BY <1>2, <1>3, <1>4, <1>5, <1>6 DEF Next

-----------------------------------------------------------------------------
\* Every routing table of every node implements RouteLifecycle, destination by
\* destination: lookups, breadcrumbs, backward ants, evaporation, timers and deletion
\* included, no handler prolongs a valid route or cuts a quarantine short.
THEOREM RoutesLiveAsPromised == Spec => RoutesAgeAsPromised
<1> DEFINE LivesOn == \A n, d \in Nodes :
                          [Route(n, d)!LifeNext]_(Route(n, d)!lifeVars)
<1>1. Init => \A n, d \in Nodes : Route(n, d)!LifeInit
  BY DEF Init, Route!LifeInit, HasRoute, EmptyTable
<1>2. ASSUME IndInv, Next, NEW n \in Nodes, NEW d \in Nodes
      PROVE  [Route(n, d)!LifeNext]_(Route(n, d)!lifeVars)
  <2> DEFINE e == rtable[n][d]
             g == rtable'[n][d]
  <2>1. /\ State(e) = IF HasRoute(rtable[n], d) THEN e.flag ELSE "UNKNOWN"
        /\ Expires(e) = IF HasRoute(rtable[n], d) THEN e.lifeTime ELSE 0
        /\ State(g) = IF HasRoute(rtable'[n], d) THEN g.flag ELSE "UNKNOWN"
        /\ Expires(g) = IF HasRoute(rtable'[n], d) THEN g.lifeTime ELSE 0
    BY DEF State, Expires, HasRoute
  <2>2. CASE Aged(e, g, now) /\ now' = now
    <3> HIDE DEF e, g
    <3> QED BY <2>1, <2>2
        DEF Aged, SameLife, Quarantined, Fresh, Gone, e, g, Route!LifeNext, Route!Learn,
            Route!Expire, Route!Forget, Route!Abandon, Route!Become, Route!lifeVars
  <2>3. CASE rtable' = rtable /\ now' = now + 1
    BY <2>3 DEF Route!LifeNext, Route!Wait
  <2> QED BY <1>2, <2>2, <2>3, NextAges DEF TablesAge
<1>3. IndInv /\ [Next]_vars => LivesOn \/ UNCHANGED vars
  BY <1>2
<1>4. IndInv /\ [Next]_vars => [LivesOn]_vars
  BY <1>3
<1>5. RoutesAgeAsPromised <=> (\A n, d \in Nodes : Route(n, d)!LifeInit) /\ [][LivesOn]_vars
  BY DEF RoutesAgeAsPromised
<1> QED BY <1>1, <1>4, <1>5, Invariance, PTL DEF Spec

-----------------------------------------------------------------------------
\* AntDiscovery.

\* Only ants that were launched have been taken up.
VisitedLaunched ==
    \A n \in Nodes : \A v \in visited[n] : \E a \in ants : a.src = v[1] /\ a.id = v[2]

Answers(A) == {f \in A : f.kind = "B-ANT"}

\* No ant is taken up, and the answers are answers that were in flight.
NoneTakenUp ==
    /\ visited' = visited
    /\ \A g \in Answers(air') : \E h \in Answers(air) : SameAnt(h, g)

\* f is taken up.
TakenUp(f) ==
    /\ f.to \in Nodes /\ f.src \in Nodes /\ f.id \in Nat
    /\ \E a \in ants : SameAnt(a, f) /\ a.dst = f.dst
    /\ <<f.src, f.id>> \notin visited[f.to]
    /\ visited' = [visited EXCEPT ![f.to] = @ \cup {<<f.src, f.id>>}]
    /\ Answers(air) \subseteq Answers(air')
    /\ \A g \in Answers(air') : g \in air \/ (f.to = f.dst /\ SameAnt(f, g))

OneLaunched ==
    \/ ants' = ants
    \/ \E n, d \in Nodes : ants' = ants \cup {NewAnt(n, d)}

AntStep == OneLaunched /\ (NoneTakenUp \/ \E f \in air : TakenUp(f))

\* RouteOutput for a backward ant keeps the others in flight, and adds only that one.
LEMMA RouteOutputAnswers ==
    ASSUME NEW n \in Nodes, NEW T, NEW d \in Nodes, NEW keep, NEW pkt \in Frame,
           RouteOutput(n, T, d, keep, pkt)
    PROVE  /\ Answers(keep) \subseteq Answers(air')
           /\ \A g \in Answers(air') : g \in keep \/ (pkt.kind = "B-ANT" /\ SameAnt(pkt, g))
<1>1. CASE RouteHit(n, T, d, keep, pkt)
  <2> DEFINE g == [pkt EXCEPT !.to = T[d].nextHop]
  <2>1. keep \subseteq air' /\ air' \subseteq keep \cup {g}
    BY <1>1, RadioFrames DEF RouteHit
  <2>2. g.kind = pkt.kind /\ g.src = pkt.src /\ g.id = pkt.id
    BY DEF Frame
  <2> HIDE DEF g
  <2> QED BY <2>1, <2>2 DEF Answers, SameAnt
<1>2. CASE RouteMiss(n, T, d, keep)
  <2>1. CASE SendRequest(n, d, keep)
    <3> DEFINE S == Broadcast(n, n, d, requestId[n] + 1)
    <3>1. keep \subseteq air' /\ air' \subseteq keep \cup S
      BY <2>1, RadioFrames DEF SendRequest, NextRequestId
    <3>2. \A g \in S : g.kind = "F-ANT"
      BY DEF Broadcast, Unicast
    <3> HIDE DEF S
    <3> QED BY <3>1, <3>2 DEF Answers
  <2>2. CASE air' = keep
    BY <2>2 DEF Answers
  <2> QED BY <1>2, <2>1, <2>2 DEF RouteMiss
<1> QED BY <1>1, <1>2 DEF RouteOutput

LEMMA ForwardAntTakenUp ==
    ASSUME NodeInv, AirInv, NEW f \in air, RecvForwardAnt(f.to, f)
    PROVE  TakenUp(f)
<1> DEFINE n == f.to
           T == Breadcrumbs(Purge(rtable[n], now), f.src, f.ipSrc)
           keep == air \ {f}
           pkt == Answer(n, f)
           S == Broadcast(n, f.src, f.dst, f.id)
<1>1. /\ n \in Nodes /\ f.src \in Nodes /\ f.dst \in Nodes /\ f.ipSrc \in Nodes /\ f.id \in Nat
      /\ f.kind = "F-ANT" /\ GoodFrame(f)
  BY DEF RecvForwardAnt, AirInv, GoodFrame, Frame
<1>2. \E a \in ants : SameAnt(a, f) /\ a.dst = f.dst
  BY <1>1 DEF GoodFrame, SameAnt
<1>3. /\ SeenKey(f.src, f.id) \notin seenAnts[n]
      /\ visited' = [visited EXCEPT ![n] = @ \cup {<<f.src, f.id>>}]
  BY DEF RecvForwardAnt, AlreadySeen, Remember
<1>4. <<f.src, f.id>> \notin visited[n]
  BY <1>1, <1>3 DEF NodeInv
<1>5. Answers(keep) = Answers(air)
  BY <1>1 DEF Answers
<1>6. /\ Answers(keep) \subseteq Answers(air')
      /\ \A g \in Answers(air') : g \in keep \/ (n = f.dst /\ SameAnt(f, g))
  <2>1. CASE n = f.dst /\ RouteOutput(n, T, f.ipSrc, keep, pkt)
    <3>1. pkt \in Frame /\ pkt.src = f.src /\ pkt.id = f.id
      BY <1>1 DEF Answer, Unicast, Frame
    <3> HIDE DEF T, keep, pkt
    <3>2. /\ Answers(keep) \subseteq Answers(air')
          /\ \A g \in Answers(air') : g \in keep \/ (pkt.kind = "B-ANT" /\ SameAnt(pkt, g))
      BY <1>1, <2>1, <3>1, RouteOutputAnswers
    <3> QED BY <2>1, <3>1, <3>2 DEF SameAnt
  <2>2. CASE air' \in Radio(n, keep, S)
    <3>1. keep \subseteq air' /\ air' \subseteq keep \cup S
      BY <2>2, RadioFrames
    <3>2. \A g \in S : g.kind = "F-ANT"
      BY DEF Broadcast, Unicast
    <3> HIDE DEF S, keep
    <3> QED BY <3>1, <3>2 DEF Answers
  <2> QED BY <2>1, <2>2 DEF RecvForwardAnt
<1> QED BY <1>1, <1>2, <1>3, <1>4, <1>5, <1>6 DEF TakenUp, Answers

LEMMA BackwardAntNoneTakenUp ==
    ASSUME NodeInv, AirInv, NEW f \in air, RecvBackwardAnt(f.to, f)
    PROVE  NoneTakenUp
<1> DEFINE n == f.to
           T == Reinforce(n, Purge(rtable[n], now), f.dst, f.ipSrc)
           keep == air \ {f}
           back == T[f.src].nextHop
           pkt == Unicast("B-ANT", n, back, f.src, f.dst, f.id)
<1>1. /\ n \in Nodes /\ f.src \in Nodes /\ f.dst \in Nodes /\ f.id \in Nat /\ f.kind = "B-ANT"
      /\ visited' = visited
  BY DEF RecvBackwardAnt, AirInv, GoodFrame, Frame
<1>2. HasValidRoute(T, f.src) => back \in Nodes
  BY BackwardHop
<1>3. \A g \in Answers(air') : g \in keep \/ SameAnt(f, g)
  <2>1. CASE HasValidRoute(T, f.src) /\ RouteOutput(n, T, back, keep, pkt)
    <3>1. pkt \in Frame /\ pkt.src = f.src /\ pkt.id = f.id /\ back \in Nodes
      BY <1>1, <1>2, <2>1 DEF Unicast, Frame
    <3> HIDE DEF T, keep, back, pkt
    <3>2. \A g \in Answers(air') : g \in keep \/ (pkt.kind = "B-ANT" /\ SameAnt(pkt, g))
      BY <1>1, <2>1, <3>1, RouteOutputAnswers
    <3> QED BY <3>1, <3>2 DEF SameAnt
  <2>2. CASE air' = keep
    BY <2>2 DEF Answers
  <2> QED BY <2>1, <2>2 DEF RecvBackwardAnt
<1> QED BY <1>1, <1>3 DEF NoneTakenUp, Answers, SameAnt

LEMMA StepAnts ==
    ASSUME NodeInv, AirInv, [Next]_vars
    PROVE  AntStep
<1>1. OneLaunched
  BY StepSearches DEF SearchStep, Idle, Wait, Launch, Timeout, OneLaunched
<1>2. visited' = visited /\ Answers(air') \subseteq Answers(air) => NoneTakenUp
  BY DEF NoneTakenUp, SameAnt
<1>3. ASSUME NEW n \in Requesters, NEW d \in Targets, AppSend(n, d) PROVE NoneTakenUp
  <2> DEFINE T == Purge(rtable[n], now)
             pkt == Unicast("DATA", n, d, n, d, sends)
  <2>1. /\ RouteOutput(n, T, d, air, pkt) /\ visited' = visited /\ n \in Nodes /\ d \in Nodes
        /\ pkt \in Frame /\ pkt.kind = "DATA"
    BY <1>3, TrafficAssumption DEF AppSend, Unicast, Frame, NodeInv
  <2> HIDE DEF T, pkt
  <2> QED BY <1>2, <2>1, RouteOutputAnswers DEF Answers
<1>4. ASSUME NEW f \in air, Receive(f.to, f) PROVE NoneTakenUp \/ TakenUp(f)
  <2>1. CASE DiscardAnt(f.to, f) \/ DeliverData(f.to, f)
    BY <1>2, <2>1 DEF DiscardAnt, DeliverData, Answers
  <2>2. CASE RecvForwardAnt(f.to, f)
    BY <2>2, ForwardAntTakenUp
  <2>3. CASE RecvBackwardAnt(f.to, f)
    BY <2>3, BackwardAntNoneTakenUp
  <2>4. CASE Forward(f.to, f)
    <3> DEFINE T == Purge(rtable[f.to], now)
               g == [f EXCEPT !.to = T[f.ipDst].nextHop]
    <3>1. air' \subseteq air \cup {g} /\ visited' = visited
      BY <2>4, RadioFrames DEF Forward
    <3>2. g.kind = f.kind /\ g.src = f.src /\ g.id = f.id
      BY DEF AirInv, GoodFrame, Frame
    <3> HIDE DEF g
    <3> QED BY <3>1, <3>2 DEF NoneTakenUp, Answers, SameAnt
  <2> QED BY <1>4, <2>1, <2>2, <2>3, <2>4 DEF Receive
<1>5. ASSUME NEW n \in Nodes, NEW d \in Nodes, RouteRequestTimerExpire(n, d) PROVE NoneTakenUp
  <2>1. CASE SendRequest(n, d, air)
    <3> DEFINE S == Broadcast(n, n, d, requestId[n] + 1)
    <3>1. air' \subseteq air \cup S
      BY <2>1, RadioFrames DEF SendRequest, NextRequestId
    <3>2. \A g \in S : g.kind = "F-ANT"
      BY DEF Broadcast, Unicast
    <3> HIDE DEF S
    <3> QED BY <1>2, <1>5, <3>1, <3>2 DEF RouteRequestTimerExpire, Answers
  <2> QED BY <1>2, <1>5, <2>1 DEF RouteRequestTimerExpire
<1>6. ASSUME (\E n \in Nodes : EvaporatePheromones(n)) \/ Tick \/ UNCHANGED vars
      PROVE  NoneTakenUp
  BY <1>2, <1>6 DEF EvaporatePheromones, Tick, vars
<1>7. ASSUME Next PROVE NoneTakenUp \/ \E f \in air : TakenUp(f)
  <2>1. CASE \E n \in Requesters, d \in Targets : n # d /\ AppSend(n, d)
    BY <1>3, <2>1
  <2>2. CASE \E f \in air : Receive(f.to, f)
    BY <1>4, <2>2
  <2>3. CASE \E n \in Nodes, d \in Nodes : RouteRequestTimerExpire(n, d)
    BY <1>5, <2>3
  <2> QED BY <1>6, <1>7, <2>1, <2>2, <2>3 DEF Next
<1>8. NoneTakenUp \/ \E f \in air : TakenUp(f)
  BY <1>6, <1>7
<1> QED BY <1>1, <1>8 DEF AntStep

-----------------------------------------------------------------------------
LEMMA VisitedLaunchedKept ==
    ASSUME NodeInv, VisitedLaunched, AntStep
    PROVE  VisitedLaunched'
<1>1. ants \subseteq ants'
  BY DEF AntStep, OneLaunched
<1>2. CASE NoneTakenUp
  BY <1>1, <1>2 DEF NoneTakenUp, VisitedLaunched
<1>3. ASSUME NEW f \in air, TakenUp(f) PROVE VisitedLaunched'
  BY <1>1, <1>3 DEF TakenUp, VisitedLaunched, NodeInv, SameAnt
<1> QED BY <1>2, <1>3 DEF AntStep

\* The step, seen from one ant.
LEMMA AntLivesOn ==
    ASSUME NodeInv, AirInv, VisitedLaunched, AntStep, NEW s \in Nodes, NEW i \in Nat
    PROVE  [Ant(s, i)!AntNext]_(Ant(s, i)!antVars)
<1> DEFINE Walking(A) == \E f \in A : f.kind = "B-ANT" /\ f.src = s /\ f.id = i
<1>1. \A n, d \in Nodes : LET a == NewAnt(n, d) IN
          /\ a.src = n /\ a.dst = d /\ a.id = requestId[n] + 1
          /\ \A b \in ants : ~(b.src = n /\ b.id = a.id)
  <2> SUFFICES ASSUME NEW n \in Nodes, NEW d \in Nodes, NEW b \in ants, b.src = n,
                      b.id = requestId[n] + 1
               PROVE  FALSE
    BY DEF NewAnt
  <2>1. b.id <= requestId[n] /\ b.id \in Nat /\ requestId[n] \in Nat
    BY DEF NodeInv, AntsNumbered, Ants
  <2> QED BY <2>1
<1>2. CASE Goals(s, i)' # Goals(s, i)
  <2>1. PICK n \in Nodes, d \in Nodes : ants' = ants \cup {NewAnt(n, d)}
    BY <1>2 DEF AntStep, OneLaunched, Goals
  <2>2. n = s /\ requestId[n] + 1 = i
    BY <1>1, <1>2, <2>1 DEF Goals
  <2>3. \A b \in ants : ~(b.src = s /\ b.id = i)
    BY <1>1, <2>2
  <2>4. Goals(s, i) = {} /\ Goals(s, i)' = {d}
    BY <1>1, <2>1, <2>2, <2>3 DEF Goals
  <2>5. \A m \in Nodes : <<s, i>> \notin visited[m]
    BY <2>3 DEF VisitedLaunched
  <2>6. \A m \in Nodes : <<s, i>> \notin visited'[m]
    <3>1. CASE NoneTakenUp
      BY <2>5, <3>1 DEF NoneTakenUp
    <3>2. ASSUME NEW f \in air, TakenUp(f), NEW m \in Nodes PROVE <<s, i>> \notin visited'[m]
      <4>1. <<f.src, f.id>> # <<s, i>>
        BY <2>3, <3>2 DEF TakenUp, SameAnt
      <4> QED BY <2>5, <3>2, <4>1 DEF TakenUp, NodeInv
    <3> QED BY <3>1, <3>2 DEF AntStep
  <2>7. /\ Reached(s, i) = {} /\ Reached(s, i)' = {}
        /\ AnswerState(s, i) = "none" /\ AnswerState(s, i)' = "none"
    BY <2>5, <2>6 DEF Reached, AnswerState
  <2>8. Ant(s, i)!LaunchAnt
    BY <2>4, <2>7 DEF Ant!LaunchAnt
  <2> QED BY <2>8 DEF Ant!AntNext
<1>3. CASE Goals(s, i)' = Goals(s, i) /\ NoneTakenUp
  <2>1. Reached(s, i)' = Reached(s, i)
    BY <1>3 DEF NoneTakenUp, Reached
  <2>2. Walking(air') => Walking(air)
    BY <1>3 DEF NoneTakenUp, Answers, SameAnt
  <2>3. \/ AnswerState(s, i)' = AnswerState(s, i)
        \/ AnswerState(s, i) = "walking" /\ AnswerState(s, i)' = "over"
    BY <1>3, <2>1, <2>2 DEF AnswerState
  <2> QED BY <1>3, <2>1, <2>3 DEF Ant!AntNext, Ant!EndWalk, Ant!antVars
<1>4. ASSUME Goals(s, i)' = Goals(s, i), NEW f \in air, TakenUp(f)
      PROVE  [Ant(s, i)!AntNext]_(Ant(s, i)!antVars)
  <2>1. Walking(air) => Walking(air')
    BY <1>4 DEF TakenUp, Answers
  <2>2. CASE f.src = s /\ f.id = i
    <3>1. Reached(s, i)' = Reached(s, i) \cup {f.to} /\ f.to \in Nodes /\ f.to \notin Reached(s, i)
      BY <1>4, <2>2 DEF TakenUp, Reached, NodeInv
    <3>2. PICK a \in ants : SameAnt(a, f) /\ a.dst = f.dst
      BY <1>4 DEF TakenUp
    <3>3. Goals(s, i) = {f.dst}
      BY <2>2, <3>2 DEF Goals, SameAnt, NodeInv, AntsNumbered
    <3>4. CASE f.to = f.dst
      <4>1. AnswerState(s, i) = "none" /\ AnswerState(s, i)' \in {"walking", "over"}
        BY <1>4, <3>1, <3>3, <3>4 DEF AnswerState
      <4>2. Ant(s, i)!Reach(f.to)
        BY <1>4, <3>1, <3>3, <3>4, <4>1 DEF Ant!Reach
      <4> QED BY <3>1, <4>2 DEF Ant!AntNext
    <3>5. CASE f.to # f.dst
      <4>1. Walking(air') => Walking(air)
        BY <1>4, <3>5 DEF TakenUp, Answers
      <4>2. AnswerState(s, i)' = AnswerState(s, i)
        BY <1>4, <2>1, <3>1, <3>3, <3>5, <4>1 DEF AnswerState
      <4>3. Ant(s, i)!Reach(f.to)
        BY <1>4, <3>1, <3>3, <3>5, <4>2 DEF Ant!Reach
      <4> QED BY <3>1, <4>3 DEF Ant!AntNext
    <3> QED BY <3>4, <3>5
  <2>3. CASE ~(f.src = s /\ f.id = i)
    <3>1. Reached(s, i)' = Reached(s, i)
      BY <1>4, <2>3 DEF TakenUp, Reached, NodeInv
    <3>2. Walking(air') => Walking(air)
      BY <1>4, <2>3 DEF TakenUp, Answers, SameAnt
    <3>3. AnswerState(s, i)' = AnswerState(s, i)
      BY <1>4, <2>1, <3>1, <3>2 DEF AnswerState
    <3> QED BY <1>4, <3>1, <3>3 DEF Ant!antVars
  <2> QED BY <2>2, <2>3
<1> QED BY <1>2, <1>3, <1>4 DEF AntStep

LEMMA VisitedLaunchedAlways == Spec => []VisitedLaunched
<1>1. Init => VisitedLaunched
  BY DEF Init, VisitedLaunched
<1>2. IndInv /\ VisitedLaunched /\ [Next]_vars => VisitedLaunched'
  BY Halves, StepAnts, VisitedLaunchedKept
<1> QED BY <1>1, <1>2, Invariance, PTL DEF Spec

\* Every ant of every node implements AntDiscovery: launched once, taken up once by each
\* node, answered once, by its goal (RecvAco's duplicate filter and SendRequest's numbers).
THEOREM AntsAreAnsweredOnce == Spec => AntsAnsweredOnce
<1> DEFINE LivesOn == \A s \in Nodes, i \in 1..MaxSends :
                          [Ant(s, i)!AntNext]_(Ant(s, i)!antVars)
<1>1. Init => \A s \in Nodes, i \in 1..MaxSends : Ant(s, i)!AntInit
  BY DEF Init, Ant!AntInit, Goals, Reached, AnswerState
<1>2. IndInv /\ VisitedLaunched /\ [Next]_vars => LivesOn
  <2>1. 1..MaxSends \subseteq Nat
    BY LimitAssumption
  <2> QED BY <2>1, Halves, StepAnts, AntLivesOn
<1>3. IndInv /\ VisitedLaunched /\ [Next]_vars => [LivesOn]_vars
  BY <1>2
<1>4. AntsAnsweredOnce <=>
          (\A s \in Nodes, i \in 1..MaxSends : Ant(s, i)!AntInit) /\ [][LivesOn]_vars
  BY DEF AntsAnsweredOnce
<1> QED BY <1>1, <1>3, <1>4, Invariance, VisitedLaunchedAlways, PTL DEF Spec
=============================================================================
