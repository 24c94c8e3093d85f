--------------------------- MODULE AcoTableProofs ----------------------------
(***************************************************************************)
(* Proofs about AcoTable, for any destinations, interfaces, lifetimes and  *)
(* any number of calls.                                                    *)
(*                                                                         *)
(* Everything rests on one fact, Filed: an entry of the table is under the *)
(* destination that its Ipv4Route names.  Two keys then cannot share a     *)
(* route, and the only entry a setter of the caller's copy can reach is    *)
(* that of the copy's own destination.                                     *)
(***************************************************************************)
EXTENDS AcoTable, TLAPS

Filed == \A d \in Nodes : HasRoute(table, d) => GetDestination(table[d]) = d

TableInv == TableTypeOK /\ Filed /\ AnswersFresh

-----------------------------------------------------------------------------
\* What the operators of AcoRTable do with such entries.

LEMMA AbsentIsNoEntry == Absent \notin Entry
BY DEF Absent, Entry, RouteFlags

\* An entry may change anything but its route.
SameRoute(e, f) == e.route = f.route /\ e \in Entry /\ f \in Entry

LEMMA Invalidated ==
    ASSUME NEW e \in Entry, NEW t \in Nat
    PROVE  SameRoute(e, Invalidate(e, t))
<1>1. CASE e.flag = "INVALID"
  BY <1>1 DEF SameRoute, Invalidate
<1>2. CASE e.flag # "INVALID"
  <2>1. "INVALID" \in RouteFlags /\ t + BadLinkLifetime \in Nat /\ 0 \in 0..1
    BY BadLinkLifetimeAssumption DEF RouteFlags
  <2>2. Invalidate(e, t) = [e EXCEPT !.flag = "INVALID", !.reqCount = 0,
                                     !.lifeTime = t + BadLinkLifetime, !.pheromone = 0]
    BY <1>2 DEF Invalidate
  <2>3. Invalidate(e, t) \in Entry
    BY <2>1, <2>2 DEF Entry
  <2> QED BY <2>2, <2>3 DEF SameRoute, Entry
<1> QED BY <1>1, <1>2

\* What a purge leaves is an old entry, or that entry invalidated, and has time to live.
LEMMA PurgedEntry ==
    ASSUME NEW e \in Entry, NEW t \in Nat, PurgeEntry(e, t) # Absent
    PROVE  SameRoute(e, PurgeEntry(e, t)) /\ PurgeEntry(e, t).lifeTime >= t
<1>1. e # Absent
  BY AbsentIsNoEntry
<1>2. CASE e.lifeTime >= t
  BY <1>1, <1>2 DEF PurgeEntry, SameRoute
<1>3. CASE ~(e.lifeTime >= t)
  <2>1. e.flag # "INVALID" /\ PurgeEntry(e, t) = Invalidate(e, t)
    BY <1>1, <1>3 DEF PurgeEntry
  <2>2. Invalidate(e, t).lifeTime = t + BadLinkLifetime
    BY <2>1 DEF Invalidate, Entry
  <2> QED BY <2>1, <2>2, Invalidated, BadLinkLifetimeAssumption
<1> QED BY <1>2, <1>3

\* T keeps, for each key, an entry with the route it had.
Keeps(T) ==
    /\ T \in [Nodes -> Entry \cup {Absent}]
    /\ \A d \in Nodes : HasRoute(T, d) => HasRoute(table, d) /\ SameRoute(table[d], T[d])

LEMMA PurgeKeeps ==
    ASSUME TableTypeOK
    PROVE  /\ Keeps(Purge(table, now))
           /\ \A d \in Nodes : HasRoute(Purge(table, now), d) =>
                Purge(table, now)[d] \in Entry /\ Purge(table, now)[d].lifeTime >= now
<1> DEFINE T == Purge(table, now)
<1>1. now \in Nat
  BY AcoTableAssumption DEF TableTypeOK
<1>2. ASSUME NEW d \in Nodes, T[d] # Absent
      PROVE  /\ HasRoute(table, d) /\ SameRoute(table[d], T[d])
             /\ T[d] \in Entry /\ T[d].lifeTime >= now
  <2>1. T[d] = PurgeEntry(table[d], now)
    BY DEF Purge
  <2>2. table[d] # Absent
    BY <1>2, <2>1 DEF PurgeEntry
  <2>3. table[d] \in Entry
    BY <2>2 DEF TableTypeOK
  <2> QED BY <1>1, <1>2, <2>1, <2>2, <2>3, PurgedEntry DEF HasRoute, SameRoute
<1>3. T \in [Nodes -> Entry \cup {Absent}]
  BY <1>2 DEF Purge
<1> QED BY <1>2, <1>3 DEF Keeps, HasRoute

\* Tables that keep routes stay filed as long as the heap stays.
LEMMA KeepsFiled ==
    ASSUME Filed, NEW T, Keeps(T), table' = T, heap' = heap
    PROVE  Filed'
BY DEF Filed, Keeps, SameRoute, HasRoute, GetDestination

\* An entry is put under the destination of its own route, or not at all.
LEMMA PutFiled ==
    ASSUME Filed, NEW T, Keeps(T), NEW e \in Entry, GetDestination(e) \in Nodes,
           table' = T \/ table' = [T EXCEPT ![GetDestination(e)] = e], heap' = heap
    PROVE  Filed' /\ table' \in [Nodes -> Entry \cup {Absent}]
<1>1. CASE table' = T
  BY <1>1, KeepsFiled DEF Keeps
<1>2. CASE table' = [T EXCEPT ![GetDestination(e)] = e]
  <2>1. table' \in [Nodes -> Entry \cup {Absent}]
    BY <1>2 DEF Keeps
  <2>2. ASSUME NEW d \in Nodes, HasRoute(table', d)
        PROVE  heap'[table'[d].route].destination = d
    <3>1. CASE d = GetDestination(e)
      BY <1>2, <3>1 DEF Keeps, GetDestination
    <3>2. CASE d # GetDestination(e)
      BY <1>2, <2>2, <3>2 DEF Keeps, SameRoute, HasRoute, Filed, GetDestination
    <3> QED BY <3>1, <3>2
  <2>3. Filed'
    BY <2>2 DEF Filed, HasRoute, GetDestination
  <2> QED BY <2>1, <2>3
<1> QED BY <1>1, <1>2

-----------------------------------------------------------------------------
\* What a call has to show.
LEMMA CallKeeps ==
    ASSUME TableInv, Call, Filed', AnswersFresh',
           table' \in [Nodes -> Entry \cup {Absent}], heap' \in [Routes -> Ipv4Route],
           rt' \in Entry, unreachable' \subseteq Nodes, answer' \in BOOLEAN
    PROVE  TableInv'
<1>1. now' \in 0..MaxTime /\ calls' \in 0..MaxCalls
  BY AcoTableAssumption DEF TableInv, TableTypeOK, Call
<1> QED BY <1>1 DEF TableInv, TableTypeOK

LEMMA SilentKeeps ==
    ASSUME TableInv, Silent, Filed',
           table' \in [Nodes -> Entry \cup {Absent}], heap' \in [Routes -> Ipv4Route],
           rt' \in Entry, unreachable' \subseteq Nodes
    PROVE  TableInv'
BY CallKeeps DEF Silent, AnswersFresh

\* The setters of the caller's copy leave table and heap alone, but for the next hop.
LEMMA AssignKeeps ==
    ASSUME TableInv, NEW e \in Entry, Assign(e)
    PROVE  TableInv'
<1>1. Filed'
  BY DEF TableInv, Filed, Assign, HasRoute, GetDestination
<1> QED BY <1>1, SilentKeeps DEF TableInv, TableTypeOK, Assign

LEMMA SetterKeeps ==
    ASSUME TableInv, Setter
    PROVE  TableInv'
<1> USE DEF TableInv
<1>0. now \in Nat /\ rt \in Entry
  BY AcoTableAssumption DEF TableTypeOK
<1>1. ASSUME NEW n \in Nodes, SetNextHop(n) PROVE TableInv'
  <2>1. heap' \in [Routes -> Ipv4Route] /\ \A r \in Routes : heap'[r].destination = heap[r].destination
    BY <1>0, <1>1 DEF SetNextHop, TableTypeOK, Ipv4Route, Entry
  <2>2. Filed'
    BY <1>1, <2>1 DEF SetNextHop, Filed, HasRoute, GetDestination, TableTypeOK, Entry
  <2> QED BY <1>1, <2>1, <2>2, SilentKeeps DEF SetNextHop, TableTypeOK
<1>2. ASSUME NEW l \in Lifetimes, SetLifeTime(l) PROVE TableInv'
  <2>1. now + l \in Nat
    BY <1>0, AcoTableAssumption
  <2>2. [rt EXCEPT !.lifeTime = now + l] \in Entry
    BY <1>0, <2>1 DEF Entry
  <2> QED BY <1>2, <2>2, AssignKeeps DEF SetLifeTime
<1>3. ASSUME NEW f \in RouteFlags, SetFlag(f) PROVE TableInv'
  <2>1. [rt EXCEPT !.flag = f] \in Entry
    BY <1>0 DEF Entry
  <2> QED BY <1>3, <2>1, AssignKeeps DEF SetFlag
<1>4. CASE IncrementRreqCnt
  <2>1. [rt EXCEPT !.reqCount = 1] \in Entry
    BY <1>0 DEF Entry
  <2> QED BY <1>4, <2>1, AssignKeeps DEF IncrementRreqCnt
<1>5. CASE InvalidateEntry
  BY <1>0, <1>5, Invalidated, AssignKeeps DEF InvalidateEntry, SameRoute
<1>6. CASE DeleteAllPrecursors
  <2>1. [rt EXCEPT !.precursors = {}] \in Entry
    BY <1>0 DEF Entry
  <2> QED BY <1>6, <2>1, AssignKeeps DEF DeleteAllPrecursors
<1>7. ASSUME NEW p \in Nodes, InsertPrecursor(p) \/ DeletePrecursor(p) PROVE TableInv'
  <2>1. rt.precursors \cup {p} \in SUBSET Nodes /\ rt.precursors \ {p} \in SUBSET Nodes
    BY <1>0 DEF Entry
  <2>2. /\ [rt EXCEPT !.precursors = @ \cup {p}] \in Entry
        /\ [rt EXCEPT !.precursors = @ \ {p}] \in Entry
    BY <1>0, <2>1 DEF Entry
  <2> QED BY <1>7, <2>2, AssignKeeps DEF InsertPrecursor, DeletePrecursor
<1>8. ASSUME NEW k \in 0..1, SetRreqCnt(k) \/ SetPheromone(k) PROVE TableInv'
  <2>1. [rt EXCEPT !.reqCount = k] \in Entry /\ [rt EXCEPT !.pheromone = k] \in Entry
    BY <1>0 DEF Entry
  <2> QED BY <1>8, <2>1, AssignKeeps DEF SetRreqCnt, SetPheromone
<1>9. ASSUME NEW i \in Interfaces, SetInterface(i) PROVE TableInv'
  <2>1. [rt EXCEPT !.iface = i] \in Entry
    BY <1>0 DEF Entry
  <2> QED BY <1>9, <2>1, AssignKeeps DEF SetInterface
<1>10. ASSUME NEW u \in BOOLEAN, SetUnidirectional(u) PROVE TableInv'
  <2>1. [rt EXCEPT !.unidirectional = u] \in Entry
    BY <1>0 DEF Entry
  <2> QED BY <1>10, <2>1, AssignKeeps DEF SetUnidirectional
<1> QED BY <1>1, <1>2, <1>3, <1>4, <1>5, <1>6, <1>7, <1>8, <1>9, <1>10 DEF Setter

\* A copy out of the list of all routes is an entry.
LEMMA AllRoutesKeep ==
    ASSUME TableInv, NEW d \in Nodes, GetAllRoutes(d)
    PROVE  TableInv'
<1>1. table[d] \in Entry
  BY DEF GetAllRoutes, HasRoute, TableInv, TableTypeOK
<1> QED BY <1>1, AssignKeeps DEF GetAllRoutes

\* A fresh route object is in nobody's entry but the caller's.
LEMMA MakeEntryKeeps ==
    ASSUME TableInv, NEW d \in Nodes, NEW n \in Nodes, NEW i \in Interfaces,
           NEW l \in Lifetimes, MakeEntry(d, n, i, l)
    PROVE  TableInv'
<1> USE DEF TableInv
<1>0. now \in Nat /\ now + l \in Nat
  BY AcoTableAssumption DEF TableTypeOK
<1> PICK r \in Routes :
      /\ ~InTable(r)
      /\ rt' = Blank(r, i, l)
      /\ heap' = [heap EXCEPT ![r] = [destination |-> d, gateway |-> n]]
  BY DEF MakeEntry
<1>1. rt' \in Entry
  BY <1>0 DEF Blank, Entry, RouteFlags
<1>2. heap' \in [Routes -> Ipv4Route]
  BY DEF TableTypeOK, Ipv4Route
<1>3. Filed'
  BY DEF MakeEntry, Filed, HasRoute, GetDestination, InTable, TableTypeOK, Entry
<1> QED BY <1>1, <1>2, <1>3, SilentKeeps DEF MakeEntry, TableTypeOK

-----------------------------------------------------------------------------
\* The methods of the table.

\* Those that keep entries under their keys, with their routes.
LEMMA KeepingKeeps ==
    ASSUME TableInv, Silent, NEW T, Keeps(T), table' = T, heap' = heap, rt' = rt,
           unreachable' \subseteq Nodes
    PROVE  TableInv'
BY KeepsFiled, SilentKeeps DEF TableInv, TableTypeOK, Keeps

LEMMA LookupKeeps ==
    ASSUME TableInv, NEW d \in Nodes, LookupRoute(d) \/ LookupValidRoute(d)
    PROVE  TableInv'
<1> DEFINE T == Purge(table, now)
<1>1. /\ Call /\ table' = T /\ heap' = heap /\ unreachable' = unreachable
      /\ rt' = IF HasRoute(T, d) THEN T[d] ELSE rt
      /\ answer' \in BOOLEAN /\ (answer' => HasRoute(T, d))
  BY DEF LookupRoute, LookupValidRoute, Lookup, HasValidRoute, HasRoute
<1>2. Keeps(T) /\ (HasRoute(T, d) => T[d] \in Entry /\ T[d].lifeTime >= now)
  BY PurgeKeeps DEF TableInv
<1> HIDE DEF T
<1>3. Filed'
  BY <1>1, <1>2, KeepsFiled DEF TableInv
<1>4. AnswersFresh'
  BY <1>1, <1>2 DEF AnswersFresh, Call
<1> QED BY <1>1, <1>2, <1>3, <1>4, CallKeeps DEF TableInv, TableTypeOK, Keeps

LEMMA DeleteKeeps ==
    ASSUME TableInv, NEW d \in Nodes, DeleteRtEntry(d)
    PROVE  TableInv'
<1> DEFINE T == Purge(table, now)
<1>1. Keeps(T)
  BY PurgeKeeps DEF TableInv
<1>2. table' = DeleteRoute(T, d)
  BY DEF DeleteRtEntry
<1> HIDE DEF T
<1>3. Keeps(DeleteRoute(T, d))
  BY <1>1 DEF Keeps, DeleteRoute, HasRoute
<1> QED BY <1>2, <1>3, KeepingKeeps DEF DeleteRtEntry, TableInv, TableTypeOK

LEMMA AddKeeps ==
    ASSUME TableInv, AddRtEntry
    PROVE  TableInv'
<1> DEFINE T == Purge(table, now)
           d == GetDestination(rt)
<1>1. Keeps(T)
  BY PurgeKeeps DEF TableInv
<1>2. rt' \in Entry /\ rt'.route = rt.route
  BY DEF AddRtEntry, TableInv, TableTypeOK, Entry
<1>3. GetDestination(rt') = d /\ d \in Nodes
  BY <1>2 DEF GetDestination, TableInv, TableTypeOK, Entry, Ipv4Route
<1>4. table' = T \/ table' = [T EXCEPT ![d] = rt']
  BY DEF AddRtEntry, AddRoute
<1> HIDE DEF T, d
<1>5. Filed' /\ table' \in [Nodes -> Entry \cup {Absent}]
  BY <1>1, <1>2, <1>3, <1>4, PutFiled DEF AddRtEntry, TableInv
<1> QED BY <1>2, <1>5, SilentKeeps DEF AddRtEntry, TableInv, TableTypeOK

LEMMA UpdateKeeps ==
    ASSUME TableInv, UpdateRtEntry
    PROVE  TableInv'
<1> DEFINE d == GetDestination(rt)
<1>1. Keeps(table)
  BY DEF Keeps, SameRoute, TableInv, TableTypeOK, HasRoute
<1>2. rt \in Entry /\ d \in Nodes
  BY DEF GetDestination, TableInv, TableTypeOK, Entry, Ipv4Route
<1>3. table' = table \/ table' = [table EXCEPT ![d] = rt]
  BY DEF UpdateRtEntry, Update
<1>4. Filed' /\ table' \in [Nodes -> Entry \cup {Absent}]
  BY <1>1, <1>2, <1>3, PutFiled DEF UpdateRtEntry, TableInv
<1> QED BY <1>4, SilentKeeps DEF UpdateRtEntry, TableInv, TableTypeOK

LEMMA MarkKeeps ==
    ASSUME TableInv, NEW d \in Nodes,
           MarkLinkAsUnidirectional(d) \/ \E f \in RouteFlags : SetEntryState(d, f)
    PROVE  TableInv'
<1>1. table[d] \in Entry
  BY DEF MarkLinkAsUnidirectional, SetEntryState, HasRoute, TableInv, TableTypeOK
<1>2. PICK e \in Entry : e.route = table[d].route /\ table' = [table EXCEPT ![d] = e]
  <2>1. CASE MarkLinkAsUnidirectional(d)
    <3>1. [table[d] EXCEPT !.unidirectional = TRUE] \in Entry
      BY <1>1 DEF Entry
    <3> QED BY <1>1, <2>1, <3>1 DEF MarkLinkAsUnidirectional, Entry
  <2>2. ASSUME NEW f \in RouteFlags, SetEntryState(d, f)
        PROVE  \E e \in Entry : e.route = table[d].route /\ table' = [table EXCEPT ![d] = e]
    <3>1. [table[d] EXCEPT !.flag = f] \in Entry
      BY <1>1 DEF Entry
    <3> QED BY <1>1, <2>2, <3>1 DEF SetEntryState, Entry
  <2> QED BY <2>1, <2>2
<1>3. Keeps(table')
  BY <1>1, <1>2, AbsentIsNoEntry DEF Keeps, SameRoute, HasRoute, TableInv, TableTypeOK
<1> QED BY <1>3, KeepingKeeps
        DEF MarkLinkAsUnidirectional, SetEntryState, TableInv, TableTypeOK

LEMMA ListKeeps ==
    ASSUME TableInv, NEW n \in Nodes, GetListOfDestinationWithNextHop(n)
    PROVE  TableInv'
BY PurgeKeeps, KeepingKeeps DEF GetListOfDestinationWithNextHop, TableInv

LEMMA InvalidateKeeps ==
    ASSUME TableInv, InvalidateRoutesWithDst
    PROVE  TableInv'
<1> DEFINE T == Purge(table, now)
<1>1. Keeps(T) /\ now \in Nat
  BY PurgeKeeps, AcoTableAssumption DEF TableInv, TableTypeOK
<1>2. table' = [d \in Nodes |-> IF d \in unreachable /\ HasValidRoute(T, d)
                                THEN Invalidate(T[d], now) ELSE T[d]]
  BY DEF InvalidateRoutesWithDst
<1> HIDE DEF T
<1>3. ASSUME NEW d \in Nodes, HasRoute(T, d) PROVE SameRoute(T[d], Invalidate(T[d], now))
  BY <1>1, <1>3, Invalidated DEF Keeps, HasRoute
<1>4. ASSUME NEW d \in Nodes
      PROVE  /\ table'[d] \in Entry \cup {Absent}
             /\ HasRoute(table', d) => HasRoute(table, d) /\ SameRoute(table[d], table'[d])
  <2>1. CASE d \in unreachable /\ HasValidRoute(T, d)
    BY <1>1, <1>2, <1>3, <2>1 DEF Keeps, HasRoute, HasValidRoute, SameRoute
  <2>2. CASE ~(d \in unreachable /\ HasValidRoute(T, d))
    BY <1>1, <1>2, <2>2 DEF Keeps, HasRoute
  <2> QED BY <2>1, <2>2
<1>5. Keeps(table')
  BY <1>2, <1>4 DEF Keeps
<1> QED BY <1>5, KeepingKeeps DEF InvalidateRoutesWithDst, TableInv, TableTypeOK

LEMMA InterfaceKeeps ==
    ASSUME TableInv, NEW i \in Interfaces, DeleteAllRoutesFromInterface(i)
    PROVE  TableInv'
<1>1. Keeps(table')
  BY DEF DeleteAllRoutesFromInterface, Keeps, SameRoute, HasRoute, TableInv, TableTypeOK
<1> QED BY <1>1, KeepingKeeps DEF DeleteAllRoutesFromInterface, TableInv, TableTypeOK

LEMMA ClearKeeps ==
    ASSUME TableInv, Clear
    PROVE  TableInv'
<1>1. Keeps(table')
  BY DEF Clear, EmptyTable, Keeps, HasRoute
<1> QED BY <1>1, KeepingKeeps DEF Clear, TableInv, TableTypeOK

LEMMA TickKeeps ==
    ASSUME TableInv, TableTick \/ UNCHANGED tableVars
    PROVE  TableInv'
<1>1. CASE TableTick
  <2>1. now' \in 0..MaxTime
    BY <1>1, AcoTableAssumption DEF TableTick, TableInv, TableTypeOK
  <2> QED BY <1>1, <2>1
          DEF TableTick, TableInv, TableTypeOK, Filed, HasRoute, GetDestination, AnswersFresh
<1>2. CASE UNCHANGED tableVars
  BY <1>2 DEF tableVars, TableInv, TableTypeOK, Filed, HasRoute, GetDestination, AnswersFresh
<1> QED BY <1>1, <1>2

-----------------------------------------------------------------------------
LEMMA TableStarts == TableInit => TableInv
<1> SUFFICES ASSUME TableInit PROVE TableInv
  OBVIOUS
<1>1. \A d \in Nodes : ~HasRoute(table, d)
  BY DEF TableInit, EmptyTable, HasRoute
<1>2. rt \in Entry
  <2> PICK r \in Routes, i \in Interfaces : rt = [Blank(r, i, 0) EXCEPT !.lifeTime = 0]
    BY DEF TableInit
  <2>1. now = 0
    BY DEF TableInit
  <2>2. Blank(r, i, 0) \in Entry
    BY <2>1 DEF Blank, Entry, RouteFlags
  <2> HIDE DEF Blank
  <2> QED BY <2>2 DEF Entry
<1>3. now \in 0..MaxTime /\ calls \in 0..MaxCalls /\ table \in [Nodes -> Entry \cup {Absent}]
  BY AcoTableAssumption DEF TableInit, EmptyTable
<1>4. heap \in [Routes -> Ipv4Route] /\ unreachable \subseteq Nodes /\ answer \in BOOLEAN
  BY DEF TableInit
<1>5. TableTypeOK
  BY <1>2, <1>3, <1>4 DEF TableTypeOK
<1> QED BY <1>1, <1>5 DEF TableInv, Filed, AnswersFresh, TableInit

LEMMA TableSteps == TableInv /\ [TableNext]_tableVars => TableInv'
<1> SUFFICES ASSUME TableInv, [TableNext]_tableVars PROVE TableInv'
  OBVIOUS
<1>1. ASSUME NEW d \in Nodes, NEW n \in Nodes, NEW i \in Interfaces, NEW l \in Lifetimes,
             MakeEntry(d, n, i, l)
      PROVE  TableInv'
  BY <1>1, MakeEntryKeeps
<1>2. CASE Setter
  BY <1>2, SetterKeeps
<1>3. ASSUME NEW d \in Nodes, LookupRoute(d) \/ LookupValidRoute(d) PROVE TableInv'
  BY <1>3, LookupKeeps
<1>4. ASSUME NEW d \in Nodes, DeleteRtEntry(d) PROVE TableInv'
  BY <1>4, DeleteKeeps
<1>5. ASSUME NEW d \in Nodes,
             MarkLinkAsUnidirectional(d) \/ \E f \in RouteFlags : SetEntryState(d, f)
      PROVE  TableInv'
  BY <1>5, MarkKeeps
<1>6. ASSUME NEW d \in Nodes, GetListOfDestinationWithNextHop(d) PROVE TableInv'
  BY <1>6, ListKeeps
<1>7. CASE AddRtEntry
  BY <1>7, AddKeeps
<1>8. CASE UpdateRtEntry
  BY <1>8, UpdateKeeps
<1>9. CASE InvalidateRoutesWithDst
  BY <1>9, InvalidateKeeps
<1>10. CASE Clear
  BY <1>10, ClearKeeps
<1>11. ASSUME NEW i \in Interfaces, DeleteAllRoutesFromInterface(i) PROVE TableInv'
  BY <1>11, InterfaceKeeps
<1>12. CASE TableTick \/ UNCHANGED tableVars
  BY <1>12, TickKeeps
<1>13. ASSUME NEW d \in Nodes, GetAllRoutes(d) PROVE TableInv'
  BY <1>13, AllRoutesKeep
<1> QED BY <1>1, <1>2, <1>3, <1>4, <1>5, <1>6, <1>7, <1>8, <1>9, <1>10, <1>11, <1>12, <1>13
        DEF TableNext

\* The invariant of the table (its types, Filed and AnswersFresh) holds after any
\* sequence of calls.
THEOREM TableInvariance == TableSpec => []TableInv
BY TableStarts, TableSteps, PTL DEF TableSpec

\* Types, for every method and setter.
THEOREM TableTypeCorrect == TableSpec => []TableTypeOK
<1>1. TableInv => TableTypeOK
  BY DEF TableInv
<1> QED BY <1>1, TableInvariance, PTL

\* No two destinations share a route, and each entry's route is its own
\* (RoutingTable::AddRoute, Update; RoutingTableEntry::SetNextHop).
THEOREM RoutesAreTheirOwn == TableSpec => []RoutesOfTheirOwn
<1>1. TableInv => RoutesOfTheirOwn
  BY DEF TableInv, Filed, RoutesOfTheirOwn, GetDestination
<1> QED BY <1>1, TableInvariance, PTL

\* No lookup hands out an entry that is past its time (RoutingTable::LookupRoute).
THEOREM AnswersAreFresh == TableSpec => []AnswersFresh
<1>1. TableInv => AnswersFresh
  BY DEF TableInv
<1> QED BY <1>1, TableInvariance, PTL

\* A copy in the caller's hand reaches the table through the next hop of its own
\* destination only (RoutingTableEntry::SetNextHop, its constructor).
THEOREM CopiesAreConfined == TableSpec => CopiesConfined
<1> DEFINE A == table' = table =>
         \A d \in Nodes : HasRoute(table, d) /\ GetNextHop(table[d]) # GetNextHop(table[d])' =>
           d = GetDestination(rt)
<1>1. TableInv /\ [TableNext]_tableVars => [A]_tableVars
  <2> SUFFICES ASSUME TableInv, TableNext, table' = table,
                      NEW d \in Nodes, HasRoute(table, d),
                      heap[table[d].route].gateway # heap'[table'[d].route].gateway
               PROVE  d = GetDestination(rt)
    BY DEF GetNextHop
  <2>0. heap # heap' /\ table[d].route \in Routes
    BY DEF TableInv, TableTypeOK, HasRoute, Entry
  <2>1. \/ \E n \in Nodes : SetNextHop(n)
        \/ \E e, n \in Nodes, i \in Interfaces, l \in Lifetimes : MakeEntry(e, n, i, l)
    BY <2>0 DEF TableNext, Setter, Assign, SetLifeTime, SetFlag, IncrementRreqCnt,
       SetRreqCnt, SetPheromone, SetInterface, SetUnidirectional, GetAllRoutes,
       InvalidateEntry, InsertPrecursor, DeletePrecursor, DeleteAllPrecursors, Lookup,
       LookupRoute, LookupValidRoute, AddRtEntry, DeleteRtEntry, UpdateRtEntry,
       SetEntryState, GetListOfDestinationWithNextHop, InvalidateRoutesWithDst,
       DeleteAllRoutesFromInterface, Clear, MarkLinkAsUnidirectional, TableTick
  <2>2. ASSUME NEW n \in Nodes, SetNextHop(n) PROVE d = GetDestination(rt)
    <3>1. table[d].route = rt.route
      BY <2>0, <2>2 DEF SetNextHop, TableInv, TableTypeOK
    <3> QED BY <3>1 DEF TableInv, Filed, GetDestination
  <2>3. ASSUME NEW e \in Nodes, NEW n \in Nodes, NEW i \in Interfaces, NEW l \in Lifetimes,
               MakeEntry(e, n, i, l)
        PROVE  FALSE
    BY <2>0, <2>3 DEF MakeEntry, InTable, TableInv, TableTypeOK
  <2> QED BY <2>1, <2>2, <2>3
<1>2. TableSpec => [][A]_tableVars
  BY <1>1, TableInvariance, PTL DEF TableSpec
<1> QED BY <1>2 DEF CopiesConfined
=============================================================================
