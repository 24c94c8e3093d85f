------------------------------ MODULE AcoTable -------------------------------
(***************************************************************************)
(* The class RoutingTable (src/aco/model/aco-rtable.{h,cc}) under any      *)
(* sequence of calls, the ones only the AODV ancestor made included.       *)
(* AcoRTable gives the operations on a table value; here the entry that    *)
(* the caller holds is a copy of the one in the map that shares its        *)
(* Ipv4Route, so that a setter of the copy reaches into the table.  Left   *)
(* out are the sequence number, hop count, stagnation and timers of an     *)
(* entry with their setters, and SetRoute, SetOutputDevice and             *)
(* SetBadLinkLifetime, which nothing calls: m_badLinkLifetime is what the  *)
(* constructor was given.                                                  *)
(***************************************************************************)
EXTENDS AcoRTable, FiniteSets

CONSTANTS
    Interfaces,    \* the interfaces that routes leave by
    Lifetimes,     \* the lifetimes that entries are made with and given
    Routes,        \* the Ipv4Route objects of the heap
    MaxTime,       \* bound: the last instant
    MaxCalls       \* bound: the calls made

ASSUME AcoTableAssumption ==
    /\ Lifetimes \subseteq Nat /\ MaxTime \in Nat /\ MaxCalls \in Nat
    /\ IsFiniteSet(Routes) /\ Cardinality(Routes) > Cardinality(Nodes)

VARIABLES
    now,           \* Simulator::Now()
    table,         \* m_ipv4AddressEntry
    heap,          \* the Ipv4Route objects that entries point to
    rt,            \* the RoutingTableEntry of the caller
    unreachable,   \* the caller's list of destinations behind a broken link
    answer,        \* TRUE when the last call was a lookup that found a route
    calls

tableVars == <<now, table, heap, rt, unreachable, answer, calls>>

Entry ==
    [flag : RouteFlags, lifeTime : Nat, pheromone : 0..1, reqCount : 0..1, route : Routes,
     iface : Interfaces, precursors : SUBSET Nodes, unidirectional : BOOLEAN]

Ipv4Route == [destination : Nodes, gateway : Nodes]

TableTypeOK ==
    /\ now \in 0..MaxTime /\ calls \in 0..MaxCalls
    /\ table \in [Nodes -> Entry \cup {Absent}]
    /\ heap \in [Routes -> Ipv4Route]
    /\ rt \in Entry
    /\ unreachable \subseteq Nodes
    /\ answer \in BOOLEAN

GetDestination(e) == heap[e.route].destination

GetNextHop(e) == heap[e.route].gateway

Call ==
    /\ calls < MaxCalls /\ calls' = calls + 1
    /\ now' = now

\* Every call that looks nothing up for the caller.
Silent == Call /\ answer' = FALSE

Blank(r, i, lifetime) ==
    [flag |-> "VALID", lifeTime |-> now + lifetime, pheromone |-> 1, reqCount |-> 0,
     route |-> r, iface |-> i, precursors |-> {}, unidirectional |-> FALSE]

InTable(r) == \E d \in Nodes : HasRoute(table, d) /\ table[d].route = r

TableInit ==
    /\ now = 0 /\ calls = 0
    /\ table = EmptyTable
    /\ heap \in [Routes -> Ipv4Route]
    /\ \A r, s \in Routes : heap[r] = heap[s]
    /\ \E r \in Routes, i \in Interfaces :
         rt = [Blank(r, i, 0) EXCEPT !.lifeTime = 0]
    /\ unreachable = {} /\ answer = FALSE

-----------------------------------------------------------------------------
\* What the caller does to its own entry.

\* The constructor makes a route of its own.  (Mutant: it writes into the old one.)
RefillEntry(d, n, i, lifetime) ==
    /\ Silent
    /\ rt' = Blank(rt.route, i, lifetime)
    /\ heap' = [heap EXCEPT ![rt.route] = [destination |-> d, gateway |-> n]]
    /\ UNCHANGED <<table, unreachable>>

MakeEntry(d, n, i, lifetime) ==
    /\ Silent
    /\ \E r \in Routes :
         /\ ~InTable(r)
         /\ rt' = Blank(r, i, lifetime)
         /\ heap' = [heap EXCEPT ![r] = [destination |-> d, gateway |-> n]]
    /\ UNCHANGED <<table, unreachable>>

SetNextHop(n) ==
    /\ Silent
    /\ heap' = [heap EXCEPT ![rt.route].gateway = n]
    /\ UNCHANGED <<table, rt, unreachable>>

Assign(e) == Silent /\ rt' = e /\ UNCHANGED <<table, heap, unreachable>>

SetLifeTime(lifetime) == Assign([rt EXCEPT !.lifeTime = now + lifetime])

SetFlag(flag) == Assign([rt EXCEPT !.flag = flag])

IncrementRreqCnt == rt.reqCount < 1 /\ Assign([rt EXCEPT !.reqCount = 1])

SetRreqCnt(k) == Assign([rt EXCEPT !.reqCount = k])

SetPheromone(p) == Assign([rt EXCEPT !.pheromone = p])

SetInterface(i) == Assign([rt EXCEPT !.iface = i])

SetUnidirectional(u) == Assign([rt EXCEPT !.unidirectional = u])

InvalidateEntry == Assign(Invalidate(rt, now))

InsertPrecursor(p) == Assign([rt EXCEPT !.precursors = @ \cup {p}])

DeletePrecursor(p) == Assign([rt EXCEPT !.precursors = @ \ {p}])

DeleteAllPrecursors == Assign([rt EXCEPT !.precursors = {}])

-----------------------------------------------------------------------------
\* What the table does.

\* (Mutant: the table is purged only when the key is missing.)
LookupUnpurged(d) ==
    /\ Call
    /\ table' = IF HasRoute(table, d) THEN table ELSE Purge(table, now)
    /\ rt' = IF HasRoute(table', d) THEN table'[d] ELSE rt
    /\ UNCHANGED <<heap, unreachable>>

\* (Mutant: what is not found is handed out as well.)
LookupUnchecked(d) ==
    /\ Call
    /\ table' = Purge(table, now)
    /\ rt' = table'[d]
    /\ UNCHANGED <<heap, unreachable>>

\* The caller's entry is overwritten whenever there is one, valid or not.
Lookup(d) ==
    /\ Call
    /\ table' = Purge(table, now)
    /\ rt' = IF HasRoute(table', d) THEN table'[d] ELSE rt
    /\ UNCHANGED <<heap, unreachable>>

LookupRoute(d) == Lookup(d) /\ answer' = HasRoute(table', d)

LookupValidRoute(d) == Lookup(d) /\ answer' = HasValidRoute(table', d)

\* The argument is a reference: its request counter is reset as well.
AddRtEntry ==
    /\ Silent
    /\ rt' = IF rt.flag = "IN_SEARCH" THEN rt ELSE [rt EXCEPT !.reqCount = 0]
    /\ table' = AddRoute(Purge(table, now), GetDestination(rt), rt')
    /\ UNCHANGED <<heap, unreachable>>

DeleteRtEntry(d) ==
    /\ Silent
    /\ table' = DeleteRoute(Purge(table, now), d)
    /\ UNCHANGED <<heap, rt, unreachable>>

\* Copies of all entries, without a purge: the caller takes up the one for d, as
\* EvaporatePheromones does with each in turn.
GetAllRoutes(d) == HasRoute(table, d) /\ Assign(table[d])

\* (Mutant: the copy is put back under the next hop.)
UpdateNextHop ==
    /\ Silent
    /\ table' = Update(table, GetNextHop(rt), rt)
    /\ UNCHANGED <<heap, rt, unreachable>>

UpdateRtEntry ==
    /\ Silent
    /\ table' = Update(table, GetDestination(rt), rt)
    /\ UNCHANGED <<heap, rt, unreachable>>

SetEntryState(d, flag) ==
    /\ Silent /\ HasRoute(table, d)
    /\ table' = [table EXCEPT ![d].flag = flag]
    /\ UNCHANGED <<heap, rt, unreachable>>

GetListOfDestinationWithNextHop(n) ==
    /\ Silent
    /\ table' = Purge(table, now)
    /\ unreachable' = {d \in Nodes : HasRoute(table', d) /\ GetNextHop(table'[d]) = n}
    /\ UNCHANGED <<heap, rt>>

\* The list goes by destination, whatever the next hop has become since.
InvalidateRoutesWithDst ==
    /\ Silent
    /\ LET T == Purge(table, now)
       IN  table' = [d \in Nodes |-> IF d \in unreachable /\ HasValidRoute(T, d)
                                     THEN Invalidate(T[d], now) ELSE T[d]]
    /\ UNCHANGED <<heap, rt, unreachable>>

\* Without a purge first.
DeleteAllRoutesFromInterface(i) ==
    /\ Silent
    /\ table' = [d \in Nodes |-> IF HasRoute(table, d) /\ table[d].iface = i
                                 THEN Absent ELSE table[d]]
    /\ UNCHANGED <<heap, rt, unreachable>>

Clear ==
    /\ Silent
    /\ table' = EmptyTable
    /\ UNCHANGED <<heap, rt, unreachable>>

MarkLinkAsUnidirectional(d) ==
    /\ Silent /\ HasRoute(table, d)
    /\ table' = [table EXCEPT ![d].unidirectional = TRUE]
    /\ UNCHANGED <<heap, rt, unreachable>>

TableTick ==
    /\ now < MaxTime /\ now' = now + 1
    /\ answer' = FALSE
    /\ UNCHANGED <<table, heap, rt, unreachable, calls>>

Setter ==
    \/ \E n \in Nodes : SetNextHop(n)
    \/ \E l \in Lifetimes : SetLifeTime(l)
    \/ \E f \in RouteFlags : SetFlag(f)
    \/ IncrementRreqCnt \/ InvalidateEntry \/ DeleteAllPrecursors
    \/ \E k \in 0..1 : SetRreqCnt(k) \/ SetPheromone(k)
    \/ \E i \in Interfaces : SetInterface(i)
    \/ \E u \in BOOLEAN : SetUnidirectional(u)
    \/ \E p \in Nodes : InsertPrecursor(p) \/ DeletePrecursor(p)

TableNext ==
    \/ \E d, n \in Nodes, i \in Interfaces, l \in Lifetimes : MakeEntry(d, n, i, l)
    \/ Setter
    \/ \E d \in Nodes :
         \/ LookupRoute(d) \/ LookupValidRoute(d) \/ GetAllRoutes(d) \/ DeleteRtEntry(d)
         \/ MarkLinkAsUnidirectional(d) \/ GetListOfDestinationWithNextHop(d)
         \/ \E f \in RouteFlags : SetEntryState(d, f)
    \/ AddRtEntry \/ UpdateRtEntry \/ InvalidateRoutesWithDst \/ Clear
    \/ \E i \in Interfaces : DeleteAllRoutesFromInterface(i)
    \/ TableTick

TableSpec == TableInit /\ [][TableNext]_tableVars

-----------------------------------------------------------------------------
\* Although copies share their Ipv4Route with the map, an entry is filed under the
\* destination its route names and no two keys share a route, so that no setter can
\* send the packets of one destination along the route of another (AddRoute, Update).
RoutesOfTheirOwn ==
    \A d \in Nodes : HasRoute(table, d) =>
      /\ GetDestination(table[d]) = d
      /\ \A f \in Nodes : HasRoute(table, f) /\ table[f].route = table[d].route => f = d

\* Stale copies may be put back by Update and entries set VALID again after their time,
\* but no lookup ever hands out an entry whose lifetime is over (LookupRoute and
\* LookupValidRoute; GetAllRoutes hands out what it finds).
AnswersFresh == answer => rt.lifeTime >= now

\* What the caller does to its copy before Update changes nothing in the table but the
\* next hop of the copy's own destination, which changes at once.
CopiesConfined ==
    [][table' = table =>
         \A d \in Nodes : HasRoute(table, d) /\ GetNextHop(table[d]) # GetNextHop(table[d])' =>
           d = GetDestination(rt)]_tableVars
=============================================================================
