------------------------------ MODULE AcoRTable ------------------------------
(***************************************************************************)
(* The routing table of one node (src/aco/model/aco-rtable.{h,cc}) as      *)
(* operators on a table value.  A table is a total function from           *)
(* destination addresses to an entry or Absent; the time of the call is    *)
(* the parameter t, since the code reads Simulator::Now() inside each      *)
(* operation.  Entries keep the fields that decide the protocol's          *)
(* behaviour: the flag, the next hop (the gateway of the entry's Ipv4Route)*)
(* the ABSOLUTE expiry m_lifeTime, the pheromone and the request counter.  *)
(* Sequence number, hop count, interface, precursors and the black list    *)
(* are carried by the code but never read by the routing protocol.         *)
(***************************************************************************)
EXTENDS Integers

CONSTANTS
    Nodes,             \* the addresses of the network
    BadLinkLifetime    \* RoutingTable::m_badLinkLifetime, m_deletePeriod of the protocol

ASSUME BadLinkLifetimeAssumption == BadLinkLifetime \in Nat

RouteFlags == {"VALID", "INVALID", "IN_SEARCH"}

RoutingTableEntry ==
    [flag : RouteFlags, nextHop : Nodes, lifeTime : Nat, pheromone : Nat, reqCount : Nat]

\* No entry under that key of m_ipv4AddressEntry.
Absent == [flag |-> "ABSENT"]

Table == [Nodes -> RoutingTableEntry \cup {Absent}]

EmptyTable == [d \in Nodes |-> Absent]

\* The constructor, and the SetPheromone that follows each of its uses.
NewEntry(nextHop, pheromone, lifetime, t) ==
    [flag |-> "VALID", nextHop |-> nextHop, lifeTime |-> t + lifetime,
     pheromone |-> pheromone, reqCount |-> 0]

Invalidate(e, t) ==
    IF e.flag = "INVALID"
    THEN e
    ELSE [e EXCEPT !.flag = "INVALID", !.reqCount = 0,
                   !.lifeTime = t + BadLinkLifetime, !.pheromone = 0]

\* One turn of Purge's loop: an entry expires strictly after its lifetime,
\* first into INVALID and only on a later expiry out of the map.
PurgeEntry(e, t) ==
    IF e = Absent THEN e
    ELSE IF e.lifeTime >= t THEN e
    ELSE IF e.flag = "INVALID" THEN Absent
    ELSE Invalidate(e, t)

Purge(T, t) == [d \in Nodes |-> PurgeEntry(T[d], t)]

\* What LookupRoute and LookupValidRoute answer on a table they have purged.
HasRoute(T, d) == T[d] # Absent

HasValidRoute(T, d) == HasRoute(T, d) /\ T[d].flag = "VALID"

\* AddRoute on a purged table: std::map::insert leaves an existing entry alone.
AddRoute(T, d, e) == IF HasRoute(T, d) THEN T ELSE [T EXCEPT ![d] = e]

DeleteRoute(T, d) == [T EXCEPT ![d] = Absent]

\* Update overwrites an existing entry and does nothing for an absent one.
Update(T, d, e) == IF HasRoute(T, d) THEN [T EXCEPT ![d] = e] ELSE T
=============================================================================
