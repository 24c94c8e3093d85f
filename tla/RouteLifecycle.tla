--------------------------- MODULE RouteLifecycle ----------------------------
(***************************************************************************)
(* What the routing table promises about ONE route, seen from outside: it  *)
(* is unknown, valid until an instant fixed when it was learned, or held   *)
(* invalid until an instant fixed when its expiry was noticed.  Nothing the*)
(* protocol does, an arriving backward ant included, prolongs a valid route*)
(* or cuts an invalid one short.                                           *)
(* Abstracts aco-rtable.cc Purge/Invalidate/AddRoute/DeleteRoute as the    *)
(* protocol uses them; AcoRouting implements it for every node and         *)
(* destination (the property RoutesAgeAsPromised there).                   *)
(***************************************************************************)
EXTENDS Integers

CONSTANTS RouteLifetime, BadLinkLifetime

VARIABLES now, state, expires

lifeVars == <<now, state, expires>>

LifeInit == now = 0 /\ state = "UNKNOWN" /\ expires = 0

Become(s, e) == state' = s /\ expires' = e /\ now' = now

\* An ant brings the route.
Learn ==
    /\ state = "UNKNOWN"
    /\ Become("VALID", now + RouteLifetime)

\* A lookup notices that the lifetime is over.
Expire ==
    /\ state = "VALID" /\ expires < now
    /\ Become("INVALID", now + BadLinkLifetime)

\* A lookup notices that the quarantine is over; the ant that made the lookup
\* may bring the route back at once.
Forget ==
    /\ state = "INVALID" /\ expires < now
    /\ \/ Become("UNKNOWN", 0)
       \/ Become("VALID", now + RouteLifetime)

\* RouteOutput gives up a route whose pheromone has evaporated.
Abandon ==
    /\ state = "VALID" /\ expires >= now
    /\ Become("UNKNOWN", 0)

Wait == now' = now + 1 /\ UNCHANGED <<state, expires>>

LifeNext == Learn \/ Expire \/ Forget \/ Abandon \/ Wait

LifeSpec == LifeInit /\ [][LifeNext]_lifeVars
=============================================================================
