--------------------------- MODULE DuplicateFilter ---------------------------
(***************************************************************************)
(* What a cache of identifiers promises: an identifier is a duplicate for  *)
(* as long as the lifetime in force when it was accepted, to the last      *)
(* instant, and new again after that; asking about one identifier never    *)
(* changes the answer about another.  The filter remembers everything it   *)
(* has ever accepted; AcoIdCache implements it and forgets.                *)
(***************************************************************************)
EXTENDS Integers

CONSTANTS Keys, Lifetimes

VARIABLES now, lifetime, accepted, answer

filterVars == <<now, lifetime, accepted, answer>>

FilterInit ==
    /\ now = 0 /\ lifetime \in Lifetimes
    /\ accepted = {} /\ answer = FALSE

Alive(k) == \E a \in accepted : a.key = k /\ a.expire >= now

Ask(k) ==
    /\ answer' = Alive(k)
    /\ accepted' = accepted \cup
         IF Alive(k) THEN {} ELSE {[key |-> k, expire |-> now + lifetime]}
    /\ UNCHANGED <<now, lifetime>>

ChangeLifetime ==
    /\ lifetime' \in Lifetimes
    /\ UNCHANGED <<now, accepted, answer>>

Wait ==
    /\ now' = now + 1
    /\ UNCHANGED <<lifetime, accepted, answer>>

FilterNext == (\E k \in Keys : Ask(k)) \/ ChangeLifetime \/ Wait

FilterSpec == FilterInit /\ [][FilterNext]_filterVars
=============================================================================
