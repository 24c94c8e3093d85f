---------------------------- MODULE AntDiscovery -----------------------------
(***************************************************************************)
(* What a discovery promises, seen from outside, for ONE ant of one source:*)
(* it is launched at most once and for one goal; each node takes it up at  *)
(* most once; it is answered by its goal, in the step that takes it up,    *)
(* once; and an answer that is over - home, lost or given up - never walks *)
(* again.                                                                  *)
(* Abstracts aco-routing-protocol.cc SendRequest and RecvAco; AcoRouting   *)
(* implements it for every source and number (the property AntsAnsweredOnce*)
(* there).                                                                 *)
(***************************************************************************)
CONSTANT Nodes

VARIABLES
    goals,     \* the node the ant looks for, as a set: empty until the ant is launched
    reached,   \* the nodes that have taken it up
    answer     \* "none", "walking" or "over"

antVars == <<goals, reached, answer>>

AntInit == goals = {} /\ reached = {} /\ answer = "none"

LaunchAnt ==
    /\ goals = {}
    /\ \E d \in Nodes : goals' = {d}
    /\ UNCHANGED <<reached, answer>>

\* A node takes the ant up; the goal answers, but the answer may be lost at once.
Reach(n) ==
    /\ goals # {}
    /\ n \notin reached
    /\ reached' = reached \cup {n}
    /\ IF n \in goals THEN answer = "none" /\ answer' \in {"walking", "over"} ELSE answer' = answer
    /\ UNCHANGED goals

\* The answer is home, lost or given up.
EndWalk ==
    /\ answer = "walking"
    /\ answer' = "over"
    /\ UNCHANGED <<goals, reached>>

AntNext == LaunchAnt \/ (\E n \in Nodes : Reach(n)) \/ EndWalk

AntSpec == AntInit /\ [][AntNext]_antVars
=============================================================================
