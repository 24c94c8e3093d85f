---------------------------- MODULE MCAcoRouting -----------------------------
\* Small networks for TLC.
EXTENDS AcoRoutingProperties, TLC

CONSTANTS n1, n2, n3

Pair == {n1, n2}
Triple == {n1, n2, n3}

FullLink == [n \in Nodes |-> Nodes \ {n}]

\* n1 - n2 - n3
ChainLink == (n1 :> {n2}) @@ (n2 :> {n1, n3}) @@ (n3 :> {n2})

One == {n1}
Two == {n1, n2}
LastOfThree == {n3}

NodeSymmetry == Permutations(Nodes)
=============================================================================
