-------------------------- MODULE MCAcoRequestQueue --------------------------
\* A queue of at most two places for TLC.
EXTENDS AcoRequestQueue, TLC

CONSTANTS p1, p2, d1, d2

UidSet == {p1, p2}
DstSet == {d1, d2}
FixedLimit == {2}
TwoTimeouts == {0, 1}

QueueSymmetry == Permutations(UidSet) \cup Permutations(DstSet)
=============================================================================
