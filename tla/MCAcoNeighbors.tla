--------------------------- MODULE MCAcoNeighbors ----------------------------
\* Two neighbours for TLC.
EXTENDS AcoNeighbors, TLC

CONSTANTS a1, a2, m1, m2

AddrSet == {a1, a2}
MacSet == {m1, m2}
ShortAndLong == {0, 2}

NeighborSymmetry == Permutations(AddrSet) \cup Permutations(MacSet)
=============================================================================
