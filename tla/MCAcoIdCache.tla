---------------------------- MODULE MCAcoIdCache -----------------------------
\* Two sources with two numbers each for TLC.
EXTENDS AcoIdCache, TLC

CONSTANTS c1, c2, i1, i2

ContextSet == {c1, c2}
IdSet == {i1, i2}
ShortAndLong == {0, 2}

IdCacheSymmetry == Permutations(ContextSet) \cup Permutations(IdSet)
=============================================================================
