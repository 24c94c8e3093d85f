----------------------------- MODULE MCAcoTable ------------------------------
\* A table of two destinations for TLC.
EXTENDS AcoTable, TLC

CONSTANTS a, b, r1, r2, r3, eth0, eth1

TwoNodes == {a, b}
ThreeRoutes == {r1, r2, r3}
TwoInterfaces == {eth0, eth1}
OneLifetime == {1}

TableSymmetry == Permutations(TwoNodes) \cup Permutations(ThreeRoutes)
                 \cup Permutations(TwoInterfaces)
=============================================================================
