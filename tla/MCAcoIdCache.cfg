\* Two sources, two numbers, lifetimes changed while identifiers are remembered.
CONSTANTS
    c1 = c1  c2 = c2  i1 = i1  i2 = i2
    Contexts <- ContextSet
    Ids <- IdSet
    Lifetimes <- ShortAndLong
    MaxTime = 3
SPECIFICATION IdCacheSpec
CHECK_DEADLOCK FALSE
SYMMETRY IdCacheSymmetry
INVARIANTS IdCacheTypeOK
PROPERTIES FiltersDuplicates
