\* Packets for two destinations through a queue of two, with two timeouts.
CONSTANTS
    p1 = p1  p2 = p2  d1 = d1  d2 = d2
    Uids <- UidSet
    Dsts <- DstSet
    MaxLens <- FixedLimit
    Timeouts <- TwoTimeouts
    MaxAccepted = 4
    MaxTime = 2
SPECIFICATION QueueSpec
CHECK_DEADLOCK FALSE
SYMMETRY QueueSymmetry
INVARIANTS QueueTypeOK PacketsAccounted WaitsOnce OrderKept WithinLimit
PROPERTIES HandedInTime
