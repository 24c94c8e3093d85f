\* Three nodes in range of each other, any frame may be lost, everything at one instant.
CONSTANTS
    n1 = n1  n2 = n2  n3 = n3
    Nodes <- Triple
    Link <- FullLink
    Lossy = TRUE
    Prompt = FALSE
    Requesters <- Triple
    Targets <- Triple
    TicksPerSecond = 1
    RouteLifetime = 2
    BadLinkLifetime = 2
    RreqRetries = 2
    PUnit = 10
    MaxSends = 2
    MaxTime = 0
SPECIFICATION Spec
CHECK_DEADLOCK FALSE
SYMMETRY NodeSymmetry
INVARIANTS TypeOK SingleBackwardAnt AntsAuthentic NextHopKnewRoute LoopFree
PROPERTIES StormBound AntsAnsweredOnce OwnFloodsUnshadowed
