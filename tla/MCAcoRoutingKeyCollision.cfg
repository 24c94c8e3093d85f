\* Ants of two sources with the same number.
CONSTANTS
    n1 = n1  n2 = n2  n3 = n3
    Nodes <- Triple
    Link <- FullLink
    Lossy = FALSE
    Prompt = FALSE
    Requesters <- Triple
    Targets <- Triple
    TicksPerSecond = 1
    RouteLifetime = 2
    BadLinkLifetime = 2
    RreqRetries = 2
    PUnit = 10
    MaxSends = 2
    MaxTime = 0
SPECIFICATION Spec
CHECK_DEADLOCK FALSE
PROPERTIES DuplicatesOnly
