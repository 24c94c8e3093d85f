\* A late answer over a slower path.
CONSTANTS
    n1 = n1  n2 = n2  n3 = n3
    Nodes <- Triple
    Link <- FullLink
    Lossy = FALSE
    Prompt = FALSE
    Requesters <- One
    Targets <- LastOfThree
    TicksPerSecond = 1
    RouteLifetime = 2
    BadLinkLifetime = 2
    RreqRetries = 2
    PUnit = 10
    MaxSends = 1
    MaxTime = 2
SPECIFICATION Spec
CHECK_DEADLOCK FALSE
PROPERTIES StrongestPathKept
