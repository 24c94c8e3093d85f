\* Three nodes in range of each other, one requester, nothing lost: a direct path and one
\* over a relay, the first six instants.
CONSTANTS
    n1 = n1  n2 = n2  n3 = n3
    Nodes <- Triple
    Link <- FullLink
    Lossy = FALSE
    Prompt = TRUE
    Requesters <- One
    Targets <- LastOfThree
    TicksPerSecond = 1
    RouteLifetime = 4
    BadLinkLifetime = 4
    RreqRetries = 2
    PUnit = 10
    MaxSends = 2
    MaxTime = 5
SPECIFICATION FairSpec
CHECK_DEADLOCK FALSE
PROPERTIES DiscoveryCompletes AirFallsSilent
