\* The requester still holds an expired route to the destination.
CONSTANTS
    n1 = n1  n2 = n2  n3 = n3
    Nodes <- Pair
    Link <- FullLink
    Lossy = TRUE
    Prompt = TRUE
    Requesters <- Two
    Targets <- Two
    TicksPerSecond = 1
    RouteLifetime = 2
    BadLinkLifetime = 2
    RreqRetries = 2
    PUnit = 2
    MaxSends = 3
    MaxTime = 4
SPECIFICATION Spec
CHECK_DEADLOCK FALSE
PROPERTIES HomecomingEstablishesRoute
