\* The destination still holds an expired route to the neighbour.
CONSTANTS
    n1 = n1  n2 = n2  n3 = n3
    Nodes <- Pair
    Link <- FullLink
    Lossy = FALSE
    Prompt = TRUE
    Requesters <- One
    Targets <- Two
    TicksPerSecond = 1
    RouteLifetime = 15
    BadLinkLifetime = 15
    RreqRetries = 2
    PUnit = 1000
    MaxSends = 3
    MaxTime = 33
SPECIFICATION Spec
CHECK_DEADLOCK FALSE
PROPERTIES DestinationAnswers
