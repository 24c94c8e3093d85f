\* A chain of three nodes whose routes expire under the ants: the inductive invariant.
CONSTANTS
    n1 = n1  n2 = n2  n3 = n3
    Nodes <- Triple
    Link <- ChainLink
    Lossy = FALSE
    Prompt = TRUE
    Requesters <- One
    Targets <- LastOfThree
    TicksPerSecond = 1
    RouteLifetime = 2
    BadLinkLifetime = 2
    RreqRetries = 2
    PUnit = 2
    MaxSends = 3
    MaxTime = 5
SPECIFICATION Spec
CHECK_DEADLOCK FALSE
INVARIANTS IndInv AntRateBounded LoopFree AnswersFindTheWay
PROPERTIES RoutesAgeAsPromised YoungHomecomings
