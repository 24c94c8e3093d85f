\* Two destinations, a copy in the caller's hand, every sequence of five calls.
CONSTANTS
    a = a  b = b  r1 = r1  r2 = r2  r3 = r3  eth0 = eth0  eth1 = eth1
    Nodes <- TwoNodes
    Routes <- ThreeRoutes
    Interfaces <- TwoInterfaces
    Lifetimes <- OneLifetime
    BadLinkLifetime = 1
    MaxTime = 3
    MaxCalls = 5
SPECIFICATION TableSpec
\* The bound on calls stops the model.
CHECK_DEADLOCK FALSE
SYMMETRY TableSymmetry
INVARIANTS TableTypeOK RoutesOfTheirOwn AnswersFresh
PROPERTIES CopiesConfined
