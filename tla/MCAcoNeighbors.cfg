\* Two neighbours, lifetimes shorter and longer than the timer's delay.
CONSTANTS
    a1 = a1  a2 = a2  m1 = m1  m2 = m2
    NoMac = NoMac
    Addrs <- AddrSet
    Macs <- MacSet
    Lifetimes <- ShortAndLong
    Delay = 1
    MaxOpened = 2
    MaxTime = 4
SPECIFICATION NeighborsSpec
CHECK_DEADLOCK FALSE
SYMMETRY NeighborSymmetry
INVARIANTS NeighborsTypeOK NoticedInTime LinksAccounted
PROPERTIES PromisesKept
