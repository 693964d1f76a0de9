SPECIFICATION Spec
CONSTANTS
    Dests = {d1, d2, d3}
    Sockets = {s1, s2, s3, s4, s5, s6}
    _limitTotalSize = 4
    _limitDestinationSize = 2
    _unusedTimeout = 2
    NoLimit = NoLimit
SYMMETRY Symmetry
INVARIANTS IInv IdleIsBounded
PROPERTIES ImplementsIdleConnections
