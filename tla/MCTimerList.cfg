\* Four timers: a list with two inner nodes. The clock moves both ways.
SPECIFICATION Safety
CONSTANTS
    Nodes = {n1, n2, n3, n4}
    NULL = NULL
    Span = 2
    MaxTime = 4
SYMMETRY Symmetry
INVARIANTS
    TypeOK
    WellFormed
    AllReachable
    SortedWhileSteady
PROPERTY ImplementsTimers
