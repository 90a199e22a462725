\* One worker, two descriptors, two connections that may share one in turn.
SPECIFICATION Spec
CONSTANTS
    Workers = {w1}
    Main = main
    MaxFd = 2
    MAX_FD = 2
    MaxRequests = 1
    MaxConns = 2
CHECK_DEADLOCK FALSE
INVARIANTS TypeOK TimersAreLive TickPending BooksBalance OneAtATime
PROPERTIES StrandedIsClosed TermStops
