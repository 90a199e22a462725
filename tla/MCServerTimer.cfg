\* A timer that outlived its connection, and the next one on the descriptor.
SPECIFICATION Safety
CONSTANTS
    Workers = {w1}
    Main = main
    MaxFd = 1
    MAX_FD = 2
    MaxRequests = 1
    MaxConns = 2
CHECK_DEADLOCK FALSE
PROPERTY TimerClosesItsOwn
