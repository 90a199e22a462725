\* The order improv = 1; timer_flag = 1 of a failing worker.
SPECIFICATION Safety
CONSTANTS
    Workers = {w1, w2}
    Main = main
    Requests = {r1, r2}
    MaxRequests = 2
    NoRequest = NoRequest
    Nobody = Nobody
SYMMETRY Symmetry
INVARIANT CloseFlagIsSeen
