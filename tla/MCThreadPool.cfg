\* Two workers contend; two requests overflow a queue of one.
SPECIFICATION Spec
CONSTANTS
    Workers = {w1, w2}
    Main = main
    Requests = {r1, r2}
    MaxRequests = 1
    NoRequest = NoRequest
    Nobody = Nobody
INVARIANTS
    TypeOK
    NoLostWakeup
    ExclusiveService
    ImprovIsFresh
    ReactorNeverRefuses
PROPERTIES
    ImplementsTaskQueue
    SpinTerminates
