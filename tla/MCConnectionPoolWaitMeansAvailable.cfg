SPECIFICATION Safety
CONSTANTS
    Clients = {t1, t2, t3}
    MaxSqlNum = 3
    NULL = NULL
    Nobody = Nobody
    Exit = exit
SYMMETRY Symmetry
INVARIANT WaitMeansAvailable
CHECK_DEADLOCK FALSE
