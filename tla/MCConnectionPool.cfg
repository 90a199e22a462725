\* Contended and well-provisioned pools together: m_MaxConn is chosen in Init.
\* The program may abort or every request may have been served: a stop is legal.
SPECIFICATION Spec
CONSTANTS
    Clients = {t1, t2, t3}
    MaxSqlNum = 3
    NULL = NULL
    Nobody = Nobody
    Exit = exit
INVARIANTS
    TypeOK
    OnePlace
    NothingLeaks
    EnoughIsEnough
PROPERTY RequestsDrain
CHECK_DEADLOCK FALSE
