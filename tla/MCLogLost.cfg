\* full() and push() are two critical sections.
SPECIFICATION Safety
CONSTANTS
    Writers = {t1, t2}
    m_max_size = 1
    NoItem = 0
    m_split_lines = 2
    MaxLines = 2
    MaxDay = 0
    DaysPerMonth = 2
    LogThread = logThread
SYMMETRY Symmetry
CHECK_DEADLOCK FALSE
INVARIANT NoLineIsLost
