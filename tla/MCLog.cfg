\* Two writers overflow a queue of two; a day ends and files fill up.
SPECIFICATION Spec
CONSTANTS
    Writers = {t1, t2}
    m_max_size = 2
    NoItem = 0
    m_split_lines = 2
    MaxLines = 4
    MaxDay = 2
    DaysPerMonth = 2
    LogThread = logThread
CHECK_DEADLOCK FALSE
INVARIANTS TypeOK QueuedInOrder Accounted FilesInTurn
PROPERTIES ImplementsBoundedQueue AcceptedIsWritten
