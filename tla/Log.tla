-------------------------------- MODULE Log --------------------------------
(***************************************************************************)
(* log/log.cpp: threads that write lines with write_log(), the thread that *)
(* empties the queue into the file when the log is asynchronous, and the   *)
(* change of files by day and by number of lines.                          *)
(*                                                                         *)
(* write_log() is four critical sections, two of Log::m_mutex, one of the  *)
(* queue for full() and one more, of the queue for push() or of m_mutex    *)
(* for a direct write; each is one action.  A line is a number.            *)
(***************************************************************************)
EXTENDS BlockQueue, Integers, FiniteSets

CONSTANTS
    Writers,        \* threads that log
    m_split_lines,  \* lines after which a new file is begun
    MaxLines,       \* bound: lines written in a run
    MaxDay,         \* bound: the last day of a run
    DaysPerMonth,   \* days after which tm_mday comes round again
    LogThread       \* whoever writes in async_write_log()

ASSUME LogAssumption ==
    /\ IsFiniteSet(Writers)
    /\ {m_split_lines, DaysPerMonth} \subseteq Nat \ {0}
    /\ MaxLines \in Nat /\ MaxDay \in Nat
    /\ LogThread \notin Writers
    /\ NoItem = 0

VARIABLES
    m_is_async,     \* fixed by init()
    m_count,        \* lines counted since the count was reset
    m_today,        \* day of the month that the counting goes by
    m_fp,           \* the name of the open file: a day and a number
    today,          \* the calendar
    pc,             \* the next critical section of each writer
    my_tm,          \* the day each writer read when it entered write_log
    log_str,        \* the line each writer is busy with
    asleep,         \* the log thread waits for the queue's condition
    single_log,     \* the line in the log thread's hands
    file,           \* what was written, in order, and by whom
    opened,         \* history: the files opened, in order; for each its name,
                    \* how many lines were counted for it, and whether a late
                    \* writer opened it
    lines,          \* history: lines begun
    pushed,         \* history: lines accepted by push(), in order
    refused         \* history: lines push() refused

fileVars == <<m_count, m_today, m_fp, opened>>
lineVars == <<pc, my_tm, log_str>>
logVars == <<asleep, single_log>>
history == <<lines, pushed, refused>>
vars == <<ringVars, m_is_async, fileVars, today, lineVars, logVars, file,
          history>>

Init ==
    /\ RingInit
    /\ m_is_async \in BOOLEAN
    /\ m_count = 0
    /\ m_today = 0
    /\ m_fp = <<0, 0>>
    /\ opened = <<[name |-> m_fp, lines |-> 0, late |-> FALSE]>>
    /\ today = 0
    /\ pc = [t \in Writers |-> "idle"]
    /\ my_tm = [t \in Writers |-> 0]
    /\ log_str = [t \in Writers |-> NoItem]
    /\ asleep = FALSE
    /\ single_log = NoItem
    /\ file = <<>>
    /\ lines = 0
    /\ pushed = <<>>
    /\ refused = {}

Goto(t, label) == pc' = [pc EXCEPT ![t] = label]

\* Back from write_log; LOG_* flushes, which changes nothing seen here.
Return(t) ==
    /\ Goto(t, "idle")
    /\ log_str' = [log_str EXCEPT ![t] = NoItem]
    /\ my_tm' = [my_tm EXCEPT ![t] = 0]

\* write_log begins by reading the clock, before any lock.
BeginLine(t) ==
    /\ pc[t] = "idle"
    /\ lines < MaxLines
    /\ lines' = lines + 1
    /\ log_str' = [log_str EXCEPT ![t] = lines + 1]
    /\ my_tm' = [my_tm EXCEPT ![t] = today]
    /\ Goto(t, "count")
    /\ UNCHANGED <<ringVars, m_is_async, fileVars, today, logVars, file,
                   pushed, refused>>

tm_mday(day) == day % DaysPerMonth

\* The k-th file of the writer's day is opened.  The writer is late if it read
\* the clock on a day before that of the file open so far.
Fopen(t, k) ==
    /\ m_fp' = <<my_tm[t], k>>
    /\ opened' = Append(opened, [name |-> m_fp', lines |-> 1,
                                late |-> my_tm[t] < m_fp[1]])

StayInFile ==
    /\ UNCHANGED m_fp
    /\ opened' = [opened EXCEPT ![Len(opened)].lines = @ + 1]

\* The line is counted; m_split_lines of them fill a file.
CountLine(t) ==
    /\ UNCHANGED m_today
    /\ m_count' = m_count + 1
    /\ IF m_count' % m_split_lines = 0
         THEN Fopen(t, m_count' \div m_split_lines)
         ELSE StayInFile

\* Mutant: m_today is forgotten when a new day begins.
CountForDay(t) ==
    /\ pc[t] = "count"
    /\ IF tm_mday(my_tm[t]) # m_today
         THEN m_count' = 0 /\ UNCHANGED m_today /\ Fopen(t, 0)
         ELSE CountLine(t)
    /\ Goto(t, "full")
    /\ UNCHANGED <<ringVars, m_is_async, today, my_tm, log_str, logVars, file,
                   history>>

\* If the day of the month is not m_today the file of another day is opened,
\* without a number, and counting starts again from 0.
Count(t) ==
    /\ pc[t] = "count"
    /\ IF tm_mday(my_tm[t]) # m_today
         THEN m_count' = 0 /\ m_today' = tm_mday(my_tm[t]) /\ Fopen(t, 0)
         ELSE CountLine(t)
    /\ Goto(t, "full")
    /\ UNCHANGED <<ringVars, m_is_async, today, my_tm, log_str, logVars, file,
                   history>>

\* Mutant: only the queue is asked.
CheckFullOnly(t) ==
    /\ pc[t] = "full"
    /\ Goto(t, IF ~Full THEN "push" ELSE "fputs")
    /\ UNCHANGED <<ringVars, m_is_async, fileVars, today, my_tm, log_str,
                   logVars, file, history>>

\* m_is_async && !m_log_queue->full() decides between the queue and the file.
\* (The formatting in m_buf, under the lock, comes before and is not seen.)
CheckFull(t) ==
    /\ pc[t] = "full"
    /\ Goto(t, IF m_is_async /\ ~Full THEN "push" ELSE "fputs")
    /\ UNCHANGED <<ringVars, m_is_async, fileVars, today, my_tm, log_str,
                   logVars, file, history>>

\* Mutant: push() wakes nobody up.
PushSilently(t) ==
    /\ pc[t] = "push"
    /\ ~Full
    /\ Store(log_str[t])
    /\ pushed' = Append(pushed, log_str[t])
    /\ Return(t)
    /\ UNCHANGED <<m_is_async, fileVars, today, logVars, file, lines, refused>>

\* push() stores the line and wakes the log thread.
Push(t) ==
    /\ pc[t] = "push"
    /\ ~Full
    /\ Store(log_str[t])
    /\ asleep' = FALSE
    /\ pushed' = Append(pushed, log_str[t])
    /\ Return(t)
    /\ UNCHANGED <<m_is_async, fileVars, today, single_log, file, lines,
                   refused>>

\* Others have filled the queue since full() said no: push() returns false,
\* and write_log does not look.
PushRefused(t) ==
    /\ pc[t] = "push"
    /\ Full
    /\ asleep' = FALSE
    /\ refused' = refused \cup {log_str[t]}
    /\ Return(t)
    /\ UNCHANGED <<ringVars, m_is_async, fileVars, today, single_log, file,
                   lines, pushed>>

\* The log is synchronous, or the queue was full: the writer writes itself.
Fputs(t) ==
    /\ pc[t] = "fputs"
    /\ file' = Append(file, [by |-> t, line |-> log_str[t]])
    /\ Return(t)
    /\ UNCHANGED <<ringVars, m_is_async, fileVars, today, logVars, history>>

\* The log thread takes the oldest line.
Pop ==
    /\ m_is_async
    /\ single_log = NoItem
    /\ ~asleep
    /\ single_log' = Oldest
    /\ Remove
    /\ UNCHANGED <<m_is_async, fileVars, today, lineVars, asleep, file,
                   history>>

\* ... or finds the queue empty and waits for the condition.
Sleep ==
    /\ m_is_async
    /\ single_log = NoItem
    /\ ~asleep
    /\ m_size <= 0
    /\ asleep' = TRUE
    /\ UNCHANGED <<ringVars, m_is_async, fileVars, today, lineVars, single_log,
                   file, history>>

\* A spurious wake-up; the while loop checks the queue again.
WakeUp ==
    /\ asleep
    /\ asleep' = FALSE
    /\ UNCHANGED <<ringVars, m_is_async, fileVars, today, lineVars, single_log,
                   file, history>>

\* The log thread writes its line.
WritePopped ==
    /\ single_log # NoItem
    /\ file' = Append(file, [by |-> LogThread, line |-> single_log])
    /\ single_log' = NoItem
    /\ UNCHANGED <<ringVars, m_is_async, fileVars, today, lineVars, asleep,
                   history>>

Midnight ==
    /\ today < MaxDay
    /\ today' = today + 1
    /\ UNCHANGED <<ringVars, m_is_async, fileVars, lineVars, logVars, file,
                   history>>

-----------------------------------------------------------------------------
Writes(t) ==
    Count(t) \/ CheckFull(t) \/ Push(t) \/ PushRefused(t) \/ Fputs(t)

Next ==
    \/ \E t \in Writers : BeginLine(t) \/ Writes(t)
    \/ Pop \/ Sleep \/ WakeUp \/ WritePopped
    \/ Midnight

Safety == Init /\ [][Next]_vars

\* The log thread runs whenever it can, and so does a writer once it has begun
\* a line.  Nobody need log anything, and spurious wake-ups need not occur.
Fairness ==
    /\ WF_vars(Pop \/ WritePopped)
    /\ \A t \in Writers : WF_vars(Writes(t))

Spec == Safety /\ Fairness

-----------------------------------------------------------------------------
(* Properties.                                                             *)

Lines == 1..MaxLines
Openings == [name : Nat \X Nat, lines : Nat, late : BOOLEAN]
Opened == Seq(Openings) \ {<<>>}

\* Every variable keeps its type, and the ring's indices agree with its size.
TypeOK ==
    /\ m_array \in [0..(m_max_size - 1) -> Lines \cup {NoItem}]
    /\ m_size \in 0..m_max_size
    /\ {m_front, m_back} \subseteq -1..(m_max_size - 1)
    /\ m_is_async \in BOOLEAN
    /\ {m_count, today, lines} \subseteq Nat
    /\ m_today \in 0..(DaysPerMonth - 1)
    /\ m_fp \in Nat \X Nat
    /\ opened \in Opened
    /\ pc \in [Writers -> {"idle", "count", "full", "push", "fputs"}]
    /\ my_tm \in [Writers -> 0..MaxDay]
    /\ log_str \in [Writers -> Lines \cup {NoItem}]
    /\ asleep \in BOOLEAN
    /\ single_log \in Lines \cup {NoItem}
    /\ file \in Seq([by : Writers \cup {LogThread}, line : Lines])
    /\ pushed \in Seq(Lines)
    /\ refused \subseteq Lines

\* The circular array behaves as the bounded queue it stands for, and once an
\* item is in it, it comes out.
BQ == INSTANCE BoundedQueue WITH
        Items <- Lines, Capacity <- m_max_size, queue <- Contents
ImplementsBoundedQueue == BQ!Spec

\* Of the first i entries of a file s, the lines that the log thread wrote.
Drained(s) ==
    LET upTo[i \in 0..Len(s)] ==
            IF i = 0 THEN <<>>
            ELSE IF s[i].by = LogThread THEN Append(upTo[i - 1], s[i].line)
            ELSE upTo[i - 1]
    IN  upTo

\* Lines that went through the queue reach the file in the order in which they
\* were accepted, none twice and none missing, whatever is written directly
\* in between.
QueuedInOrder ==
    pushed = Drained(file)[Len(file)]
                \o (IF single_log = NoItem THEN <<>> ELSE <<single_log>>)
                \o Contents

\* A line that was begun is in one place: in its writer's hands, in the queue
\* or past it, in the file once, or refused; and only an asynchronous log
\* refuses any.
Places(l) ==
    Cardinality({t \in Writers : log_str[t] = l})
    + Cardinality({i \in DOMAIN pushed : pushed[i] = l})
    + Cardinality({i \in DOMAIN file : file[i].by # LogThread
                                         /\ file[i].line = l})
    + (IF l \in refused THEN 1 ELSE 0)
Accounted ==
    /\ \A l \in 1..lines : Places(l) = 1
    /\ ~m_is_async => refused = {} /\ pushed = <<>>

\* The file f is of an earlier day than g, or before it on the same day.
Before(f, g) == f[1] < g[1] \/ (f[1] = g[1] /\ f[2] < g[2])

\* However many writers read the clock on one day and come to count on the
\* next, at most m_split_lines lines are counted for a file each time that it
\* is open, and a file that was left, or one before it, is opened again only
\* if one of the files opened since was opened by a late writer.
FilesInTurn ==
    /\ \A i \in DOMAIN opened : opened[i].lines <= m_split_lines
    /\ \A j \in DOMAIN opened : \A i \in 1..(j - 1) :
            \/ Before(opened[i].name, opened[j].name)
            \/ \E k \in (i + 1)..j : opened[k].late

\* An accepted line gets into the file.
Written(l) == \E i \in DOMAIN file : file[i].line = l
AcceptedIsWritten ==
    \A l \in Lines : (\E i \in DOMAIN pushed : pushed[i] = l) ~> Written(l)

\* What log.cpp says of write_log: a line goes into the queue, or else the
\* writer writes it to the file; so a line that is dealt with is one of them.
NoLineIsLost ==
    \A l \in 1..lines : \/ \E t \in Writers : log_str[t] = l
                        \/ \E i \in DOMAIN pushed : pushed[i] = l
                        \/ Written(l)
=============================================================================
