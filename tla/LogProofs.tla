------------------------------ MODULE LogProofs ------------------------------
(***************************************************************************)
(* Theorems about Log, for any number of writers, any capacity of the      *)
(* queue and any length of a file: types and the ring's indices, the files *)
(* that are opened one after the other, the circular array as a bounded    *)
(* FIFO, the order of the lines that go through it, and where each line    *)
(* is.                                                                     *)
(***************************************************************************)
EXTENDS Log, Recursion, FiniteSetTheorems, SequenceTheorems, TLAPS

\* A writer that is busy has a line that was begun, and no other has one.
BusyInv ==
    /\ lines <= MaxLines /\ today <= MaxDay
    /\ \A t \in Writers : IF pc[t] = "idle" THEN log_str[t] = NoItem
                                            ELSE log_str[t] \in 1..lines

\* The newest item is m_size behind the front, around the end of the array;
\* the indices start one before it.
RingInv ==
    /\ m_back = m_front + m_size \/ m_back = m_front + m_size - m_max_size
    /\ m_back = -1 => m_front = -1 /\ m_size = 0

IInv == TypeOK /\ BusyInv /\ RingInv

-----------------------------------------------------------------------------
(* Arithmetic.                                                             *)

\* The place in the array of the x-th index, counted without going around.
Index(x) == x % m_max_size

\* An index that runs at most once past the end of the array.
LEMMA Wrap ==
    ASSUME NEW x \in Int, x >= 0, x < m_max_size + m_max_size
    PROVE  /\ x < m_max_size => Index(x) = x
           /\ ~(x < m_max_size) => Index(x) = x - m_max_size
           /\ Index(x) \in 0..(m_max_size - 1)
<1>1. ASSUME NEW n \in Nat \ {0}, x < n + n
      PROVE  /\ x < n => x % n = x
             /\ ~(x < n) => x % n = x - n
             /\ x % n \in 0..(n - 1)
  BY <1>1, SMT
<1> QED
  BY <1>1, BlockQueueAssumption DEF Index

\* A file is full after a multiple of n lines, and only then the number of
\* full files changes.
LEMMA NextFile ==
    ASSUME NEW n \in Nat \ {0}, NEW c \in Nat
    PROVE  /\ c \div n \in Nat /\ c % n \in 0..(n - 1)
           /\ 0 \div n = 0 /\ 0 % n = 0
           /\ (c + 1) % n = 0 => (c + 1) \div n = (c \div n) + 1
           /\ (c + 1) % n # 0 => /\ (c + 1) \div n = c \div n
                                /\ (c + 1) % n = (c % n) + 1
  BY SMT

LEMMA SplitCount ==
    ASSUME NEW c \in Nat
    PROVE  /\ c \div m_split_lines \in Nat
           /\ c % m_split_lines \in 0..(m_split_lines - 1)
           /\ 0 \div m_split_lines = 0 /\ 0 % m_split_lines = 0
           /\ (c + 1) % m_split_lines = 0 =>
                (c + 1) \div m_split_lines = (c \div m_split_lines) + 1
           /\ (c + 1) % m_split_lines # 0 =>
                /\ (c + 1) \div m_split_lines = c \div m_split_lines
                /\ (c + 1) % m_split_lines = (c % m_split_lines) + 1
<1>1. m_split_lines \in Nat \ {0}
  BY LogAssumption
<1> QED BY <1>1, NextFile, Zenon

-----------------------------------------------------------------------------
(* The circular array.                                                     *)

RingTypes ==
    /\ m_array \in [0..(m_max_size - 1) -> Lines \cup {NoItem}]
    /\ m_size \in 0..m_max_size
    /\ {m_front, m_back} \subseteq -1..(m_max_size - 1)

RingValues == /\ m_max_size \in Nat /\ m_max_size > 0
              /\ m_size \in Nat /\ m_size <= m_max_size
              /\ m_front \in Int /\ m_front >= -1 /\ m_front < m_max_size
              /\ m_back \in Int /\ m_back >= -1 /\ m_back < m_max_size

LEMMA RingRange == ASSUME RingTypes PROVE RingValues
  BY BlockQueueAssumption DEF RingTypes, RingValues

LEMMA ContentsIndexed ==
    Contents = [i \in 1..m_size |-> m_array[Index(m_front + i)]]
  BY DEF Contents, Index

\* The array holds a sequence of m_size items.
LEMMA ContentsType ==
    ASSUME RingTypes
    PROVE  /\ Contents \in Seq(Lines \cup {NoItem})
           /\ Len(Contents) = m_size
           /\ \A i \in 1..m_size :
                Contents[i] = m_array[Index(m_front + i)]
<1>0. RingValues
  BY RingRange
<1>1. ASSUME NEW i \in 1..m_size
      PROVE  m_array[Index(m_front + i)] \in Lines \cup {NoItem}
  <2>1. /\ m_front + i \in Int /\ m_front + i >= 0
        /\ m_front + i < m_max_size + m_max_size
    BY <1>0 DEF RingValues
  <2>2. Index(m_front + i) \in 0..(m_max_size - 1)
    BY <2>1, Wrap
  <2> QED
    BY <2>2 DEF RingTypes
<1>2. m_size \in Nat
  BY <1>0 DEF RingValues
<1> QED
  BY <1>1, <1>2, ContentsIndexed

\* Store() appends the item and keeps the order of the indices.
LEMMA StoreAppends ==
    ASSUME RingTypes, RingInv, ~Full, NEW x \in Lines, Store(x)
    PROVE  /\ RingTypes' /\ RingInv'
           /\ Contents' = Append(Contents, x)
<1>0. RingValues
  BY RingRange
<1>1. m_size < m_max_size
  BY <1>0 DEF Full, RingValues
<1>2. m_back' = IF m_back + 1 < m_max_size THEN m_back + 1 ELSE 0
  <2>1. /\ m_back + 1 \in Int /\ m_back + 1 >= 0
        /\ m_back + 1 < m_max_size + m_max_size
    BY <1>0 DEF RingValues
  <2>2. m_back' = Index(m_back + 1)
    BY DEF Store, Index
  <2>3. /\ m_back + 1 < m_max_size => Index(m_back + 1) = m_back + 1
        /\ ~(m_back + 1 < m_max_size) =>
                Index(m_back + 1) = m_back + 1 - m_max_size
    BY <1>0, <2>1, Wrap DEF RingValues
  <2> QED
    BY <1>0, <2>2, <2>3 DEF RingValues
<1>3. /\ m_size' = m_size + 1 /\ m_front' = m_front
      /\ m_array' = [m_array EXCEPT ![m_back'] = x]
  BY DEF Store
<1>4. RingTypes'
  <2>1. m_size' \in 0..m_max_size /\ m_back' \in 0..(m_max_size - 1)
    BY <1>0, <1>1, <1>2, <1>3 DEF RingValues
  <2>2. m_array' \in [0..(m_max_size - 1) -> Lines \cup {NoItem}]
    BY <1>3 DEF RingTypes
  <2>3. m_front' \in -1..(m_max_size - 1) /\ m_back' \in -1..(m_max_size - 1)
    BY <1>0, <1>3, <2>1 DEF RingValues
  <2> QED
    BY <2>1, <2>2, <2>3 DEF RingTypes
<1>5. RingInv'
  BY <1>0, <1>1, <1>2, <1>3 DEF RingInv, RingValues
<1>6. ASSUME NEW i \in 1..(m_size + 1)
      PROVE  m_array'[Index(m_front + i)]
                = IF i = m_size + 1 THEN x ELSE m_array[Index(m_front + i)]
  <2>1. /\ m_front + i \in Int /\ m_front + i >= 0
        /\ m_front + i < m_max_size + m_max_size
    BY <1>0, <1>1 DEF RingValues
  <2>2. /\ m_front + i < m_max_size => Index(m_front + i) = m_front + i
        /\ ~(m_front + i < m_max_size) =>
                Index(m_front + i) = m_front + i - m_max_size
    BY <1>0, <2>1, Wrap DEF RingValues
  <2>3. Index(m_front + i) = m_back' <=> i = m_size + 1
    BY <1>0, <1>1, <1>2, <2>2 DEF RingValues, RingInv
  <2>4. Index(m_front + i) \in 0..(m_max_size - 1)
    BY <2>1, Wrap
  <2> QED
    BY <1>3, <2>3, <2>4 DEF RingTypes
<1>7. Contents' = Append(Contents, x)
  <2>1. Contents' = [i \in 1..(m_size + 1) |->
                        IF i = m_size + 1 THEN x
                        ELSE m_array[Index(m_front + i)]]
    <3>1. Contents' = [i \in 1..(m_size + 1) |->
                            m_array'[Index(m_front + i)]]
      BY <1>3 DEF Contents, Index
    <3> QED
      BY <1>6, <3>1
  <2>2. /\ Contents \in Seq(Lines \cup {NoItem})
        /\ Len(Contents) = m_size
        /\ \A i \in 1..m_size : Contents[i] = m_array[Index(m_front + i)]
    BY ContentsType
  <2> DEFINE S == Lines \cup {NoItem}
             t == Append(Contents, x)
  <2>3. /\ t \in Seq(S) /\ Len(t) = m_size + 1
        /\ \A i \in 1..m_size : t[i] = Contents[i]
        /\ t[m_size + 1] = x
    BY <2>2, AppendProperties
  <2>4. \A i \in 1..(m_size + 1) : i = m_size + 1 \/ i \in 1..m_size
    BY <1>0 DEF RingValues
  <2>5. \A i \in 1..(m_size + 1) : Contents'[i] = t[i]
    BY <1>0, <2>1, <2>2, <2>3, <2>4 DEF RingValues
  <2>6. \A i \in 1..(m_size + 1) : Contents'[i] \in S
    BY <2>1, <2>2, <2>3, <2>4, <2>5
  <2>7. Contents' \in Seq(S) /\ Len(Contents') = m_size + 1
    BY <1>0, <2>1, <2>6 DEF RingValues
  <2> QED
    BY <2>3, <2>5, <2>7, SeqEqual
<1> QED
  BY <1>4, <1>5, <1>7

\* Remove drops the oldest item.
LEMMA RemoveDrops ==
    ASSUME RingTypes, RingInv, Remove
    PROVE  /\ RingTypes' /\ RingInv'
           /\ Contents # <<>> /\ Contents' = Tail(Contents)
           /\ Oldest \in Lines \cup {NoItem}
<1>0. RingValues
  BY RingRange
<1>1. /\ m_size > 0 /\ m_size' = m_size - 1
      /\ m_array' = m_array /\ m_back' = m_back
  BY DEF Remove
<1>2. /\ Index(m_front + 1) = m_front'
      /\ m_front' = IF m_front + 1 < m_max_size THEN m_front + 1 ELSE 0
  <2>1. /\ m_front + 1 \in Int /\ m_front + 1 >= 0
        /\ m_front + 1 < m_max_size + m_max_size
    BY <1>0 DEF RingValues
  <2>2. m_front' = Index(m_front + 1)
    BY DEF Remove, Index
  <2>3. /\ m_front + 1 < m_max_size => Index(m_front + 1) = m_front + 1
        /\ ~(m_front + 1 < m_max_size) =>
                Index(m_front + 1) = m_front + 1 - m_max_size
    BY <1>0, <2>1, Wrap DEF RingValues
  <2> QED
    BY <1>0, <2>2, <2>3 DEF RingValues
<1>3. RingTypes'
  <2>1. /\ m_size' \in 0..m_max_size
        /\ m_front' \in -1..(m_max_size - 1)
        /\ m_back' \in -1..(m_max_size - 1)
    BY <1>0, <1>1, <1>2 DEF RingValues
  <2> QED
    BY <1>1, <2>1 DEF RingTypes
<1>4. RingInv'
  BY <1>0, <1>1, <1>2 DEF RingInv, RingValues
<1>5. Oldest \in Lines \cup {NoItem}
  <2>1. m_front' \in 0..(m_max_size - 1)
    BY <1>0, <1>2 DEF RingValues
  <2>2. Oldest = m_array[m_front']
    BY <1>2 DEF Oldest, Index
  <2> QED
    BY <2>1, <2>2 DEF RingTypes
<1>6. ASSUME NEW i \in 1..(m_size - 1)
      PROVE  Index(m_front' + i) = Index(m_front + (i + 1))
  <2>1. /\ m_front' + i \in Int /\ m_front' + i >= 0
        /\ m_front' + i < m_max_size + m_max_size
        /\ m_front + (i + 1) \in Int /\ m_front + (i + 1) >= 0
        /\ m_front + (i + 1) < m_max_size + m_max_size
    BY <1>0, <1>1, <1>2 DEF RingValues
  <2>2. /\ m_front' + i < m_max_size => Index(m_front' + i) = m_front' + i
        /\ ~(m_front' + i < m_max_size) =>
                Index(m_front' + i) = m_front' + i - m_max_size
    BY <1>0, <1>2, <2>1, Wrap DEF RingValues
  <2>3. /\ m_front + (i + 1) < m_max_size =>
                Index(m_front + (i + 1)) = m_front + (i + 1)
        /\ ~(m_front + (i + 1) < m_max_size) =>
                Index(m_front + (i + 1)) = m_front + (i + 1) - m_max_size
    BY <1>0, <2>1, Wrap DEF RingValues
  <2> QED
    BY <1>0, <1>1, <1>2, <2>2, <2>3 DEF RingValues
<1>7. Contents # <<>> /\ Contents' = Tail(Contents)
  <2>1. /\ Contents \in Seq(Lines \cup {NoItem})
        /\ Len(Contents) = m_size
        /\ \A i \in 1..m_size : Contents[i] = m_array[Index(m_front + i)]
    BY ContentsType
  <2>2. Contents' = [i \in 1..(m_size - 1) |->
                        m_array[Index(m_front + (i + 1))]]
    <3>1. Contents' = [i \in 1..(m_size - 1) |->
                            m_array[Index(m_front' + i)]]
      BY <1>1 DEF Contents, Index
    <3> QED
      BY <1>6, <3>1
  <2>3. Contents # <<>>
    BY <1>1, <2>1
  <2> DEFINE S == Lines \cup {NoItem}
             t == Tail(Contents)
  <2>4. /\ t \in Seq(S) /\ Len(t) = m_size - 1
        /\ \A i \in 1..(m_size - 1) : t[i] = Contents[i + 1]
    BY <2>1, <2>3, HeadTailProperties
  <2>5. \A i \in 1..(m_size - 1) : i + 1 \in 1..m_size
    BY <1>0 DEF RingValues
  <2>6. \A i \in 1..(m_size - 1) : Contents'[i] = t[i]
    BY <2>1, <2>2, <2>4, <2>5
  <2>7. \A i \in 1..(m_size - 1) : Contents'[i] \in S
    BY <2>1, <2>4, <2>5, <2>6
  <2>8. Contents' \in Seq(S) /\ Len(Contents') = m_size - 1
    BY <1>0, <1>1, <2>2, <2>7 DEF RingValues
  <2> QED
    BY <2>3, <2>4, <2>6, <2>8, SeqEqual
<1> QED
  BY <1>3, <1>4, <1>5, <1>7

-----------------------------------------------------------------------------
(* The invariant.                                                          *)

LEMMA TypesSplit == TypeOK => RingTypes
  BY DEF TypeOK, RingTypes

\* Actions that leave the queue alone.
LEMMA RingUnchanged ==
    RingTypes /\ RingInv /\ UNCHANGED ringVars => RingTypes' /\ RingInv'
  BY DEF RingTypes, RingInv, ringVars

\* The rest of TypeOK.
LineTypes ==
    /\ m_is_async \in BOOLEAN
    /\ {m_count, today, lines} \subseteq Nat
    /\ m_today \in 0..(DaysPerMonth - 1)
    /\ m_fp \in Nat \X Nat
    /\ opened \in Opened
    /\ pc \in [Writers -> {"idle", "count", "full", "push", "fputs"}]
    /\ my_tm \in [Writers -> 0..MaxDay]
    /\ log_str \in [Writers -> Lines \cup {NoItem}]
    /\ asleep \in BOOLEAN
    /\ single_log \in Lines \cup {NoItem}
    /\ file \in Seq([by : Writers \cup {LogThread}, line : Lines])
    /\ pushed \in Seq(Lines)
    /\ refused \subseteq Lines

LEMMA TypesJoin == TypeOK <=> RingTypes /\ LineTypes
  BY DEF TypeOK, RingTypes, LineTypes

LEMMA InitInv == Init => IInv
<1> SUFFICES ASSUME Init PROVE IInv
  OBVIOUS
<1>0. MaxLines \in Nat /\ MaxDay \in Nat
  BY LogAssumption
<1> USE <1>0, BlockQueueAssumption DEF Init, RingInit
<1>1. TypeOK
  <2>1. RingTypes
    BY DEF RingTypes
  <2>2. LineTypes
    <3>1. file \in Seq([by : Writers \cup {LogThread}, line : Lines])
      BY DEF Init
    <3>2. pushed \in Seq(Lines)
      BY DEF Init
    <3>3. m_is_async \in BOOLEAN /\ asleep \in BOOLEAN
      BY DEF Init
    <3>4. /\ {m_count, today, lines} \subseteq Nat
          /\ m_today \in 0..(DaysPerMonth - 1)
          /\ m_fp \in Nat \X Nat
      BY LogAssumption DEF Init
    <3>6. opened \in Opened
      BY <3>4 DEF Init, Openings, Opened
    <3>5. /\ pc \in [Writers -> {"idle", "count", "full", "push", "fputs"}]
          /\ my_tm \in [Writers -> 0..MaxDay]
          /\ log_str \in [Writers -> Lines \cup {NoItem}]
          /\ single_log \in Lines \cup {NoItem}
          /\ refused \subseteq Lines
      BY DEF Init
    <3> HIDE DEF Init
    <3> QED
      BY <3>1, <3>2, <3>3, <3>4, <3>5, <3>6 DEF LineTypes
  <2> QED
    BY <2>1, <2>2, TypesJoin
<1>2. BusyInv
  BY DEF BusyInv
<1>3. RingInv
  BY DEF RingInv
<1> QED
  BY <1>1, <1>2, <1>3 DEF IInv

LEMMA NoteTyped ==
    ASSUME NEW f \in Nat \X Nat, NEW n \in Nat, NEW late \in BOOLEAN
    PROVE  [name |-> f, lines |-> n, late |-> late] \in Openings
  BY DEF Openings

\* One more line for an entry.
LEMMA NoteMore ==
    ASSUME NEW o \in Openings
    PROVE  LET e == [o EXCEPT !.lines = @ + 1]
           IN  /\ e \in Openings /\ o.lines \in Nat
               /\ e.lines = o.lines + 1
               /\ e.name = o.name /\ e.late = o.late
  BY DEF Openings

\* A file is opened, or one more line counted for the one that is open.
LEMMA CountTypes ==
    ASSUME LineTypes, NEW t \in Writers, Count(t)
    PROVE  /\ m_count' \in Nat /\ m_today' \in 0..(DaysPerMonth - 1)
           /\ m_fp' \in Nat \X Nat /\ opened' \in Opened
<1>0. /\ m_count \in Nat /\ my_tm[t] \in Nat /\ m_fp \in Nat \X Nat
      /\ opened \in Seq(Openings) /\ Len(opened) \in 1..Len(opened)
  BY LogAssumption DEF LineTypes, Opened
<1>1. ASSUME NEW k \in Nat, Fopen(t, k)
      PROVE  m_fp' \in Nat \X Nat /\ opened' \in Opened
  <2>1. m_fp' = <<my_tm[t], k>> /\ m_fp' \in Nat \X Nat
    BY <1>0, <1>1 DEF Fopen
  <2> DEFINE e == [name |-> m_fp', lines |-> 1, late |-> my_tm[t] < m_fp[1]]
  <2>2. (my_tm[t] < m_fp[1]) \in BOOLEAN
    OBVIOUS
  <2>3. e \in Openings
    BY <2>1, <2>2, NoteTyped
  <2>4. opened' = Append(opened, e)
    BY <1>1 DEF Fopen
  <2> HIDE DEF e
  <2> QED BY <1>0, <2>1, <2>3, <2>4 DEF Opened
<1>2. ASSUME StayInFile
      PROVE  m_fp' \in Nat \X Nat /\ opened' \in Opened
  <2>1. opened[Len(opened)] \in Openings
    BY <1>0
  <2>2. [opened[Len(opened)] EXCEPT !.lines = @ + 1] \in Openings
    BY <2>1, NoteMore
  <2>3. /\ opened' = [opened EXCEPT ![Len(opened)] =
                        [opened[Len(opened)] EXCEPT !.lines = @ + 1]]
        /\ m_fp' = m_fp
    BY <1>2 DEF StayInFile
  <2>4. opened' \in Seq(Openings) /\ Len(opened') = Len(opened)
    BY <1>0, <2>2, <2>3, ExceptSeq
  <2> QED BY <1>0, <2>3, <2>4 DEF Opened
<1>3. tm_mday(my_tm[t]) \in 0..(DaysPerMonth - 1)
  BY <1>0, NextFile, LogAssumption DEF tm_mday
<1>4. CASE tm_mday(my_tm[t]) # m_today
  BY <1>1, <1>3, <1>4 DEF Count
<1>5. CASE tm_mday(my_tm[t]) = m_today
  <2>1. CountLine(t)
    BY <1>5 DEF Count
  <2>2. m_count' = m_count + 1 /\ m_count' \in Nat /\ m_today' = m_today
    BY <1>0, <2>1 DEF CountLine
  <2>3. m_count' \div m_split_lines \in Nat
    BY <2>2, SplitCount, Zenon
  <2> QED
    BY <1>1, <1>2, <2>1, <2>2, <2>3 DEF CountLine, LineTypes
<1> QED BY <1>4, <1>5

LEMMA StepInv == IInv /\ [Next]_vars => IInv'
<1> SUFFICES ASSUME IInv, [Next]_vars PROVE IInv'
  OBVIOUS
<1>1. RingTypes /\ LineTypes /\ BusyInv /\ RingInv
  BY TypesJoin DEF IInv
<1>2. ASSUME RingTypes', LineTypes', BusyInv', RingInv' PROVE IInv'
  <2>1. TypeOK'
    BY <1>2 DEF TypeOK, RingTypes, LineTypes
  <2> QED
    BY <1>2, <2>1 DEF IInv
<1>3. ASSUME UNCHANGED ringVars PROVE RingTypes' /\ RingInv'
  BY <1>1, <1>3, RingUnchanged
<1>4. \A t \in Writers : pc[t] # "idle" => log_str[t] \in Lines
  BY <1>1, LogAssumption DEF BusyInv, Lines, LineTypes
<1>5. CASE UNCHANGED vars
  <2>1. LineTypes'
    BY <1>1, <1>5 DEF LineTypes, vars, fileVars, lineVars, logVars, history
  <2>2. BusyInv'
    BY <1>1, <1>5 DEF BusyInv, vars, lineVars, history
  <2> QED
    BY <1>2, <1>3, <1>5, <2>1, <2>2 DEF vars
<1>6. ASSUME NEW t \in Writers, BeginLine(t) PROVE IInv'
  <2>1. UNCHANGED ringVars
    BY <1>6 DEF BeginLine
  <2>2. lines' \in Nat /\ lines' = lines + 1 /\ lines' \in Lines
    BY <1>1, <1>6, LogAssumption DEF BeginLine, LineTypes, Lines
  <2>3. today \in 0..MaxDay
    BY <1>1, LogAssumption DEF LineTypes, BusyInv
  <2>4. LineTypes'
    BY <1>1, <1>6, <2>2, <2>3 DEF LineTypes, BeginLine, Goto, fileVars,
       logVars
  <2>5. BusyInv'
    BY <1>1, <1>6, <2>2, LogAssumption DEF BusyInv, BeginLine, Goto,
       LineTypes, Lines
  <2> QED
    BY <1>2, <1>3, <2>1, <2>4, <2>5
<1>7. ASSUME NEW t \in Writers, Count(t) PROVE IInv'
  <2>1. UNCHANGED ringVars
    BY <1>7 DEF Count
  <2>2. /\ m_count' \in Nat /\ m_today' \in 0..(DaysPerMonth - 1)
        /\ m_fp' \in Nat \X Nat /\ opened' \in Opened
    BY <1>1, <1>7, CountTypes
  <2>3. LineTypes'
    BY <1>1, <1>7, <2>2 DEF LineTypes, Count, Goto, logVars, history
  <2>4. BusyInv'
    BY <1>1, <1>7 DEF BusyInv, Count, Goto, history, LineTypes
  <2> QED
    BY <1>2, <1>3, <2>1, <2>3, <2>4
<1>8. ASSUME NEW t \in Writers, CheckFull(t) PROVE IInv'
  <2>1. UNCHANGED ringVars
    BY <1>8 DEF CheckFull
  <2>2. LineTypes'
    BY <1>1, <1>8 DEF LineTypes, CheckFull, Goto, fileVars, logVars, history
  <2>3. BusyInv'
    BY <1>1, <1>8 DEF BusyInv, CheckFull, Goto, history, LineTypes
  <2> QED
    BY <1>2, <1>3, <2>1, <2>2, <2>3
<1>9. ASSUME NEW t \in Writers, Push(t) PROVE IInv'
  <2>1. log_str[t] \in Lines
    BY <1>4, <1>9 DEF Push
  <2>2. RingTypes' /\ RingInv'
    BY <1>1, <1>9, <2>1, StoreAppends DEF Push
  <2>3. pushed' \in Seq(Lines)
    BY <1>1, <1>9, <2>1 DEF LineTypes, Push
  <2>4. LineTypes'
    <3>1. /\ pc' = [pc EXCEPT ![t] = "idle"]
          /\ log_str' = [log_str EXCEPT ![t] = NoItem]
          /\ my_tm' = [my_tm EXCEPT ![t] = 0]
          /\ asleep' \in BOOLEAN
          /\ UNCHANGED <<m_is_async, m_count, m_today, m_fp, opened, today,
                         single_log, file, lines, refused>>
      BY <1>9 DEF Push, Return, Goto, fileVars
    <3> QED
      BY <1>1, <2>3, <3>1, LogAssumption DEF LineTypes
  <2>5. BusyInv'
    BY <1>1, <1>9 DEF BusyInv, Push, Return, Goto, LineTypes
  <2> QED
    BY <1>2, <2>2, <2>4, <2>5
<1>10. ASSUME NEW t \in Writers, PushRefused(t) PROVE IInv'
  <2>1. log_str[t] \in Lines
    BY <1>4, <1>10 DEF PushRefused
  <2>2. UNCHANGED ringVars
    BY <1>10 DEF PushRefused
  <2>3. LineTypes'
    <3>1. /\ pc' = [pc EXCEPT ![t] = "idle"]
          /\ log_str' = [log_str EXCEPT ![t] = NoItem]
          /\ my_tm' = [my_tm EXCEPT ![t] = 0]
          /\ asleep' \in BOOLEAN
          /\ refused' = refused \cup {log_str[t]}
          /\ UNCHANGED <<m_is_async, m_count, m_today, m_fp, opened, today,
                         single_log, file, lines, pushed>>
      BY <1>10 DEF PushRefused, Return, Goto, fileVars
    <3> QED
      BY <1>1, <2>1, <3>1, LogAssumption DEF LineTypes
  <2>4. BusyInv'
    BY <1>1, <1>10 DEF BusyInv, PushRefused, Return, Goto, LineTypes
  <2> QED
    BY <1>2, <1>3, <2>2, <2>3, <2>4
<1>11. ASSUME NEW t \in Writers, Fputs(t) PROVE IInv'
  <2>1. log_str[t] \in Lines
    BY <1>4, <1>11 DEF Fputs
  <2>2. UNCHANGED ringVars
    BY <1>11 DEF Fputs
  <2>3. file' \in Seq([by : Writers \cup {LogThread}, line : Lines])
    BY <1>1, <1>11, <2>1 DEF LineTypes, Fputs
  <2>4. LineTypes'
    BY <1>1, <1>11, <2>3, LogAssumption DEF LineTypes, Fputs, Return, Goto,
       fileVars, logVars, history
  <2>5. BusyInv'
    BY <1>1, <1>11 DEF BusyInv, Fputs, Return, Goto, LineTypes, history
  <2> QED
    BY <1>2, <1>3, <2>2, <2>4, <2>5
<1>12. CASE Pop
  <2>1. RingTypes' /\ RingInv' /\ Oldest \in Lines \cup {NoItem}
    BY <1>1, <1>12, RemoveDrops DEF Pop
  <2>2. LineTypes'
    BY <1>1, <1>12, <2>1 DEF LineTypes, Pop, fileVars, lineVars, history
  <2>3. BusyInv'
    BY <1>1, <1>12 DEF BusyInv, Pop, lineVars, history
  <2> QED
    BY <1>2, <2>1, <2>2, <2>3
<1>13. CASE Sleep \/ WakeUp
  <2>1. UNCHANGED ringVars
    BY <1>13 DEF Sleep, WakeUp
  <2>2. LineTypes'
    BY <1>1, <1>13 DEF LineTypes, Sleep, WakeUp, fileVars, lineVars, history
  <2>3. BusyInv'
    BY <1>1, <1>13 DEF BusyInv, Sleep, WakeUp, lineVars, history
  <2> QED
    BY <1>2, <1>3, <2>1, <2>2, <2>3
<1>14. CASE WritePopped
  <2>1. UNCHANGED ringVars
    BY <1>14 DEF WritePopped
  <2>2. single_log \in Lines
    BY <1>1, <1>14 DEF LineTypes, WritePopped
  <2>3. file' \in Seq([by : Writers \cup {LogThread}, line : Lines])
    BY <1>1, <1>14, <2>2 DEF LineTypes, WritePopped
  <2>4. LineTypes'
    BY <1>1, <1>14, <2>3 DEF LineTypes, WritePopped, fileVars, lineVars,
       history
  <2>5. BusyInv'
    BY <1>1, <1>14 DEF BusyInv, WritePopped, lineVars, history
  <2> QED
    BY <1>2, <1>3, <2>1, <2>4, <2>5
<1>15. CASE Midnight
  <2>1. UNCHANGED ringVars
    BY <1>15 DEF Midnight
  <2>2. LineTypes'
    BY <1>1, <1>15 DEF LineTypes, Midnight, fileVars, lineVars, logVars,
       history
  <2>3. BusyInv'
    BY <1>1, <1>15, LogAssumption DEF BusyInv, Midnight, lineVars, history,
       LineTypes
  <2> QED
    BY <1>2, <1>3, <2>1, <2>2, <2>3
<1> QED
  BY <1>5, <1>6, <1>7, <1>8, <1>9, <1>10, <1>11, <1>12, <1>13, <1>14, <1>15
     DEF Next, Writes

LEMMA Invariance == Safety => []IInv
<1> QED
  BY InitInv, StepInv, PTL DEF Safety

-----------------------------------------------------------------------------
(* The files.                                                              *)

\* The open file was opened last; m_today is its day, as days of the month go,
\* and the count is that of its number of full files and of its own lines.
FileInv ==
    LET last == opened[Len(opened)] IN
    /\ last.name = m_fp
    /\ m_today = tm_mday(m_fp[1])
    /\ m_fp[2] = m_count \div m_split_lines
    /\ last.lines <= (m_count % m_split_lines) + 1

\* What an opening has to be for the files to stay in turn: it follows the last
\* one, or is late.
LEMMA OpenNext ==
    ASSUME opened \in Seq(Openings), opened # <<>>, FilesInTurn, FileInv,
           m_split_lines \in Nat \ {0},
           NEW e \in Openings, opened' = Append(opened, e), e.lines = 1,
           e.late \/ Before(m_fp, e.name)
    PROVE  FilesInTurn'
<1> DEFINE n == Len(opened)
<1>1. /\ n \in Nat /\ n > 0 /\ Len(opened') = n + 1
      /\ \A i \in 1..n : opened'[i] = opened[i] /\ opened[i] \in Openings
      /\ opened'[n + 1] = e
  OBVIOUS
<1> HIDE DEF n
<1>2. /\ DOMAIN opened = 1..n /\ DOMAIN opened' = 1..(n + 1)
  BY <1>1 DEF n
<1>3. ASSUME NEW i \in DOMAIN opened'
      PROVE  opened'[i].lines <= m_split_lines
  <2>1. CASE i = n + 1
    BY <1>1, <2>1
  <2>2. CASE i # n + 1
    BY <1>1, <1>2, <2>2 DEF FilesInTurn
  <2> QED BY <2>1, <2>2
<1>4. ASSUME NEW j \in 1..(n + 1), NEW i \in 1..(j - 1)
      PROVE  \/ Before(opened'[i].name, opened'[j].name)
             \/ \E k \in (i + 1)..j : opened'[k].late
  <2>1. CASE j # n + 1
    <3>1. j \in 1..n /\ i \in 1..n
      BY <1>1, <2>1
    <3>2. CASE Before(opened[i].name, opened[j].name)
      BY <1>1, <3>1, <3>2
    <3>3. CASE \E k \in (i + 1)..j : opened[k].late
      <4>1. PICK k \in (i + 1)..j : opened[k].late
        BY <3>3
      <4>2. k \in 1..n
        BY <1>1, <3>1
      <4> QED BY <1>1, <4>1, <4>2
    <3> QED BY <1>2, <3>1, <3>2, <3>3 DEF FilesInTurn
  <2>2. CASE j = n + 1 /\ e.late
    <3>1. n + 1 \in (i + 1)..j
      BY <1>1, <2>2
    <3> QED BY <1>1, <2>2, <3>1
  <2>3. CASE j = n + 1 /\ Before(m_fp, e.name)
    <3>0. i \in 1..n /\ n \in 1..n /\ opened[n].name = m_fp
      BY <1>1, <2>3 DEF FileInv, n
    <3>1. CASE i = n
      BY <1>1, <2>3, <3>0, <3>1
    <3>2. CASE i # n /\ Before(opened[i].name, opened[n].name)
      <4>1. /\ opened[i].name \in Nat \X Nat /\ m_fp \in Nat \X Nat
            /\ e.name \in Nat \X Nat
        BY <1>1, <3>0 DEF Openings
      <4>2. Before(opened[i].name, e.name)
        BY <2>3, <3>0, <3>2, <4>1 DEF Before
      <4> QED BY <1>1, <2>3, <3>0, <4>2
    <3>3. CASE i # n /\ \E k \in (i + 1)..n : opened[k].late
      <4>1. PICK k \in (i + 1)..n : opened[k].late
        BY <3>3
      <4>2. k \in 1..n /\ k \in (i + 1)..j
        BY <1>1, <2>3, <3>0
      <4> QED BY <1>1, <4>1, <4>2
    <3>4. i # n => i \in 1..(n - 1)
      BY <1>1, <3>0
    <3> QED BY <1>2, <3>0, <3>1, <3>2, <3>3, <3>4 DEF FilesInTurn
  <2> QED BY <1>1, <2>1, <2>2, <2>3
<1> QED BY <1>2, <1>3, <1>4 DEF FilesInTurn

\* A line more for the open file, as long as there is room for it.
LEMMA StayLast ==
    ASSUME opened \in Seq(Openings), opened # <<>>, FilesInTurn, StayInFile,
           opened[Len(opened)].lines < m_split_lines,
           m_split_lines \in Nat \ {0}
    PROVE  /\ FilesInTurn'
           /\ Len(opened') = Len(opened)
           /\ opened'[Len(opened)].name = opened[Len(opened)].name
           /\ opened'[Len(opened)].lines = opened[Len(opened)].lines + 1
<1> DEFINE n == Len(opened)
<1>1. /\ n \in Nat /\ n > 0 /\ DOMAIN opened = 1..n
      /\ \A i \in 1..n : opened[i] \in Openings
  OBVIOUS
<1>2. opened' = [opened EXCEPT ![n] = [opened[n] EXCEPT !.lines = @ + 1]]
  BY DEF StayInFile
<1> HIDE DEF n
<1> DEFINE e == [opened[n] EXCEPT !.lines = @ + 1]
<1>3. /\ e \in Openings /\ e.lines = opened[n].lines + 1
      /\ e.name = opened[n].name /\ e.late = opened[n].late
  <2>1. n \in 1..n
    BY <1>1
  <2> QED BY <1>1, <2>1, NoteMore
<1> HIDE DEF e
<1>4. /\ opened' \in Seq(Openings) /\ Len(opened') = n
      /\ \A i \in 1..n : opened'[i] = IF i = n THEN e ELSE opened[i]
  <2>1. n \in 1..Len(opened) /\ Len(opened) = n
    BY <1>1 DEF n
  <2>2. opened' = [opened EXCEPT ![n] = e]
    BY <1>2 DEF e
  <2> QED BY <1>3, <2>1, <2>2, ExceptSeq
<1>5. DOMAIN opened' = 1..n /\ Len(opened') = n
  BY <1>1, <1>4
<1>6. ASSUME NEW i \in 1..n
      PROVE  /\ opened'[i].name = opened[i].name
             /\ opened'[i].late = opened[i].late
             /\ opened'[i].lines = IF i = n THEN opened[n].lines + 1
                                            ELSE opened[i].lines
  BY <1>3, <1>4
<1>7. ASSUME NEW i \in 1..n PROVE opened'[i].lines <= m_split_lines
  <2>1. CASE i = n
    <3>1. opened[n].lines \in Nat /\ opened[n].lines < m_split_lines
      <4>1. n \in 1..n
        BY <1>1
      <4>2. opened[n].lines \in Nat
        BY <1>1, <4>1, NoteMore
      <4> QED BY <4>2 DEF n
    <3> QED BY <1>6, <2>1, <3>1
  <2>2. CASE i # n
    BY <1>1, <1>6, <2>2 DEF FilesInTurn
  <2> QED BY <2>1, <2>2
<1>8. ASSUME NEW j \in 1..n, NEW i \in 1..(j - 1)
      PROVE  \/ Before(opened'[i].name, opened'[j].name)
             \/ \E k \in (i + 1)..j : opened'[k].late
  <2>1. i \in 1..n /\ (i + 1)..j \subseteq 1..n
    BY <1>1
  <2>2. \/ Before(opened[i].name, opened[j].name)
        \/ \E k \in (i + 1)..j : opened[k].late
    BY <1>1 DEF FilesInTurn
  <2> QED BY <1>6, <2>1, <2>2
<1>9. FilesInTurn'
  BY <1>5, <1>7, <1>8 DEF FilesInTurn
<1>10. n \in 1..n
  BY <1>1
<1> QED BY <1>5, <1>6, <1>9, <1>10 DEF n

-----------------------------------------------------------------------------
(* Theorems.                                                               *)

\* Every variable keeps its type, and the indices of the circular array stay
\* within it, whatever its capacity.
THEOREM TypeCorrect == Safety => []TypeOK
<1>1. IInv => TypeOK
  BY DEF IInv
<1> QED
  BY <1>1, Invariance, PTL

\* Whatever writers read the clock before midnight and count after it, no file
\* gets more than m_split_lines of the lines counted while it is open, and the
\* files follow one another by day and number except where a writer is late;
\* for any number of lines to a file and of days to a month.
THEOREM FilesFollow == Safety => []FilesInTurn
<1> DEFINE Inv == FilesInTurn /\ FileInv
<1>0. m_split_lines \in Nat \ {0}
  BY LogAssumption
<1>1. Init => Inv
  <2> SUFFICES ASSUME Init PROVE Inv
    OBVIOUS
  <2>1. opened = <<[name |-> <<0, 0>>, lines |-> 0, late |-> FALSE]>>
        /\ m_fp = <<0, 0>> /\ m_count = 0 /\ m_today = 0
    BY DEF Init
  <2>2. tm_mday(0) = 0
    BY NextFile, LogAssumption DEF tm_mday
  <2>3. Len(opened) = 1 /\ DOMAIN opened = {1} /\ opened[1].lines = 0
        /\ opened[1].name = <<0, 0>>
    BY <2>1
  <2>4. FilesInTurn
    BY <1>0, <2>3 DEF FilesInTurn
  <2>5. FileInv
    BY <2>1, <2>2, <2>3, SplitCount DEF FileInv
  <2> QED BY <2>4, <2>5
<1>2. IInv /\ Inv /\ [Next]_vars => Inv'
  <2> SUFFICES ASSUME IInv, FilesInTurn, FileInv, [Next]_vars
               PROVE  FilesInTurn' /\ FileInv'
    OBVIOUS
  <2>1. /\ opened \in Seq(Openings) /\ opened # <<>>
        /\ m_count \in Nat /\ m_fp \in Nat \X Nat
        /\ \A t \in Writers : my_tm[t] \in Nat
    BY LogAssumption DEF IInv, TypeOK, Opened
  <2>2. /\ Len(opened) \in 1..Len(opened)
        /\ opened[Len(opened)].lines \in Nat
    <3>1. Len(opened) \in 1..Len(opened)
      BY <2>1
    <3>2. opened[Len(opened)] \in Openings
      BY <2>1, <3>1
    <3> QED BY <3>1, <3>2 DEF Openings
  \* A file with a larger name, or a late writer's, is opened.
  <2>3. ASSUME NEW t \in Writers, NEW k \in Nat, Fopen(t, k),
               m_today' = tm_mday(my_tm[t]), k = m_count' \div m_split_lines,
               m_count' \in Nat,
               \/ my_tm[t] < m_fp[1]
               \/ Before(m_fp, <<my_tm[t], k>>)
        PROVE  FilesInTurn' /\ FileInv'
    <3> DEFINE e == [name |-> <<my_tm[t], k>>, lines |-> 1,
                     late |-> my_tm[t] < m_fp[1]]
    <3>1. m_fp' = <<my_tm[t], k>> /\ opened' = Append(opened, e)
      BY <2>3 DEF Fopen
    <3>2. /\ e \in Openings /\ e.lines = 1 /\ e.name = <<my_tm[t], k>>
          /\ e.late \/ Before(m_fp, e.name)
      <4>1. <<my_tm[t], k>> \in Nat \X Nat /\ (my_tm[t] < m_fp[1]) \in BOOLEAN
        BY <2>1
      <4> QED BY <2>3, <4>1, NoteTyped
    <3> HIDE DEF e
    <3>3. FilesInTurn'
      BY <1>0, <2>1, <3>1, <3>2, OpenNext
    <3>4. Len(opened') = Len(opened) + 1 /\ opened'[Len(opened')] = e
      BY <2>1, <3>1, <3>2
    <3>5. m_count' % m_split_lines \in Nat
      <4>1. m_count' % m_split_lines \in 0..(m_split_lines - 1)
        BY <2>3, SplitCount, Zenon
      <4> QED BY <1>0, <4>1
    <3> QED BY <2>1, <2>3, <3>1, <3>2, <3>3, <3>4, <3>5 DEF FileInv
  <2>4. ASSUME NEW t \in Writers, Count(t)
        PROVE  FilesInTurn' /\ FileInv'
    <3>1. CASE tm_mday(my_tm[t]) # m_today
      <4>1. /\ m_count' = 0 /\ m_today' = tm_mday(my_tm[t]) /\ Fopen(t, 0)
        BY <2>4, <3>1 DEF Count
      <4>4. 0 \in Nat /\ 0 = 0 \div m_split_lines
        BY SplitCount
      <4>2. my_tm[t] # m_fp[1]
        BY <3>1 DEF FileInv
      <4>3. my_tm[t] < m_fp[1] \/ Before(m_fp, <<my_tm[t], 0>>)
        BY <2>1, <4>2 DEF Before
      <4> QED BY <2>3, <4>1, <4>3, <4>4
    <3>2. CASE tm_mday(my_tm[t]) = m_today
      <4>0. /\ m_today' = m_today /\ m_count' = m_count + 1
            /\ IF m_count' % m_split_lines = 0
                 THEN Fopen(t, m_count' \div m_split_lines)
                 ELSE StayInFile
        BY <2>4, <3>2 DEF Count, CountLine
      <4>1. CASE (m_count + 1) % m_split_lines = 0
        <5> DEFINE k == (m_count + 1) \div m_split_lines
        <5>1. /\ k \in Nat /\ k = (m_count \div m_split_lines) + 1
              /\ m_count \div m_split_lines \in Nat
          <6>1. /\ k = (m_count \div m_split_lines) + 1
                /\ m_count \div m_split_lines \in Nat
            BY <2>1, <4>1, SplitCount, Zenon
          <6> QED BY <6>1
        <5>2. /\ Fopen(t, k) /\ k = m_count' \div m_split_lines
              /\ m_count' \in Nat
          BY <2>1, <4>0, <4>1
        <5>3. m_fp[2] < k
          BY <5>1 DEF FileInv
        <5> HIDE DEF k
        <5>4. my_tm[t] < m_fp[1] \/ Before(m_fp, <<my_tm[t], k>>)
          BY <2>1, <5>1, <5>3 DEF Before
        <5> QED BY <2>3, <3>2, <4>0, <5>1, <5>2, <5>4
      <4>2. CASE (m_count + 1) % m_split_lines # 0
        <5>1. /\ (m_count + 1) \div m_split_lines = m_count \div m_split_lines
              /\ (m_count + 1) % m_split_lines
                    = (m_count % m_split_lines) + 1
              /\ (m_count + 1) % m_split_lines \in 0..(m_split_lines - 1)
              /\ m_count % m_split_lines \in 0..(m_split_lines - 1)
          <6>1. m_count + 1 \in Nat
            BY <2>1
          <6> QED BY <2>1, <4>2, <6>1, SplitCount, Zenon
        <5>2. opened[Len(opened)].lines < m_split_lines
          BY <1>0, <2>2, <5>1 DEF FileInv
        <5>3. StayInFile /\ m_fp' = m_fp
          BY <4>0, <4>2 DEF StayInFile
        <5>4. /\ FilesInTurn' /\ Len(opened') = Len(opened)
              /\ opened'[Len(opened)].name = opened[Len(opened)].name
              /\ opened'[Len(opened)].lines = opened[Len(opened)].lines + 1
          BY <1>0, <2>1, <5>2, <5>3, StayLast
        <5> QED BY <2>2, <4>0, <5>1, <5>3, <5>4 DEF FileInv
      <4> QED BY <4>1, <4>2
    <3> QED BY <3>1, <3>2
  <2>5. CASE UNCHANGED fileVars
    BY <2>5 DEF FilesInTurn, FileInv, fileVars
  <2> QED
    BY <2>4, <2>5 DEF Next, Writes, BeginLine, CheckFull, Push, PushRefused,
       Fputs, Pop, Sleep, WakeUp, WritePopped, Midnight, vars
<1> QED
  BY <1>1, <1>2, Invariance, PTL DEF Safety

\* The circular array is a bounded FIFO: what is pushed is appended, if there
\* is room, and what is popped was the oldest.
THEOREM RingIsBoundedQueue == Safety => BQ!Safety
<1>1. Init => BQ!Init
  <2> SUFFICES ASSUME Init PROVE Contents = <<>>
    BY DEF BQ!Init
  <2>1. m_size = 0
    BY DEF Init, RingInit
  <2> QED
    BY <2>1 DEF Contents
<1>2. IInv /\ [Next]_vars => [BQ!Next]_Contents
  <2> SUFFICES ASSUME IInv, [Next]_vars PROVE BQ!Next \/ UNCHANGED Contents
    OBVIOUS
  <2>1. RingTypes /\ RingInv
    BY TypesJoin DEF IInv
  <2>2. ASSUME NEW t \in Writers, Push(t) PROVE BQ!Next
    <3>1. log_str[t] \in Lines
      <4>1. pc[t] = "push"
        BY <2>2 DEF Push
      <4>2. log_str[t] \in 1..lines /\ lines <= MaxLines
        BY <4>1 DEF IInv, BusyInv
      <4>3. lines \in Nat
        BY DEF IInv, TypeOK
      <4> QED
        BY <4>2, <4>3, LogAssumption DEF Lines
    <3>2. Contents' = Append(Contents, log_str[t])
      BY <2>1, <2>2, <3>1, StoreAppends DEF Push
    <3>3. Len(Contents) < m_max_size
      BY <2>1, <2>2, ContentsType, RingRange DEF Push, Full, RingValues
    <3>4. BQ!Push(log_str[t])
      BY <3>2, <3>3 DEF BQ!Push
    <3> QED
      BY <3>1, <3>4 DEF BQ!Next
  <2>3. CASE Pop
    BY <2>1, <2>3, RemoveDrops DEF Pop, BQ!Next, BQ!Pop
  <2>4. CASE UNCHANGED ringVars
    BY <2>4 DEF ringVars, Contents
  <2> QED
    BY <2>2, <2>3, <2>4 DEF Next, Writes, BeginLine, Count, CheckFull,
       PushRefused, Fputs, Sleep, WakeUp, WritePopped, Midnight, vars
<1> QED
  BY <1>1, <1>2, Invariance, PTL DEF Safety, BQ!Safety

-----------------------------------------------------------------------------
(* The way through the queue.                                              *)

Entries == [by : Writers \cup {LogThread}, line : Lines]

\* The entry e, written after the lines q of the log thread.
After(e, q) == IF e.by = LogThread THEN Append(q, e.line) ELSE q

\* What the recursive definition of Drained says.
LEMMA DrainedEquation ==
    ASSUME NEW s \in Seq(Entries)
    PROVE  /\ Drained(s) \in [0..Len(s) -> Seq(Lines)]
           /\ Drained(s)[0] = <<>>
           /\ \A i \in 1..Len(s) :
                Drained(s)[i] = After(s[i], Drained(s)[i - 1])
<1> DEFINE N == Len(s)
           f == [a \in (1..N) \X Seq(Lines) |-> After(s[a[1]], a[2])]
<1>1. N \in Nat
  OBVIOUS
<1>2. \A i \in 1..N : s[i].by \in Writers \cup {LogThread} /\ s[i].line \in Lines
  <2>1. \A i \in 1..N : s[i] \in Entries
    BY ElementOfSeq
  <2> QED
    BY <2>1 DEF Entries
<1>3. \A i \in 1..N, q \in Seq(Lines) : After(s[i], q) \in Seq(Lines)
  BY <1>2 DEF After
<1>4. <<>> \in Seq(Lines) /\ f \in [(1..N) \X Seq(Lines) -> Seq(Lines)]
  BY <1>3
<1> HIDE DEF N
<1>5. PICK g : Run(g, Seq(Lines), <<>>, f, N)
  <2> HIDE DEF f
  <2> QED
    BY <1>1, <1>4, RunExists
<1>6. \A i \in 1..N : g[i] = After(s[i], g[i - 1])
  <2>1. \A i \in 1..N : i - 1 \in 0..N
    BY <1>1
  <2>2. \A a \in (1..N) \X Seq(Lines) : f[a] = After(s[a[1]], a[2])
    OBVIOUS
  <2> HIDE DEF f
  <2>3. ASSUME NEW i \in 1..N
        PROVE  g[i] = After(s[i], g[i - 1])
    <3>1. g[i - 1] \in Seq(Lines)
      BY <1>5, <2>1 DEF Run
    <3>2. g[i] = f[<<i, g[i - 1]>>]
      BY <1>5 DEF Run
    <3>3. f[<<i, g[i - 1]>>] = After(s[i], g[i - 1])
      BY <2>2, <3>1
    <3> QED
      BY <3>2, <3>3
  <2> QED
    BY <2>3
<1>7. g = [i \in 0..N |-> IF i = 0 THEN <<>> ELSE After(s[i], g[i - 1])]
  BY <1>1, <1>5, <1>6 DEF Run
<1>8. Drained(s) = [i \in 0..N |-> IF i = 0 THEN <<>>
                                   ELSE After(s[i], Drained(s)[i - 1])]
  BY <1>7, Zenon DEF Drained, After, N
<1>9. /\ Drained(s)[0] = <<>>
      /\ \A i \in 1..N : Drained(s)[i] = After(s[i], Drained(s)[i - 1])
  BY <1>1, <1>8
<1>10. \A i \in 0..N : Drained(s)[i] \in Seq(Lines)
  <2> DEFINE Bad == {i \in 0..N : Drained(s)[i] \notin Seq(Lines)}
  <2> SUFFICES ASSUME Bad # {} PROVE FALSE
    OBVIOUS
  <2>1. Bad \in SUBSET Nat
    BY <1>1
  <2>2. PICK i \in Bad : \A j \in Bad : i <= j
    BY <2>1, LeastNumber
  <2>3. i # 0
    BY <1>4, <1>9
  <2>4. i \in 1..N /\ i - 1 \in 0..N /\ i - 1 \notin Bad
    BY <1>1, <2>2, <2>3
  <2> QED
    BY <1>3, <1>9, <2>4
<1>11. Drained(s) \in [0..N -> Seq(Lines)]
  BY <1>8, <1>10
<1> QED
  BY <1>9, <1>11 DEF N

\* One more entry: the log thread's is one more line, a writer's is none.
LEMMA DrainedAppend ==
    ASSUME NEW s \in Seq(Entries), NEW e \in Entries
    PROVE  Drained(Append(s, e))[Len(s) + 1] = After(e, Drained(s)[Len(s)])
<1> DEFINE t == Append(s, e)
           N == Len(s)
<1>1. /\ N \in Nat /\ t \in Seq(Entries) /\ Len(t) = N + 1
      /\ \A i \in 1..N : t[i] = s[i]
      /\ t[N + 1] = e
  BY AppendProperties
<1>2. /\ Drained(s)[0] = <<>>
      /\ \A i \in 1..N : Drained(s)[i] = After(s[i], Drained(s)[i - 1])
  BY DrainedEquation
<1> HIDE DEF t
<1>3. /\ Drained(t)[0] = <<>>
      /\ \A i \in 1..(N + 1) : Drained(t)[i] = After(t[i], Drained(t)[i - 1])
  BY <1>1, DrainedEquation
<1> HIDE DEF N
<1>4. \A i \in 0..N : Drained(t)[i] = Drained(s)[i]
  <2> DEFINE Bad == {i \in 0..N : Drained(t)[i] # Drained(s)[i]}
  <2> SUFFICES ASSUME Bad # {} PROVE FALSE
    OBVIOUS
  <2>1. Bad \in SUBSET Nat
    BY <1>1
  <2>2. PICK i \in Bad : \A j \in Bad : i <= j
    BY <2>1, LeastNumber
  <2>3. i # 0
    BY <1>2, <1>3
  <2>4. /\ i \in 1..N /\ i \in 1..(N + 1)
        /\ i - 1 \in 0..N /\ i - 1 \notin Bad
    BY <1>1, <2>2, <2>3
  <2>5. Drained(t)[i - 1] = Drained(s)[i - 1]
    BY <2>4
  <2> QED
    BY <1>1, <1>2, <1>3, <2>2, <2>4, <2>5
<1>5. N + 1 \in 1..(N + 1) /\ (N + 1) - 1 = N /\ N \in 0..N
  BY <1>1
<1>6. Drained(t)[N + 1] = After(e, Drained(t)[N])
  BY <1>1, <1>3, <1>5
<1> QED
  BY <1>4, <1>5, <1>6 DEF t, N

LEMMA OrderStep ==
    IInv /\ QueuedInOrder /\ [Next]_vars => QueuedInOrder'
<1> SUFFICES ASSUME IInv, QueuedInOrder, [Next]_vars PROVE QueuedInOrder'
  OBVIOUS
<1> DEFINE d == Drained(file)[Len(file)]
           held == IF single_log = NoItem THEN <<>> ELSE <<single_log>>
           S == Lines \cup {NoItem}
<1>1. RingTypes /\ LineTypes /\ RingInv /\ BusyInv
  BY TypesJoin DEF IInv
<1>2. /\ file \in Seq(Entries) /\ Len(file) \in Nat
      /\ pushed \in Seq(Lines) /\ pushed \in Seq(S)
      /\ single_log \in S
  BY <1>1 DEF LineTypes, Entries
<1>3. d \in Seq(Lines) /\ d \in Seq(S)
  <2>1. Len(file) \in 0..Len(file)
    BY <1>2
  <2>2. d \in Seq(Lines)
    BY <1>2, <2>1, DrainedEquation
  <2> QED
    BY <2>2
<1>4. held \in Seq(S)
  <2>1. <<>> \in Seq(S) /\ <<single_log>> \in Seq(S)
    BY <1>2
  <2> QED
    BY <2>1
<1>5. Contents \in Seq(S)
  BY <1>1, ContentsType
<1>6. pushed = d \o held \o Contents
  BY DEF QueuedInOrder
<1>7. CASE UNCHANGED <<ringVars, file, single_log, pushed>>
  <2>1. Contents' = Contents
    BY <1>7 DEF ringVars, Contents
  <2> QED
    BY <1>7, <2>1 DEF QueuedInOrder
<1>8. ASSUME NEW t \in Writers, Push(t) PROVE QueuedInOrder'
  <2>0. log_str[t] \in 1..lines /\ lines <= MaxLines /\ lines \in Nat
    BY <1>1, <1>8 DEF BusyInv, Push, LineTypes
  <2>1. PICK x \in Lines : x = log_str[t]
    BY <2>0, LogAssumption DEF Lines
  <2>2. Contents' = Append(Contents, x)
    BY <1>1, <1>8, <2>1, StoreAppends DEF Push
  <2>3. /\ pushed' = Append(pushed, x)
        /\ UNCHANGED <<file, single_log>>
    BY <1>8, <2>1 DEF Push
  <2> HIDE DEF d, held
  <2>4. Append(d \o held \o Contents, x) = d \o held \o Append(Contents, x)
    <3> DEFINE a == d \o held
    <3>1. a \in Seq(S) /\ x \in S /\ <<x>> \in Seq(S) /\ a \o Contents \in Seq(S)
      BY <1>3, <1>4, <1>5
    <3> HIDE DEF a, S
    <3>2. Append(a \o Contents, x) = (a \o Contents) \o <<x>>
      BY <3>1, AppendIsConcat
    <3>3. (a \o Contents) \o <<x>> = a \o (Contents \o <<x>>)
      BY <1>5, <3>1, ConcatAssociative
    <3>4. Contents \o <<x>> = Append(Contents, x)
      BY <1>5, <3>1, AppendIsConcat
    <3> QED
      BY <3>2, <3>3, <3>4 DEF a
  <2>5. pushed' = d \o held \o Contents'
    BY <1>6, <2>2, <2>3, <2>4
  <2> QED
    BY <2>3, <2>5 DEF QueuedInOrder, d, held
<1>9. ASSUME NEW t \in Writers, Fputs(t) PROVE QueuedInOrder'
  <2> DEFINE e == [by |-> t, line |-> log_str[t]]
  <2>1. log_str[t] \in Lines
    BY <1>1, <1>9, LogAssumption DEF BusyInv, Fputs, LineTypes, Lines
  <2>2. e \in Entries /\ e.by # LogThread
    BY <2>1, LogAssumption DEF Entries
  <2>3. /\ file' = Append(file, e)
        /\ UNCHANGED <<ringVars, single_log, pushed>>
    BY <1>9 DEF Fputs, logVars, history
  <2> HIDE DEF e
  <2>4. Drained(file')[Len(file')] = Drained(file)[Len(file)]
    <3>1. Len(file') = Len(file) + 1
      BY <1>2, <2>2, <2>3, AppendProperties
    <3>2. Drained(file')[Len(file) + 1] = After(e, d)
      BY <1>2, <2>2, <2>3, DrainedAppend
    <3> QED
      BY <2>2, <3>1, <3>2 DEF After
  <2>5. Contents' = Contents
    BY <2>3 DEF ringVars, Contents
  <2> QED
    BY <2>3, <2>4, <2>5 DEF QueuedInOrder
<1>10. CASE WritePopped
  <2> DEFINE e == [by |-> LogThread, line |-> single_log]
  <2>1. single_log # NoItem /\ single_log \in Lines
    BY <1>2, <1>10 DEF WritePopped
  <2>2. e \in Entries /\ e.by = LogThread /\ e.line = single_log
    BY <2>1 DEF Entries
  <2>3. /\ file' = Append(file, e) /\ single_log' = NoItem
        /\ UNCHANGED <<ringVars, pushed>>
    BY <1>10 DEF WritePopped, history
  <2> HIDE DEF e
  <2>4. Drained(file')[Len(file')] = Append(d, single_log)
    <3>1. Len(file') = Len(file) + 1
      BY <1>2, <2>2, <2>3, AppendProperties
    <3>2. Drained(file')[Len(file) + 1] = After(e, d)
      BY <1>2, <2>2, <2>3, DrainedAppend
    <3> QED
      BY <2>2, <3>1, <3>2 DEF After
  <2>5. Contents' = Contents
    BY <2>3 DEF ringVars, Contents
  <2>6. Append(d, single_log) = d \o held /\ d \o held \in Seq(S)
    <3>1. Append(d, single_log) = d \o <<single_log>>
      BY <1>3, <2>1, AppendIsConcat
    <3> QED
      BY <1>3, <1>4, <2>1, <3>1
  <2>7. (d \o held) \o <<>> = d \o held
    <3> HIDE DEF d, held, S
    <3> QED
      BY <2>6, ConcatEmptySeq
  <2>8. pushed' = Append(d, single_log) \o <<>> \o Contents'
    BY <1>6, <2>3, <2>5, <2>6, <2>7
  <2> QED
    BY <2>3, <2>4, <2>8 DEF QueuedInOrder
<1>11. CASE Pop
  <2> DEFINE x == Oldest
             rest == Tail(Contents)
  <2>1. /\ single_log = NoItem /\ single_log' = x
        /\ UNCHANGED <<file, pushed>>
    BY <1>11 DEF Pop, history
  <2>2. Contents # <<>> /\ Contents' = rest
    BY <1>1, <1>11, RemoveDrops DEF Pop
  <2>3. pushed = d \o Contents
    <3>1. held = <<>>
      BY <2>1
    <3>2. d \o <<>> = d
      <4> HIDE DEF d, S
      <4> QED
        BY <1>3, ConcatEmptySeq
    <3> QED
      BY <1>6, <3>1, <3>2
  <2>4. Contents[1] = x /\ Contents[1] = Head(Contents)
    <3>1. m_size > 0 /\ m_size \in Nat
      BY <1>1, <1>11, RingRange DEF Pop, Remove, RingValues
    <3>2. 1 \in 1..m_size
      BY <3>1
    <3> QED
      BY <1>1, <2>2, <3>2, ContentsType DEF Oldest, Index
  <2>5. x \in Lines
    <3> DEFINE n == Len(d) + 1
    <3>1. Len(Contents) \in Nat \ {0} /\ Len(d) \in Nat
      BY <1>3, <1>5, <2>2
    <3> HIDE DEF d, S
    <3>2. /\ Len(pushed) = Len(d) + Len(Contents)
          /\ \A i \in 1..(Len(d) + Len(Contents)) :
                pushed[i] = IF i <= Len(d) THEN d[i] ELSE Contents[i - Len(d)]
      BY <1>3, <1>5, <2>3, ConcatProperties
    <3>3. n \in 1..Len(pushed) /\ n - Len(d) = 1 /\ ~(n <= Len(d))
      BY <3>1, <3>2
    <3>4. pushed[n] = Contents[1]
      BY <3>2, <3>3
    <3> QED
      BY <1>2, <2>4, <3>3, <3>4, ElementOfSeq
  <2>6. x # NoItem
    BY <2>5, LogAssumption DEF Lines
  <2>7. <<x>> \in Seq(S) /\ rest \in Seq(S) /\ <<x>> \o rest = Contents
    <3>1. Contents = <<Head(Contents)>> \o Tail(Contents)
      <4>1. /\ Head(Contents) \in S /\ rest \in Seq(S)
            /\ Len(rest) = Len(Contents) - 1
            /\ \A i \in 1..Len(rest) : rest[i] = Contents[i + 1]
            /\ Len(Contents) \in Nat \ {0}
        BY <1>5, <2>2, HeadTailProperties, EmptySeq
      <4> DEFINE c == <<Head(Contents)>> \o rest
                 one == <<Head(Contents)>>
      <4>2. one \in Seq(S) /\ Len(one) = 1 /\ one[1] = Head(Contents)
        BY <4>1
      <4> HIDE DEF S, rest, one
      <4>3. /\ one \o rest \in Seq(S) /\ Len(one \o rest) = Len(Contents)
            /\ \A i \in 1..Len(Contents) :
                 (one \o rest)[i] = IF i <= 1 THEN one[i] ELSE rest[i - 1]
        <5>1. Len(one) + Len(rest) = Len(Contents)
          BY <4>1, <4>2
        <5>2. /\ one \o rest \in Seq(S)
              /\ Len(one \o rest) = Len(one) + Len(rest)
              /\ \A i \in 1..(Len(one) + Len(rest)) :
                   (one \o rest)[i] = IF i <= Len(one) THEN one[i]
                                      ELSE rest[i - Len(one)]
          BY <4>1, <4>2, ConcatProperties
        <5> QED
          BY <4>2, <5>1, <5>2
      <4>4. \A i \in 1..Len(Contents) : (one \o rest)[i] = Contents[i]
        <5> TAKE i \in 1..Len(Contents)
        <5>1. CASE i = 1
          BY <2>4, <4>2, <4>3, <5>1
        <5>2. CASE i # 1
          <6>1. i - 1 \in 1..Len(rest) /\ (i - 1) + 1 = i /\ ~(i <= 1)
            BY <4>1, <5>2
          <6> QED
            BY <4>1, <4>3, <6>1
        <5> QED
          BY <5>1, <5>2
      <4>5. one \o rest = Contents
        BY <1>5, <4>3, <4>4, SeqEqual
      <4> QED
        BY <4>5 DEF one, rest
    <3>2. rest \in Seq(S)
      BY <1>5, <2>2, HeadTailProperties
    <3> QED
      BY <2>4, <2>5, <3>1, <3>2
  <2>8. (d \o <<x>>) \o rest = d \o (<<x>> \o rest)
    <3> HIDE DEF d, S, x, rest
    <3> QED
      BY <1>3, <2>7, ConcatAssociative
  <2>9. pushed' = (d \o <<x>>) \o Contents'
    BY <2>1, <2>2, <2>3, <2>7, <2>8
  <2> QED
    BY <2>1, <2>6, <2>9 DEF QueuedInOrder
<1> QED
  BY <1>7, <1>8, <1>9, <1>10, <1>11 DEF Next, Writes, BeginLine, Count,
     CheckFull, PushRefused, Sleep, WakeUp, Midnight, fileVars, lineVars,
     logVars, history, vars

\* Lines that went through the queue are in the file in the order in which
\* push() accepted them, none twice and none missing, whatever the writers
\* write past the queue and however often the array has gone around.
THEOREM LinesKeepTheirOrder == Safety => []QueuedInOrder
<1>1. Init => QueuedInOrder
  <2> SUFFICES ASSUME Init PROVE QueuedInOrder
    OBVIOUS
  <2>1. /\ file = <<>> /\ pushed = <<>> /\ single_log = NoItem
        /\ m_size = 0 /\ Len(file) = 0
    BY DEF Init, RingInit
  <2>2. Contents = <<>>
    BY <2>1 DEF Contents
  <2>3. <<>> \in Seq(Entries) /\ <<>> \in Seq(Lines)
    OBVIOUS
  <2>4. Drained(file)[Len(file)] = <<>>
    BY <2>1, <2>3, DrainedEquation
  <2>5. <<>> \o <<>> = <<>>
    BY <2>3, ConcatEmptySeq
  <2> QED
    BY <2>1, <2>2, <2>4, <2>5 DEF QueuedInOrder
<1> QED
  BY <1>1, OrderStep, Invariance, PTL DEF Safety

-----------------------------------------------------------------------------
(* Where a line is.                                                        *)

Hands(l)    == {t \in Writers : log_str[t] = l}
Accepted(l) == {i \in DOMAIN pushed : pushed[i] = l}
Direct(l)   == {i \in DOMAIN file : file[i].by # LogThread /\ file[i].line = l}

\* No line is anywhere before it was begun, and only an asynchronous log has
\* writers that push.
FreshInv ==
    /\ \A i \in DOMAIN pushed : pushed[i] <= lines
    /\ \A i \in DOMAIN file : file[i].by # LogThread => file[i].line <= lines
    /\ \A l \in refused : l <= lines
    /\ \A t \in Writers : pc[t] = "push" => m_is_async

LEMMA PlacesCounted ==
    ASSUME NEW l
    PROVE  Places(l) = Cardinality(Hands(l)) + Cardinality(Accepted(l))
                        + Cardinality(Direct(l))
                        + (IF l \in refused THEN 1 ELSE 0)
  BY DEF Places, Hands, Accepted, Direct

LEMMA PlacesMoved ==
    ASSUME NEW l
    PROVE  Places(l)' = Cardinality(Hands(l))' + Cardinality(Accepted(l))'
                        + Cardinality(Direct(l))'
                        + (IF l \in refused THEN 1 ELSE 0)'
  BY DEF Places, Hands, Accepted, Direct

\* The sets are finite, and their cardinalities numbers.
LEMMA PlacesFinite ==
    ASSUME TypeOK, NEW l
    PROVE  /\ IsFiniteSet(Hands(l)) /\ Cardinality(Hands(l)) \in Nat
           /\ IsFiniteSet(Accepted(l)) /\ Cardinality(Accepted(l)) \in Nat
           /\ IsFiniteSet(Direct(l)) /\ Cardinality(Direct(l)) \in Nat
<1>1. IsFiniteSet(Hands(l))
  <2>1. Hands(l) \subseteq Writers
    BY DEF Hands
  <2> QED
    BY <2>1, FS_Subset, LogAssumption
<1>2. IsFiniteSet(Accepted(l))
  <2>1. Accepted(l) \subseteq 1..Len(pushed) /\ Len(pushed) \in Nat
    BY DEF Accepted, TypeOK
  <2>2. IsFiniteSet(1..Len(pushed))
    BY <2>1, FS_Interval
  <2> QED
    BY <2>1, <2>2, FS_Subset
<1>3. IsFiniteSet(Direct(l))
  <2>1. Direct(l) \subseteq 1..Len(file) /\ Len(file) \in Nat
    BY DEF Direct, TypeOK
  <2>2. IsFiniteSet(1..Len(file))
    BY <2>1, FS_Interval
  <2> QED
    BY <2>1, <2>2, FS_Subset
<1> QED
  BY <1>1, <1>2, <1>3, FS_CardinalityType

\* A line leaves its writer's hands.
LEMMA LetGo ==
    ASSUME TypeOK, NEW t \in Writers, log_str[t] \in Lines, Return(t)
    PROVE  \A l \in Lines : Cardinality(Hands(l))'
                = Cardinality(Hands(l)) - (IF l = log_str[t] THEN 1 ELSE 0)
<1> TAKE l \in Lines
<1>1. Hands(l)' = IF l = log_str[t] THEN Hands(l) \ {t} ELSE Hands(l)
  <2>1. log_str' = [log_str EXCEPT ![t] = NoItem]
        /\ DOMAIN log_str = Writers
    BY DEF Return, TypeOK
  <2>2. l # NoItem
    BY LogAssumption DEF Lines
  <2> QED BY <2>1, <2>2 DEF Hands
<1>2. CASE l = log_str[t]
  <2>1. t \in Hands(l)
    BY <1>2 DEF Hands
  <2>2. Cardinality(Hands(l) \ {t}) = Cardinality(Hands(l)) - 1
    BY <2>1, PlacesFinite, FS_RemoveElement
  <2> QED
    BY <1>1, <1>2, <2>2
<1>3. CASE l # log_str[t]
  BY <1>1, <1>3, PlacesFinite
<1> QED
  BY <1>2, <1>3

\* A set that gains a new element.
LEMMA OneMore ==
    ASSUME NEW S, IsFiniteSet(S), NEW x, x \notin S
    PROVE  Cardinality(S \cup {x}) = Cardinality(S) + 1
  BY FS_AddElement

\* The lines of 1..lines are accounted for, and no others exist.
LEMMA AccountedStep ==
    IInv /\ FreshInv /\ Accounted /\ [Next]_vars => FreshInv' /\ Accounted'
<1> SUFFICES ASSUME IInv, FreshInv, Accounted, [Next]_vars
             PROVE  FreshInv' /\ Accounted'
  OBVIOUS
<1>1. TypeOK /\ BusyInv
  BY DEF IInv
<1>2. \A t \in Writers : pc[t] # "idle" => log_str[t] \in 1..lines
  BY <1>1 DEF BusyInv
<1>3. lines \in Nat /\ MaxLines \in Nat /\ lines <= MaxLines
  BY <1>1, LogAssumption DEF TypeOK, BusyInv
<1>4. CASE UNCHANGED <<lineVars, m_is_async, file, history>>
  <2>1. FreshInv'
    BY <1>4 DEF FreshInv, lineVars, history
  <2>2. Accounted'
    BY <1>4 DEF Accounted, Places, lineVars, history
  <2> QED
    BY <2>1, <2>2
<1>5. ASSUME NEW t \in Writers, Count(t) \/ CheckFull(t)
      PROVE  FreshInv' /\ Accounted'
  <2>1. UNCHANGED <<m_is_async, log_str, file, history>>
    BY <1>5 DEF Count, CheckFull
  <2>2. \A u \in Writers : pc'[u] = "push" => m_is_async
    BY <1>1, <1>5 DEF Count, CheckFull, Goto, TypeOK, FreshInv
  <2>3. FreshInv'
    BY <2>1, <2>2 DEF FreshInv, history
  <2>4. Accounted'
    BY <2>1 DEF Accounted, Places, history
  <2> QED
    BY <2>3, <2>4
<1>6. ASSUME NEW t \in Writers, BeginLine(t)
      PROVE  FreshInv' /\ Accounted'
  <2>1. /\ lines' = lines + 1
        /\ log_str' = [log_str EXCEPT ![t] = lines + 1]
        /\ UNCHANGED <<m_is_async, file, pushed, refused>>
    BY <1>6 DEF BeginLine
  <2>2. log_str[t] = NoItem
    BY <1>1, <1>6 DEF BusyInv, BeginLine
  <2>3. FreshInv'
    <3>1. \A u \in Writers : pc'[u] = "push" => m_is_async
      BY <1>1, <1>6 DEF BeginLine, Goto, TypeOK, FreshInv
    <3>2. \A i \in DOMAIN pushed : pushed[i] <= lines + 1
      BY <1>1, <1>3 DEF TypeOK, FreshInv, Lines
    <3>3. \A i \in DOMAIN file : /\ file[i].line \in Nat
                                 /\ file[i].by # LogThread =>
                                        file[i].line <= lines + 1
      <4>0. file \in Seq([by : Writers \cup {LogThread}, line : Lines])
        BY <1>1 DEF TypeOK
      <4>1. ASSUME NEW i \in DOMAIN file
            PROVE  file[i] \in [by : Writers \cup {LogThread}, line : Lines]
        <5>1. i \in 1..Len(file)
          BY <4>0
        <5> QED
          BY <4>0, <5>1, ElementOfSeq
      <4> QED
        BY <1>3, <4>1 DEF FreshInv, Lines
    <3>4. \A l \in refused : l <= lines + 1
      BY <1>1, <1>3 DEF TypeOK, FreshInv, Lines
    <3> QED
      BY <2>1, <3>1, <3>2, <3>3, <3>4 DEF FreshInv
  <2>4. ASSUME NEW l \in 1..lines PROVE Places(l)' = Places(l)
    <3>1. l # lines + 1 /\ l # NoItem
      BY <1>3, LogAssumption
    <3>2. Hands(l)' = Hands(l)
      BY <1>1, <2>1, <2>2, <3>1 DEF Hands, TypeOK
    <3> QED
      BY <2>1, <3>2 DEF Places, Hands
  <2>5. ASSUME NEW n, n = lines + 1 PROVE Places(n)' = 1
    <3>1. Hands(n)' = {t}
      <4>1. log_str'[t] = n
        BY <1>1, <2>1, <2>5 DEF TypeOK
      <4>2. ASSUME NEW u \in Writers, u # t
            PROVE  log_str'[u] # n
        <5>1. log_str'[u] = log_str[u]
          BY <1>1, <2>1, <4>2 DEF TypeOK
        <5>2. log_str[u] \in 1..lines \/ log_str[u] = NoItem
          BY <1>1 DEF BusyInv
        <5> QED
          BY <1>3, <2>5, <5>1, <5>2, LogAssumption
      <4> QED
        BY <4>1, <4>2 DEF Hands
    <3>2. Accepted(n) = {} /\ Direct(n) = {} /\ n \notin refused
      <4>1. \A m : m <= lines => m # n
        BY <1>3, <2>5
      <4>2. \A i \in DOMAIN pushed : pushed[i] # n
        BY <4>1 DEF FreshInv
      <4>3. \A i \in DOMAIN file : file[i].by # LogThread => file[i].line # n
        BY <4>1 DEF FreshInv
      <4>4. n \notin refused
        BY <4>1 DEF FreshInv
      <4> QED
        BY <4>2, <4>3, <4>4 DEF Accepted, Direct
    <3>3. Cardinality({t}) = 1 /\ Cardinality({}) = 0
      BY FS_Singleton, FS_EmptySet
    <3>4. Accepted(n)' = {} /\ Direct(n)' = {} /\ n \notin refused'
      BY <2>1, <3>2 DEF Accepted, Direct
    <3> QED
      BY <3>1, <3>3, <3>4, PlacesMoved
  <2>6. Accounted'
    <3>1. ASSUME NEW l \in 1..lines' PROVE Places(l)' = 1
      <4>1. CASE l = lines + 1
        BY <2>5, <4>1
      <4>2. CASE l \in 1..lines
        BY <2>4, <4>2 DEF Accounted
      <4> QED
        BY <1>3, <2>1, <4>1, <4>2
    <3> QED
      BY <2>1, <3>1 DEF Accounted
  <2> QED
    BY <2>3, <2>6
<1>7. ASSUME NEW t \in Writers, Push(t)
      PROVE  FreshInv' /\ Accounted'
  <2> DEFINE x == log_str[t]
  <2>1. /\ x \in 1..lines /\ x \in Lines
        /\ pushed' = Append(pushed, x) /\ Return(t)
        /\ UNCHANGED <<m_is_async, file, lines, refused>>
    BY <1>2, <1>3, <1>7 DEF Push, Lines
  <2> HIDE DEF x
  <2>2. pushed \in Seq(Lines) /\ Len(pushed) \in Nat
    BY <1>1 DEF TypeOK
  <2>3. /\ DOMAIN pushed' = DOMAIN pushed \cup {Len(pushed) + 1}
        /\ DOMAIN pushed = 1..Len(pushed)
        /\ \A i \in DOMAIN pushed : pushed'[i] = pushed[i]
        /\ pushed'[Len(pushed) + 1] = x
    BY <2>1, <2>2
  <2>4. FreshInv'
    <3>1. \A u \in Writers : pc'[u] = "push" => m_is_async
      BY <1>1, <2>1 DEF Return, Goto, TypeOK, FreshInv
    <3>2. \A i \in DOMAIN pushed' : pushed'[i] <= lines
      BY <2>1, <2>3 DEF FreshInv
    <3> QED
      BY <2>1, <3>1, <3>2 DEF FreshInv
  <2>5. m_is_async
    BY <1>7 DEF Push, FreshInv
  <2>6. ASSUME NEW l \in 1..lines PROVE Places(l)' = Places(l)
    <3>1. Cardinality(Hands(l))'
            = Cardinality(Hands(l)) - (IF l = x THEN 1 ELSE 0)
      BY <1>1, <1>3, <2>1, LetGo DEF Lines, x
    <3>2. Cardinality(Accepted(l))'
            = Cardinality(Accepted(l)) + (IF l = x THEN 1 ELSE 0)
      <4>1. CASE l = x
        <5>1. /\ Accepted(l)' = Accepted(l) \cup {Len(pushed) + 1}
              /\ Len(pushed) + 1 \notin Accepted(l)
          BY <2>2, <2>3, <4>1 DEF Accepted
        <5> QED
          BY <1>1, <4>1, <5>1, OneMore, PlacesFinite
      <4>2. CASE l # x
        <5>1. Accepted(l)' = Accepted(l)
          BY <2>3, <4>2 DEF Accepted
        <5> QED
          BY <1>1, <4>2, <5>1, PlacesFinite
      <4> QED
        BY <4>1, <4>2
    <3>3. Cardinality(Direct(l))' = Cardinality(Direct(l))
      BY <2>1 DEF Direct
    <3>4. (IF l \in refused THEN 1 ELSE 0)' = IF l \in refused THEN 1 ELSE 0
      BY <2>1
    <3> QED
      BY <1>1, <3>1, <3>2, <3>3, <3>4, PlacesFinite, PlacesCounted,
         PlacesMoved
  <2>7. Accounted'
    BY <2>1, <2>5, <2>6 DEF Accounted
  <2> QED
    BY <2>4, <2>7
<1>8. ASSUME NEW t \in Writers, Fputs(t)
      PROVE  FreshInv' /\ Accounted'
  <2> DEFINE x == log_str[t]
             e == [by |-> t, line |-> x]
  <2>1. /\ x \in 1..lines /\ x \in Lines
        /\ file' = Append(file, e) /\ Return(t)
        /\ UNCHANGED <<m_is_async, lines, pushed, refused>>
    BY <1>2, <1>3, <1>8 DEF Fputs, Lines, history
  <2>2. /\ file \in Seq([by : Writers \cup {LogThread}, line : Lines])
        /\ Len(file) \in Nat
        /\ e.by # LogThread /\ e.line = x
    BY <1>1, LogAssumption DEF TypeOK
  <2> HIDE DEF x, e
  <2>3. /\ DOMAIN file' = DOMAIN file \cup {Len(file) + 1}
        /\ DOMAIN file = 1..Len(file)
        /\ \A i \in DOMAIN file : file'[i] = file[i]
        /\ file'[Len(file) + 1] = e
    BY <2>1, <2>2
  <2>4. FreshInv'
    <3>1. \A u \in Writers : pc'[u] = "push" => m_is_async
      BY <1>1, <2>1 DEF Return, Goto, TypeOK, FreshInv
    <3>2. \A i \in DOMAIN file' :
                file'[i].by # LogThread => file'[i].line <= lines
      BY <2>1, <2>2, <2>3 DEF FreshInv
    <3> QED
      BY <2>1, <3>1, <3>2 DEF FreshInv
  <2>5. ASSUME NEW l \in 1..lines PROVE Places(l)' = Places(l)
    <3>1. Cardinality(Hands(l))'
            = Cardinality(Hands(l)) - (IF l = x THEN 1 ELSE 0)
      BY <1>1, <1>3, <2>1, LetGo DEF Lines, x
    <3>2. Cardinality(Direct(l))'
            = Cardinality(Direct(l)) + (IF l = x THEN 1 ELSE 0)
      <4>1. CASE l = x
        <5>1. /\ Direct(l)' = Direct(l) \cup {Len(file) + 1}
              /\ Len(file) + 1 \notin Direct(l)
          BY <2>2, <2>3, <4>1 DEF Direct
        <5> QED
          BY <1>1, <4>1, <5>1, OneMore, PlacesFinite
      <4>2. CASE l # x
        <5>1. Direct(l)' = Direct(l)
          BY <2>2, <2>3, <4>2 DEF Direct
        <5> QED
          BY <1>1, <4>2, <5>1, PlacesFinite
      <4> QED
        BY <4>1, <4>2
    <3>3. Cardinality(Accepted(l))' = Cardinality(Accepted(l))
      BY <2>1 DEF Accepted
    <3>4. (IF l \in refused THEN 1 ELSE 0)' = IF l \in refused THEN 1 ELSE 0
      BY <2>1
    <3> QED
      BY <1>1, <3>1, <3>2, <3>3, <3>4, PlacesFinite, PlacesCounted,
         PlacesMoved
  <2>6. Accounted'
    BY <2>1, <2>5 DEF Accounted
  <2> QED
    BY <2>4, <2>6
<1>9. ASSUME NEW t \in Writers, PushRefused(t)
      PROVE  FreshInv' /\ Accounted'
  <2> DEFINE x == log_str[t]
  <2>1. /\ x \in 1..lines /\ x \in Lines
        /\ refused' = refused \cup {x} /\ Return(t)
        /\ UNCHANGED <<m_is_async, file, lines, pushed>>
    BY <1>2, <1>3, <1>9 DEF PushRefused, Lines
  <2>2. t \in Hands(x)
    BY DEF Hands
  <2> HIDE DEF x
  <2>3. FreshInv'
    <3>1. \A u \in Writers : pc'[u] = "push" => m_is_async
      BY <1>1, <2>1 DEF Return, Goto, TypeOK, FreshInv
    <3>2. \A l \in refused' : l <= lines
      BY <2>1 DEF FreshInv
    <3> QED
      BY <2>1, <3>1, <3>2 DEF FreshInv
  <2>4. m_is_async
    BY <1>9 DEF PushRefused, FreshInv
  <2>5. x \notin refused
    <3>1. Cardinality(Hands(x)) # 0
      BY <1>1, <2>2, PlacesFinite, FS_EmptySet
    <3>2. Places(x) = 1
      BY <2>1 DEF Accounted
    <3> QED
      BY <1>1, <3>1, <3>2, PlacesFinite, PlacesCounted
  <2>6. ASSUME NEW l \in 1..lines PROVE Places(l)' = Places(l)
    <3>1. Cardinality(Hands(l))'
            = Cardinality(Hands(l)) - (IF l = x THEN 1 ELSE 0)
      BY <1>1, <1>3, <2>1, LetGo DEF Lines, x
    <3>2. /\ Cardinality(Accepted(l))' = Cardinality(Accepted(l))
          /\ Cardinality(Direct(l))' = Cardinality(Direct(l))
      BY <2>1 DEF Accepted, Direct
    <3>3. (IF l \in refused THEN 1 ELSE 0)'
            = (IF l \in refused THEN 1 ELSE 0) + (IF l = x THEN 1 ELSE 0)
      BY <2>1, <2>5
    <3> QED
      BY <1>1, <3>1, <3>2, <3>3, PlacesFinite, PlacesCounted,
         PlacesMoved
  <2>7. Accounted'
    BY <2>1, <2>4, <2>6 DEF Accounted
  <2> QED
    BY <2>3, <2>7
<1>10. CASE WritePopped
  <2> DEFINE e == [by |-> LogThread, line |-> single_log]
  <2>1. /\ file' = Append(file, e) /\ single_log \in Lines
        /\ UNCHANGED <<lineVars, m_is_async, history>>
    BY <1>1, <1>10 DEF WritePopped, TypeOK
  <2>2. /\ file \in Seq([by : Writers \cup {LogThread}, line : Lines])
        /\ Len(file) \in Nat
        /\ e.by = LogThread
    BY <1>1 DEF TypeOK
  <2> HIDE DEF e
  <2>3. /\ DOMAIN file' = DOMAIN file \cup {Len(file) + 1}
        /\ \A i \in DOMAIN file : file'[i] = file[i]
        /\ file'[Len(file) + 1] = e
    BY <2>1, <2>2
  <2>4. \A l : Direct(l)' = Direct(l)
    BY <2>2, <2>3 DEF Direct
  <2>5. FreshInv'
    BY <2>1, <2>2, <2>3 DEF FreshInv, lineVars, history
  <2>6. \A l : Hands(l)' = Hands(l) /\ Accepted(l)' = Accepted(l)
    BY <2>1 DEF Hands, Accepted, lineVars, history
  <2>7. \A l : Places(l)' = Places(l)
    BY <2>1, <2>4, <2>6 DEF Places, Hands, Accepted, Direct, history
  <2>8. Accounted'
    BY <2>1, <2>7 DEF Accounted, history
  <2> QED
    BY <2>5, <2>8
<1>11. CASE Pop \/ Sleep \/ WakeUp \/ Midnight \/ UNCHANGED vars
  BY <1>4, <1>11 DEF Pop, Sleep, WakeUp, Midnight, vars
<1> QED
  BY <1>5, <1>6, <1>7, <1>8, <1>9, <1>10, <1>11 DEF Next, Writes

\* Every line that was begun is in exactly one place, however many threads
\* log: with its writer, in the queue or past it, written directly, or lost
\* because push() refused it; and a synchronous log loses none.
THEOREM LinesAreAccounted == Safety => []Accounted
<1>1. Init => FreshInv /\ Accounted
  BY DEF Init, FreshInv, Accounted
<1> QED
  BY <1>1, AccountedStep, Invariance, PTL DEF Safety
-----------------------------------------------------------------------------
(* When no line is lost.                                                   *)

\* No two writers are between full() and push().
OneAtPush ==
    \A s, t \in Writers : pc[s] = "push" /\ pc[t] = "push" => s = t

\* What full() said is still so at push().
RoomInv ==
    /\ refused = {}
    /\ \A t \in Writers : pc[t] = "push" => ~Full

LEMMA RoomStep == TypeOK /\ RoomInv /\ OneAtPush /\ [Next]_vars => RoomInv'
<1> SUFFICES ASSUME TypeOK, RoomInv, OneAtPush, [Next]_vars
             PROVE  RoomInv'
  OBVIOUS
<1> USE BlockQueueAssumption DEF RoomInv
<1>1. ASSUME NEW t \in Writers,
             BeginLine(t) \/ Count(t) \/ CheckFull(t) \/ Fputs(t)
      PROVE  RoomInv'
  BY <1>1 DEF BeginLine, Count, CheckFull, Fputs, Return, Goto, Full, TypeOK,
     ringVars, history
\* The one who pushes is alone, so the room it takes is nobody else's.
<1>2. ASSUME NEW t \in Writers, Push(t)
      PROVE  RoomInv'
  <2>1. refused' = refused /\ pc[t] = "push" /\ pc' = [pc EXCEPT ![t] = "idle"]
    BY <1>2 DEF Push, Return, Goto
  <2>2. \A s \in Writers : pc'[s] # "push"
    BY <2>1 DEF OneAtPush, TypeOK
  <2> QED
    BY <2>1, <2>2
<1>3. ASSUME NEW t \in Writers, PushRefused(t)
      PROVE  FALSE
  BY <1>3 DEF PushRefused
<1>4. CASE Pop
  <2>1. /\ refused' = refused /\ pc' = pc
        /\ m_size > 0 /\ m_size' = m_size - 1 /\ m_size \in 0..m_max_size
    BY <1>4 DEF Pop, Remove, history, lineVars, TypeOK
  <2>2. ~Full'
    BY <2>1 DEF Full
  <2> QED
    BY <2>1, <2>2
<1>5. CASE Sleep \/ WakeUp \/ WritePopped \/ Midnight \/ UNCHANGED vars
  BY <1>5 DEF Sleep, WakeUp, WritePopped, Midnight, vars, Full, ringVars,
     history, lineVars
<1> QED
  BY <1>1, <1>2, <1>3, <1>4, <1>5 DEF Next, Writes

\* A line that is in one place, and not refused, is not lost.
LEMMA AccountedNotLost ==
    ASSUME TypeOK, lines <= MaxLines, Accounted, refused = {}
    PROVE  NoLineIsLost
<1> SUFFICES ASSUME NEW l \in 1..lines,
                    \A t \in Writers : log_str[t] # l,
                    \A i \in DOMAIN pushed : pushed[i] # l,
                    ~Written(l)
             PROVE  FALSE
  BY DEF NoLineIsLost
<1>1. Hands(l) = {} /\ Accepted(l) = {} /\ Direct(l) = {}
  BY DEF Hands, Accepted, Direct, Written
<1>2. Places(l) = 0
  BY <1>1, PlacesCounted, FS_EmptySet
<1> QED
  BY <1>2 DEF Accounted

\* What log.cpp says of write_log is so as long as no second writer comes
\* between another's full() and its push(): then push() refuses nothing and no
\* line is lost.  The two calls that are not one are the only cause of the
\* violation that the run log_lost shows.
THEOREM OnlyTheRaceLosesLines ==
    Safety /\ []OneAtPush => [](refused = {} /\ NoLineIsLost)
<1>1. Init => RoomInv
  BY DEF Init, RoomInv
<1>2. IInv /\ Accounted /\ RoomInv => refused = {} /\ NoLineIsLost
  BY AccountedNotLost DEF IInv, BusyInv, RoomInv
<1>3. IInv => TypeOK
  BY DEF IInv
<1> QED
  BY <1>1, <1>2, <1>3, RoomStep, LinesAreAccounted, Invariance, PTL
     DEF Safety
=============================================================================
