---------------------------- MODULE ServerProofs ----------------------------
(***************************************************************************)
(* Theorems about Server, for all numbers of workers, descriptors and      *)
(* connections: types, the alarm chain, that no timer is used after it was *)
(* freed, and, while no connection was closed behind somebody's back, that *)
(* the count is right, a connection is in one pair of hands, a timer       *)
(* closes its own connection, and the tasks are those of TaskQueue.        *)
(***************************************************************************)
EXTENDS Server, FiniteSetTheorems, TLAPS

TableTypes ==
    /\ open \in [Fds -> Conns \cup {None}]
    /\ interest \in [Fds -> {"absent", "none", "in", "out"}]
    /\ m_sockfd \in [Fds -> Int]
    /\ \A f \in Fds : m_sockfd[f] \in {f, -1}
    /\ m_state \in [Fds -> {0, 1}]
    /\ improv \in [Fds -> {0, 1}]
    /\ timer_flag \in [Fds -> {0, 1}]

TimerTypes ==
    /\ timer \in [Fds -> Conns \cup {None}]
    /\ slot \in Seq(Fds) /\ Len(slot) <= MaxConns
    /\ m_timer_lst \subseteq DOMAIN slot
    /\ expired \subseteq due /\ due \subseteq m_timer_lst

LoopTypes ==
    /\ events \subseteq Readiness \cup {Signal}
    /\ closing \in [timer : Conns \cup {None}, fd : Fds \cup {None}]
    /\ timeout \in BOOLEAN /\ stop_server \in BOOLEAN
    /\ m_pipefd \subseteq {"ALRM", "TERM"}
    /\ alarmed \in BOOLEAN /\ outlived \in BOOLEAN

TaskTypes ==
    /\ m_actormodel \in {0, 1}
    /\ m_workqueue \in Seq(Fds) /\ Len(m_workqueue) <= MaxRequests
    /\ pc \in [Threads -> MainPc \cup WorkerPc]
    /\ pc[Main] \in MainPc
    /\ \A w \in Workers : pc[w] \in WorkerPc
    /\ request \in [Threads -> Fds \cup {None}]
    /\ m_user_count \in Int
    /\ register \in [Threads -> Int]

\* The main thread is inside a pass of the timers, or has timers to close, only
\* after an alarm; and then no event is left to be handled.
PassInv ==
    /\ pc[Main] = "tick" \/ expired # {} => timeout
    /\ pc[Main] = "tick" \/ expired # {} \/ pc[Main] = "epoll_wait" =>
            events = {}
    /\ expired # {} => pc[Main] \in {"tick", "cb_func", "count_down"}
    /\ pc[Main] \in {"spin", "flag"} => request[Main] \in Fds

-----------------------------------------------------------------------------
(* Type correctness.                                                       *)

LEMMA TableStep ==
    TableTypes /\ TimerTypes /\ TaskTypes /\ [Next]_vars => TableTypes'
<1> SUFFICES ASSUME TableTypes, TimerTypes, TaskTypes, [Next]_vars
             PROVE  TableTypes'
  OBVIOUS
<1> USE ServerAssumption
<1>1. CASE UNCHANGED tableVars
  BY <1>1 DEF TableTypes, tableVars
<1>2. CASE EpollWait
  BY <1>2 DEF TableTypes, EpollWait, Readiness, Reportable, Signal, Goto,
      tableVars
<1>3. CASE Accept
  <2>1. Len(slot) + 1 \in Conns
    BY <1>3 DEF TimerTypes, Accept, Conns
  <2>2. PICK f \in Fds : InitConnection(f)
    BY <1>3 DEF Accept
  <2> QED BY <2>1, <2>2 DEF TableTypes, InitConnection, Fds
<1>4. CASE CbFunc
  BY <1>4 DEF TableTypes, CbFunc, Goto, tableVars
<1>5. ASSUME NEW f \in Fds, WriteMore(f)
      PROVE  TableTypes'
  BY <1>5 DEF TableTypes, WriteMore, Take, WriteRearms, Modfd, AdjustTimer,
      Goto, tableVars
<1>6. ASSUME NEW f \in Fds, NEW op \in {0, 1}, Dispatch(f, op)
      PROVE  TableTypes'
  BY <1>6 DEF TableTypes, Dispatch, Take, AdjustTimer, AppendTask, Goto,
      tableVars
<1>7. CASE SpinEnds
  BY <1>7 DEF TableTypes, SpinEnds, Goto, tableVars
<1>8. ASSUME NEW w \in Workers, WorkerReads(w)
      PROVE  TableTypes'
  BY <1>8 DEF TableTypes, WorkerReads, At, Goto, tableVars
<1>9. ASSUME NEW w \in Workers, WorkerWrites(w)
      PROVE  TableTypes'
  BY <1>9 DEF TableTypes, WorkerWrites, At, WriteRearms, Modfd, Idle, Goto,
      tableVars
<1>10. ASSUME NEW w \in Workers, WorkerFails(w)
      PROVE  TableTypes'
  BY <1>10 DEF TableTypes, WorkerFails, At, Modfd, Goto, tableVars
<1>11. ASSUME NEW w \in Workers, SetTimerFlag(w)
      PROVE  TableTypes'
  BY <1>11 DEF TableTypes, SetTimerFlag, At, Idle, Goto, tableVars
<1>12. ASSUME NEW w \in Workers, Process(w)
      PROVE  TableTypes'
  BY <1>12 DEF TableTypes, Process, At, Modfd, Idle, Goto, tableVars
<1>13. ASSUME NEW w \in Workers, CloseConn(w)
      PROVE  TableTypes'
  BY <1>13 DEF TableTypes, CloseConn, At, Goto, tableVars
<1>14. ASSUME NEW w \in Workers, ForgetSockfd(w)
      PROVE  TableTypes'
  <2>1. /\ m_sockfd' = [m_sockfd EXCEPT ![request[w]] = -1]
        /\ UNCHANGED <<open, interest, m_state, improv, timer_flag>>
    BY <1>14 DEF ForgetSockfd
  <2> -1 \in Int
    OBVIOUS
  <2>2. m_sockfd' \in [Fds -> Int]
    BY <2>1 DEF TableTypes
  <2>3. \A f \in Fds : m_sockfd'[f] = -1 \/ m_sockfd'[f] = m_sockfd[f]
    BY <2>1 DEF TableTypes
  <2> QED BY <2>1, <2>2, <2>3 DEF TableTypes
<1>15. ASSUME NEW w \in Workers, ModfdAfterClose(w)
      PROVE  TableTypes'
  BY <1>15 DEF TableTypes, ModfdAfterClose, At, Modfd, Idle, Goto, tableVars
<1> QED
  BY <1>1, <1>2, <1>3, <1>4, <1>5, <1>6, <1>7, <1>8, <1>9, <1>10, <1>11,
     <1>12, <1>13, <1>14, <1>15
  DEF Next, MainRuns, WorkerRuns, vars, EndOfBatch, DealWithSignal,
      BeginAccept, CountUp, EndAccept, CountDown, SpinSees, SpinCloses, Tick,
      TickEnds, SigAlrm, SigTerm, DealWithHangup, ReadAndAppend, IOEnds,
      Elapse, TakeTask, LoadCount, StoreCount

LEMMA TimerStep ==
    TimerTypes /\ PassInv /\ [Next]_vars => TimerTypes'
<1> SUFFICES ASSUME TimerTypes, PassInv, [Next]_vars
             PROVE  TimerTypes'
  OBVIOUS
<1> USE ServerAssumption
<1>1. CASE UNCHANGED timerVars
  BY <1>1 DEF TimerTypes, timerVars
<1>2. CASE EndOfBatch
  BY <1>2 DEF TimerTypes, PassInv, EndOfBatch, Goto, timerVars
<1>3. CASE Accept
  <2>1. PICK f \in Fds : Timer(f)
    BY <1>3 DEF Accept
  <2>2. /\ Len(slot) + 1 \in Conns
        /\ slot' \in Seq(Fds) /\ Len(slot') = Len(slot) + 1
        /\ DOMAIN slot' = DOMAIN slot \cup {Len(slot) + 1}
    BY <1>3, <2>1 DEF TimerTypes, Accept, Conns, Timer
  <2>3. Len(slot') <= MaxConns
    BY <2>2 DEF Conns
  <2> QED BY <2>1, <2>2, <2>3 DEF TimerTypes, Timer
<1>4. CASE CountDown
  BY <1>4 DEF TimerTypes, PassInv, CountDown, Resume, Goto, timerVars
<1>5. ASSUME NEW f \in Fds, ReadAndAppend(f)
      PROVE  TimerTypes'
  BY <1>5 DEF TimerTypes, PassInv, ReadAndAppend, Take, AppendTask,
      AdjustTimer, Goto, timerVars
<1>6. ASSUME NEW f \in Fds, WriteMore(f)
      PROVE  TimerTypes'
  BY <1>6 DEF TimerTypes, PassInv, WriteMore, Take, WriteRearms, Modfd,
      AdjustTimer, Goto, timerVars
<1>7. ASSUME NEW f \in Fds, NEW op \in {0, 1}, Dispatch(f, op)
      PROVE  TimerTypes'
  BY <1>7 DEF TimerTypes, PassInv, Dispatch, Take, AdjustTimer, AppendTask,
      Goto, timerVars
<1>8. ASSUME NEW c \in Conns, Elapse(c)
      PROVE  TimerTypes'
  BY <1>8 DEF TimerTypes, PassInv, Elapse, Goto, timerVars
<1> QED
  BY <1>1, <1>2, <1>3, <1>4, <1>5, <1>6, <1>7, <1>8
  DEF Next, MainRuns, WorkerRuns, vars, EpollWait, DealWithSignal,
      BeginAccept, CountUp, EndAccept, CbFunc, SpinSees, SpinCloses,
      SpinEnds, Tick, TickEnds, SigAlrm, SigTerm, DealWithHangup, IOEnds,
      TakeTask, WorkerReads, WorkerWrites, WorkerFails, SetTimerFlag,
      Process, CloseConn, ForgetSockfd, LoadCount, StoreCount,
      ModfdAfterClose

LEMMA LoopStep ==
    LoopTypes /\ TableTypes /\ TimerTypes /\ PassInv /\ [Next]_vars
        => LoopTypes'
<1> SUFFICES ASSUME LoopTypes, TableTypes, TimerTypes, PassInv, [Next]_vars
             PROVE  LoopTypes'
  OBVIOUS
<1> USE ServerAssumption
<1>1. CASE UNCHANGED <<loopVars, sigVars, outlived>>
  BY <1>1 DEF LoopTypes, loopVars, sigVars
<1>2. CASE EpollWait
  BY <1>2 DEF LoopTypes, TableTypes, TimerTypes, EpollWait, Readiness,
      Reportable, Signal, Goto, loopVars, sigVars
<1>3. CASE DealWithSignal
  BY <1>3 DEF LoopTypes, TableTypes, TimerTypes, DealWithSignal, Take, Goto,
      loopVars, sigVars
<1>4. CASE BeginAccept
  BY <1>4 DEF LoopTypes, TableTypes, TimerTypes, BeginAccept, Take, Goto,
      loopVars, sigVars
<1>5. ASSUME NEW f \in Fds, DealWithHangup(f)
      PROVE  LoopTypes'
  BY <1>5 DEF LoopTypes, TableTypes, TimerTypes, DealWithHangup, Take,
      DealTimer, Goto, loopVars, sigVars
<1>6. ASSUME NEW f \in Fds, ReadAndAppend(f)
      PROVE  LoopTypes'
  BY <1>6 DEF LoopTypes, TableTypes, TimerTypes, ReadAndAppend, Take,
      AppendTask, AdjustTimer, Goto, loopVars, sigVars
<1>7. ASSUME NEW f \in Fds, WriteMore(f)
      PROVE  LoopTypes'
  BY <1>7 DEF LoopTypes, TableTypes, TimerTypes, WriteMore, Take,
      WriteRearms, Modfd, AdjustTimer, Goto, loopVars, sigVars
<1>8. ASSUME NEW f \in Fds, IOEnds(f)
      PROVE  LoopTypes'
  BY <1>8 DEF LoopTypes, TableTypes, TimerTypes, IOEnds, Take, DealTimer,
      Goto, loopVars, sigVars
<1>9. ASSUME NEW f \in Fds, NEW op \in {0, 1}, Dispatch(f, op)
      PROVE  LoopTypes'
  BY <1>9 DEF LoopTypes, TableTypes, TimerTypes, Dispatch, Take, AdjustTimer,
      AppendTask, Goto, loopVars, sigVars
<1>10. CASE SpinCloses
  <2>1. request[Main] \in Fds /\ timer[request[Main]] \in Conns \cup {None}
    BY <1>10 DEF SpinCloses, PassInv, TimerTypes
  <2> QED BY <1>10, <2>1 DEF LoopTypes, SpinCloses, DealTimer, sigVars
<1>11. CASE Tick
  <2>1. PICK c \in expired : closing' = [timer |-> c, fd |-> slot[c]]
    BY <1>11 DEF Tick
  <2>2. c \in DOMAIN slot /\ c \in Conns /\ slot[c] \in Fds
    BY DEF TimerTypes, Conns
  <2> QED BY <1>11, <2>1, <2>2 DEF LoopTypes, Tick, sigVars
<1>12. CASE TickEnds
  BY <1>12 DEF LoopTypes, TableTypes, TimerTypes, TickEnds, Goto, loopVars,
      sigVars
<1>13. CASE CbFunc
  BY <1>13 DEF LoopTypes, TableTypes, TimerTypes, CbFunc, Goto, loopVars,
      sigVars
<1>14. CASE CountDown
  BY <1>14 DEF LoopTypes, TableTypes, TimerTypes, CountDown, Resume, Goto,
      loopVars, sigVars
<1>15. CASE SigAlrm
  BY <1>15 DEF LoopTypes, TableTypes, TimerTypes, SigAlrm, Goto, loopVars,
      sigVars
<1>16. CASE SigTerm
  BY <1>16 DEF LoopTypes, TableTypes, TimerTypes, SigTerm, Goto, loopVars,
      sigVars
<1>17. ASSUME NEW w \in Workers, CloseConn(w)
      PROVE  LoopTypes'
  BY <1>17 DEF LoopTypes, TableTypes, TimerTypes, CloseConn, At, Goto,
      loopVars, sigVars
<1> QED
  BY <1>1, <1>2, <1>3, <1>4, <1>5, <1>6, <1>7, <1>8, <1>9, <1>10, <1>11,
     <1>12, <1>13, <1>14, <1>15, <1>16, <1>17
  DEF Next, MainRuns, WorkerRuns, vars, EndOfBatch, Accept, CountUp,
      EndAccept, SpinSees, SpinEnds, Elapse, TakeTask, WorkerReads,
      WorkerWrites, WorkerFails, SetTimerFlag, Process, ForgetSockfd,
      LoadCount, StoreCount, ModfdAfterClose

LEMMA TaskStep ==
    TaskTypes /\ LoopTypes /\ [Next]_vars => TaskTypes'
<1> SUFFICES ASSUME TaskTypes, LoopTypes, [Next]_vars
             PROVE  TaskTypes'
  OBVIOUS
<1> USE ServerAssumption
<1>1. CASE UNCHANGED <<m_actormodel, taskVars, countVars, pc>>
  BY <1>1 DEF TaskTypes, taskVars, countVars
<1>2. CASE EpollWait
  BY <1>2 DEF TaskTypes, MainPc, WorkerPc, Threads, EpollWait, Readiness,
      Reportable, Signal, Goto, taskVars, countVars
<1>3. CASE EndOfBatch
  BY <1>3 DEF TaskTypes, MainPc, WorkerPc, Threads, EndOfBatch, Goto,
      taskVars, countVars
<1>4. CASE BeginAccept
  BY <1>4 DEF TaskTypes, MainPc, WorkerPc, Threads, BeginAccept, Take, Goto,
      taskVars, countVars
<1>5. CASE Accept
  BY <1>5 DEF TaskTypes, MainPc, WorkerPc, Threads, Accept, LowestFree,
      FreeFds, InitConnection, Timer, Goto, taskVars, countVars
<1>6. CASE CountUp
  BY <1>6 DEF TaskTypes, MainPc, WorkerPc, Threads, CountUp, Goto, taskVars,
      countVars
<1>7. CASE EndAccept
  BY <1>7 DEF TaskTypes, MainPc, WorkerPc, Threads, EndAccept, Goto,
      taskVars, countVars
<1>8. CASE CbFunc
  BY <1>8 DEF TaskTypes, MainPc, WorkerPc, Threads, CbFunc, Goto, taskVars,
      countVars
<1>9. CASE CountDown
  BY <1>9 DEF TaskTypes, MainPc, WorkerPc, Threads, CountDown, Resume, Goto,
      taskVars, countVars
<1>10. CASE SpinSees
  BY <1>10 DEF TaskTypes, MainPc, WorkerPc, Threads, SpinSees, Goto,
      taskVars, countVars
<1>11. CASE SpinCloses
  BY <1>11 DEF TaskTypes, MainPc, WorkerPc, Threads, SpinCloses, DealTimer,
      Goto, taskVars, countVars
<1>12. CASE SpinEnds
  BY <1>12 DEF TaskTypes, MainPc, WorkerPc, Threads, SpinEnds, Goto,
      taskVars, countVars
<1>13. CASE Tick
  BY <1>13 DEF TaskTypes, MainPc, WorkerPc, Threads, Tick, Goto, taskVars,
      countVars
<1>14. CASE TickEnds
  BY <1>14 DEF TaskTypes, MainPc, WorkerPc, Threads, TickEnds, Goto,
      taskVars, countVars
<1>15. ASSUME NEW f \in Fds, DealWithHangup(f)
      PROVE  TaskTypes'
  BY <1>15 DEF TaskTypes, MainPc, WorkerPc, Threads, DealWithHangup, Take,
      DealTimer, Goto, taskVars, countVars
<1>16. ASSUME NEW f \in Fds, ReadAndAppend(f)
      PROVE  TaskTypes'
  BY <1>16 DEF TaskTypes, MainPc, WorkerPc, Threads, ReadAndAppend, Take,
      AppendTask, AdjustTimer, Goto, taskVars, countVars
<1>17. ASSUME NEW f \in Fds, IOEnds(f)
      PROVE  TaskTypes'
  BY <1>17 DEF TaskTypes, MainPc, WorkerPc, Threads, IOEnds, Take, DealTimer,
      Goto, taskVars, countVars
<1>18. ASSUME NEW f \in Fds, NEW op \in {0, 1}, Dispatch(f, op)
      PROVE  TaskTypes'
  BY <1>18 DEF TaskTypes, MainPc, WorkerPc, Threads, Dispatch, Take,
      AdjustTimer, AppendTask, Goto, taskVars, countVars
<1>19. ASSUME NEW w \in Workers, TakeTask(w)
      PROVE  TaskTypes'
  BY <1>19 DEF TaskTypes, MainPc, WorkerPc, Threads, TakeTask, At, Goto,
      taskVars, countVars
<1>20. ASSUME NEW w \in Workers, WorkerReads(w)
      PROVE  TaskTypes'
  BY <1>20 DEF TaskTypes, MainPc, WorkerPc, Threads, WorkerReads, At, Goto,
      taskVars, countVars
<1>21. ASSUME NEW w \in Workers, WorkerWrites(w)
      PROVE  TaskTypes'
  BY <1>21 DEF TaskTypes, MainPc, WorkerPc, Threads, WorkerWrites, At,
      WriteRearms, Modfd, Idle, Goto, taskVars, countVars
<1>22. ASSUME NEW w \in Workers, WorkerFails(w)
      PROVE  TaskTypes'
  BY <1>22 DEF TaskTypes, MainPc, WorkerPc, Threads, WorkerFails, At, Modfd,
      Goto, taskVars, countVars
<1>23. ASSUME NEW w \in Workers, SetTimerFlag(w)
      PROVE  TaskTypes'
  BY <1>23 DEF TaskTypes, MainPc, WorkerPc, Threads, SetTimerFlag, At, Idle,
      Goto, taskVars, countVars
<1>24. ASSUME NEW w \in Workers, Process(w)
      PROVE  TaskTypes'
  BY <1>24 DEF TaskTypes, MainPc, WorkerPc, Threads, Process, At, Modfd,
      Idle, Goto, taskVars, countVars
<1>25. ASSUME NEW w \in Workers, CloseConn(w)
      PROVE  TaskTypes'
  BY <1>25 DEF TaskTypes, MainPc, WorkerPc, Threads, CloseConn, At, Goto,
      taskVars, countVars
<1>26. ASSUME NEW w \in Workers, ForgetSockfd(w)
      PROVE  TaskTypes'
  BY <1>26 DEF TaskTypes, MainPc, WorkerPc, Threads, ForgetSockfd, At, Goto,
      taskVars, countVars
<1>27. ASSUME NEW w \in Workers, LoadCount(w)
      PROVE  TaskTypes'
  BY <1>27 DEF TaskTypes, MainPc, WorkerPc, Threads, LoadCount, At, Goto,
      taskVars, countVars
<1>28. ASSUME NEW w \in Workers, StoreCount(w)
      PROVE  TaskTypes'
  BY <1>28 DEF TaskTypes, MainPc, WorkerPc, Threads, StoreCount, At, Goto,
      taskVars, countVars
<1>29. ASSUME NEW w \in Workers, ModfdAfterClose(w)
      PROVE  TaskTypes'
  BY <1>29 DEF TaskTypes, MainPc, WorkerPc, Threads, ModfdAfterClose, At,
      Modfd, Idle, Goto, taskVars, countVars
<1> QED
  BY <1>1, <1>2, <1>3, <1>4, <1>5, <1>6, <1>7, <1>8, <1>9, <1>10, <1>11,
     <1>12, <1>13, <1>14, <1>15, <1>16, <1>17, <1>18, <1>19, <1>20, <1>21,
     <1>22, <1>23, <1>24, <1>25, <1>26, <1>27, <1>28, <1>29
  DEF Next, MainRuns, WorkerRuns, vars, DealWithSignal, SigAlrm, SigTerm,
      WriteMore, Elapse

\* A pass of the timers begins when the events are handled, and ends the
\* batch.
LEMMA PassStep ==
    PassInv /\ TaskTypes /\ LoopTypes /\ [Next]_vars => PassInv'
<1> SUFFICES ASSUME PassInv, TaskTypes, LoopTypes, [Next]_vars
             PROVE  PassInv'
  OBVIOUS
<1> USE ServerAssumption
<1>1. \A w \in Workers : w # Main /\ w \in Threads
  BY DEF Threads
<1>2. CASE UNCHANGED <<pc, expired, timeout, events, request>>
  BY <1>2 DEF PassInv, Resume
<1>3. CASE EpollWait
  BY <1>3 DEF PassInv, TaskTypes, Threads, EpollWait, Readiness, Reportable,
      Signal, Goto, timerVars, loopVars, taskVars
<1>4. CASE EndOfBatch
  BY <1>4 DEF PassInv, TaskTypes, Threads, EndOfBatch, Goto, timerVars,
      loopVars, taskVars
<1>5. CASE DealWithSignal
  BY <1>5 DEF PassInv, TaskTypes, Threads, DealWithSignal, Take, Goto,
      timerVars, loopVars, taskVars
<1>6. CASE BeginAccept
  BY <1>6 DEF PassInv, TaskTypes, Threads, BeginAccept, Take, Goto,
      timerVars, loopVars, taskVars
<1>7. CASE Accept
  BY <1>7 DEF PassInv, TaskTypes, Threads, Accept, LowestFree, FreeFds,
      InitConnection, Timer, Goto, timerVars, loopVars, taskVars
<1>8. CASE CountUp
  BY <1>8 DEF PassInv, TaskTypes, Threads, CountUp, Goto, timerVars,
      loopVars, taskVars
<1>9. CASE EndAccept
  BY <1>9 DEF PassInv, TaskTypes, Threads, EndAccept, Goto, timerVars,
      loopVars, taskVars
<1>10. CASE CbFunc
  BY <1>10 DEF PassInv, TaskTypes, Threads, CbFunc, Goto, timerVars,
      loopVars, taskVars
<1>11. CASE CountDown
  BY <1>11 DEF PassInv, TaskTypes, Threads, CountDown, Resume, Goto,
      timerVars, loopVars, taskVars
<1>12. CASE SpinSees
  BY <1>12 DEF PassInv, TaskTypes, Threads, SpinSees, Goto, timerVars,
      loopVars, taskVars
<1>13. CASE SpinCloses
  BY <1>13 DEF PassInv, TaskTypes, Threads, SpinCloses, DealTimer, Goto,
      timerVars, loopVars, taskVars
<1>14. CASE SpinEnds
  BY <1>14 DEF PassInv, TaskTypes, Threads, SpinEnds, Goto, timerVars,
      loopVars, taskVars
<1>15. CASE Tick
  BY <1>15 DEF PassInv, TaskTypes, Threads, Tick, Goto, timerVars, loopVars,
      taskVars
<1>16. CASE TickEnds
  BY <1>16 DEF PassInv, TaskTypes, Threads, TickEnds, Goto, timerVars,
      loopVars, taskVars
<1>17. ASSUME NEW f \in Fds, DealWithHangup(f)
      PROVE  PassInv'
  BY <1>17 DEF PassInv, TaskTypes, Threads, DealWithHangup, Take, DealTimer,
      Goto, timerVars, loopVars, taskVars
<1>18. ASSUME NEW f \in Fds, IOEnds(f)
      PROVE  PassInv'
  BY <1>18 DEF PassInv, TaskTypes, Threads, IOEnds, Take, DealTimer, Goto,
      timerVars, loopVars, taskVars
<1>19. ASSUME NEW f \in Fds, NEW op \in {0, 1}, Dispatch(f, op)
      PROVE  PassInv'
  BY <1>19 DEF PassInv, TaskTypes, Threads, Dispatch, Take, AdjustTimer,
      AppendTask, Goto, timerVars, loopVars, taskVars
<1>20. ASSUME NEW w \in Workers, TakeTask(w)
      PROVE  PassInv'
  BY <1>20 DEF PassInv, TaskTypes, Threads, TakeTask, At, Goto, timerVars,
      loopVars, taskVars
<1>21. ASSUME NEW w \in Workers, WorkerReads(w)
      PROVE  PassInv'
  BY <1>21 DEF PassInv, TaskTypes, Threads, WorkerReads, At, Goto, timerVars,
      loopVars, taskVars
<1>22. ASSUME NEW w \in Workers, WorkerWrites(w)
      PROVE  PassInv'
  BY <1>22 DEF PassInv, TaskTypes, Threads, WorkerWrites, At, WriteRearms,
      Modfd, Idle, Goto, timerVars, loopVars, taskVars
<1>23. ASSUME NEW w \in Workers, WorkerFails(w)
      PROVE  PassInv'
  BY <1>23 DEF PassInv, TaskTypes, Threads, WorkerFails, At, Modfd, Goto,
      timerVars, loopVars, taskVars
<1>24. ASSUME NEW w \in Workers, SetTimerFlag(w)
      PROVE  PassInv'
  BY <1>24 DEF PassInv, TaskTypes, Threads, SetTimerFlag, At, Idle, Goto,
      timerVars, loopVars, taskVars
<1>25. ASSUME NEW w \in Workers, Process(w)
      PROVE  PassInv'
  BY <1>25 DEF PassInv, TaskTypes, Threads, Process, At, Modfd, Idle, Goto,
      timerVars, loopVars, taskVars
<1>26. ASSUME NEW w \in Workers, CloseConn(w)
      PROVE  PassInv'
  BY <1>26 DEF PassInv, TaskTypes, Threads, CloseConn, At, Goto, timerVars,
      loopVars, taskVars
<1>27. ASSUME NEW w \in Workers, ForgetSockfd(w)
      PROVE  PassInv'
  BY <1>27 DEF PassInv, TaskTypes, Threads, ForgetSockfd, At, Goto,
      timerVars, loopVars, taskVars
<1>28. ASSUME NEW w \in Workers, LoadCount(w)
      PROVE  PassInv'
  BY <1>28 DEF PassInv, TaskTypes, Threads, LoadCount, At, Goto, timerVars,
      loopVars, taskVars
<1>29. ASSUME NEW w \in Workers, StoreCount(w)
      PROVE  PassInv'
  BY <1>29 DEF PassInv, TaskTypes, Threads, StoreCount, At, Goto, timerVars,
      loopVars, taskVars
<1>30. ASSUME NEW w \in Workers, ModfdAfterClose(w)
      PROVE  PassInv'
  BY <1>30 DEF PassInv, TaskTypes, Threads, ModfdAfterClose, At, Modfd, Idle,
      Goto, timerVars, loopVars, taskVars
<1>31. ASSUME NEW f \in Fds, ReadAndAppend(f)
      PROVE  PassInv'
  BY <1>31 DEF PassInv, TaskTypes, Threads, ReadAndAppend, Take, AppendTask,
      AdjustTimer, Goto, timerVars, loopVars, taskVars
<1>32. ASSUME NEW f \in Fds, WriteMore(f)
      PROVE  PassInv'
  BY <1>32 DEF PassInv, TaskTypes, Threads, WriteMore, Take, WriteRearms,
      Modfd, AdjustTimer, Goto, timerVars, loopVars, taskVars
<1> QED
  BY <1>2, <1>3, <1>4, <1>5, <1>6, <1>7, <1>8, <1>9, <1>10, <1>11, <1>12,
     <1>13, <1>14, <1>15, <1>16, <1>17, <1>18, <1>19, <1>20, <1>21, <1>22,
     <1>23, <1>24, <1>25, <1>26, <1>27, <1>28, <1>29, <1>30, <1>31, <1>32
  DEF Next, MainRuns, WorkerRuns, vars, timerVars, loopVars, taskVars,
      SigAlrm, SigTerm, Elapse

-----------------------------------------------------------------------------
(* The alarm chain.                                                        *)

\* An alarm is running, or its byte is in the pipe, or the loop knows of it.
AlarmInv ==
    \/ alarmed /\ "ALRM" \notin m_pipefd /\ timeout = FALSE
    \/ ~alarmed /\ "ALRM" \in m_pipefd /\ timeout = FALSE
    \/ ~alarmed /\ "ALRM" \notin m_pipefd /\ timeout = TRUE

LEMMA AlarmStep ==
    AlarmInv /\ LoopTypes /\ PassInv /\ [Next]_vars => AlarmInv'
<1> SUFFICES ASSUME AlarmInv, LoopTypes, PassInv, [Next]_vars
             PROVE  AlarmInv'
  OBVIOUS
<1> USE ServerAssumption
<1>1. CASE UNCHANGED <<sigVars, timeout>>
  BY <1>1 DEF AlarmInv, sigVars
<1>2. CASE DealWithSignal
  BY <1>2 DEF AlarmInv, LoopTypes, PassInv, DealWithSignal, Take, Goto,
      loopVars, sigVars
<1>3. CASE TickEnds
  BY <1>3 DEF AlarmInv, LoopTypes, PassInv, TickEnds, Goto, loopVars, sigVars
<1>4. CASE SigAlrm
  BY <1>4 DEF AlarmInv, LoopTypes, PassInv, SigAlrm, Goto, loopVars, sigVars
<1>5. CASE SigTerm
  BY <1>5 DEF AlarmInv, LoopTypes, PassInv, SigTerm, Goto, loopVars, sigVars
<1> QED
  BY <1>1, <1>2, <1>3, <1>4, <1>5
  DEF Next, MainRuns, WorkerRuns, vars, loopVars, sigVars, EpollWait,
      EndOfBatch, BeginAccept, Accept, CountUp, EndAccept, CbFunc, CountDown,
      SpinSees, SpinCloses, SpinEnds, Tick, DealWithHangup, ReadAndAppend,
      WriteMore, IOEnds, Dispatch, Elapse, TakeTask, WorkerReads,
      WorkerWrites, WorkerFails, SetTimerFlag, Process, CloseConn,
      ForgetSockfd, LoadCount, StoreCount, ModfdAfterClose

-----------------------------------------------------------------------------
(* No timer is used after it was freed.                                    *)

\* The timer of a slot was created for that slot.
SlotInv ==
    \A f \in Fds : timer[f] # None => /\ timer[f] \in DOMAIN slot
                                      /\ slot[timer[f]] = f

\* An open connection is registered, and its timer is alive.
OpenInv ==
    \A f \in Fds :
        /\ interest[f] = "absent" <=> open[f] = None
        /\ open[f] # None => timer[f] = open[f] /\ timer[f] \in m_timer_lst

\* A descriptor has one event in a batch, and its timer outlives the event.
EventInv ==
    /\ \A d, e \in events : d[2] # None /\ d[2] = e[2] => d = e
    /\ \A e \in events : e[2] # None => /\ e[2] \in Fds
                                        /\ timer[e[2]] \in m_timer_lst

\* The slot that the main thread is busy with has no other event in the batch;
\* a timer is removed only after its own descriptor was closed.
HandInv ==
    /\ pc[Main] \in {"spin", "flag"} =>
        /\ timer[request[Main]] \in m_timer_lst
        /\ \A e \in events : e[2] # request[Main]
    /\ pc[Main] \in {"cb_func", "count_down"} =>
        /\ closing.timer \in m_timer_lst
        /\ closing.fd = slot[closing.timer]
        /\ \A e \in events : e[2] # closing.fd
    /\ pc[Main] = "count_down" => open[closing.fd] = None

LEMMA SlotStep ==
    TimerTypes /\ SlotInv /\ [Next]_vars => SlotInv'
<1> SUFFICES ASSUME TimerTypes, SlotInv, [Next]_vars
             PROVE  SlotInv'
  OBVIOUS
<1> USE ServerAssumption
<1>1. CASE UNCHANGED <<timer, slot>>
  BY <1>1 DEF SlotInv, timerVars
<1>2. CASE Accept
  <2>1. PICK f \in Fds : Timer(f)
    BY <1>2 DEF Accept
  <2>2. /\ Len(slot) + 1 \in DOMAIN slot' /\ slot'[Len(slot) + 1] = f
        /\ \A c \in DOMAIN slot : c \in DOMAIN slot' /\ slot'[c] = slot[c]
        /\ timer' = [timer EXCEPT ![f] = Len(slot) + 1]
    BY <2>1 DEF TimerTypes, Timer
  <2> QED BY <2>2 DEF SlotInv, TimerTypes
<1> QED
  BY <1>1, <1>2
  DEF Next, MainRuns, WorkerRuns, vars, timerVars, EpollWait, EndOfBatch,
      DealWithSignal, BeginAccept, CountUp, EndAccept, CbFunc, CountDown,
      SpinSees, SpinCloses, SpinEnds, Tick, TickEnds, SigAlrm, SigTerm,
      DealWithHangup, ReadAndAppend, WriteMore, IOEnds, Dispatch, Elapse,
      TakeTask, WorkerReads, WorkerWrites, WorkerFails, SetTimerFlag,
      Process, CloseConn, ForgetSockfd, LoadCount, StoreCount,
      ModfdAfterClose

LEMMA OpenStep ==
    TableTypes /\ TimerTypes /\ LoopTypes /\ SlotInv /\ OpenInv /\ HandInv /\
    [Next]_vars => OpenInv'
<1> SUFFICES ASSUME TableTypes, TimerTypes, LoopTypes, SlotInv, OpenInv,
                    HandInv, [Next]_vars
             PROVE  OpenInv'
  OBVIOUS
<1> USE ServerAssumption
<1>1. CASE UNCHANGED <<interest, open, timer, m_timer_lst>>
  BY <1>1 DEF OpenInv, timerVars
<1>2. CASE EpollWait
  <2>1. PICK batch \in SUBSET {e \in Readiness : Reportable(e)} :
            interest' = [f \in Fds |-> IF \E e \in batch : e[2] = f
                                         THEN "none" ELSE interest[f]]
    BY <1>2 DEF EpollWait
  <2>2. ASSUME NEW e \in batch, e[2] \in Fds
        PROVE  interest[e[2]] # "absent"
    <3>1. e \in Readiness /\ Reportable(e)
      OBVIOUS
    <3>2. e # Listen
      BY <2>2 DEF Listen, Fds, None
    <3>3. e[1] \in {"in", "out", "hup"}
      BY <3>1, <3>2 DEF Readiness
    <3> QED BY <3>1, <3>2, <3>3 DEF Reportable
  <2>3. /\ UNCHANGED <<open, timer, m_timer_lst>>
        /\ \A f \in Fds : interest'[f] = "absent" <=> interest[f] = "absent"
    BY <1>2, <2>1, <2>2 DEF EpollWait, timerVars
  <2> QED BY <2>3 DEF OpenInv
<1>3. CASE Accept
  <2>1. PICK f \in Fds : LowestFree(f) /\ InitConnection(f) /\ Timer(f)
    BY <1>3 DEF Accept
  <2>2. Len(slot) + 1 # None
    BY DEF TimerTypes, None
  <2>3. /\ interest' = [interest EXCEPT ![f] = "in"]
        /\ open' = [open EXCEPT ![f] = Len(slot) + 1]
        /\ timer' = [timer EXCEPT ![f] = Len(slot) + 1]
        /\ m_timer_lst' = m_timer_lst \cup {Len(slot) + 1}
    BY <2>1 DEF InitConnection, Timer
  <2> QED BY <2>2, <2>3 DEF OpenInv, TableTypes, TimerTypes
<1>4. CASE CbFunc
  BY <1>4 DEF OpenInv, TableTypes, CbFunc, Goto, tableVars, timerVars
<1>5. CASE CountDown
  <2>1. /\ UNCHANGED <<interest, open, timer>> /\ open[closing.fd] = None
        /\ m_timer_lst' = m_timer_lst \ {closing.timer}
        /\ closing.fd = slot[closing.timer]
    BY <1>5 DEF CountDown, HandInv, tableVars
  <2>2. ASSUME NEW f \in Fds, open[f] # None
        PROVE  timer[f] = open[f] /\ timer[f] \in m_timer_lst'
    BY <2>1, <2>2 DEF OpenInv, SlotInv
  <2> QED BY <2>1, <2>2 DEF OpenInv
<1>6. ASSUME NEW f \in Fds, WriteMore(f)
      PROVE  OpenInv'
  BY <1>6 DEF OpenInv, TableTypes, WriteMore, Take, WriteRearms, Modfd,
      AdjustTimer, Goto, tableVars, timerVars
<1>7. ASSUME NEW w \in Workers, WorkerWrites(w)
      PROVE  OpenInv'
  BY <1>7 DEF OpenInv, TableTypes, WorkerWrites, At, WriteRearms, Modfd,
      Idle, Goto, tableVars, timerVars
<1>8. ASSUME NEW w \in Workers, WorkerFails(w)
      PROVE  OpenInv'
  BY <1>8 DEF OpenInv, TableTypes, WorkerFails, At, Modfd, Goto, tableVars,
      timerVars
<1>9. ASSUME NEW w \in Workers, Process(w)
      PROVE  OpenInv'
  BY <1>9 DEF OpenInv, TableTypes, Process, At, Modfd, Idle, Goto, tableVars,
      timerVars
<1>10. ASSUME NEW w \in Workers, CloseConn(w)
      PROVE  OpenInv'
  BY <1>10 DEF OpenInv, TableTypes, CloseConn, At, Goto, tableVars, timerVars
<1>11. ASSUME NEW w \in Workers, ModfdAfterClose(w)
      PROVE  OpenInv'
  BY <1>11 DEF OpenInv, TableTypes, ModfdAfterClose, At, Modfd, Idle, Goto,
      tableVars, timerVars
<1> QED
  BY <1>1, <1>2, <1>3, <1>4, <1>5, <1>6, <1>7, <1>8, <1>9, <1>10, <1>11
  DEF Next, MainRuns, WorkerRuns, vars, timerVars, tableVars, EndOfBatch,
      DealWithSignal, BeginAccept, CountUp, EndAccept, SpinSees, SpinCloses,
      SpinEnds, Tick, TickEnds, SigAlrm, SigTerm, DealWithHangup,
      ReadAndAppend, IOEnds, Dispatch, Elapse, TakeTask, WorkerReads,
      SetTimerFlag, ForgetSockfd, LoadCount, StoreCount

LEMMA EventStep ==
    TableTypes /\ TimerTypes /\ LoopTypes /\ SlotInv /\ OpenInv /\ EventInv /\
    HandInv /\ PassInv /\ [Next]_vars => EventInv'
<1> SUFFICES ASSUME TableTypes, TimerTypes, LoopTypes, SlotInv, OpenInv,
                    EventInv, HandInv, PassInv, [Next]_vars
             PROVE  EventInv'
  OBVIOUS
<1> USE ServerAssumption
<1>1. CASE UNCHANGED <<events, timer, m_timer_lst>>
  BY <1>1 DEF EventInv, timerVars
<1>2. CASE EpollWait
  <2>1. PICK batch \in SUBSET {e \in Readiness : Reportable(e)} :
            /\ \A d, e \in batch : d # e => d[2] # e[2]
            /\ events' \subseteq batch \cup {Signal}
    BY <1>2 DEF EpollWait
  <2>2. \A e \in events' : e[2] # None => e \in batch
    BY <2>1 DEF Signal
  <2>3. ASSUME NEW e \in batch, e[2] # None
        PROVE  e[2] \in Fds /\ timer[e[2]] \in m_timer_lst
    <3>1. e \in Readiness /\ Reportable(e)
      OBVIOUS
    <3>2. e # Listen
      BY <2>3 DEF Listen
    <3>3. e[1] \in {"in", "out", "hup"} /\ e[2] \in Fds
      BY <3>1, <3>2 DEF Readiness
    <3>4. interest[e[2]] # "absent"
      BY <3>1, <3>2, <3>3 DEF Reportable
    <3> QED BY <3>3, <3>4 DEF OpenInv
  <2>4. UNCHANGED <<timer, m_timer_lst>>
    BY <1>2 DEF EpollWait, timerVars
  <2> QED BY <2>1, <2>2, <2>3, <2>4 DEF EventInv
<1>3. CASE Accept
  <2>1. PICK f \in Fds : Timer(f)
    BY <1>3 DEF Accept
  <2>2. UNCHANGED events
    BY <1>3 DEF Accept, loopVars
  <2> QED BY <2>1, <2>2 DEF EventInv, TimerTypes, Timer
<1>4. CASE CountDown
  <2>1. /\ UNCHANGED <<events, timer>>
        /\ m_timer_lst' = m_timer_lst \ {closing.timer}
        /\ closing.fd = slot[closing.timer]
        /\ \A e \in events : e[2] # closing.fd
    BY <1>4 DEF CountDown, HandInv
  <2>2. ASSUME NEW e \in events, e[2] # None
        PROVE  timer[e[2]] # closing.timer
    <3>1. e[2] \in Fds /\ timer[e[2]] \in m_timer_lst
      BY <2>2 DEF EventInv
    <3>2. timer[e[2]] # None
      BY <3>1 DEF TimerTypes, None
    <3> QED BY <2>1, <3>1, <3>2 DEF SlotInv
  <2> QED BY <2>1, <2>2 DEF EventInv
<1>5. CASE DealWithSignal
  BY <1>5 DEF EventInv, DealWithSignal, Take, Goto, timerVars, loopVars
<1>6. CASE BeginAccept
  BY <1>6 DEF EventInv, BeginAccept, Take, Goto, timerVars, loopVars
<1>7. ASSUME NEW f \in Fds, DealWithHangup(f)
      PROVE  EventInv'
  BY <1>7 DEF EventInv, DealWithHangup, Take, DealTimer, Goto, timerVars,
      loopVars
<1>8. ASSUME NEW f \in Fds, ReadAndAppend(f)
      PROVE  EventInv'
  BY <1>8 DEF EventInv, ReadAndAppend, Take, AppendTask, AdjustTimer, Goto,
      timerVars, loopVars
<1>9. ASSUME NEW f \in Fds, WriteMore(f)
      PROVE  EventInv'
  BY <1>9 DEF EventInv, WriteMore, Take, WriteRearms, Modfd, AdjustTimer,
      Goto, timerVars, loopVars
<1>10. ASSUME NEW f \in Fds, IOEnds(f)
      PROVE  EventInv'
  BY <1>10 DEF EventInv, IOEnds, Take, DealTimer, Goto, timerVars, loopVars
<1>11. ASSUME NEW f \in Fds, NEW op \in {0, 1}, Dispatch(f, op)
      PROVE  EventInv'
  BY <1>11 DEF EventInv, Dispatch, Take, AdjustTimer, AppendTask, Goto,
      timerVars, loopVars
<1> QED
  BY <1>1, <1>2, <1>3, <1>4, <1>5, <1>6, <1>7, <1>8, <1>9, <1>10, <1>11
  DEF Next, MainRuns, WorkerRuns, vars, timerVars, loopVars, EndOfBatch,
      CountUp, EndAccept, CbFunc, SpinSees, SpinCloses, SpinEnds, Tick,
      TickEnds, SigAlrm, SigTerm, Elapse, TakeTask, WorkerReads,
      WorkerWrites, WorkerFails, SetTimerFlag, Process, CloseConn,
      ForgetSockfd, LoadCount, StoreCount, ModfdAfterClose

LEMMA HandStep ==
    TableTypes /\ TimerTypes /\ LoopTypes /\ TaskTypes /\ SlotInv /\
    EventInv /\ HandInv /\ PassInv /\ [Next]_vars => HandInv'
<1> SUFFICES ASSUME TableTypes, TimerTypes, LoopTypes, TaskTypes, SlotInv,
                    EventInv, HandInv, PassInv, [Next]_vars
             PROVE  HandInv'
  OBVIOUS
<1> USE ServerAssumption
<1>1. \A w \in Workers : w # Main /\ w \in Threads
  BY DEF Threads
\* What deal_timer is called with.
<1>2. ASSUME NEW f \in Fds, timer[f] \in m_timer_lst, DealTimer(f),
             UNCHANGED <<slot, m_timer_lst>>,
             \A e \in events' : e[2] # f
      PROVE  HandInv'
  <2>1. /\ pc'[Main] = "cb_func"
        /\ closing'.timer = timer[f] /\ closing'.fd = f
    BY <1>2 DEF DealTimer, Goto, TaskTypes, Threads
  <2>2. timer[f] # None
    BY <1>2 DEF TimerTypes, None
  <2>3. slot[timer[f]] = f
    BY <2>2 DEF SlotInv
  <2> QED BY <1>2, <2>1, <2>3 DEF HandInv
\* ... for an event of the batch.
<1>3. ASSUME NEW f \in Fds, NEW ev, <<ev, f>> \in events
      PROVE  /\ timer[f] \in m_timer_lst
             /\ \A e \in events \ {<<ev, f>>} : e[2] # f
  <2>1. f # None
    BY DEF Fds, None
  <2>2. <<ev, f>>[2] = f
    OBVIOUS
  <2> QED BY <1>3, <2>1, <2>2 DEF EventInv
<1>4. CASE UNCHANGED <<pc, request, events, timer, slot, m_timer_lst, closing,
                       open>>
  BY <1>4 DEF HandInv, timerVars
<1>5. CASE EpollWait
  BY <1>5 DEF HandInv, TaskTypes, Threads, EpollWait, Readiness, Reportable,
      Signal, Goto, tableVars, timerVars, loopVars, taskVars
<1>6. CASE EndOfBatch
  BY <1>6 DEF HandInv, TaskTypes, Threads, EndOfBatch, Goto, tableVars,
      timerVars, loopVars, taskVars
<1>7. CASE BeginAccept
  BY <1>7 DEF HandInv, TaskTypes, Threads, BeginAccept, Take, Goto,
      tableVars, timerVars, loopVars, taskVars
<1>8. CASE Accept
  BY <1>8 DEF HandInv, TaskTypes, Threads, Accept, LowestFree, FreeFds,
      InitConnection, Timer, Goto, tableVars, timerVars, loopVars, taskVars
<1>9. CASE CountUp
  BY <1>9 DEF HandInv, TaskTypes, Threads, CountUp, Goto, tableVars,
      timerVars, loopVars, taskVars
<1>10. CASE EndAccept
  BY <1>10 DEF HandInv, TaskTypes, Threads, EndAccept, Goto, tableVars,
      timerVars, loopVars, taskVars
<1>11. CASE CbFunc
  <2>1. /\ pc[Main] = "cb_func" /\ pc'[Main] = "count_down"
        /\ open' = [open EXCEPT ![closing.fd] = None]
        /\ UNCHANGED <<slot, m_timer_lst, closing, events>>
    BY <1>11 DEF CbFunc, Goto, TaskTypes, Threads, timerVars, loopVars
  <2>2. closing.fd \in Fds
    BY <2>1 DEF HandInv, TimerTypes
  <2>3. open'[closing.fd] = None
    BY <2>1, <2>2 DEF TableTypes
  <2> QED BY <2>1, <2>3 DEF HandInv
<1>12. CASE CountDown
  BY <1>12 DEF HandInv, TaskTypes, Threads, CountDown, Resume, Goto,
      tableVars, timerVars, loopVars, taskVars
<1>13. CASE SpinSees
  BY <1>13 DEF HandInv, TaskTypes, Threads, SpinSees, Goto, tableVars,
      timerVars, loopVars, taskVars
<1>14. CASE SpinCloses
  <2>1. /\ pc[Main] = "flag" /\ DealTimer(request[Main])
        /\ UNCHANGED <<slot, m_timer_lst, events>>
    BY <1>14 DEF SpinCloses, timerVars
  <2> QED BY <1>2, <2>1 DEF HandInv, PassInv
<1>15. CASE SpinEnds
  BY <1>15 DEF HandInv, TaskTypes, Threads, SpinEnds, Goto, tableVars,
      timerVars, loopVars, taskVars
<1>16. CASE Tick
  <2>1. PICK c \in expired : closing' = [timer |-> c, fd |-> slot[c]]
    BY <1>16 DEF Tick
  <2>2. /\ pc[Main] = "tick" /\ pc'[Main] = "cb_func"
        /\ UNCHANGED <<slot, m_timer_lst, events>>
    BY <1>16 DEF Tick, Goto, TaskTypes, Threads, timerVars
  <2>3. c \in m_timer_lst /\ events = {}
    BY <2>2 DEF TimerTypes, PassInv
  <2> QED BY <2>1, <2>2, <2>3 DEF HandInv
<1>17. CASE TickEnds
  BY <1>17 DEF HandInv, TaskTypes, Threads, TickEnds, Goto, tableVars,
      timerVars, loopVars, taskVars
<1>18. ASSUME NEW f \in Fds, DealWithHangup(f)
      PROVE  HandInv'
  <2>1. /\ <<"hup", f>> \in events /\ events' = events \ {<<"hup", f>>}
        /\ DealTimer(f) /\ UNCHANGED <<slot, m_timer_lst>>
    BY <1>18 DEF DealWithHangup, Take, timerVars
  <2> QED BY <1>2, <1>3, <2>1
<1>19. ASSUME NEW f \in Fds, IOEnds(f)
      PROVE  HandInv'
  <2>1. PICK ev \in {"in", "out"} :
            /\ <<ev, f>> \in events /\ events' = events \ {<<ev, f>>}
            /\ DealTimer(f) /\ UNCHANGED <<slot, m_timer_lst>>
    BY <1>19 DEF IOEnds, Take, timerVars
  <2> QED BY <1>2, <1>3, <2>1
<1>20. ASSUME NEW f \in Fds, NEW op \in {0, 1}, Dispatch(f, op)
      PROVE  HandInv'
  <2>1. PICK ev \in {"in", "out"} :
            <<ev, f>> \in events /\ events' = events \ {<<ev, f>>}
    BY <1>20 DEF Dispatch, Take
  <2>2. /\ pc'[Main] = "spin" /\ request'[Main] = f
        /\ UNCHANGED <<timer, m_timer_lst>>
    BY <1>20 DEF Dispatch, Goto, TaskTypes, Threads
  <2> QED BY <1>3, <2>1, <2>2 DEF HandInv
<1>21. ASSUME NEW w \in Workers, TakeTask(w)
      PROVE  HandInv'
  BY <1>21 DEF HandInv, TaskTypes, Threads, TakeTask, At, Goto, tableVars,
      timerVars, loopVars, taskVars
<1>22. ASSUME NEW w \in Workers, WorkerReads(w)
      PROVE  HandInv'
  BY <1>22 DEF HandInv, TaskTypes, Threads, WorkerReads, At, Goto, tableVars,
      timerVars, loopVars, taskVars
<1>23. ASSUME NEW w \in Workers, WorkerWrites(w)
      PROVE  HandInv'
  BY <1>23 DEF HandInv, TaskTypes, Threads, WorkerWrites, At, WriteRearms,
      Modfd, Idle, Goto, tableVars, timerVars, loopVars, taskVars
<1>24. ASSUME NEW w \in Workers, WorkerFails(w)
      PROVE  HandInv'
  BY <1>24 DEF HandInv, TaskTypes, Threads, WorkerFails, At, Modfd, Goto,
      tableVars, timerVars, loopVars, taskVars
<1>25. ASSUME NEW w \in Workers, SetTimerFlag(w)
      PROVE  HandInv'
  BY <1>25 DEF HandInv, TaskTypes, Threads, SetTimerFlag, At, Idle, Goto,
      tableVars, timerVars, loopVars, taskVars
<1>26. ASSUME NEW w \in Workers, Process(w)
      PROVE  HandInv'
  BY <1>26 DEF HandInv, TaskTypes, Threads, Process, At, Modfd, Idle, Goto,
      tableVars, timerVars, loopVars, taskVars
<1>27. ASSUME NEW w \in Workers, CloseConn(w)
      PROVE  HandInv'
  BY <1>27 DEF HandInv, TaskTypes, Threads, CloseConn, At, Goto, tableVars,
      timerVars, loopVars, taskVars
<1>28. ASSUME NEW w \in Workers, ForgetSockfd(w)
      PROVE  HandInv'
  BY <1>28 DEF HandInv, TaskTypes, Threads, ForgetSockfd, At, Goto,
      tableVars, timerVars, loopVars, taskVars
<1>29. ASSUME NEW w \in Workers, LoadCount(w)
      PROVE  HandInv'
  BY <1>29 DEF HandInv, TaskTypes, Threads, LoadCount, At, Goto, tableVars,
      timerVars, loopVars, taskVars
<1>30. ASSUME NEW w \in Workers, StoreCount(w)
      PROVE  HandInv'
  BY <1>30 DEF HandInv, TaskTypes, Threads, StoreCount, At, Goto, tableVars,
      timerVars, loopVars, taskVars
<1>31. ASSUME NEW w \in Workers, ModfdAfterClose(w)
      PROVE  HandInv'
  BY <1>31 DEF HandInv, TaskTypes, Threads, ModfdAfterClose, At, Modfd, Idle,
      Goto, tableVars, timerVars, loopVars, taskVars
<1>32. CASE DealWithSignal
  BY <1>32 DEF HandInv, TaskTypes, Threads, DealWithSignal, Take, Goto,
      tableVars, timerVars, loopVars, taskVars
<1>33. ASSUME NEW f \in Fds, ReadAndAppend(f)
      PROVE  HandInv'
  BY <1>33 DEF HandInv, TaskTypes, Threads, ReadAndAppend, Take, AppendTask,
      AdjustTimer, Goto, tableVars, timerVars, loopVars, taskVars
<1>34. ASSUME NEW f \in Fds, WriteMore(f)
      PROVE  HandInv'
  BY <1>34 DEF HandInv, TaskTypes, Threads, WriteMore, Take, WriteRearms,
      Modfd, AdjustTimer, Goto, tableVars, timerVars, loopVars, taskVars
<1> QED
  BY <1>4, <1>5, <1>6, <1>7, <1>8, <1>9, <1>10, <1>11, <1>12, <1>13, <1>14,
     <1>15, <1>16, <1>17, <1>18, <1>19, <1>20, <1>21, <1>22, <1>23, <1>24,
     <1>25, <1>26, <1>27, <1>28, <1>29, <1>30, <1>31, <1>32, <1>33, <1>34
  DEF Next, MainRuns, WorkerRuns, vars, timerVars, tableVars, loopVars,
      taskVars, SigAlrm, SigTerm, Elapse

-----------------------------------------------------------------------------
(* The number of clients and the timers, while nobody else closes.         *)

LiveFds == {f \in Fds : open[f] # None}

\* Every timer is that of an open connection, but for the one whose connection
\* was just closed; and the count is right, but while it is in a register.
BooksInv ==
    ~outlived =>
        /\ \A w \in Workers : pc[w] \notin {"m_sockfd", "load", "store"}
        /\ \A c \in m_timer_lst : \/ open[slot[c]] = c
                                  \/ /\ pc[Main] = "count_down"
                                     /\ closing.timer = c
        /\ pc[Main] = "count_up" => register[Main] + 1 = Cardinality(LiveFds)
        /\ pc[Main] = "count_down" => register[Main] - 1 = Cardinality(LiveFds)
        /\ pc[Main] \notin {"count_up", "count_down"} =>
                m_user_count = Cardinality(LiveFds)

LEMMA LiveFdsFinite == IsFiniteSet(LiveFds) /\ Cardinality(LiveFds) \in Nat
<1>1. IsFiniteSet(Fds)
  BY ServerAssumption, FS_Interval DEF Fds
<1>2. IsFiniteSet(LiveFds)
  BY <1>1, FS_Subset DEF LiveFds
<1> QED BY <1>2, FS_CardinalityType

LEMMA BooksStep ==
    TableTypes /\ TimerTypes /\ TaskTypes /\ HandInv /\ BooksInv /\
    [Next]_vars => BooksInv'
<1> SUFFICES ASSUME TableTypes, TimerTypes, TaskTypes, HandInv, BooksInv,
                    [Next]_vars
             PROVE  BooksInv'
  OBVIOUS
<1> USE ServerAssumption
<1>1. \A w \in Workers : w # Main /\ w \in Threads
  BY DEF Threads
<1>2. UNCHANGED open => LiveFds' = LiveFds
  BY DEF LiveFds
<1>3. CASE UNCHANGED <<pc, open, slot, m_timer_lst, closing, m_user_count,
                       register, outlived>>
  BY <1>3 DEF BooksInv, LiveFds
<1>4. CASE EpollWait
  BY <1>1, <1>2, <1>4 DEF BooksInv, TaskTypes, Threads, EpollWait, Readiness,
     Reportable, Signal, Goto, tableVars, timerVars, loopVars, countVars
<1>5. CASE EndOfBatch
  BY <1>1, <1>2, <1>5 DEF BooksInv, TaskTypes, Threads, EndOfBatch, Goto,
     tableVars, timerVars, loopVars, countVars
<1>6. CASE BeginAccept
  BY <1>1, <1>2, <1>6 DEF BooksInv, TaskTypes, Threads, BeginAccept, Take,
     Goto, tableVars, timerVars, loopVars, countVars
<1>7. CASE Accept
  <2>1. PICK f \in Fds : LowestFree(f) /\ InitConnection(f) /\ Timer(f)
    BY <1>7 DEF Accept
  <2>2. /\ pc[Main] = "accept" /\ pc'[Main] = "count_up"
        /\ \A w \in Workers : pc'[w] = pc[w]
        /\ UNCHANGED outlived
    BY <1>1, <1>7 DEF Accept, Goto, TaskTypes, Threads
  <2>3. /\ open[f] = None /\ Len(slot) + 1 # None
        /\ open' = [open EXCEPT ![f] = Len(slot) + 1]
    BY <2>1 DEF LowestFree, FreeFds, InitConnection, TimerTypes, None
  <2>4. LiveFds' = LiveFds \cup {f} /\ f \notin LiveFds
    BY <2>3 DEF LiveFds, TableTypes
  <2>5. Cardinality(LiveFds') = Cardinality(LiveFds) + 1
    BY <2>4, LiveFdsFinite, FS_AddElement
  <2>6. register'[Main] = m_user_count
    BY <2>1 DEF InitConnection, TaskTypes, Threads
  <2>7. ASSUME ~outlived, NEW c \in m_timer_lst'
        PROVE  open'[slot'[c]] = c
    <3>1. /\ slot'[Len(slot) + 1] = f /\ DOMAIN slot = 1..Len(slot)
          /\ \A i \in DOMAIN slot : slot'[i] = slot[i] /\ slot[i] \in Fds
          /\ m_timer_lst' = m_timer_lst \cup {Len(slot) + 1}
      BY <2>1 DEF Timer, TimerTypes
    <3>2. CASE c = Len(slot) + 1
      BY <2>3, <3>1, <3>2 DEF TableTypes
    <3>3. CASE c \in m_timer_lst
      <4>1. c \in DOMAIN slot /\ open[slot[c]] = c
        BY <2>2, <2>7, <3>3 DEF BooksInv, TimerTypes
      <4>2. slot[c] # f
        BY <2>3, <3>1, <4>1 DEF None
      <4> QED BY <2>3, <3>1, <4>1, <4>2 DEF TableTypes
    <3> QED BY <3>1, <3>2, <3>3
  <2> QED BY <2>2, <2>5, <2>6, <2>7 DEF BooksInv
<1>8. CASE CountUp
  BY <1>1, <1>2, <1>8 DEF BooksInv, TaskTypes, Threads, CountUp, Goto,
     tableVars, timerVars, loopVars, countVars
<1>9. CASE EndAccept
  BY <1>1, <1>2, <1>9 DEF BooksInv, TaskTypes, Threads, EndAccept, Goto,
     tableVars, timerVars, loopVars, countVars
<1>10. CASE CbFunc
  <2>1. /\ pc[Main] = "cb_func" /\ pc'[Main] = "count_down"
        /\ \A w \in Workers : pc'[w] = pc[w]
        /\ open' = [open EXCEPT ![closing.fd] = None]
        /\ register'[Main] = m_user_count
        /\ outlived => outlived'
        /\ UNCHANGED <<slot, m_timer_lst, closing>>
    BY <1>1, <1>10 DEF CbFunc, Goto, TaskTypes, Threads, timerVars, loopVars
  <2>2. closing.timer \in m_timer_lst /\ closing.fd = slot[closing.timer]
    BY <2>1 DEF HandInv
  <2>3. closing.fd \in Fds
    BY <2>2 DEF TimerTypes
  <2>4. ASSUME ~outlived
        PROVE  Cardinality(LiveFds') = Cardinality(LiveFds) - 1
    <3>1. open[closing.fd] = closing.timer /\ closing.timer # None
      BY <2>1, <2>2, <2>4 DEF BooksInv, TimerTypes, None
    <3>2. LiveFds' = LiveFds \ {closing.fd} /\ closing.fd \in LiveFds
      BY <2>1, <2>3, <3>1 DEF LiveFds, TableTypes
    <3> QED BY <3>2, LiveFdsFinite, FS_RemoveElement
  <2>5. ASSUME ~outlived, NEW c \in m_timer_lst, c # closing.timer
        PROVE  open'[slot[c]] = c
    <3>1. open[slot[c]] = c /\ slot[c] \in Fds
      BY <2>1, <2>5 DEF BooksInv, TimerTypes
    <3>2. slot[c] # closing.fd
      BY <2>1, <2>2, <2>5, <3>1 DEF BooksInv
    <3> QED BY <2>1, <3>1, <3>2 DEF TableTypes
  <2> QED BY <2>1, <2>4, <2>5, LiveFdsFinite DEF BooksInv
<1>11. CASE CountDown
  <2>1. /\ pc[Main] = "count_down" /\ m_user_count' = register[Main] - 1
        /\ pc'[Main] \notin {"count_up", "count_down"}
        /\ \A w \in Workers : pc'[w] = pc[w]
        /\ m_timer_lst' = m_timer_lst \ {closing.timer}
        /\ UNCHANGED <<open, slot, outlived>>
    BY <1>1, <1>11 DEF CountDown, Goto, Resume, TaskTypes, Threads, tableVars
  <2> QED BY <1>2, <2>1 DEF BooksInv
<1>12. CASE SpinSees
  BY <1>1, <1>2, <1>12 DEF BooksInv, TaskTypes, Threads, SpinSees, Goto,
     tableVars, timerVars, loopVars, countVars
<1>13. CASE SpinCloses
  BY <1>1, <1>2, <1>13 DEF BooksInv, TaskTypes, Threads, SpinCloses, DealTimer,
     Goto, tableVars, timerVars, loopVars, countVars
<1>14. CASE SpinEnds
  BY <1>1, <1>2, <1>14 DEF BooksInv, TaskTypes, Threads, SpinEnds, Goto,
     tableVars, timerVars, loopVars, countVars
<1>15. CASE Tick
  BY <1>1, <1>2, <1>15 DEF BooksInv, TaskTypes, Threads, Tick, Goto, tableVars,
      timerVars, loopVars, countVars
<1>16. CASE TickEnds
  BY <1>1, <1>2, <1>16 DEF BooksInv, TaskTypes, Threads, TickEnds, Goto,
     tableVars, timerVars, loopVars, countVars
<1>17. ASSUME NEW f \in Fds, DealWithHangup(f)
      PROVE  BooksInv'
  BY <1>1, <1>2, <1>17 DEF BooksInv, TaskTypes, Threads, DealWithHangup, Take,
     DealTimer, Goto, tableVars, timerVars, loopVars, countVars
<1>18. ASSUME NEW f \in Fds, IOEnds(f)
      PROVE  BooksInv'
  BY <1>1, <1>2, <1>18 DEF BooksInv, TaskTypes, Threads, IOEnds, Take,
     DealTimer, Goto, tableVars, timerVars, loopVars, countVars
<1>19. ASSUME NEW f \in Fds, NEW op \in {0, 1}, Dispatch(f, op)
      PROVE  BooksInv'
  BY <1>1, <1>2, <1>19 DEF BooksInv, TaskTypes, Threads, Dispatch, Take,
     AdjustTimer, AppendTask, Goto, tableVars, timerVars, loopVars, countVars
<1>20. ASSUME NEW w \in Workers, TakeTask(w)
      PROVE  BooksInv'
  BY <1>1, <1>2, <1>20 DEF BooksInv, TaskTypes, Threads, TakeTask, At, Goto,
     tableVars, timerVars, loopVars, countVars
<1>21. ASSUME NEW w \in Workers, WorkerReads(w)
      PROVE  BooksInv'
  BY <1>1, <1>2, <1>21 DEF BooksInv, TaskTypes, Threads, WorkerReads, At, Goto,
      tableVars, timerVars, loopVars, countVars
<1>22. ASSUME NEW w \in Workers, WorkerWrites(w)
      PROVE  BooksInv'
  BY <1>1, <1>2, <1>22 DEF BooksInv, TaskTypes, Threads, WorkerWrites, At,
     WriteRearms, Modfd, Idle, Goto, tableVars, timerVars, loopVars, countVars
<1>23. ASSUME NEW w \in Workers, WorkerFails(w)
      PROVE  BooksInv'
  BY <1>1, <1>2, <1>23 DEF BooksInv, TaskTypes, Threads, WorkerFails, At,
     Modfd, Goto, tableVars, timerVars, loopVars, countVars
<1>24. ASSUME NEW w \in Workers, SetTimerFlag(w)
      PROVE  BooksInv'
  BY <1>1, <1>2, <1>24 DEF BooksInv, TaskTypes, Threads, SetTimerFlag, At,
     Idle, Goto, tableVars, timerVars, loopVars, countVars
<1>25. ASSUME NEW w \in Workers, Process(w)
      PROVE  BooksInv'
  BY <1>1, <1>2, <1>25 DEF BooksInv, TaskTypes, Threads, Process, At, Modfd,
     Idle, Goto, tableVars, timerVars, loopVars, countVars
<1>26. ASSUME NEW w \in Workers, CloseConn(w)
      PROVE  BooksInv'
  BY <1>1, <1>2, <1>26 DEF BooksInv, TaskTypes, Threads, CloseConn, At, Goto,
     tableVars, timerVars, loopVars, countVars
<1>27. ASSUME NEW w \in Workers, ForgetSockfd(w)
      PROVE  BooksInv'
  BY <1>1, <1>2, <1>27 DEF BooksInv, TaskTypes, Threads, ForgetSockfd, At,
     Goto, tableVars, timerVars, loopVars, countVars
<1>28. ASSUME NEW w \in Workers, LoadCount(w)
      PROVE  BooksInv'
  BY <1>1, <1>2, <1>28 DEF BooksInv, TaskTypes, Threads, LoadCount, At, Goto,
     tableVars, timerVars, loopVars, countVars
<1>29. ASSUME NEW w \in Workers, StoreCount(w)
      PROVE  BooksInv'
  BY <1>1, <1>2, <1>29 DEF BooksInv, TaskTypes, Threads, StoreCount, At, Goto,
     tableVars, timerVars, loopVars, countVars
<1>30. ASSUME NEW w \in Workers, ModfdAfterClose(w)
      PROVE  BooksInv'
  BY <1>1, <1>2, <1>30 DEF BooksInv, TaskTypes, Threads, ModfdAfterClose, At,
     Modfd, Idle, Goto, tableVars, timerVars, loopVars, countVars
<1>31. CASE DealWithSignal
  BY <1>1, <1>2, <1>31 DEF BooksInv, TaskTypes, Threads, DealWithSignal, Take,
     Goto, tableVars, timerVars, loopVars, countVars
<1>32. ASSUME NEW f \in Fds, ReadAndAppend(f)
      PROVE  BooksInv'
  BY <1>1, <1>2, <1>32 DEF BooksInv, TaskTypes, Threads, ReadAndAppend, Take,
     AppendTask, AdjustTimer, Goto, tableVars, timerVars, loopVars, countVars
<1>33. ASSUME NEW f \in Fds, WriteMore(f)
      PROVE  BooksInv'
  BY <1>1, <1>2, <1>33 DEF BooksInv, TaskTypes, Threads, WriteMore, Take,
     WriteRearms, Modfd, AdjustTimer, Goto, tableVars, timerVars, loopVars,
     countVars
<1>34. ASSUME NEW c \in Conns, Elapse(c)
      PROVE  BooksInv'
  BY <1>1, <1>2, <1>34 DEF BooksInv, TaskTypes, Threads, Elapse, Goto,
     tableVars, timerVars, loopVars, countVars
<1> QED
  BY <1>3, <1>4, <1>5, <1>6, <1>7, <1>8, <1>9, <1>10, <1>11, <1>12, <1>13,
     <1>14, <1>15, <1>16, <1>17, <1>18, <1>19, <1>20, <1>21, <1>22, <1>23,
     <1>24, <1>25, <1>26, <1>27, <1>28, <1>29, <1>30, <1>31, <1>32, <1>33,
     <1>34
  DEF Next, MainRuns, WorkerRuns, vars, tableVars, timerVars, loopVars,
      countVars, SigAlrm, SigTerm

-----------------------------------------------------------------------------
(* One pair of hands, while nobody else closes.                            *)

Armed(f) == interest[f] \in {"in", "out"}
Reported(f) == \E e \in events : e[2] = f
Holds(w, f) == request[w] = f /\ pc[w] # "timer_flag"

\* A connection is armed, or reported, or queued once, or held by one worker;
\* and nothing refers to a descriptor that is free.
HandsInv ==
    ~outlived =>
        /\ \A f \in Fds :
            /\ open[f] = None => ~InUse(f) /\ ~Reported(f)
            /\ Reported(f) => ~Armed(f)
            /\ Armed(f) \/ Reported(f) => ~Queued(f)
            /\ \A w \in Workers : Holds(w, f) =>
                    /\ ~Armed(f) /\ ~Reported(f) /\ ~Queued(f)
                    /\ \A v \in Workers : Holds(v, f) => v = w
        /\ \A i, j \in 1..Len(m_workqueue) :
                m_workqueue[i] = m_workqueue[j] => i = j

LEMMA HandsStep ==
    TableTypes /\ TimerTypes /\ TaskTypes /\ OpenInv /\ EventInv /\ HandInv /\
    PassInv /\ HandsInv /\ [Next]_vars => HandsInv'
<1> SUFFICES ASSUME TableTypes, TimerTypes, TaskTypes, OpenInv, EventInv,
                    HandInv, PassInv, HandsInv, [Next]_vars
             PROVE  HandsInv'
  OBVIOUS
<1> USE ServerAssumption
<1>1. \A w \in Workers : w # Main /\ w \in Threads
  BY DEF Threads
\* modfd changes the state of one descriptor.
<1>2. ASSUME NEW f, NEW ev, Modfd(f, ev)
      PROVE  \A g \in Fds : g # f => interest'[g] = interest[g]
  BY <1>2 DEF Modfd, TableTypes
\* A worker that lets go of its slot may arm it.
<1>3. ASSUME NEW w \in Workers,
             \A g \in Fds : interest'[g] = interest[g] \/ Holds(w, g),
             \/ pc'[w] = "idle" /\ request'[w] = None
             \/ pc'[w] = "timer_flag" /\ request'[w] = request[w],
             \A v \in Workers \ {w} :
                    pc'[v] = pc[v] /\ request'[v] = request[v],
             UNCHANGED <<open, events, m_workqueue, outlived>>
      PROVE  HandsInv'
  <2>1. \A g \in Fds : ~Holds(w, g)' /\ (InUse(g)' => InUse(g))
    BY <1>3 DEF Holds, InUse, Queued, Fds, None
  <2>2. \A g \in Fds : Reported(g)' = Reported(g) /\ Queued(g)' = Queued(g)
    BY <1>3 DEF Reported, Queued
  <2>3. \A g \in Fds, v \in Workers : Holds(v, g)' => v # w /\ Holds(v, g)
    BY <1>3, <2>1 DEF Holds
  <2>4. \A g \in Fds : Armed(g)' => Armed(g) \/ Holds(w, g)
    BY <1>3 DEF Armed
  <2> QED BY <1>3, <2>1, <2>2, <2>3, <2>4 DEF HandsInv
\* A reported connection becomes a task, or none if the queue is full.
<1>4. ASSUME NEW f \in Fds, NEW ev, <<ev, f>> \in events,
             events' = events \ {<<ev, f>>},
             AppendTask(f),
             \A w \in Workers : pc'[w] = pc[w] /\ request'[w] = request[w],
             UNCHANGED <<open, interest, outlived>>
      PROVE  HandsInv'
  <2>1. Reported(f) /\ ~Reported(f)'
    BY <1>4 DEF Reported, EventInv, Fds, None
  <2>2. \A g \in Fds : /\ Reported(g)' => Reported(g)
                       /\ Armed(g)' = Armed(g)
                       /\ \A w \in Workers : Holds(w, g)' = Holds(w, g)
    BY <1>4 DEF Reported, Armed, Holds
  <2>3. CASE UNCHANGED m_workqueue
    <3>1. \A g \in Fds : InUse(g)' = InUse(g) /\ Queued(g)' = Queued(g)
      BY <1>4, <2>3 DEF InUse, Queued
    <3> QED BY <1>4, <2>1, <2>2, <2>3, <3>1 DEF HandsInv
  <2>4. CASE m_workqueue' = Append(m_workqueue, f)
    <3> DEFINE q == m_workqueue
    <3>1. /\ Len(q) \in Nat /\ Len(q') = Len(q) + 1
          /\ \A i \in 1..Len(q) : q'[i] = q[i] /\ q[i] \in Fds
          /\ q'[Len(q) + 1] = f
      BY <2>4 DEF TaskTypes
    <3>2. \A g \in Fds : Queued(g)' <=> g = f \/ Queued(g)
      BY <3>1 DEF Queued
    <3>3. \A g \in Fds : InUse(g)' => g = f \/ InUse(g)
      BY <1>4, <3>2 DEF InUse
    <3>4. ASSUME ~outlived
          PROVE  \A i, j \in 1..Len(q') : q'[i] = q'[j] => i = j
      <4>1. \A i \in 1..Len(q) : q[i] # f
        BY <2>1, <3>4 DEF HandsInv, Queued
      <4>2. \A i, j \in 1..Len(q) : q[i] = q[j] => i = j
        BY <3>4 DEF HandsInv
      <4>3. \A i \in 1..Len(q') : i \in 1..Len(q) \/ i = Len(q) + 1
        BY <3>1
      <4> QED BY <3>1, <4>1, <4>2, <4>3
    <3> QED BY <1>4, <2>1, <2>2, <3>2, <3>3, <3>4 DEF HandsInv
  <2> QED BY <1>4, <2>3, <2>4 DEF AppendTask
<1>5. CASE UNCHANGED <<pc, open, interest, events, m_workqueue, request,
                       outlived>>
  BY <1>5 DEF HandsInv, Armed, Reported, Holds, InUse, Queued
<1>6. CASE EpollWait
  <2>1. PICK batch \in SUBSET {e \in Readiness : Reportable(e)} :
            /\ events' \subseteq batch \cup {Signal}
            /\ interest' = [f \in Fds |-> IF \E e \in batch : e[2] = f
                                            THEN "none" ELSE interest[f]]
    BY <1>6 DEF EpollWait
  <2>2. /\ UNCHANGED <<open, m_workqueue, request, outlived>>
        /\ \A w \in Workers : pc'[w] = pc[w]
    BY <1>1, <1>6 DEF EpollWait, Goto, taskVars, TaskTypes, Threads
  <2>3. ASSUME NEW f \in Fds, NEW e \in batch, e[2] = f
        PROVE  Armed(f) /\ open[f] # None
    <3>1. e \in Readiness /\ Reportable(e)
      OBVIOUS
    <3>2. e # Listen
      BY <2>3 DEF Listen, Fds, None
    <3>3. e[1] \in {"in", "out", "hup"}
      BY <3>1, <3>2 DEF Readiness
    <3>4. interest[f] \in {"in", "out"}
      BY <2>3, <3>1, <3>2, <3>3 DEF Reportable
    <3> QED BY <3>4 DEF OpenInv, Armed
  <2>4. ASSUME NEW f \in Fds, Reported(f)'
        PROVE  \E e \in batch : e[2] = f
    BY <2>1, <2>4 DEF Reported, Signal, Fds, None
  <2>5. \A f \in Fds : /\ Reported(f)' => Armed(f) /\ open[f] # None
                       /\ Reported(f)' => ~Armed(f)'
                       /\ Armed(f)' => Armed(f)
    BY <2>1, <2>3, <2>4 DEF Armed
  <2>6. \A f \in Fds : /\ InUse(f)' = InUse(f) /\ Queued(f)' = Queued(f)
                       /\ \A w \in Workers : Holds(w, f)' = Holds(w, f)
    BY <2>2 DEF InUse, Queued, Holds
  <2> QED BY <2>2, <2>5, <2>6 DEF HandsInv
<1>7. CASE EndOfBatch
  BY <1>1, <1>7 DEF HandsInv, Armed, Reported, Holds, InUse, Queued, TaskTypes,
      Threads, EndOfBatch, Goto, tableVars, timerVars, loopVars, taskVars
<1>8. CASE DealWithSignal
  BY <1>1, <1>8 DEF HandsInv, Armed, Reported, Holds, InUse, Queued, TaskTypes,
      Threads, DealWithSignal, Take, Goto, tableVars, timerVars, loopVars,
      taskVars
<1>9. CASE BeginAccept
  BY <1>1, <1>9 DEF HandsInv, Armed, Reported, Holds, InUse, Queued, TaskTypes,
      Threads, BeginAccept, Take, Goto, tableVars, timerVars, loopVars,
      taskVars
<1>10. CASE Accept
  BY <1>1, <1>10 DEF HandsInv, Armed, Reported, Holds, InUse, Queued,
     TaskTypes, Threads, Accept, LowestFree, FreeFds, InitConnection, Timer,
     Goto, tableVars, timerVars, loopVars, taskVars
<1>11. CASE CountUp
  BY <1>1, <1>11 DEF HandsInv, Armed, Reported, Holds, InUse, Queued,
     TaskTypes, Threads, CountUp, Goto, tableVars, timerVars, loopVars,
     taskVars
<1>12. CASE EndAccept
  BY <1>1, <1>12 DEF HandsInv, Armed, Reported, Holds, InUse, Queued,
     TaskTypes, Threads, EndAccept, Goto, tableVars, timerVars, loopVars,
     taskVars
<1>13. CASE CbFunc
  <2>1. /\ open' = [open EXCEPT ![closing.fd] = None]
        /\ interest' = [interest EXCEPT ![closing.fd] = "absent"]
        /\ outlived' = (outlived \/ InUse(closing.fd))
        /\ pc[Main] = "cb_func"
        /\ \A w \in Workers : pc'[w] = pc[w]
        /\ UNCHANGED <<events, m_workqueue, request>>
    BY <1>1, <1>13 DEF CbFunc, Goto, TaskTypes, Threads, loopVars, taskVars
  <2>2. ~Reported(closing.fd)
    BY <2>1 DEF HandInv, Reported
  <2>3. \A f \in Fds : /\ f # closing.fd => open'[f] = open[f]
                       /\ Armed(f)' => Armed(f)
    BY <2>1 DEF TableTypes, Armed
  <2>4. \A f : /\ InUse(f)' = InUse(f) /\ Queued(f)' = Queued(f)
               /\ Reported(f)' = Reported(f)
               /\ \A w \in Workers : Holds(w, f)' = Holds(w, f)
    BY <2>1 DEF InUse, Queued, Reported, Holds
  <2>5. ~outlived' => ~outlived /\ ~InUse(closing.fd)
    BY <2>1
  <2> QED BY <2>1, <2>2, <2>3, <2>4, <2>5 DEF HandsInv
<1>14. CASE CountDown
  BY <1>1, <1>14 DEF HandsInv, Armed, Reported, Holds, InUse, Queued,
     TaskTypes, Threads, CountDown, Resume, Goto, tableVars, timerVars,
     loopVars, taskVars
<1>15. CASE SpinSees
  BY <1>1, <1>15 DEF HandsInv, Armed, Reported, Holds, InUse, Queued,
     TaskTypes, Threads, SpinSees, Goto, tableVars, timerVars, loopVars,
     taskVars
<1>16. CASE SpinCloses
  BY <1>1, <1>16 DEF HandsInv, Armed, Reported, Holds, InUse, Queued,
     TaskTypes, Threads, SpinCloses, DealTimer, Goto, tableVars, timerVars,
     loopVars, taskVars
<1>17. CASE SpinEnds
  BY <1>1, <1>17 DEF HandsInv, Armed, Reported, Holds, InUse, Queued,
     TaskTypes, Threads, SpinEnds, Goto, tableVars, timerVars, loopVars,
     taskVars
<1>18. CASE Tick
  BY <1>1, <1>18 DEF HandsInv, Armed, Reported, Holds, InUse, Queued,
     TaskTypes, Threads, Tick, Goto, tableVars, timerVars, loopVars, taskVars
<1>19. CASE TickEnds
  BY <1>1, <1>19 DEF HandsInv, Armed, Reported, Holds, InUse, Queued,
     TaskTypes, Threads, TickEnds, Goto, tableVars, timerVars, loopVars,
     taskVars
<1>20. ASSUME NEW f \in Fds, DealWithHangup(f)
      PROVE  HandsInv'
  BY <1>1, <1>20 DEF HandsInv, Armed, Reported, Holds, InUse, Queued,
     TaskTypes, Threads, DealWithHangup, Take, DealTimer, Goto, tableVars,
     timerVars, loopVars, taskVars
<1>21. ASSUME NEW f \in Fds, ReadAndAppend(f)
      PROVE  HandsInv'
  <2>1. /\ <<"in", f>> \in events /\ events' = events \ {<<"in", f>>}
        /\ AppendTask(f)
        /\ UNCHANGED <<pc, open, interest, request, outlived>>
    BY <1>21 DEF ReadAndAppend, Take, tableVars
  <2> QED BY <1>4, <2>1
<1>22. ASSUME NEW f \in Fds, WriteMore(f)
      PROVE  HandsInv'
  <2>1. /\ <<"out", f>> \in events /\ events' = events \ {<<"out", f>>}
        /\ \A g \in Fds : g # f => interest'[g] = interest[g]
        /\ UNCHANGED <<pc, open, m_workqueue, request, outlived>>
    BY <1>22, <1>2 DEF WriteMore, WriteRearms, Take, taskVars
  <2>2. Reported(f) /\ ~Reported(f)'
    BY <2>1 DEF Reported, EventInv, Fds, None
  <2>3. \A g \in Fds : /\ Reported(g)' => Reported(g)
                       /\ g # f => Armed(g)' = Armed(g)
                       /\ InUse(g)' = InUse(g) /\ Queued(g)' = Queued(g)
                       /\ \A w \in Workers : Holds(w, g)' = Holds(w, g)
    BY <2>1 DEF Reported, Armed, InUse, Queued, Holds
  <2> QED BY <2>1, <2>2, <2>3 DEF HandsInv
<1>23. ASSUME NEW f \in Fds, IOEnds(f)
      PROVE  HandsInv'
  BY <1>1, <1>23 DEF HandsInv, Armed, Reported, Holds, InUse, Queued,
     TaskTypes, Threads, IOEnds, Take, DealTimer, Goto, tableVars, timerVars,
     loopVars, taskVars
<1>24. ASSUME NEW f \in Fds, NEW op \in {0, 1}, Dispatch(f, op)
      PROVE  HandsInv'
  <2>1. PICK ev \in {"in", "out"} :
            <<ev, f>> \in events /\ events' = events \ {<<ev, f>>}
    BY <1>24 DEF Dispatch, Take
  <2>2. /\ AppendTask(f)
        /\ \A w \in Workers : pc'[w] = pc[w] /\ request'[w] = request[w]
        /\ UNCHANGED <<open, interest, outlived>>
    BY <1>1, <1>24 DEF Dispatch, Goto, TaskTypes, Threads
  <2> QED BY <1>4, <2>1, <2>2
<1>25. ASSUME NEW w \in Workers, TakeTask(w)
      PROVE  HandsInv'
  BY <1>1, <1>25 DEF HandsInv, Armed, Reported, Holds, InUse, Queued,
     TaskTypes, Threads, TakeTask, At, Goto, tableVars, timerVars, loopVars,
     taskVars
<1>26. ASSUME NEW w \in Workers, WorkerReads(w)
      PROVE  HandsInv'
  BY <1>1, <1>26 DEF HandsInv, Armed, Reported, Holds, InUse, Queued,
     TaskTypes, Threads, WorkerReads, At, Goto, tableVars, timerVars, loopVars,
     taskVars
<1>27. ASSUME NEW w \in Workers, WorkerWrites(w)
      PROVE  HandsInv'
  <2>1. /\ \A v \in Workers \ {w} :
                pc'[v] = pc[v] /\ request'[v] = request[v]
        /\ \/ pc'[w] = "idle" /\ request'[w] = None
           \/ pc'[w] = "timer_flag" /\ request'[w] = request[w]
        /\ UNCHANGED <<open, events, m_workqueue, outlived>>
    BY <1>1, <1>27 DEF WorkerWrites, At, Idle, Goto, TaskTypes, Threads,
       tableVars, taskVars, loopVars
  <2>2. \A g \in Fds : interest'[g] = interest[g] \/ Holds(w, g)
    BY <1>27, <1>2 DEF WorkerWrites, WriteRearms, At, Holds
  <2> QED BY <1>3, <2>1, <2>2
<1>28. ASSUME NEW w \in Workers, WorkerFails(w)
      PROVE  HandsInv'
  <2>1. /\ \A v \in Workers \ {w} :
                pc'[v] = pc[v] /\ request'[v] = request[v]
        /\ \/ pc'[w] = "idle" /\ request'[w] = None
           \/ pc'[w] = "timer_flag" /\ request'[w] = request[w]
        /\ UNCHANGED <<open, events, m_workqueue, outlived>>
    BY <1>1, <1>28 DEF WorkerFails, At, Idle, Goto, TaskTypes, Threads,
       tableVars, taskVars, loopVars
  <2>2. \A g \in Fds : interest'[g] = interest[g] \/ Holds(w, g)
    BY <1>28, <1>2 DEF WorkerFails, At, Holds
  <2> QED BY <1>3, <2>1, <2>2
<1>29. ASSUME NEW w \in Workers, SetTimerFlag(w)
      PROVE  HandsInv'
  <2>1. /\ \A v \in Workers \ {w} :
                pc'[v] = pc[v] /\ request'[v] = request[v]
        /\ \/ pc'[w] = "idle" /\ request'[w] = None
           \/ pc'[w] = "timer_flag" /\ request'[w] = request[w]
        /\ UNCHANGED <<open, events, m_workqueue, outlived>>
    BY <1>1, <1>29 DEF SetTimerFlag, At, Idle, Goto, TaskTypes, Threads,
       tableVars, taskVars, loopVars
  <2>2. \A g \in Fds : interest'[g] = interest[g] \/ Holds(w, g)
    BY <1>29, <1>2 DEF SetTimerFlag, At, Holds
  <2> QED BY <1>3, <2>1, <2>2
<1>30. ASSUME NEW w \in Workers, Process(w)
      PROVE  HandsInv'
  <2>1. /\ \A v \in Workers \ {w} :
                pc'[v] = pc[v] /\ request'[v] = request[v]
        /\ \/ pc'[w] = "idle" /\ request'[w] = None
           \/ pc'[w] = "timer_flag" /\ request'[w] = request[w]
        /\ UNCHANGED <<open, events, m_workqueue, outlived>>
    BY <1>1, <1>30 DEF Process, At, Idle, Goto, TaskTypes, Threads, tableVars,
       taskVars, loopVars
  <2>2. \A g \in Fds : interest'[g] = interest[g] \/ Holds(w, g)
    BY <1>30, <1>2 DEF Process, At, Holds
  <2> QED BY <1>3, <2>1, <2>2
<1>31. ASSUME NEW w \in Workers, CloseConn(w)
      PROVE  HandsInv'
  BY <1>1, <1>31 DEF HandsInv, Armed, Reported, Holds, InUse, Queued,
     TaskTypes, Threads, CloseConn, At, Goto, tableVars, timerVars, loopVars,
     taskVars
<1>32. ASSUME NEW w \in Workers, ForgetSockfd(w)
      PROVE  HandsInv'
  BY <1>1, <1>32 DEF HandsInv, Armed, Reported, Holds, InUse, Queued,
     TaskTypes, Threads, ForgetSockfd, At, Goto, tableVars, timerVars,
     loopVars, taskVars
<1>33. ASSUME NEW w \in Workers, LoadCount(w)
      PROVE  HandsInv'
  BY <1>1, <1>33 DEF HandsInv, Armed, Reported, Holds, InUse, Queued,
     TaskTypes, Threads, LoadCount, At, Goto, tableVars, timerVars, loopVars,
     taskVars
<1>34. ASSUME NEW w \in Workers, StoreCount(w)
      PROVE  HandsInv'
  BY <1>1, <1>34 DEF HandsInv, Armed, Reported, Holds, InUse, Queued,
     TaskTypes, Threads, StoreCount, At, Goto, tableVars, timerVars, loopVars,
     taskVars
<1>35. ASSUME NEW w \in Workers, ModfdAfterClose(w)
      PROVE  HandsInv'
  <2>1. /\ \A v \in Workers \ {w} :
                pc'[v] = pc[v] /\ request'[v] = request[v]
        /\ \/ pc'[w] = "idle" /\ request'[w] = None
           \/ pc'[w] = "timer_flag" /\ request'[w] = request[w]
        /\ UNCHANGED <<open, events, m_workqueue, outlived>>
    BY <1>1, <1>35 DEF ModfdAfterClose, At, Idle, Goto, TaskTypes, Threads,
       tableVars, taskVars, loopVars
  <2>2. \A g \in Fds : interest'[g] = interest[g] \/ Holds(w, g)
    BY <1>35, <1>2 DEF ModfdAfterClose, At, Holds
  <2> QED BY <1>3, <2>1, <2>2
<1> QED
  BY <1>5, <1>6, <1>7, <1>8, <1>9, <1>10, <1>11, <1>12, <1>13, <1>14, <1>15,
     <1>16, <1>17, <1>18, <1>19, <1>20, <1>21, <1>22, <1>23, <1>24, <1>25,
     <1>26, <1>27, <1>28, <1>29, <1>30, <1>31, <1>32, <1>33, <1>34, <1>35
  DEF Next, MainRuns, WorkerRuns, vars, tableVars, timerVars, loopVars,
      taskVars, SigAlrm, SigTerm, Elapse

-----------------------------------------------------------------------------
(* Theorems.                                                               *)

IInv ==
    /\ TableTypes /\ TimerTypes /\ LoopTypes /\ TaskTypes /\ PassInv
    /\ AlarmInv
    /\ SlotInv /\ OpenInv /\ EventInv /\ HandInv
    /\ BooksInv /\ HandsInv

LEMMA Invariance == Spec => []IInv
<1>1. Init => IInv
  <2> SUFFICES ASSUME Init PROVE IInv
    OBVIOUS
  <2> USE ServerAssumption
  <2>1. TableTypes
    <3>1. -1 \in Int /\ 0 \in {0, 1} /\ "absent" \in {"absent", "none"}
      OBVIOUS
    <3>2. m_sockfd \in [Fds -> Int] /\ \A f \in Fds : m_sockfd[f] = -1
      BY <3>1 DEF Init
    <3> QED BY <3>1, <3>2 DEF Init, TableTypes
  <2>2. TimerTypes /\ SlotInv /\ OpenInv /\ EventInv
    BY DEF Init, TimerTypes, SlotInv, OpenInv, EventInv
  <2>3. LoopTypes
    BY DEF Init, LoopTypes
  <2>4. TaskTypes
    BY DEF Init, TaskTypes, Threads, MainPc, WorkerPc
  <2>5. pc[Main] = "epoll_wait"
    BY DEF Init, Threads
  <2>6. PassInv /\ AlarmInv /\ HandInv
    BY <2>5 DEF Init, PassInv, AlarmInv, HandInv
  <2>7. BooksInv
    <3>1. LiveFds = {}
      BY DEF Init, LiveFds
    <3>2. Cardinality(LiveFds) = 0
      BY <3>1, FS_EmptySet
    <3> QED BY <2>5, <3>2 DEF Init, BooksInv, Threads
  <2>8. HandsInv
    BY DEF Init, HandsInv, InUse, Queued, Reported, Armed, Holds, Threads, Fds,
           None
  <2> QED BY <2>1, <2>2, <2>3, <2>4, <2>6, <2>7, <2>8 DEF IInv
<1>2. IInv /\ [Next]_vars => IInv'
  BY TableStep, TimerStep, LoopStep, TaskStep, PassStep, AlarmStep, SlotStep,
     OpenStep, EventStep, HandStep, BooksStep, HandsStep DEF IInv
<1> QED BY <1>1, <1>2, PTL DEF Spec, Safety

\* Every variable keeps its type.
THEOREM TypeCorrect == Spec => []TypeOK
<1>1. IInv => TypeOK
  <2> SUFFICES ASSUME IInv PROVE TypeOK
    OBVIOUS
  <2>1. {timeout, stop_server, alarmed, outlived} \subseteq BOOLEAN
    BY Zenon DEF IInv, LoopTypes
  <2> QED
    BY <2>1 DEF IInv, TypeOK, TableTypes, TimerTypes, LoopTypes, TaskTypes
<1> QED BY <1>1, Invariance, PTL

\* The alarm that drives the timers is never lost and never set twice.
THEOREM TickIsPending == Spec => []TickPending
<1>1. AlarmInv => TickPending
  <2> SUFFICES ASSUME AlarmInv PROVE TickPending
    OBVIOUS
  <2>1. CASE alarmed /\ "ALRM" \notin m_pipefd /\ timeout = FALSE
    BY <2>1 DEF TickPending
  <2>2. CASE ~alarmed /\ "ALRM" \in m_pipefd /\ timeout = FALSE
    BY <2>2 DEF TickPending
  <2>3. CASE ~alarmed /\ "ALRM" \notin m_pipefd /\ timeout = TRUE
    BY <2>3 DEF TickPending
  <2> QED BY <2>1, <2>2, <2>3 DEF AlarmInv
<1>2. IInv => TickPending
  BY <1>1 DEF IInv
<1> QED BY <1>2, Invariance, PTL

\* The main thread only ever touches timers that are in the container, and an
\* open connection always has its own there, however many old timers and
\* workers close descriptors that have been reused.
THEOREM NoTimerUsedAfterFree == Spec => []TimersAreLive
<1>1. IInv => TimersAreLive
  BY DEF IInv, OpenInv, EventInv, HandInv, TimersAreLive
<1> QED BY <1>1, Invariance, PTL

\* While nobody has closed a connection behind somebody's back, m_user_count
\* is the number of open connections and each of them has one timer.
THEOREM BooksAreBalanced == Spec => []BooksBalance
<1>1. IInv => BooksBalance
  <2> SUFFICES ASSUME IInv, ~outlived,
                      pc[Main] \notin {"count_up", "count_down"}
               PROVE  /\ m_user_count = Cardinality(LiveFds)
                      /\ m_timer_lst = {open[f] : f \in Fds} \ {None}
    BY DEF BooksBalance, LiveFds
  <2>1. /\ m_user_count = Cardinality(LiveFds)
        /\ \A c \in m_timer_lst : open[slot[c]] = c
    BY DEF IInv, BooksInv
  <2>2. \A c \in m_timer_lst : slot[c] \in Fds /\ c # None
    BY DEF IInv, TimerTypes, None
  <2>3. \A f \in Fds : open[f] # None => open[f] \in m_timer_lst
    BY DEF IInv, OpenInv
  <2> QED BY <2>1, <2>2, <2>3
<1> QED BY <1>1, Invariance, PTL

\* A set with no two elements has at most one.
LEMMA AtMostOne ==
    ASSUME NEW S, \A x, y \in S : x = y
    PROVE  /\ Cardinality(S) \in {0, 1}
           /\ S = {} => Cardinality(S) = 0
<1>1. CASE S = {}
  BY <1>1, FS_EmptySet
<1>2. CASE S # {}
  <2>1. PICK x : S = {x}
    BY <1>2
  <2> QED BY <1>2, <2>1, FS_Singleton
<1> QED BY <1>1, <1>2

\* ... and every connection is in one pair of hands at most.
THEOREM ServedOneAtATime == Spec => []OneAtATime
<1>1. IInv => OneAtATime
  <2> SUFFICES ASSUME IInv, ~outlived, NEW f \in Fds
               PROVE  Hands(f) <= 1
    BY DEF OneAtATime
  <2> DEFINE A == {w \in Workers : request[w] = f /\ pc[w] # "timer_flag"}
             B == {i \in 1..Len(m_workqueue) : m_workqueue[i] = f}
             C == {e \in events : e[2] = f}
             d == IF interest[f] \in {"in", "out"} THEN 1 ELSE 0
  <2>1. /\ \A x, y \in A : x = y
        /\ A # {} => B = {} /\ C = {} /\ d = 0
    BY DEF IInv, HandsInv, Holds, Armed, Reported, Queued
  <2>2. /\ \A x, y \in B : x = y
        /\ B # {} => C = {} /\ d = 0
    BY DEF IInv, HandsInv, Armed, Reported, Queued
  <2>3. /\ \A x, y \in C : x = y
        /\ C # {} => d = 0
    BY DEF IInv, EventInv, HandsInv, Armed, Reported, Fds, None
  <2>4. /\ Cardinality(A) \in {0, 1} /\ (A = {} => Cardinality(A) = 0)
        /\ Cardinality(B) \in {0, 1} /\ (B = {} => Cardinality(B) = 0)
        /\ Cardinality(C) \in {0, 1} /\ (C = {} => Cardinality(C) = 0)
    <3> HIDE DEF A, B, C, d
    <3> QED BY <2>1, <2>2, <2>3, AtMostOne
  <2>5. Hands(f) = Cardinality(A) + Cardinality(B) + Cardinality(C) + d
    BY DEF Hands
  <2>6. d \in {0, 1}
    OBVIOUS
  <2> HIDE DEF A, B, C, d
  <2> QED BY <2>1, <2>2, <2>3, <2>4, <2>5, <2>6
<1> QED BY <1>1, Invariance, PTL
\* What lst_timer.cpp says of cb_func is so, and more, as long as nobody has
\* closed a connection behind somebody's back: the descriptor that cb_func
\* closes then stands for the very connection that its timer was made for.
\* The closing by workers, and by timers whose task is still queued, is the
\* only cause of the violation that the run server_timer shows.
THEOREM TimerClosesOwnUntilOutlived ==
    Spec => [][pc[Main] = "cb_func" /\ pc'[Main] = "count_down" /\ ~outlived
                 => open[closing.fd] = closing.timer]_vars
<1>1. ASSUME IInv, pc[Main] = "cb_func", ~outlived
      PROVE  open[closing.fd] = closing.timer
  <2>1. closing.timer \in m_timer_lst /\ closing.fd = slot[closing.timer]
    BY <1>1 DEF IInv, HandInv
  <2>2. open[slot[closing.timer]] = closing.timer
    BY <1>1, <2>1 DEF IInv, BooksInv
  <2> QED BY <2>1, <2>2
<1>2. IInv /\ [Next]_vars =>
        [pc[Main] = "cb_func" /\ pc'[Main] = "count_down" /\ ~outlived
            => open[closing.fd] = closing.timer]_vars
  BY <1>1
<1> QED BY <1>2, Invariance, PTL DEF Spec, Safety
-----------------------------------------------------------------------------
(* The tasks are those of a pool, while nobody else closes.                *)

\* A worker has a slot from the moment it takes a task until it is idle.
IdleInv == \A w \in Workers : pc[w] = "idle" <=> request[w] = None

\* What the abstract worker w is busy with: once it has only timer_flag to set
\* it has let go of its slot.
Serving == [w \in Workers |->
              IF pc[w] = "timer_flag" THEN None ELSE request[w]]

TQ == INSTANCE TaskQueue WITH
        Requests <- Fds, NoRequest <- None,
        queue <- m_workqueue, serving <- Serving

LEMMA IdleStep == TaskTypes /\ IdleInv /\ [Next]_vars => IdleInv'
<1> SUFFICES ASSUME TaskTypes, IdleInv, [Next]_vars
             PROVE  IdleInv'
  OBVIOUS
<1> USE ServerAssumption
<1>1. \A w \in Workers : w # Main /\ w \in Threads
  BY DEF Threads
<1>2. ASSUME \A w \in Workers : pc'[w] = pc[w] /\ request'[w] = request[w]
      PROVE  IdleInv'
  BY <1>2 DEF IdleInv
<1>3. CASE EpollWait \/ MainRuns
  <2>1. \A w \in Workers : pc'[w] = pc[w] /\ request'[w] = request[w]
    BY <1>1, <1>3 DEF EpollWait, MainRuns, EndOfBatch, DealWithSignal,
       BeginAccept, Accept, CountUp, EndAccept, CbFunc, CountDown,
       DealWithHangup, ReadAndAppend, WriteMore, IOEnds, Dispatch, DealTimer,
       SpinSees, SpinCloses, SpinEnds, Tick, TickEnds, Goto, TaskTypes,
       taskVars
  <2> QED BY <1>2, <2>1
<1>4. CASE SigAlrm \/ SigTerm \/ (\E c \in Conns : Elapse(c))
            \/ UNCHANGED vars
  BY <1>2, <1>4 DEF SigAlrm, SigTerm, Elapse, vars, taskVars
<1>5. ASSUME NEW w \in Workers, TakeTask(w)
      PROVE  IdleInv'
  <2>1. Head(m_workqueue) \in Fds
    BY <1>5 DEF TakeTask, TaskTypes
  <2> QED
    BY <1>1, <1>5, <2>1 DEF IdleInv, TakeTask, Goto, TaskTypes, Fds, None
<1>6. ASSUME NEW w \in Workers,
             \/ WorkerWrites(w) \/ SetTimerFlag(w) \/ Process(w)
             \/ ModfdAfterClose(w)
      PROVE  IdleInv'
  BY <1>1, <1>6 DEF IdleInv, WorkerWrites, SetTimerFlag, Process,
     ModfdAfterClose, Idle, Goto, TaskTypes
<1>7. ASSUME NEW w \in Workers,
             \/ WorkerReads(w) \/ WorkerFails(w) \/ CloseConn(w)
             \/ ForgetSockfd(w) \/ LoadCount(w) \/ StoreCount(w)
      PROVE  IdleInv'
  BY <1>1, <1>7 DEF IdleInv, WorkerReads, WorkerFails, CloseConn,
     ForgetSockfd, LoadCount, StoreCount, At, Goto, TaskTypes, taskVars
<1> QED BY <1>3, <1>4, <1>5, <1>6, <1>7 DEF Next, WorkerRuns

\* Every step is a step of TaskQueue or changes nothing that it sees.
LEMMA QueueStep ==
    IInv /\ IdleInv /\ ~outlived /\ [Next]_vars => [TQ!Next]_(TQ!vars)
<1> SUFFICES ASSUME TaskTypes, EventInv, HandsInv, IdleInv, ~outlived,
                    [Next]_vars
             PROVE  TQ!Next \/ UNCHANGED <<m_workqueue, Serving>>
  BY DEF IInv, TQ!vars
<1> USE ServerAssumption
<1>1. \A w \in Workers : w # Main /\ w \in Threads
  BY DEF Threads
<1>2. ASSUME \A w \in Workers : pc'[w] = pc[w] /\ request'[w] = request[w]
      PROVE  UNCHANGED Serving
  BY <1>2 DEF Serving
\* A reported slot is neither queued nor in a worker's hands.
<1>3. ASSUME NEW f \in Fds, NEW ev, <<ev, f>> \in events, AppendTask(f),
             \A w \in Workers : pc'[w] = pc[w] /\ request'[w] = request[w]
      PROVE  TQ!Next \/ UNCHANGED <<m_workqueue, Serving>>
  <2>1. CASE Len(m_workqueue) < MaxRequests
    <3>1. Reported(f)
      BY <1>3 DEF Reported
    <3>2. ~Queued(f) /\ \A w \in Workers : ~Holds(w, f)
      BY <3>1 DEF HandsInv
    <3>3. \A w \in Workers : Serving[w] # f
      BY <3>2 DEF Serving, Holds, Fds, None
    <3>4. TQ!Submit(f)
      BY <1>2, <1>3, <2>1, <3>2, <3>3 DEF TQ!Submit, AppendTask, Queued
    <3> QED BY <3>4 DEF TQ!Next
  <2>2. CASE ~(Len(m_workqueue) < MaxRequests)
    BY <1>2, <1>3, <2>2 DEF AppendTask
  <2> QED BY <2>1, <2>2
<1>4. ASSUME NEW f \in Fds,
             ReadAndAppend(f) \/ \E op \in {0, 1} : Dispatch(f, op)
      PROVE  TQ!Next \/ UNCHANGED <<m_workqueue, Serving>>
  <2>1. \A w \in Workers : pc'[w] = pc[w] /\ request'[w] = request[w]
    BY <1>1, <1>4 DEF ReadAndAppend, Dispatch, Goto, TaskTypes
  <2>2. AppendTask(f) /\ \E ev \in {"in", "out"} : <<ev, f>> \in events
    BY <1>4 DEF ReadAndAppend, Dispatch, Take
  <2> QED BY <1>3, <2>1, <2>2
<1>5. ASSUME NEW w \in Workers, TakeTask(w)
      PROVE  TQ!Next
  <2>1. /\ pc[w] = "idle" /\ request[w] = None /\ m_workqueue # <<>>
        /\ request' = [request EXCEPT ![w] = Head(m_workqueue)]
        /\ m_workqueue' = Tail(m_workqueue)
        /\ \E l \in {"serve", "process"} : pc' = [pc EXCEPT ![w] = l]
    BY <1>5 DEF TakeTask, At, Goto, IdleInv
  <2>2. Serving[w] = None
    BY <2>1 DEF Serving
  <2>3. Serving' = [Serving EXCEPT ![w] = Head(m_workqueue)]
    BY <1>1, <2>1 DEF Serving, TaskTypes
  <2>4. TQ!Take(w)
    BY <2>1, <2>2, <2>3 DEF TQ!Take
  <2> QED BY <2>4 DEF TQ!Next
<1>6. ASSUME NEW w \in Workers,
             \/ WorkerWrites(w) \/ WorkerFails(w) \/ Process(w)
             \/ ModfdAfterClose(w)
      PROVE  TQ!Next
  <2>1. /\ pc[w] \in {"serve", "process", "modfd"} /\ request[w] # None
        /\ \/ pc' = [pc EXCEPT ![w] = "idle"]
              /\ request' = [request EXCEPT ![w] = None]
           \/ pc' = [pc EXCEPT ![w] = "timer_flag"] /\ request' = request
        /\ m_workqueue' = m_workqueue
    BY <1>6 DEF WorkerWrites, WorkerFails, Process, ModfdAfterClose, At, Idle,
       Goto, IdleInv, taskVars
  <2>2. Serving[w] # None
    BY <2>1 DEF Serving
  <2>3. Serving' = [Serving EXCEPT ![w] = None]
    BY <1>1, <2>1 DEF Serving, TaskTypes
  <2>4. TQ!Finish(w)
    BY <2>1, <2>2, <2>3 DEF TQ!Finish
  <2> QED BY <2>4 DEF TQ!Next
<1>7. ASSUME NEW w \in Workers,
             \/ WorkerReads(w) \/ SetTimerFlag(w) \/ CloseConn(w)
             \/ ForgetSockfd(w) \/ LoadCount(w) \/ StoreCount(w)
      PROVE  UNCHANGED <<m_workqueue, Serving>>
  <2>1. m_workqueue' = m_workqueue
    BY <1>7 DEF WorkerReads, SetTimerFlag, CloseConn, ForgetSockfd, LoadCount,
       StoreCount, taskVars
  <2>2. \/ /\ pc[w] = "timer_flag" /\ pc' = [pc EXCEPT ![w] = "idle"]
           /\ request' = [request EXCEPT ![w] = None]
        \/ /\ pc[w] # "timer_flag" /\ request' = request
           /\ \E l \in WorkerPc \ {"timer_flag"} : pc' = [pc EXCEPT ![w] = l]
    BY <1>7 DEF WorkerReads, SetTimerFlag, CloseConn, ForgetSockfd, LoadCount,
       StoreCount, At, Idle, Goto, taskVars, WorkerPc
  <2>3. Serving' = Serving
    BY <1>1, <2>2 DEF Serving, TaskTypes
  <2> QED BY <2>1, <2>3
<1>8. CASE \/ EpollWait \/ EndOfBatch \/ DealWithSignal \/ BeginAccept
           \/ Accept \/ CountUp \/ EndAccept \/ CbFunc \/ CountDown
           \/ \E f \in Fds : \/ DealWithHangup(f) \/ WriteMore(f)
                             \/ IOEnds(f)
           \/ SpinSees \/ SpinCloses \/ SpinEnds \/ Tick \/ TickEnds
  <2>1. m_workqueue' = m_workqueue
    BY <1>8 DEF EpollWait, EndOfBatch, DealWithSignal, BeginAccept, Accept,
       CountUp, EndAccept, CbFunc, CountDown, DealWithHangup, WriteMore,
       IOEnds, SpinSees, SpinCloses, SpinEnds, Tick, TickEnds, taskVars
  <2>2. \A w \in Workers : pc'[w] = pc[w] /\ request'[w] = request[w]
    BY <1>1, <1>8 DEF EpollWait, EndOfBatch, DealWithSignal, BeginAccept,
       Accept, CountUp, EndAccept, CbFunc, CountDown, DealWithHangup,
       WriteMore, IOEnds, DealTimer, SpinSees, SpinCloses, SpinEnds, Tick,
       TickEnds, Goto, TaskTypes, taskVars
  <2> QED BY <1>2, <2>1, <2>2
<1>9. CASE SigAlrm \/ SigTerm \/ (\E c \in Conns : Elapse(c))
            \/ UNCHANGED vars
  BY <1>2, <1>9 DEF SigAlrm, SigTerm, Elapse, vars, taskVars
<1> QED
  BY <1>4, <1>5, <1>6, <1>7, <1>8, <1>9 DEF Next, MainRuns, WorkerRuns

\* What the event loop and the workers make of the tasks is what TaskQueue
\* allows, which the pool of ThreadPool implements: as long as no connection
\* was closed behind somebody's back a slot is handed over only while nobody
\* has it, and each task is taken once, in order, by an idle worker.
THEOREM TasksFollowTaskQueue == Spec /\ []~outlived => TQ!Safety
<1>1. Init => IdleInv
  BY ServerAssumption DEF Init, IdleInv, Threads
<1>2. Init => TQ!Init
  BY ServerAssumption DEF Init, TQ!Init, Serving, Threads
<1>3. IInv => TaskTypes
  BY DEF IInv
<1> QED
  BY <1>1, <1>2, <1>3, IdleStep, QueueStep, Invariance, PTL
     DEF Spec, Safety, TQ!Safety
=============================================================================
