------------------------------- MODULE Server -------------------------------
(***************************************************************************)
(* The life of a connection: webserver.cpp's event loop, the table of      *)
(* http_conn objects and client_data indexed by descriptor, the timers     *)
(* that close idle connections and the worker threads that may close one   *)
(* themselves, in both actor models.                                       *)
(*                                                                         *)
(* Connections are numbered in order of acceptance; descriptors are reused *)
(* (accept returns the lowest free one), so the slot users[fd] and         *)
(* users_timer[fd] serve one connection after another.  The timer created  *)
(* for connection c is called c as well, and slot[c] is the descriptor in  *)
(* its user_data.                                                          *)
(*                                                                         *)
(* The task queue is the FIFO of TaskQueue, which ThreadPool implements;   *)
(* the timer container is the set of Timers, which TimerList implements.   *)
(* What http_conn reads, parses and writes is an outcome chosen freely.    *)
(***************************************************************************)
EXTENDS Integers, Sequences, FiniteSets

CONSTANTS
    Workers,        \* threads running threadpool::run()
    Main,           \* the thread running WebServer::eventLoop()
    MaxFd,          \* descriptors 1..MaxFd are left for clients
    MAX_FD,         \* m_user_count at which new clients are refused
    MaxRequests,    \* capacity of the task queue
    MaxConns        \* bound: connections accepted in a run

ASSUME ServerAssumption ==
    /\ Main \notin Workers
    /\ {MaxFd, MAX_FD, MaxRequests, MaxConns} \subseteq Nat \ {0}

Fds == 1..MaxFd
Conns == 1..MaxConns
None == 0               \* no descriptor, no connection, no timer
Threads == Workers \cup {Main}

VARIABLES
    m_actormodel,   \* 1: Reactor, 0: Proactor; fixed at start
    open,           \* the connection that a descriptor stands for, or None
    interest,       \* epoll: "absent", "none" (disarmed), "in" or "out"
    m_sockfd,       \* users[fd].m_sockfd: fd, or -1
    m_state, improv, timer_flag,    \* users[fd], as in ThreadPool
    m_user_count,   \* number of clients, a plain int
    timer,          \* users_timer[fd].timer
    slot,           \* slot[c]: the descriptor at which c was accepted
    m_timer_lst,    \* the timers in the container
    due,            \* the timers whose expire has come
    expired,        \* those that were due when the pass under way began
    m_workqueue,    \* the task queue
    pc,             \* the next statement of each thread
    request,        \* the slot each thread is busy with
    register,       \* m_user_count as a thread has just loaded it
    events,         \* events of this epoll_wait still to be handled
    timeout, stop_server,   \* locals of eventLoop
    closing,        \* arguments of the cb_func call under way
    m_pipefd,       \* signals in the pipe
    alarmed,        \* an alarm is running
    outlived        \* history: a connection was closed by a worker, or while
                    \* a task or a worker still referred to its slot

tableVars == <<open, interest, m_sockfd, m_state, improv, timer_flag>>
timerVars == <<timer, slot, m_timer_lst, due, expired>>
loopVars  == <<events, timeout, stop_server, closing>>
sigVars   == <<m_pipefd, alarmed>>
taskVars  == <<m_workqueue, request>>
countVars == <<m_user_count, register>>
vars == <<m_actormodel, tableVars, timerVars, loopVars, sigVars, taskVars,
          countVars, pc, outlived>>

Reactor == m_actormodel = 1
Running == pc[Main] # "stopped"
Goto(t, label) == pc' = [pc EXCEPT ![t] = label]

\* Threads and tasks that still refer to the slot f.
Queued(f) == \E i \in 1..Len(m_workqueue) : m_workqueue[i] = f
InUse(f) == Queued(f) \/ \E w \in Workers : request[w] = f

Init ==
    /\ m_actormodel \in {0, 1}
    /\ open = [f \in Fds |-> None]
    /\ interest = [f \in Fds |-> "absent"]
    /\ m_sockfd = [f \in Fds |-> -1]
    /\ m_state = [f \in Fds |-> 0]
    /\ improv = [f \in Fds |-> 0]
    /\ timer_flag = [f \in Fds |-> 0]
    /\ m_user_count = 0
    /\ timer = [f \in Fds |-> None]
    /\ slot = <<>>
    /\ m_timer_lst = {} /\ due = {} /\ expired = {}
    /\ m_workqueue = <<>>
    /\ pc = [t \in Threads |-> IF t = Main THEN "epoll_wait" ELSE "idle"]
    /\ request = [t \in Threads |-> None]
    /\ register = [t \in Threads |-> 0]
    /\ events = {}
    /\ timeout = FALSE /\ stop_server = FALSE
    /\ closing = [timer |-> None, fd |-> None]
    /\ m_pipefd = {}
    /\ alarmed = TRUE
    /\ outlived = FALSE

-----------------------------------------------------------------------------
(* epoll and what http_conn does with its descriptor.                      *)

\* modfd(m_epollfd, users[f].m_sockfd, ev): epoll_ctl fails, unnoticed, on -1
\* and on a descriptor that is not registered.
Modfd(f, ev) ==
    interest' = IF m_sockfd[f] = f /\ interest[f] # "absent"
                  THEN [interest EXCEPT ![f] = ev] ELSE interest

\* recv and writev can succeed only on the slot's own open descriptor.
Usable(f) == m_sockfd[f] = f /\ open[f] # None

\* write() returns true: the socket is full, or the response of a kept-alive
\* connection is out (or there was none to send) and init() clears the slot,
\* of whose flags improv is 0 already: only a worker's write leaves it at 1.
WriteRearms(f) ==
    \/ /\ Usable(f)
       /\ Modfd(f, "out")
       /\ UNCHANGED <<m_state, timer_flag>>
    \/ /\ Modfd(f, "in")
       /\ m_state' = [m_state EXCEPT ![f] = 0]
       /\ timer_flag' = [timer_flag EXCEPT ![f] = 0]

-----------------------------------------------------------------------------
(* The event loop.                                                         *)

\* What epoll_wait may report; m_pipefd[0] is level-triggered.
Signal == <<"signal", None>>
Listen == <<"listen", None>>
Readiness == {Listen} \cup {<<ev, f>> : ev \in {"in", "out", "hup"}, f \in Fds}
Reportable(e) ==
    \/ e = Listen /\ Len(slot) < MaxConns
    \/ e[2] # None /\ (IF e[1] = "hup" THEN interest[e[2]] \in {"in", "out"}
                                      ELSE interest[e[2]] = e[1])

\* A descriptor is reported once per batch, and disarmed by EPOLLONESHOT.
\* (EINTR changes nothing, and the valid arguments leave no other failure.)
EpollWait ==
    /\ pc[Main] = "epoll_wait"
    /\ \E batch \in SUBSET {e \in Readiness : Reportable(e)} :
        /\ \A d, e \in batch : d # e => d[2] # e[2]
        /\ events' = batch \cup (IF m_pipefd = {} THEN {} ELSE {Signal})
        /\ interest' = [f \in Fds |-> IF \E e \in batch : e[2] = f
                                        THEN "none" ELSE interest[f]]
    /\ events' # {}
    /\ Goto(Main, "events")
    /\ UNCHANGED <<m_actormodel, open, m_sockfd, m_state, improv, timer_flag,
                   timerVars, timeout, stop_server, closing, sigVars, taskVars,
                   countVars, outlived>>

\* The main thread takes up one event of the batch.
Take(e) ==
    /\ pc[Main] = "events"
    /\ e \in events
    /\ events' = events \ {e}

\* All events are handled: run the timers if SIGALRM was seen, then loop.
EndOfBatch ==
    /\ pc[Main] = "events"
    /\ events = {}
    /\ expired' = IF timeout THEN due ELSE {}
    /\ Goto(Main, IF timeout THEN "tick"
                  ELSE IF stop_server THEN "stopped" ELSE "epoll_wait")
    /\ UNCHANGED <<m_actormodel, tableVars, timer, slot, m_timer_lst, due,
                   loopVars, sigVars, taskVars, countVars, outlived>>

\* Mutant: only the last signal received is looked at.
DealWithLastSignal ==
    /\ Take(Signal)
    /\ \E s \in m_pipefd : /\ timeout' = (timeout \/ s = "ALRM")
                           /\ stop_server' = (stop_server \/ s = "TERM")
    /\ m_pipefd' = {}
    /\ UNCHANGED <<m_actormodel, tableVars, timerVars, closing, alarmed,
                   taskVars, countVars, pc, outlived>>

\* dealwithsignal: one recv takes everything the pipe holds.
DealWithSignal ==
    /\ Take(Signal)
    /\ timeout' = (timeout \/ "ALRM" \in m_pipefd)
    /\ stop_server' = (stop_server \/ "TERM" \in m_pipefd)
    /\ m_pipefd' = {}
    /\ UNCHANGED <<m_actormodel, tableVars, timerVars, closing, alarmed,
                   taskVars, countVars, pc, outlived>>

-----------------------------------------------------------------------------
(* Accepting clients.  A level-triggered listener accepts once per event,  *)
(* an edge-triggered one until accept fails: how often is left open.       *)

BeginAccept ==
    /\ Take(Listen)
    /\ Goto(Main, "accept")
    /\ UNCHANGED <<m_actormodel, tableVars, timerVars, timeout, stop_server,
                   closing, sigVars, taskVars, countVars, outlived>>

FreeFds == {f \in Fds : open[f] = None}
LowestFree(f) == f \in FreeFds /\ \A g \in FreeFds : f <= g

\* http_conn::init at the slot f, the load of m_user_count++ included.
InitConnection(f) ==
    /\ open' = [open EXCEPT ![f] = Len(slot) + 1]
    /\ interest' = [interest EXCEPT ![f] = "in"]
    /\ m_sockfd' = [m_sockfd EXCEPT ![f] = f]
    /\ m_state' = [m_state EXCEPT ![f] = 0]
    /\ improv' = [improv EXCEPT ![f] = 0]
    /\ timer_flag' = [timer_flag EXCEPT ![f] = 0]
    /\ register' = [register EXCEPT ![Main] = m_user_count]
    /\ UNCHANGED m_user_count

\* Mutant: the slot keeps the timer of the previous connection.
TimerIfNone(f) ==
    /\ slot' = Append(slot, f)
    /\ timer' = IF timer[f] = None THEN [timer EXCEPT ![f] = Len(slot) + 1]
                                   ELSE timer
    /\ m_timer_lst' = m_timer_lst \cup {Len(slot) + 1}
    /\ UNCHANGED <<due, expired>>

\* Mutant: the timer is not added to the container.
TimerNotAdded(f) ==
    /\ slot' = Append(slot, f)
    /\ timer' = [timer EXCEPT ![f] = Len(slot) + 1]
    /\ UNCHANGED <<m_timer_lst, due, expired>>

\* WebServer::timer: a new timer for the slot f, added to the container.
Timer(f) ==
    /\ slot' = Append(slot, f)
    /\ timer' = [timer EXCEPT ![f] = Len(slot) + 1]
    /\ m_timer_lst' = m_timer_lst \cup {Len(slot) + 1}
    /\ UNCHANGED <<due, expired>>

\* accept returns the lowest free descriptor.
Accept ==
    /\ pc[Main] = "accept"
    /\ Len(slot) < MaxConns
    /\ m_user_count < MAX_FD
    /\ \E f \in Fds : LowestFree(f) /\ InitConnection(f) /\ Timer(f)
    /\ Goto(Main, "count_up")
    /\ UNCHANGED <<m_actormodel, loopVars, sigVars, taskVars, outlived>>

\* The store of m_user_count++.
CountUp ==
    /\ pc[Main] = "count_up"
    /\ m_user_count' = register[Main] + 1
    /\ register' = [register EXCEPT ![Main] = 0]
    /\ Goto(Main, "accept")
    /\ UNCHANGED <<m_actormodel, tableVars, timerVars, loopVars, sigVars,
                   taskVars, outlived>>

\* accept fails (no client is waiting), one was accepted and the listener is
\* level-triggered, or the server is full: show_error closes the client.
EndAccept ==
    /\ pc[Main] = "accept"
    /\ Goto(Main, "events")
    /\ UNCHANGED <<m_actormodel, tableVars, timerVars, loopVars, sigVars,
                   taskVars, countVars, outlived>>

-----------------------------------------------------------------------------
(* Closing a connection: cb_func and the removal of its timer.             *)

\* deal_timer(users_timer[f].timer, f)
DealTimer(f) ==
    /\ closing' = [timer |-> timer[f], fd |-> f]
    /\ Goto(Main, "cb_func")

\* cb_func: epoll_ctl(EPOLL_CTL_DEL), close, and the load of m_user_count--.
\* Whatever connection the descriptor stands for now is closed.
CbFunc ==
    LET f == closing.fd IN
    /\ pc[Main] = "cb_func"
    /\ open' = [open EXCEPT ![f] = None]
    /\ interest' = [interest EXCEPT ![f] = "absent"]
    /\ register' = [register EXCEPT ![Main] = m_user_count]
    /\ outlived' = (outlived \/ InUse(f))
    /\ Goto(Main, "count_down")
    /\ UNCHANGED <<m_actormodel, m_sockfd, m_state, improv, timer_flag,
                   timerVars, loopVars, sigVars, taskVars, m_user_count>>

\* Where the main thread goes on after a timer is gone: in the pass, in the
\* spin that found timer_flag set, or with the next event.
Resume == IF expired # {} THEN "tick"
          ELSE IF request[Main] # None THEN "reset" ELSE "events"

\* Mutant: deal_timer forgets del_timer.
CountDownKeepsTimer ==
    /\ pc[Main] = "count_down"
    /\ m_user_count' = register[Main] - 1
    /\ register' = [register EXCEPT ![Main] = 0]
    /\ expired' = expired \ {closing.timer}
    /\ closing' = [timer |-> None, fd |-> None]
    /\ Goto(Main, Resume)
    /\ UNCHANGED <<m_actormodel, tableVars, timer, slot, m_timer_lst, due,
                   events, timeout, stop_server, sigVars, taskVars, outlived>>

\* The store of m_user_count--, then del_timer, or the removal in tick.
CountDown ==
    /\ pc[Main] = "count_down"
    /\ m_user_count' = register[Main] - 1
    /\ register' = [register EXCEPT ![Main] = 0]
    /\ m_timer_lst' = m_timer_lst \ {closing.timer}
    /\ due' = due \ {closing.timer}
    /\ expired' = expired \ {closing.timer}
    /\ closing' = [timer |-> None, fd |-> None]
    /\ Goto(Main, Resume)
    /\ UNCHANGED <<m_actormodel, tableVars, timer, slot, events, timeout,
                   stop_server, sigVars, taskVars, outlived>>

\* The client has gone: EPOLLRDHUP, EPOLLHUP or EPOLLERR.
DealWithHangup(f) ==
    /\ Take(<<"hup", f>>)
    /\ DealTimer(f)
    /\ UNCHANGED <<m_actormodel, tableVars, timerVars, timeout, stop_server,
                   sigVars, taskVars, countVars, outlived>>

-----------------------------------------------------------------------------
(* Serving a connection: dealwithread and dealwithwrite.                   *)

\* adjust_timer: expire = now + 3 * TIMESLOT.
AdjustTimer(f) == due' = due \ {timer[f]}

\* Mutant: the capacity is not enforced.
AppendUnbounded(f) == m_workqueue' = Append(m_workqueue, f)

\* append and append_p: a full queue refuses the task, and nobody looks.
AppendTask(f) ==
    m_workqueue' = IF Len(m_workqueue) < MaxRequests
                     THEN Append(m_workqueue, f) ELSE m_workqueue

\* Proactor: read_once succeeds and a worker will process what was read.
ReadAndAppend(f) ==
    /\ ~Reactor
    /\ Take(<<"in", f>>)
    /\ Usable(f)
    /\ AppendTask(f)
    /\ AdjustTimer(f)
    /\ UNCHANGED <<m_actormodel, tableVars, timer, slot, m_timer_lst, expired,
                   timeout, stop_server, closing, sigVars, request, countVars,
                   pc, outlived>>

\* Proactor: write returns true.
WriteMore(f) ==
    /\ ~Reactor
    /\ Take(<<"out", f>>)
    /\ WriteRearms(f)
    /\ AdjustTimer(f)
    /\ UNCHANGED <<m_actormodel, open, m_sockfd, improv, timer, slot,
                   m_timer_lst, expired, timeout, stop_server, closing,
                   sigVars, taskVars, countVars, pc, outlived>>

\* Proactor: read_once or write returns false.
IOEnds(f) ==
    /\ ~Reactor
    /\ Take(<<"in", f>>) \/ Take(<<"out", f>>)
    /\ DealTimer(f)
    /\ UNCHANGED <<m_actormodel, tableVars, timerVars, timeout, stop_server,
                   sigVars, taskVars, countVars, outlived>>

\* Reactor: the event becomes a task and the main thread spins on improv.
Dispatch(f, op) ==
    /\ Reactor
    /\ Take(<<IF op = 0 THEN "in" ELSE "out", f>>)
    /\ AdjustTimer(f)
    /\ AppendTask(f)
    /\ m_state' = IF Len(m_workqueue) < MaxRequests
                    THEN [m_state EXCEPT ![f] = op] ELSE m_state
    /\ request' = [request EXCEPT ![Main] = f]
    /\ Goto(Main, "spin")
    /\ UNCHANGED <<m_actormodel, open, interest, m_sockfd, improv, timer_flag,
                   timer, slot, m_timer_lst, expired, timeout, stop_server,
                   closing, sigVars, countVars, outlived>>

SpinSees ==
    /\ pc[Main] = "spin"
    /\ improv[request[Main]] = 1
    /\ Goto(Main, "flag")
    /\ UNCHANGED <<m_actormodel, tableVars, timerVars, loopVars, sigVars,
                   taskVars, countVars, outlived>>

SpinCloses ==
    /\ pc[Main] = "flag"
    /\ timer_flag[request[Main]] = 1
    /\ DealTimer(request[Main])
    /\ UNCHANGED <<m_actormodel, tableVars, timerVars, events, timeout,
                   stop_server, sigVars, taskVars, countVars, outlived>>

\* timer_flag = 0 if the connection was closed, and improv = 0 in any case.
SpinEnds ==
    LET f == request[Main] IN
    /\ \/ pc[Main] = "reset"
       \/ pc[Main] = "flag" /\ timer_flag[f] = 0
    /\ timer_flag' = IF pc[Main] = "reset" THEN [timer_flag EXCEPT ![f] = 0]
                                           ELSE timer_flag
    /\ improv' = [improv EXCEPT ![f] = 0]
    /\ request' = [request EXCEPT ![Main] = None]
    /\ Goto(Main, "events")
    /\ UNCHANGED <<m_actormodel, open, interest, m_sockfd, m_state, timerVars,
                   loopVars, sigVars, m_workqueue, countVars, outlived>>

-----------------------------------------------------------------------------
(* Signals and time.                                                       *)

\* Utils::timer_handler, the pass: the callback of each timer that was due.
Tick ==
    /\ pc[Main] = "tick"
    /\ \E c \in expired : closing' = [timer |-> c, fd |-> slot[c]]
    /\ Goto(Main, "cb_func")
    /\ UNCHANGED <<m_actormodel, tableVars, timerVars, events, timeout,
                   stop_server, sigVars, taskVars, countVars, outlived>>

\* Mutant: timer_handler does not set the alarm again.
TickEndsWithoutAlarm ==
    /\ pc[Main] = "tick"
    /\ expired = {}
    /\ timeout' = FALSE
    /\ Goto(Main, IF stop_server THEN "stopped" ELSE "epoll_wait")
    /\ UNCHANGED <<m_actormodel, tableVars, timerVars, events, stop_server,
                   closing, sigVars, taskVars, countVars, outlived>>

\* ... then alarm(TIMESLOT) and timeout = false.
TickEnds ==
    /\ pc[Main] = "tick"
    /\ expired = {}
    /\ alarmed' = TRUE
    /\ timeout' = FALSE
    /\ Goto(Main, IF stop_server THEN "stopped" ELSE "epoll_wait")
    /\ UNCHANGED <<m_actormodel, tableVars, timerVars, events, stop_server,
                   closing, m_pipefd, taskVars, countVars, outlived>>

\* SIGALRM: sig_handler writes one byte into the pipe.
SigAlrm ==
    /\ Running
    /\ alarmed
    /\ alarmed' = FALSE
    /\ m_pipefd' = m_pipefd \cup {"ALRM"}
    /\ UNCHANGED <<m_actormodel, tableVars, timerVars, loopVars, taskVars,
                   countVars, pc, outlived>>

SigTerm ==
    /\ Running
    /\ m_pipefd' = m_pipefd \cup {"TERM"}
    /\ UNCHANGED <<m_actormodel, tableVars, timerVars, loopVars, alarmed,
                   taskVars, countVars, pc, outlived>>

\* Time passes: 3 * TIMESLOT since the timer was set.
Elapse(c) ==
    /\ Running
    /\ c \in m_timer_lst \ due
    /\ due' = due \cup {c}
    /\ UNCHANGED <<m_actormodel, tableVars, timer, slot, m_timer_lst, expired,
                   loopVars, sigVars, taskVars, countVars, pc, outlived>>

-----------------------------------------------------------------------------
(* A worker thread.                                                        *)

\* The next statement of a worker; the process ends with the event loop.
At(w, label) == Running /\ pc[w] = label

TakeTask(w) ==
    /\ At(w, "idle")
    /\ m_workqueue # <<>>
    /\ request' = [request EXCEPT ![w] = Head(m_workqueue)]
    /\ m_workqueue' = Tail(m_workqueue)
    /\ Goto(w, IF Reactor THEN "serve" ELSE "process")
    /\ UNCHANGED <<m_actormodel, tableVars, timerVars, loopVars, sigVars,
                   countVars, outlived>>

Idle(w) ==
    /\ request' = [request EXCEPT ![w] = None]
    /\ Goto(w, "idle")

\* Reactor, read event: read_once succeeds.
WorkerReads(w) ==
    /\ At(w, "serve")
    /\ m_state[request[w]] = 0
    /\ Usable(request[w])
    /\ improv' = [improv EXCEPT ![request[w]] = 1]
    /\ Goto(w, "process")
    /\ UNCHANGED <<m_actormodel, open, interest, m_sockfd, m_state,
                   timer_flag, timerVars, loopVars, sigVars, taskVars,
                   countVars, outlived>>

\* Reactor, write event: write returns true; then improv = 1.
WorkerWrites(w) ==
    LET f == request[w] IN
    /\ At(w, "serve")
    /\ m_state[f] = 1
    /\ WriteRearms(f)
    /\ improv' = [improv EXCEPT ![f] = 1]
    /\ Idle(w)
    /\ UNCHANGED <<m_actormodel, open, m_sockfd, timerVars, loopVars, sigVars,
                   m_workqueue, countVars, outlived>>

\* Reactor: read_once or write returns false; improv = 1, and timer_flag = 1
\* in the next step.  A response that is out has armed the descriptor.
WorkerFails(w) ==
    LET f == request[w] IN
    /\ At(w, "serve")
    /\ UNCHANGED interest \/ (m_state[f] = 1 /\ Modfd(f, "in"))
    /\ improv' = [improv EXCEPT ![f] = 1]
    /\ Goto(w, "timer_flag")
    /\ UNCHANGED <<m_actormodel, open, m_sockfd, m_state, timer_flag,
                   timerVars, loopVars, sigVars, taskVars, countVars,
                   outlived>>

SetTimerFlag(w) ==
    /\ At(w, "timer_flag")
    /\ timer_flag' = [timer_flag EXCEPT ![request[w]] = 1]
    /\ Idle(w)
    /\ UNCHANGED <<m_actormodel, open, interest, m_sockfd, m_state, improv,
                   timerVars, loopVars, sigVars, m_workqueue, countVars,
                   outlived>>

\* Mutant: process arms the descriptor before it has parsed the request.
ProcessArmsEarly(w) ==
    /\ At(w, "process")
    /\ Modfd(request[w], "in")
    /\ Goto(w, "modfd")
    /\ UNCHANGED <<m_actormodel, open, m_sockfd, m_state, improv, timer_flag,
                   timerVars, loopVars, sigVars, taskVars, countVars,
                   outlived>>

\* process: the request is incomplete, or it is answered.
Process(w) ==
    /\ At(w, "process")
    /\ Modfd(request[w], "in") \/ Modfd(request[w], "out")
    /\ Idle(w)
    /\ UNCHANGED <<m_actormodel, open, m_sockfd, m_state, improv, timer_flag,
                   timerVars, loopVars, sigVars, m_workqueue, countVars,
                   outlived>>

\* process_write refuses (the file does not exist): close_conn, removefd.
CloseConn(w) ==
    LET f == request[w] IN
    /\ At(w, "process")
    /\ m_sockfd[f] = f
    /\ open' = [open EXCEPT ![f] = None]
    /\ interest' = [interest EXCEPT ![f] = "absent"]
    /\ outlived' = TRUE
    /\ Goto(w, "m_sockfd")
    /\ UNCHANGED <<m_actormodel, m_sockfd, m_state, improv, timer_flag,
                   timerVars, loopVars, sigVars, taskVars, countVars>>

\* close_conn: m_sockfd = -1.
ForgetSockfd(w) ==
    /\ At(w, "m_sockfd")
    /\ m_sockfd' = [m_sockfd EXCEPT ![request[w]] = -1]
    /\ Goto(w, "load")
    /\ UNCHANGED <<m_actormodel, open, interest, m_state, improv, timer_flag,
                   timerVars, loopVars, sigVars, taskVars, countVars,
                   outlived>>

\* close_conn: m_user_count--, a load and a store.
LoadCount(w) ==
    /\ At(w, "load")
    /\ register' = [register EXCEPT ![w] = m_user_count]
    /\ Goto(w, "store")
    /\ UNCHANGED <<m_actormodel, tableVars, timerVars, loopVars, sigVars,
                   taskVars, m_user_count, outlived>>

StoreCount(w) ==
    /\ At(w, "store")
    /\ m_user_count' = register[w] - 1
    /\ register' = [register EXCEPT ![w] = 0]
    /\ Goto(w, "modfd")
    /\ UNCHANGED <<m_actormodel, tableVars, timerVars, loopVars, sigVars,
                   taskVars, outlived>>

\* process does not return after close_conn: modfd(EPOLLOUT) all the same.
ModfdAfterClose(w) ==
    /\ At(w, "modfd")
    /\ Modfd(request[w], "out")
    /\ Idle(w)
    /\ UNCHANGED <<m_actormodel, open, m_sockfd, m_state, improv, timer_flag,
                   timerVars, loopVars, sigVars, m_workqueue, countVars,
                   outlived>>

-----------------------------------------------------------------------------
\* The main thread between two calls of epoll_wait.
MainRuns ==
    \/ EndOfBatch \/ DealWithSignal
    \/ BeginAccept \/ Accept \/ CountUp \/ EndAccept
    \/ CbFunc \/ CountDown
    \/ \E f \in Fds : \/ DealWithHangup(f) \/ ReadAndAppend(f)
                      \/ WriteMore(f) \/ IOEnds(f)
                      \/ \E op \in {0, 1} : Dispatch(f, op)
    \/ SpinSees \/ SpinCloses \/ SpinEnds
    \/ Tick \/ TickEnds

WorkerRuns(w) ==
    \/ TakeTask(w) \/ WorkerReads(w) \/ WorkerWrites(w) \/ WorkerFails(w)
    \/ SetTimerFlag(w) \/ Process(w) \/ CloseConn(w) \/ ForgetSockfd(w)
    \/ LoadCount(w) \/ StoreCount(w) \/ ModfdAfterClose(w)

Next ==
    \/ EpollWait \/ MainRuns
    \/ SigAlrm \/ SigTerm
    \/ \E c \in Conns : Elapse(c)
    \/ \E w \in Workers : WorkerRuns(w)

Safety == Init /\ [][Next]_vars

\* The scheduler runs every thread that can run, epoll_wait returns when the
\* pipe is readable, an alarm goes off and time passes.  Clients need not do
\* anything, and SIGTERM need not come.
Fairness ==
    /\ WF_vars(EpollWait /\ m_pipefd # {})
    /\ WF_vars(MainRuns)
    /\ \A w \in Workers : WF_vars(WorkerRuns(w))
    /\ WF_vars(SigAlrm)
    /\ \A c \in Conns : WF_vars(Elapse(c))

Spec == Safety /\ Fairness

-----------------------------------------------------------------------------
(* Properties.                                                             *)

MainPc == {"epoll_wait", "events", "accept", "count_up", "cb_func",
           "count_down", "spin", "flag", "reset", "tick", "stopped"}
WorkerPc == {"idle", "serve", "process", "timer_flag", "m_sockfd", "load",
             "store", "modfd"}

\* Every variable keeps its type.
TypeOK ==
    /\ m_actormodel \in {0, 1}
    /\ open \in [Fds -> Conns \cup {None}]
    /\ interest \in [Fds -> {"absent", "none", "in", "out"}]
    /\ \A f \in Fds : m_sockfd[f] \in {f, -1}
    /\ {m_state, improv, timer_flag} \subseteq [Fds -> {0, 1}]
    /\ m_user_count \in Int
    /\ timer \in [Fds -> Conns \cup {None}]
    /\ slot \in Seq(Fds) /\ Len(slot) <= MaxConns
    /\ m_timer_lst \subseteq DOMAIN slot
    /\ expired \subseteq due /\ due \subseteq m_timer_lst
    /\ m_workqueue \in Seq(Fds) /\ Len(m_workqueue) <= MaxRequests
    /\ pc[Main] \in MainPc
    /\ \A w \in Workers : pc[w] \in WorkerPc
    /\ request \in [Threads -> Fds \cup {None}]
    /\ register \in [Threads -> Int]
    /\ events \subseteq Readiness \cup {Signal}
    /\ closing \in [timer : Conns \cup {None}, fd : Fds \cup {None}]
    /\ m_pipefd \subseteq {"ALRM", "TERM"}
    /\ {timeout, stop_server, alarmed, outlived} \subseteq BOOLEAN

\* No timer is used after it was freed: the main thread reads
\* users_timer[fd].timer for every event, adjusts it or calls its cb_func, and
\* it is always the live timer of that slot's connection, even when an old
\* timer or a worker has closed the descriptor in the meantime.
TimersAreLive ==
    /\ \A f \in Fds : open[f] # None => /\ timer[f] = open[f]
                                        /\ timer[f] \in m_timer_lst
    /\ \A e \in events : e[2] # None => timer[e[2]] \in m_timer_lst
    /\ pc[Main] \in {"spin", "flag"} => timer[request[Main]] \in m_timer_lst
    /\ pc[Main] = "cb_func" => closing.timer \in m_timer_lst

\* The alarm chain never breaks and never doubles: an alarm is running, or its
\* byte is in the pipe, or the event loop knows of it; otherwise no pass would
\* ever close an idle connection again.
TickPending ==
    {b \in {1, 2, 3} : \/ b = 1 /\ alarmed
                       \/ b = 2 /\ "ALRM" \in m_pipefd
                       \/ b = 3 /\ timeout} \in {{1}, {2}, {3}}

\* As long as no connection was closed behind somebody's back, m_user_count is
\* the number of open connections, and there is one timer for each.
BooksBalance ==
    ~outlived /\ pc[Main] \notin {"count_up", "count_down"} =>
        /\ m_user_count = Cardinality({f \in Fds : open[f] # None})
        /\ m_timer_lst = {open[f] : f \in Fds} \ {None}

\* ... and a connection is in one pair of hands: its descriptor armed, or
\* reported and not handled yet, or its task queued once, or one worker busy
\* with it.  (A worker that has only timer_flag to set has let go of it.)
Hands(f) ==
    Cardinality({w \in Workers : request[w] = f /\ pc[w] # "timer_flag"})
    + Cardinality({i \in 1..Len(m_workqueue) : m_workqueue[i] = f})
    + Cardinality({e \in events : e[2] = f})
    + (IF interest[f] \in {"in", "out"} THEN 1 ELSE 0)
OneAtATime == ~outlived => \A f \in Fds : Hands(f) <= 1

\* A connection nothing will happen to any more (its descriptor disarmed, no
\* task, no worker: append_p refused it, or its close flag was missed) does not
\* stay open: its timer closes it, unless the server stops first.
Stranded(f) == open[f] # None /\ interest[f] = "none" /\ ~InUse(f)
                 /\ \A e \in events : e[2] # f
StrandedIsClosed ==
    \A f \in Fds : Stranded(f) ~> (~Stranded(f) \/ ~Running)

\* SIGTERM stops the event loop.
TermStops == "TERM" \in m_pipefd ~> ~Running

\* What lst_timer.cpp says of cb_func: a timer closes the inactive connection
\* it was created for.
TimerClosesItsOwn ==
    [][pc[Main] = "cb_func" /\ pc'[Main] = "count_down" =>
            open[closing.fd] \in {closing.timer, None}]_vars
=============================================================================
