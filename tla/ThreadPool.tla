----------------------------- MODULE ThreadPool -----------------------------
(***************************************************************************)
(* threadpool/threadpool.h: the request queue, its mutex and its           *)
(* semaphore, the worker loop run(), and the part of the main thread that  *)
(* meets the workers: append() / append_p() and, in the Reactor model, the *)
(* spin of dealwithread() / dealwithwrite() on improv and timer_flag.      *)
(*                                                                         *)
(* A step is one access to shared state.  What http_conn does with a       *)
(* request (read_once, process, write) is an outcome chosen freely here.   *)
(* epoll is external: a descriptor is registered with EPOLLONESHOT, so it  *)
(* reports one event and then nothing until modfd arms it again.           *)
(***************************************************************************)
EXTENDS Naturals, Sequences, FiniteSets

CONSTANTS
    Workers,        \* threads running threadpool::run()
    Main,           \* the thread running WebServer::eventLoop()
    Requests,       \* http_conn objects, one per open descriptor
    MaxRequests,    \* m_max_requests
    NoRequest,      \* a thread whose local variable designates no request
    Nobody          \* m_queuelocker is free

ASSUME ThreadPoolAssumption ==
    /\ Workers # {} /\ IsFiniteSet(Workers)
    /\ Main \notin Workers /\ Nobody \notin Workers /\ Nobody # Main
    /\ MaxRequests \in Nat \ {0}
    /\ NoRequest \notin Requests

VARIABLES
    m_actor_model,  \* 1: Reactor, 0: Proactor; fixed at start
    m_workqueue,    \* std::list of requests
    m_queuelocker,  \* the thread that holds the mutex, or Nobody
    m_queuestat,    \* value of the semaphore
    pc,             \* the next statement of each thread
    request,        \* the local variable of each thread (sockfd in Main)
    op,             \* Main: the state argument of append (0 read, 1 write)
    m_state,        \* request->m_state
    improv,         \* request->improv
    timer_flag,     \* request->timer_flag
    armed           \* epoll interest: "in", "out", "none", or "closed"

queueVars == <<m_workqueue, m_queuelocker, m_queuestat>>
connVars  == <<m_state, improv, timer_flag, armed>>
vars == <<m_actor_model, queueVars, pc, request, op, connVars>>

Threads == Workers \cup {Main}
Reactor == m_actor_model = 1

MainPc   == {"loop", "append", "size", "unlock", "post", "spin", "flag"}
WorkerPc == {"wait", "lock", "empty", "pop", "unlock", "serve",
             "process", "setimprov", "setflag"}

Init ==
    /\ m_actor_model \in {0, 1}
    /\ m_workqueue = <<>>
    /\ m_queuelocker = Nobody
    /\ m_queuestat = 0
    /\ pc = [t \in Threads |-> IF t = Main THEN "loop" ELSE "wait"]
    /\ request = [t \in Threads |-> NoRequest]
    /\ op = 0
    /\ m_state = [r \in Requests |-> 0]
    /\ improv = [r \in Requests |-> 0]
    /\ timer_flag = [r \in Requests |-> 0]
    /\ armed = [r \in Requests |-> "in"]

Goto(t, label) == pc' = [pc EXCEPT ![t] = label]

\* Where eventLoop continues once append has returned, whatever it returned:
\* dealwithread and dealwithwrite discard the result.
AfterAppend == IF Reactor THEN "spin" ELSE "loop"

-----------------------------------------------------------------------------
(* The main thread.                                                        *)

\* epoll_wait reports an event of r; EPOLLONESHOT disarms the descriptor.
\* In the Reactor model the event becomes a task of the pool.
Dispatch(r, state) ==
    /\ pc[Main] = "loop"
    /\ armed[r] = (IF state = 0 THEN "in" ELSE "out")
    /\ state = 1 => Reactor
    /\ armed' = [armed EXCEPT ![r] = "none"]
    /\ request' = [request EXCEPT ![Main] = r]
    /\ op' = state
    /\ Goto(Main, "append")
    /\ UNCHANGED <<m_actor_model, queueVars, m_state, improv, timer_flag>>

\* In the Proactor model the main thread reads and writes itself; a failure
\* closes the connection at once (deal_timer).
MainIOFails(r) ==
    /\ pc[Main] = "loop"
    /\ ~Reactor
    /\ armed[r] \in {"in", "out"}
    /\ armed' = [armed EXCEPT ![r] = "closed"]
    /\ UNCHANGED <<m_actor_model, queueVars, pc, request, op,
                   m_state, improv, timer_flag>>

\* http_conn::write() returned true.  Either the socket is full and the
\* descriptor waits for room, or the response of a kept-alive connection is
\* out: the descriptor waits for the next request and init() resets the slot.
WriteRearms(r) ==
    \/ /\ armed' = [armed EXCEPT ![r] = "out"]
       /\ UNCHANGED <<m_state, improv, timer_flag>>
    \/ /\ armed' = [armed EXCEPT ![r] = "in"]
       /\ m_state' = [m_state EXCEPT ![r] = 0]
       /\ improv' = [improv EXCEPT ![r] = 0]
       /\ timer_flag' = [timer_flag EXCEPT ![r] = 0]

\* Proactor, write event: the main thread writes itself.
MainWrites(r) ==
    /\ pc[Main] = "loop"
    /\ ~Reactor
    /\ armed[r] = "out"
    /\ WriteRearms(r)
    /\ UNCHANGED <<m_actor_model, queueVars, pc, request, op>>

AppendLock ==
    /\ pc[Main] = "append"
    /\ m_queuelocker = Nobody
    /\ m_queuelocker' = Main
    /\ Goto(Main, "size")
    /\ UNCHANGED <<m_actor_model, m_workqueue, m_queuestat, request, op,
                   connVars>>

\* The queue is full: unlock, return false, which nobody looks at.
AppendFull ==
    /\ pc[Main] = "size"
    /\ Len(m_workqueue) >= MaxRequests
    /\ m_queuelocker' = Nobody
    /\ Goto(Main, AfterAppend)
    /\ UNCHANGED <<m_actor_model, m_workqueue, m_queuestat, request, op,
                   connVars>>

\* Mutant: the size is compared with > instead of >=.
AppendPushOneTooMany ==
    /\ pc[Main] = "size"
    /\ Len(m_workqueue) <= MaxRequests
    /\ m_workqueue' = Append(m_workqueue, request[Main])
    /\ m_state' = IF Reactor THEN [m_state EXCEPT ![request[Main]] = op]
                             ELSE m_state
    /\ Goto(Main, "unlock")
    /\ UNCHANGED <<m_actor_model, m_queuelocker, m_queuestat, request, op,
                   improv, timer_flag, armed>>

\* Only append() records the kind of event; append_p() leaves m_state alone.
AppendPush ==
    /\ pc[Main] = "size"
    /\ Len(m_workqueue) < MaxRequests
    /\ m_workqueue' = Append(m_workqueue, request[Main])
    /\ m_state' = IF Reactor THEN [m_state EXCEPT ![request[Main]] = op]
                             ELSE m_state
    /\ Goto(Main, "unlock")
    /\ UNCHANGED <<m_actor_model, m_queuelocker, m_queuestat, request, op,
                   improv, timer_flag, armed>>

AppendUnlock ==
    /\ pc[Main] = "unlock"
    /\ m_queuelocker' = Nobody
    /\ Goto(Main, "post")
    /\ UNCHANGED <<m_actor_model, m_workqueue, m_queuestat, request, op,
                   connVars>>

\* Mutant: append() returns without posting.
AppendNoPost ==
    /\ pc[Main] = "post"
    /\ Goto(Main, AfterAppend)
    /\ UNCHANGED <<m_actor_model, queueVars, request, op, connVars>>

AppendPost ==
    /\ pc[Main] = "post"
    /\ m_queuestat' = m_queuestat + 1
    /\ Goto(Main, AfterAppend)
    /\ UNCHANGED <<m_actor_model, m_workqueue, m_queuelocker, request, op,
                   connVars>>

\* Mutant: the main thread does not wait for improv.
SpinSkipped ==
    /\ pc[Main] = "spin"
    /\ Goto(Main, "flag")
    /\ UNCHANGED <<m_actor_model, queueVars, request, op, connVars>>

\* Reactor: while (true) { if (1 == improv) ... } has seen improv.
SpinSees ==
    /\ pc[Main] = "spin"
    /\ improv[request[Main]] = 1
    /\ Goto(Main, "flag")
    /\ UNCHANGED <<m_actor_model, queueVars, request, op, connVars>>

\* Mutant: improv is not reset.
SpinEndsKeepsImprov ==
    /\ pc[Main] = "flag"
    /\ Goto(Main, "loop")
    /\ UNCHANGED <<m_actor_model, queueVars, request, op, connVars>>

\* timer_flag asks for the connection to be closed; then improv is consumed.
SpinEnds ==
    LET r == request[Main] IN
    /\ pc[Main] = "flag"
    /\ IF timer_flag[r] = 1
         THEN /\ armed' = [armed EXCEPT ![r] = "closed"]
              /\ timer_flag' = [timer_flag EXCEPT ![r] = 0]
         ELSE UNCHANGED <<armed, timer_flag>>
    /\ improv' = [improv EXCEPT ![r] = 0]
    /\ Goto(Main, "loop")
    /\ UNCHANGED <<m_actor_model, queueVars, request, op, m_state>>

-----------------------------------------------------------------------------
(* A worker thread.                                                        *)

\* Mutant: the counter goes down without waiting for it to be positive.
WaitWithoutPermit(w) ==
    /\ pc[w] = "wait"
    /\ m_queuestat' = m_queuestat - 1
    /\ Goto(w, "lock")
    /\ UNCHANGED <<m_actor_model, m_workqueue, m_queuelocker, request, op,
                   connVars>>

\* m_queuestat.wait() returns with a permit.
Wait(w) ==
    /\ pc[w] = "wait"
    /\ m_queuestat > 0
    /\ m_queuestat' = m_queuestat - 1
    /\ Goto(w, "lock")
    /\ UNCHANGED <<m_actor_model, m_workqueue, m_queuelocker, request, op,
                   connVars>>

\* SIGALRM and SIGTERM are installed without SA_RESTART and no thread blocks
\* them: a sem_wait that found the semaphore at 0 may fail with EINTR, and
\* run() ignores the result.
WaitInterrupted(w) ==
    /\ pc[w] = "wait"
    /\ m_queuestat = 0
    /\ Goto(w, "lock")
    /\ UNCHANGED <<m_actor_model, queueVars, request, op, connVars>>

RunLock(w) ==
    /\ pc[w] = "lock"
    /\ m_queuelocker = Nobody
    /\ m_queuelocker' = w
    /\ Goto(w, "empty")
    /\ UNCHANGED <<m_actor_model, m_workqueue, m_queuestat, request, op,
                   connVars>>

RunEmpty(w) ==
    /\ pc[w] = "empty"
    /\ m_workqueue = <<>>
    /\ m_queuelocker' = Nobody
    /\ Goto(w, "wait")
    /\ UNCHANGED <<m_actor_model, m_workqueue, m_queuestat, request, op,
                   connVars>>

RunFront(w) ==
    /\ pc[w] = "empty"
    /\ m_workqueue # <<>>
    /\ request' = [request EXCEPT ![w] = Head(m_workqueue)]
    /\ Goto(w, "pop")
    /\ UNCHANGED <<m_actor_model, queueVars, op, connVars>>

RunPop(w) ==
    /\ pc[w] = "pop"
    /\ m_workqueue' = Tail(m_workqueue)
    /\ Goto(w, "unlock")
    /\ UNCHANGED <<m_actor_model, m_queuelocker, m_queuestat, request, op,
                   connVars>>

RunUnlock(w) ==
    /\ pc[w] = "unlock"
    /\ m_queuelocker' = Nobody
    /\ Goto(w, IF Reactor THEN "serve" ELSE "process")
    /\ UNCHANGED <<m_actor_model, m_workqueue, m_queuestat, request, op,
                   connVars>>

\* The body of the loop ends: the local variable request goes out of scope.
NextIteration(w) ==
    /\ request' = [request EXCEPT ![w] = NoRequest]
    /\ Goto(w, "wait")

SetImprov(w) == improv' = [improv EXCEPT ![request[w]] = 1]

\* Mutant: the descriptor is armed again as soon as its data has been read.
ReadOnceRearms(w) ==
    /\ pc[w] = "serve"
    /\ m_state[request[w]] = 0
    /\ SetImprov(w)
    /\ armed' = [armed EXCEPT ![request[w]] = "in"]
    /\ Goto(w, "process")
    /\ UNCHANGED <<m_actor_model, queueVars, request, op, m_state,
                   timer_flag>>

\* Reactor, read event: read_once() succeeded; improv is set before process().
ReadOnceOk(w) ==
    /\ pc[w] = "serve"
    /\ m_state[request[w]] = 0
    /\ SetImprov(w)
    /\ Goto(w, "process")
    /\ UNCHANGED <<m_actor_model, queueVars, request, op, m_state,
                   timer_flag, armed>>

\* Reactor, read event: read_once() failed.  improv is set first, the flag
\* that asks for the close in the next statement.
ReadFails(w) ==
    /\ pc[w] = "serve"
    /\ m_state[request[w]] = 0
    /\ SetImprov(w)
    /\ Goto(w, "setflag")
    /\ UNCHANGED <<m_actor_model, queueVars, request, op, m_state,
                   timer_flag, armed>>

\* Reactor, write event: write() returned false, because writev failed or
\* because the response is out and the connection is not kept alive; in the
\* second case write() has armed the descriptor for reading all the same.
WriteEnds(w) ==
    /\ pc[w] = "serve"
    /\ m_state[request[w]] = 1
    /\ \/ UNCHANGED armed
       \/ armed' = [armed EXCEPT ![request[w]] = "in"]
    /\ SetImprov(w)
    /\ Goto(w, "setflag")
    /\ UNCHANGED <<m_actor_model, queueVars, request, op, m_state,
                   timer_flag>>

SetTimerFlag(w) ==
    /\ pc[w] = "setflag"
    /\ timer_flag' = [timer_flag EXCEPT ![request[w]] = 1]
    /\ NextIteration(w)
    /\ UNCHANGED <<m_actor_model, queueVars, op, m_state, improv, armed>>

\* Reactor, write event: write() has more to send or to receive.
WriteOk(w) ==
    /\ pc[w] = "serve"
    /\ m_state[request[w]] = 1
    /\ WriteRearms(request[w])
    /\ Goto(w, "setimprov")
    /\ UNCHANGED <<m_actor_model, queueVars, request, op>>

\* Mutant: a successful write leaves improv alone.
WriteForgetsImprov(w) ==
    /\ pc[w] = "setimprov"
    /\ NextIteration(w)
    /\ UNCHANGED <<m_actor_model, queueVars, op, connVars>>

WriteImprov(w) ==
    /\ pc[w] = "setimprov"
    /\ SetImprov(w)
    /\ NextIteration(w)
    /\ UNCHANGED <<m_actor_model, queueVars, op, m_state, timer_flag, armed>>

\* process() parses and answers; its last act arms the descriptor for reading
\* or writing, or closes it.
Process(w) ==
    /\ pc[w] = "process"
    /\ \E e \in {"in", "out", "closed"} :
            armed' = [armed EXCEPT ![request[w]] = e]
    /\ NextIteration(w)
    /\ UNCHANGED <<m_actor_model, queueVars, op, m_state, improv, timer_flag>>

-----------------------------------------------------------------------------
MainStep ==
    \/ \E r \in Requests : \/ \E state \in {0, 1} : Dispatch(r, state)
                           \/ MainIOFails(r)
                           \/ MainWrites(r)
    \/ AppendLock \/ AppendFull \/ AppendPush \/ AppendUnlock \/ AppendPost
    \/ SpinSees \/ SpinEnds

\* The worker's own code after sem_wait, the lock apart.
WorkerRuns(w) ==
    \/ RunEmpty(w) \/ RunFront(w) \/ RunPop(w) \/ RunUnlock(w)
    \/ ReadOnceOk(w) \/ ReadFails(w) \/ WriteEnds(w) \/ SetTimerFlag(w)
    \/ WriteOk(w) \/ WriteImprov(w) \/ Process(w)

WorkerStep(w) ==
    Wait(w) \/ WaitInterrupted(w) \/ RunLock(w) \/ WorkerRuns(w)

Next == MainStep \/ \E w \in Workers : WorkerStep(w)

Safety == Init /\ [][Next]_vars

\* The scheduler runs every thread that can run.  The mutex is released after
\* a few statements, and a thread that waits for it gets it in the end:
\* signals, the only way to take it without new work, come seconds apart.
\* Nothing is assumed of clients (Dispatch, MainIOFails, MainWrites) nor of
\* signals (WaitInterrupted).
Fairness ==
    /\ SF_vars(AppendLock)
    /\ WF_vars(AppendFull \/ AppendPush \/ AppendUnlock \/ AppendPost
                 \/ SpinSees \/ SpinEnds)
    /\ \A w \in Workers : /\ WF_vars(Wait(w))
                          /\ SF_vars(RunLock(w))
                          /\ WF_vars(WorkerRuns(w))

Spec == Safety /\ Fairness

-----------------------------------------------------------------------------
(* Properties.                                                             *)

\* Every variable keeps its type, and a thread's local variable designates a
\* request wherever the thread uses it.
TypeOK ==
    /\ m_actor_model \in {0, 1}
    /\ m_workqueue \in Seq(Requests)
    /\ m_queuelocker \in Threads \cup {Nobody}
    /\ m_queuestat \in Nat
    /\ pc \in [Threads -> MainPc \cup WorkerPc]
    /\ pc[Main] \in MainPc
    /\ \A w \in Workers : pc[w] \in WorkerPc
    /\ request \in [Threads -> Requests \cup {NoRequest}]
    /\ pc[Main] # "loop" => request[Main] \in Requests
    /\ \A w \in Workers : request[w] \in Requests
            <=> pc[w] \notin {"wait", "lock", "empty"}
    /\ op \in {0, 1}
    /\ m_state \in [Requests -> {0, 1}]
    /\ improv \in [Requests -> {0, 1}]
    /\ timer_flag \in [Requests -> {0, 1}]
    /\ armed \in [Requests -> {"in", "out", "none", "closed"}]

\* A worker past sem_wait that has not yet popped or found the queue empty.
Awake == {w \in Workers : pc[w] \in {"lock", "empty", "pop"}}
Posting == IF pc[Main] \in {"unlock", "post"} THEN 1 ELSE 0

\* No wake-up is lost: every queued request is matched by a permit, by the
\* post append() still has to make, or by a worker on its way to the queue,
\* although sem_wait's result is ignored and signals interrupt it.
NoLostWakeup ==
    Len(m_workqueue) <= m_queuestat + Posting + Cardinality(Awake)

\* A request is in the hands of one party: it is queued once at most, no two
\* workers read, write or process it, and no worker does while it is queued.
\* A worker that has only timer_flag left to set has let go of it.
Queued(r) == \E i \in 1..Len(m_workqueue) : m_workqueue[i] = r
Holds(w, r) == pc[w] \notin {"pop", "setflag"} /\ request[w] = r
ExclusiveService ==
    /\ \A i, j \in 1..Len(m_workqueue) :
            i # j => m_workqueue[i] # m_workqueue[j]
    /\ \A w \in Workers : \A r \in Requests : ~(Queued(r) /\ Holds(w, r))
    /\ \A v, w \in Workers : \A r \in Requests :
            Holds(v, r) /\ Holds(w, r) => v = w

\* Reactor: improv is only ever 1 while the main thread has queued that very
\* request and not yet left the spin that follows, so no later spin can be
\* released by a stale value.
ImprovIsFresh ==
    \A r \in Requests : improv[r] = 1 =>
        /\ Reactor
        /\ pc[Main] \in {"post", "spin", "flag"}
        /\ request[Main] = r

\* Reactor: the main thread waits for each task to be picked up, so append()
\* always finds the queue empty and the discarded false cannot occur, which
\* would leave the main thread spinning for ever.
ReactorNeverRefuses ==
    Reactor /\ pc[Main] \in {"append", "size"} => m_workqueue = <<>>

\* The pool implements the abstract bounded queue.
TQ == INSTANCE TaskQueue WITH
        queue <- m_workqueue,
        serving <- [w \in Workers |->
                      IF pc[w] \in {"pop", "setflag"} THEN NoRequest
                      ELSE request[w]]
ImplementsTaskQueue == TQ!Spec

\* Reactor: the main thread's busy wait always ends.
SpinTerminates == pc[Main] = "spin" ~> pc[Main] = "loop"

\* What the comments on timer_flag say: a worker that sets it makes the main
\* thread close the connection, so the flag is never left behind once the
\* main thread has gone on.
CloseFlagIsSeen ==
    \A r \in Requests : timer_flag[r] = 1 =>
        /\ pc[Main] \in {"post", "spin", "flag"}
        /\ request[Main] = r
=============================================================================
