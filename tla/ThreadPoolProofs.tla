-------------------------- MODULE ThreadPoolProofs --------------------------
(***************************************************************************)
(* Theorems about ThreadPool, for every set of workers and requests and    *)
(* every capacity: type correctness, no lost wake-up, exclusive service    *)
(* and the freshness of the improv handshake, that every step of the pool  *)
(* is a step of the abstract TaskQueue or leaves it unchanged, and when    *)
(* the flag that closes a connection is seen.                              *)
(***************************************************************************)
EXTENDS ThreadPool, FiniteSetTheorems, TLAPS

\* Threads inside a critical section of m_queuelocker.
InCS(t) == pc[t] \in {"size", "empty", "pop", "unlock"}

\* Only the thread that owns the mutex is inside a critical section.
LockInv == \A t \in Threads : InCS(t) => m_queuelocker = t

\* The front that is about to be popped is still the front, and the statements
\* of the Reactor model are reached in that model only.
LocalInv ==
    /\ \A w \in Workers :
        /\ pc[w] = "pop" => /\ m_workqueue # <<>>
                            /\ request[w] = Head(m_workqueue)
        /\ pc[w] \in {"serve", "setimprov", "setflag"} => Reactor
    /\ pc[Main] \in {"spin", "flag"} => Reactor

\* A descriptor that can report an event has its request in nobody's hands,
\* save those of the worker that has just written and not yet said so.
ArmedInv ==
    \A r \in Requests :
        /\ armed[r] \in {"in", "out"} =>
            /\ ~Queued(r)
            /\ \A w \in Workers : Holds(w, r) => pc[w] = "setimprov"
        /\ pc[Main] \in {"append", "size"} /\ request[Main] = r =>
            /\ armed[r] \notin {"in", "out"}
            /\ ~Queued(r)
            /\ \A w \in Workers : ~Holds(w, r)

\* Reactor: until improv is set the main thread waits for this very request.
Expected(r) == request[Main] = r /\ improv[r] = 0
HandshakeInv ==
    Reactor => \A r \in Requests :
        /\ Queued(r) => /\ pc[Main] \in {"unlock", "post", "spin"}
                        /\ Expected(r)
        /\ \A w \in Workers :
            pc[w] \in {"unlock", "serve", "setimprov"} /\ request[w] = r
                => /\ pc[Main] \in {"post", "spin"}
                   /\ Expected(r)

ServiceInv == ArmedInv /\ HandshakeInv /\ ExclusiveService /\ ImprovIsFresh
BaseInv == TypeOK /\ LockInv /\ LocalInv
IInv == BaseInv /\ ServiceInv

-----------------------------------------------------------------------------
(* Type correctness.                                                       *)

\* Every step keeps the types; popping needs the queue not to be empty.
LEMMA TypeStep == TypeOK /\ LocalInv /\ [Next]_vars => TypeOK'
<1> SUFFICES ASSUME TypeOK, LocalInv, [Next]_vars
             PROVE  TypeOK'
  OBVIOUS
<1> USE ThreadPoolAssumption
<1>1. ASSUME NEW r \in Requests, NEW state \in {0, 1}, Dispatch(r, state)
      PROVE  TypeOK'
  BY <1>1 DEF TypeOK, Dispatch, Goto, queueVars, Threads, MainPc
<1>2. ASSUME NEW r \in Requests, MainIOFails(r)
      PROVE  TypeOK'
  BY <1>2 DEF TypeOK, MainIOFails, queueVars
<1>3. ASSUME NEW r \in Requests, MainWrites(r)
      PROVE  TypeOK'
  BY <1>3 DEF TypeOK, MainWrites, WriteRearms, queueVars
<1>4. CASE AppendLock
  BY <1>4 DEF TypeOK, AppendLock, Goto, connVars, Threads, MainPc
<1>5. CASE AppendFull
  BY <1>5 DEF TypeOK, AppendFull, AfterAppend, Goto, connVars, Threads, MainPc
<1>6. CASE AppendPush
  BY <1>6 DEF TypeOK, AppendPush, Goto, connVars, Threads, MainPc
<1>7. CASE AppendUnlock
  BY <1>7 DEF TypeOK, AppendUnlock, Goto, connVars, Threads, MainPc
<1>8. CASE AppendPost
  BY <1>8 DEF TypeOK, AppendPost, AfterAppend, Goto, connVars, Threads, MainPc
<1>9. CASE SpinSees
  BY <1>9 DEF TypeOK, SpinSees, Goto, queueVars, connVars, Threads, MainPc
<1>10. CASE SpinEnds
  BY <1>10 DEF TypeOK, SpinEnds, Goto, queueVars, Threads, MainPc
<1>11. ASSUME NEW w \in Workers, Wait(w) \/ WaitInterrupted(w) \/ RunLock(w)
       PROVE  TypeOK'
  BY <1>11 DEF TypeOK, Wait, WaitInterrupted, RunLock, Goto, queueVars,
               connVars, Threads, WorkerPc
<1>12. ASSUME NEW w \in Workers, RunEmpty(w) \/ RunPop(w) \/ RunUnlock(w)
       PROVE  TypeOK'
  <2>1. RunPop(w) => Tail(m_workqueue) \in Seq(Requests)
    BY DEF TypeOK, LocalInv, RunPop
  <2> QED
    BY <1>12, <2>1 DEF TypeOK, RunEmpty, RunPop, RunUnlock, Goto,
               queueVars, connVars, Threads, WorkerPc
<1>13. ASSUME NEW w \in Workers, RunFront(w)
       PROVE  TypeOK'
  <2>1. Head(m_workqueue) \in Requests
    BY <1>13 DEF TypeOK, RunFront
  <2> QED
    BY <1>13, <2>1 DEF TypeOK, RunFront, Goto, queueVars, connVars, Threads,
               WorkerPc
<1>14. ASSUME NEW w \in Workers,
              \/ ReadOnceOk(w) \/ ReadFails(w) \/ WriteEnds(w)
              \/ SetTimerFlag(w)
              \/ WriteOk(w) \/ WriteImprov(w) \/ Process(w)
       PROVE  TypeOK'
  BY <1>14 DEF TypeOK, ReadOnceOk, ReadFails, WriteEnds, SetTimerFlag,
     WriteOk, WriteRearms, WriteImprov, Process, SetImprov, NextIteration,
     Goto, queueVars, connVars, Threads, WorkerPc
<1>15. CASE UNCHANGED vars
  BY <1>15 DEF TypeOK, vars, queueVars, connVars
<1> QED
  BY <1>1, <1>2, <1>3, <1>4, <1>5, <1>6, <1>7, <1>8, <1>9, <1>10, <1>11,
     <1>12, <1>13, <1>14, <1>15 DEF Next, MainStep, WorkerStep, WorkerRuns

-----------------------------------------------------------------------------
(* Mutual exclusion.                                                       *)

\* Every step keeps critical sections exclusive.
LEMMA LockStep == TypeOK /\ LockInv /\ [Next]_vars => LockInv'
<1> SUFFICES ASSUME TypeOK, LockInv, [Next]_vars
             PROVE  LockInv'
  OBVIOUS
<1> USE ThreadPoolAssumption DEF TypeOK, LockInv, InCS, Goto, Threads
<1>1. CASE MainStep
  BY <1>1 DEF MainStep, Dispatch, MainIOFails, MainWrites, WriteRearms,
     AppendLock, AppendFull, AppendPush, AppendUnlock, AppendPost,
     AfterAppend, SpinSees, SpinEnds, queueVars, connVars
<1>2. ASSUME NEW w \in Workers, Wait(w) \/ WaitInterrupted(w) \/ RunLock(w)
      PROVE  LockInv'
  BY <1>2 DEF Wait, WaitInterrupted, RunLock, queueVars
<1>3. ASSUME NEW w \in Workers,
             RunEmpty(w) \/ RunFront(w) \/ RunPop(w) \/ RunUnlock(w)
      PROVE  LockInv'
  BY <1>3 DEF RunEmpty, RunFront, RunPop, RunUnlock, queueVars
<1>4. ASSUME NEW w \in Workers,
             \/ ReadOnceOk(w) \/ ReadFails(w) \/ WriteEnds(w)
             \/ SetTimerFlag(w)
             \/ WriteOk(w) \/ WriteImprov(w) \/ Process(w)
      PROVE  LockInv'
  BY <1>4 DEF ReadOnceOk, ReadFails, WriteEnds, SetTimerFlag, WriteOk,
     WriteRearms, WriteImprov, Process, NextIteration, queueVars
<1>5. CASE UNCHANGED vars
  BY <1>5 DEF vars, queueVars
<1> QED
  BY <1>1, <1>2, <1>3, <1>4, <1>5 DEF Next, WorkerStep, WorkerRuns

\* Every step keeps LocalInv: no other thread touches the queue between front
\* and pop_front.
LEMMA LocalStep ==
    TypeOK /\ LockInv /\ LocalInv /\ [Next]_vars => LocalInv'
<1> SUFFICES ASSUME TypeOK, LockInv, LocalInv, [Next]_vars
             PROVE  LocalInv'
  OBVIOUS
<1> USE ThreadPoolAssumption DEF TypeOK, LocalInv, Goto, Threads, Reactor
<1>1. ASSUME NEW r \in Requests, NEW state \in {0, 1},
             Dispatch(r, state) \/ MainIOFails(r) \/ MainWrites(r)
      PROVE  LocalInv'
  BY <1>1 DEF Dispatch, MainIOFails, MainWrites, WriteRearms, queueVars
<1>2. CASE AppendLock \/ AppendFull \/ AppendUnlock \/ AppendPost
             \/ SpinSees \/ SpinEnds
  BY <1>2 DEF AppendLock, AppendFull, AppendUnlock, AppendPost, AfterAppend,
              SpinSees, SpinEnds, queueVars
<1>3. CASE AppendPush
  <2>1. \A w \in Workers : pc[w] # "pop"
    BY <1>3 DEF AppendPush, LockInv, InCS
  <2> QED
    BY <1>3, <2>1 DEF AppendPush
<1>4. ASSUME NEW w \in Workers,
             \/ Wait(w) \/ WaitInterrupted(w) \/ RunLock(w) \/ RunEmpty(w)
             \/ RunFront(w) \/ RunUnlock(w)
      PROVE  LocalInv'
  BY <1>4 DEF Wait, WaitInterrupted, RunLock, RunEmpty, RunFront, RunUnlock,
              queueVars
<1>5. ASSUME NEW w \in Workers, RunPop(w)
      PROVE  LocalInv'
  <2>1. \A v \in Workers : pc'[v] # "pop"
    BY <1>5 DEF RunPop, LockInv, InCS
  <2> QED
    BY <1>5, <2>1 DEF RunPop
<1>6. ASSUME NEW w \in Workers,
             \/ ReadOnceOk(w) \/ ReadFails(w) \/ WriteEnds(w)
             \/ SetTimerFlag(w)
             \/ WriteOk(w) \/ WriteImprov(w) \/ Process(w)
      PROVE  LocalInv'
  BY <1>6 DEF ReadOnceOk, ReadFails, WriteEnds, SetTimerFlag, WriteOk,
     WriteRearms, WriteImprov, Process, NextIteration, queueVars
<1>7. CASE UNCHANGED vars
  BY <1>7 DEF vars, queueVars
<1> QED
  BY <1>1, <1>2, <1>3, <1>4, <1>5, <1>6, <1>7
     DEF Next, MainStep, WorkerStep, WorkerRuns

-----------------------------------------------------------------------------
(* One party per request.                                                  *)

\* push_back adds its argument at the end and nothing else.
LEMMA PushQueued ==
    ASSUME TypeOK, AppendPush
    PROVE  /\ \A r \in Requests :
                Queued(r)' <=> Queued(r) \/ r = request[Main]
           /\ Len(m_workqueue') = Len(m_workqueue) + 1
           /\ \A i \in 1..Len(m_workqueue) : m_workqueue'[i] = m_workqueue[i]
           /\ m_workqueue'[Len(m_workqueue) + 1] = request[Main]
<1>1. m_workqueue' = Append(m_workqueue, request[Main])
  BY DEF AppendPush
<1>2. /\ Len(m_workqueue') = Len(m_workqueue) + 1
      /\ \A i \in 1..Len(m_workqueue) : m_workqueue'[i] = m_workqueue[i]
      /\ m_workqueue'[Len(m_workqueue) + 1] = request[Main]
  BY <1>1, ThreadPoolAssumption DEF TypeOK
<1>3. Len(m_workqueue) \in Nat
  BY DEF TypeOK
<1>4. ASSUME NEW r \in Requests
      PROVE  Queued(r)' <=> Queued(r) \/ r = request[Main]
  BY <1>2, <1>3 DEF Queued
<1> QED
  BY <1>2, <1>4

\* pop_front moves every element one place forward and drops the first.
LEMMA PopQueued ==
    ASSUME TypeOK, LocalInv, ExclusiveService, NEW w \in Workers, RunPop(w)
    PROVE  /\ Len(m_workqueue') = Len(m_workqueue) - 1
           /\ Len(m_workqueue) > 0
           /\ \A i \in 1..Len(m_workqueue') :
                    m_workqueue'[i] = m_workqueue[i + 1]
           /\ m_workqueue[1] = request[w]
           /\ Queued(request[w])
           /\ ~Queued(request[w])'
           /\ \A r \in Requests : Queued(r)' => Queued(r)
<1>1. /\ m_workqueue' = Tail(m_workqueue)
      /\ m_workqueue # <<>>
      /\ request[w] = Head(m_workqueue)
  BY DEF RunPop, LocalInv
<1>2. /\ Len(m_workqueue) \in Nat
      /\ Len(m_workqueue) > 0
      /\ Len(m_workqueue') = Len(m_workqueue) - 1
      /\ \A i \in 1..Len(m_workqueue') :
                    m_workqueue'[i] = m_workqueue[i + 1]
      /\ m_workqueue[1] = request[w]
  BY <1>1 DEF TypeOK
<1>3. request' = request
  BY DEF RunPop
<1>4. Queued(request[w])
  BY <1>2 DEF Queued
<1>5. ~Queued(request[w])'
  BY <1>2, <1>3 DEF Queued, ExclusiveService
<1>6. ASSUME NEW r \in Requests, Queued(r)'
      PROVE  Queued(r)
  BY <1>2, <1>6 DEF Queued
<1> QED
  BY <1>2, <1>4, <1>5, <1>6

\* Every step keeps the request in the hands of one party, and the handshake
\* between the main thread and the worker that serves it fresh.
LEMMA ServiceStep == IInv /\ [Next]_vars => ServiceInv'
<1> SUFFICES ASSUME TypeOK, LockInv, LocalInv, ArmedInv, HandshakeInv,
                    ExclusiveService, ImprovIsFresh, [Next]_vars
             PROVE  ServiceInv'
  BY DEF IInv, BaseInv, ServiceInv
<1> USE ThreadPoolAssumption
<1> USE DEF ServiceInv
<1> DEFINE Frame == m_workqueue' = m_workqueue
<1>0. Frame => \A r \in Requests : Queued(r)' <=> Queued(r)
  BY DEF Queued
<1>1. ASSUME NEW r \in Requests, NEW state \in {0, 1}, Dispatch(r, state)
      PROVE  ServiceInv'
  <2>1. Frame
    BY <1>1 DEF Dispatch, queueVars
  <2>2. /\ ~Queued(r)
        /\ \A w \in Workers : ~Holds(w, r)
    BY <1>1 DEF Dispatch, ArmedInv, HandshakeInv, LocalInv, Holds
  <2>3. ArmedInv'
    BY <1>1, <1>0, <2>1, <2>2
       DEF Dispatch, ArmedInv, Holds, Goto, TypeOK, Threads
  <2>4. HandshakeInv'
    BY <1>1, <1>0, <2>1
       DEF Dispatch, HandshakeInv, Expected, Goto, TypeOK, Threads, Reactor
  <2>5. ExclusiveService'
    BY <1>1, <1>0, <2>1 DEF Dispatch, ExclusiveService, Holds, Goto, TypeOK,
       Threads
  <2>6. ImprovIsFresh'
    BY <1>1 DEF Dispatch, ImprovIsFresh, Goto, TypeOK, Threads
  <2> QED
    BY <2>3, <2>4, <2>5, <2>6
<1>2. ASSUME NEW r \in Requests, MainIOFails(r) \/ MainWrites(r)
      PROVE  ServiceInv'
  <2>1. Frame
    BY <1>2 DEF MainIOFails, MainWrites, WriteRearms, queueVars
  <2>2. ArmedInv'
    BY <1>2, <1>0, <2>1 DEF MainIOFails, MainWrites, WriteRearms, ArmedInv,
       Holds, TypeOK
  <2>3. HandshakeInv' /\ ImprovIsFresh'
    BY <1>2, <1>0, <2>1
       DEF MainIOFails, MainWrites, WriteRearms, HandshakeInv, Expected,
           Reactor, ImprovIsFresh, TypeOK
  <2>4. ExclusiveService'
    BY <1>2, <1>0, <2>1 DEF MainIOFails, MainWrites, WriteRearms,
       ExclusiveService, Holds
  <2> QED
    BY <2>2, <2>3, <2>4
<1>3. CASE AppendLock \/ AppendUnlock \/ AppendPost
  <2>1. Frame
    BY <1>3 DEF AppendLock, AppendUnlock, AppendPost
  <2>2. ArmedInv'
    BY <1>3, <1>0, <2>1 DEF AppendLock, AppendUnlock, AppendPost, AfterAppend,
       ArmedInv, Holds, Goto, TypeOK, Threads, connVars
  <2>3. HandshakeInv'
    BY <1>3, <1>0, <2>1 DEF AppendLock, AppendUnlock, AppendPost, AfterAppend,
       HandshakeInv, Expected, Reactor, Goto, TypeOK, Threads, connVars
  <2>4. ExclusiveService'
    BY <1>3, <1>0, <2>1 DEF AppendLock, AppendUnlock, AppendPost,
       ExclusiveService, Holds, Goto, TypeOK, Threads
  <2>5. ImprovIsFresh'
    BY <1>3 DEF AppendLock, AppendUnlock, AppendPost, AfterAppend,
       ImprovIsFresh, Goto, TypeOK, Threads, connVars, Reactor
  <2> QED
    BY <2>2, <2>3, <2>4, <2>5
<1>4. CASE AppendFull
  <2>1. Frame
    BY <1>4 DEF AppendFull
  <2>2. ~Reactor
    <3>1. Queued(m_workqueue[1]) /\ m_workqueue[1] \in Requests
      BY <1>4 DEF AppendFull, TypeOK, Queued
    <3> QED
      BY <1>4, <3>1 DEF AppendFull, HandshakeInv
  <2>3. ArmedInv'
    BY <1>4, <1>0, <2>1 DEF AppendFull, AfterAppend, ArmedInv, Holds, Goto,
       TypeOK, Threads, connVars
  <2>4. HandshakeInv'
    BY <1>4, <2>2 DEF AppendFull, HandshakeInv, Reactor
  <2>5. ExclusiveService'
    BY <1>4, <1>0, <2>1 DEF AppendFull, ExclusiveService, Holds, Goto, TypeOK,
       Threads
  <2>6. ImprovIsFresh'
    BY <1>4 DEF AppendFull, AfterAppend, ImprovIsFresh, Goto, TypeOK, Threads,
       connVars
  <2> QED
    BY <2>3, <2>4, <2>5, <2>6
<1>5. CASE AppendPush
  <2>1. /\ request[Main] \in Requests
        /\ ~Queued(request[Main])
        /\ \A w \in Workers : ~Holds(w, request[Main])
        /\ armed[request[Main]] \notin {"in", "out"}
    BY <1>5 DEF AppendPush, ArmedInv, TypeOK
  <2>2. \A r \in Requests : improv[r] # 1
    BY <1>5 DEF AppendPush, ImprovIsFresh
  <2>3. ArmedInv'
    BY <1>5, <2>1, PushQueued DEF AppendPush, ArmedInv, Holds, Goto, TypeOK,
       Threads
  <2>4. HandshakeInv'
    BY <1>5, <2>1, <2>2, PushQueued DEF AppendPush, HandshakeInv, Expected,
       Reactor, Goto, TypeOK, Threads
  <2>5. ExclusiveService'
    <3>1. \A w \in Workers : \A r \in Requests : Holds(w, r)' <=> Holds(w, r)
      BY <1>5 DEF AppendPush, Holds, Goto, TypeOK, Threads
    <3>2. Len(m_workqueue) \in Nat
      BY DEF TypeOK
    <3>3. \A i \in 1..Len(m_workqueue) :
            m_workqueue[i] \in Requests /\ m_workqueue[i] # request[Main]
      BY <2>1 DEF Queued, TypeOK
    <3>4. \A i, j \in 1..Len(m_workqueue') :
            i # j => m_workqueue'[i] # m_workqueue'[j]
      BY <1>5, <3>2, <3>3, PushQueued DEF ExclusiveService
    <3>5. \A w \in Workers : \A r \in Requests : ~(Queued(r)' /\ Holds(w, r)')
      BY <1>5, <2>1, <3>1, PushQueued DEF ExclusiveService
    <3> QED
      BY <3>1, <3>4, <3>5 DEF ExclusiveService
  <2>6. ImprovIsFresh'
    BY <1>5, <2>2 DEF AppendPush, ImprovIsFresh
  <2> QED
    BY <2>3, <2>4, <2>5, <2>6
<1>6. CASE SpinSees \/ SpinEnds
  <2>1. Frame
    BY <1>6 DEF SpinSees, SpinEnds, queueVars
  <2>2. ArmedInv'
    BY <1>6, <1>0, <2>1 DEF SpinSees, SpinEnds, ArmedInv, Holds, Goto,
       TypeOK, Threads, connVars
  <2>3. HandshakeInv'
    BY <1>6, <1>0, <2>1 DEF SpinSees, SpinEnds, HandshakeInv, Expected,
       Reactor, Goto, TypeOK, Threads, connVars
  <2>4. ExclusiveService'
    BY <1>6, <1>0, <2>1 DEF SpinSees, SpinEnds, ExclusiveService, Holds, Goto,
       TypeOK, Threads
  <2>5. ImprovIsFresh'
    BY <1>6 DEF Reactor, SpinSees, SpinEnds, ImprovIsFresh, Goto, TypeOK,
       Threads, connVars
  <2> QED
    BY <2>2, <2>3, <2>4, <2>5
<1>7. ASSUME NEW w \in Workers,
             \/ Wait(w) \/ WaitInterrupted(w) \/ RunLock(w) \/ RunEmpty(w)
             \/ RunFront(w)
      PROVE  ServiceInv'
  <2>1. Frame
    BY <1>7 DEF Wait, WaitInterrupted, RunLock, RunEmpty, RunFront, queueVars
  <2>2. /\ \A v \in Workers : \A r \in Requests :
              /\ Holds(v, r)' <=> Holds(v, r)
              /\ Holds(v, r) => pc'[v] = pc[v]
        /\ \A v \in Workers : \A r \in Requests :
              /\ pc'[v] \in {"unlock", "serve", "setimprov"}
              /\ request'[v] = r
              => /\ pc[v] = pc'[v]
                 /\ request[v] = r
        /\ pc'[Main] = pc[Main] /\ request'[Main] = request[Main]
        /\ UNCHANGED <<m_actor_model, connVars>>
    BY <1>7 DEF Wait, WaitInterrupted, RunLock, RunEmpty, RunFront, Holds,
       Goto, TypeOK, Threads, connVars
  <2>3. ArmedInv'
    BY <1>0, <2>1, <2>2 DEF ArmedInv, connVars
  <2>4. HandshakeInv'
    BY <1>0, <2>1, <2>2 DEF HandshakeInv, Expected, Reactor, connVars
  <2>5. ExclusiveService'
    BY <1>0, <2>1, <2>2 DEF ExclusiveService
  <2>6. ImprovIsFresh'
    BY <2>2 DEF Reactor, ImprovIsFresh, connVars
  <2> QED
    BY <2>3, <2>4, <2>5, <2>6
<1>8. ASSUME NEW w \in Workers, RunPop(w)
      PROVE  ServiceInv'
  <2> DEFINE h == request[w]
  <2>1. /\ h \in Requests
        /\ Queued(h) /\ ~Queued(h)'
        /\ \A r \in Requests : Queued(r)' => Queued(r)
    BY <1>8, PopQueued DEF RunPop, TypeOK
  <2>2. /\ \A v \in Workers : \A r \in Requests :
              Holds(v, r)' <=> Holds(v, r) \/ (v = w /\ r = h)
        /\ pc' = [pc EXCEPT ![w] = "unlock"]
        /\ UNCHANGED <<m_actor_model, request, connVars>>
    BY <1>8 DEF RunPop, Holds, Goto, TypeOK, Threads
  <2>3. pc[Main] # "unlock" /\ w # Main
    BY <1>8 DEF RunPop, LockInv, InCS, Threads
  <2>4. \A v \in Workers : ~Holds(v, h)
    BY <2>1 DEF ExclusiveService, Queued
  <2>5. ArmedInv'
    BY <2>1, <2>2, <2>3 DEF ArmedInv, connVars, Holds, TypeOK, Threads
  <2>6. HandshakeInv'
    BY <2>1, <2>2, <2>3
       DEF HandshakeInv, Expected, Reactor, connVars, TypeOK, Threads
  <2>7. ExclusiveService'
    <3>1. \A i, j \in 1..Len(m_workqueue') :
            i # j => m_workqueue'[i] # m_workqueue'[j]
      BY <1>8, PopQueued DEF ExclusiveService, TypeOK
    <3>2. \A v \in Workers : \A r \in Requests : ~(Queued(r)' /\ Holds(v, r)')
      BY <2>1, <2>2 DEF ExclusiveService
    <3>3. ASSUME NEW u \in Workers, NEW v \in Workers, NEW r \in Requests,
                 Holds(u, r)', Holds(v, r)'
          PROVE  u = v
      BY <2>2, <2>4, <3>3 DEF ExclusiveService
    <3> QED
      BY <3>1, <3>2, <3>3 DEF ExclusiveService
  <2>8. ImprovIsFresh'
    BY <2>2, <2>3 DEF Reactor, ImprovIsFresh, connVars, TypeOK, Threads
  <2> QED
    BY <2>5, <2>6, <2>7, <2>8
<1>9. ASSUME NEW w \in Workers,
             \/ RunUnlock(w) \/ ReadOnceOk(w) \/ ReadFails(w) \/ WriteEnds(w)
             \/ WriteOk(w) \/ WriteImprov(w) \/ Process(w)
      PROVE  ServiceInv'
  <2>0. PICK h \in Requests : h = request[w]
    BY <1>9 DEF RunUnlock, ReadOnceOk, ReadFails, WriteEnds, WriteOk,
       WriteRearms, WriteImprov, Process, TypeOK
  <2>1. Frame
    BY <1>9 DEF RunUnlock, ReadOnceOk, ReadFails, WriteEnds, WriteOk,
       WriteRearms, WriteImprov, Process, queueVars
  <2>2. /\ request[w] = h /\ Holds(w, h) /\ w # Main
        /\ \A v \in Workers : Holds(v, h) => v = w
        /\ ~Queued(h)
    BY <1>9, <2>0 DEF RunUnlock, ReadOnceOk, ReadFails, WriteEnds, WriteOk,
       WriteRearms, WriteImprov, Process, Holds, ExclusiveService, Queued,
       TypeOK
  <2>3. /\ \A v \in Workers : \A r \in Requests : Holds(v, r)' => Holds(v, r)
        /\ \A v \in Workers :
                v # w => pc'[v] = pc[v] /\ request'[v] = request[v]
        /\ pc'[Main] = pc[Main] /\ request'[Main] = request[Main]
        /\ UNCHANGED m_actor_model
    BY <1>9, <2>2 DEF RunUnlock, ReadOnceOk, ReadFails, WriteEnds, WriteOk,
       WriteRearms, WriteImprov, Process, NextIteration, Holds, Goto, TypeOK,
       Threads
  <2>4. \A r \in Requests :
            r # h => armed'[r] = armed[r] /\ improv'[r] = improv[r]
    BY <1>9, <2>2 DEF RunUnlock, ReadOnceOk, ReadFails, WriteEnds, WriteOk,
       WriteRearms, WriteImprov, Process, SetImprov, connVars, TypeOK
  <2>5. pc[w] \in {"unlock", "serve", "setimprov"} /\ Reactor
            => /\ pc[Main] \in {"post", "spin"}
               /\ request[Main] = h /\ improv[h] = 0
    BY <2>2 DEF HandshakeInv, Expected
  <2>6. pc[Main] \in {"append", "size"} => request[Main] # h
    BY <2>2 DEF ArmedInv
  <2>7. ArmedInv'
    <3>1. ASSUME NEW r \in Requests, r # h
          PROVE  /\ armed'[r] \in {"in", "out"} =>
                    /\ ~Queued(r)'
                    /\ \A v \in Workers : Holds(v, r)' => pc'[v] = "setimprov"
                 /\ pc'[Main] \in {"append", "size"} /\ request'[Main] = r =>
                    /\ armed'[r] \notin {"in", "out"}
                    /\ ~Queued(r)'
                    /\ \A v \in Workers : ~Holds(v, r)'
      <4>1. \A v \in Workers : Holds(v, r)' => v # w
        BY <2>2, <2>3, <3>1 DEF Holds
      <4> QED
        BY <1>0, <2>1, <2>3, <2>4, <3>1, <4>1 DEF ArmedInv
    <3>2. armed'[h] \in {"in", "out"} =>
             \A v \in Workers : Holds(v, h)' => pc'[v] = "setimprov"
      <4>1. CASE RunUnlock(w) \/ ReadOnceOk(w)
        <5>1. armed' = armed /\ pc[w] # "setimprov"
          BY <4>1 DEF RunUnlock, ReadOnceOk, connVars
        <5> QED
          BY <2>2, <5>1 DEF ArmedInv
      <4>2. CASE WriteOk(w)
        BY <2>2, <2>3, <4>2 DEF WriteOk, WriteRearms, Goto, TypeOK, Threads
      <4>3. CASE \/ ReadFails(w) \/ WriteEnds(w)
                 \/ WriteImprov(w) \/ Process(w)
        <5>1. request'[w] = NoRequest \/ pc'[w] = "setflag"
          BY <4>3 DEF ReadFails, WriteEnds, WriteImprov, Process,
             NextIteration, Goto, TypeOK, Threads
        <5> QED
          BY <2>2, <2>3, <5>1 DEF Holds
      <4> QED
        BY <1>9, <4>1, <4>2, <4>3
    <3> QED
      BY <1>0, <2>1, <2>2, <2>3, <2>6, <3>1, <3>2 DEF ArmedInv
  <2>8. HandshakeInv'
    <3> SUFFICES ASSUME Reactor, NEW r \in Requests
                 PROVE  /\ Queued(r) =>
                            /\ pc[Main] \in {"unlock", "post", "spin"}
                            /\ Expected(r)'
                        /\ \A v \in Workers :
                              /\ pc'[v] \in {"unlock", "serve", "setimprov"}
                              /\ request'[v] = r
                              => pc[Main] \in {"post", "spin"} /\ Expected(r)'
      BY <1>0, <2>1, <2>3 DEF HandshakeInv, Reactor
    <3>1. CASE r # h
      BY <2>3, <2>4, <2>5, <3>1, <1>9 DEF HandshakeInv, Expected, RunUnlock,
         ReadOnceOk, ReadFails, WriteEnds, WriteOk, WriteRearms, WriteImprov,
         Process, NextIteration, Goto, TypeOK, Threads
    <3>2. CASE r = h
      <4>1. ASSUME NEW v \in Workers,
                   pc'[v] \in {"unlock", "serve", "setimprov"}, request'[v] = h
            PROVE  v = w /\ (RunUnlock(w) \/ WriteOk(w))
        BY <1>9, <2>2, <2>3, <4>1 DEF RunUnlock, ReadOnceOk, ReadFails,
           WriteEnds, WriteOk, WriteRearms, WriteImprov, Process,
           NextIteration, Holds, Goto, TypeOK, Threads
      <4>2. RunUnlock(w) \/ WriteOk(w) => improv'[h] \in {0, improv[h]}
        BY <2>2 DEF RunUnlock, WriteOk, WriteRearms, connVars, TypeOK
      <4> QED
        BY <2>2, <2>3, <2>5, <3>2, <4>1, <4>2 DEF Expected, RunUnlock, WriteOk
    <3> QED
      BY <3>1, <3>2
  <2>9. ExclusiveService'
    BY <1>0, <2>1, <2>3 DEF ExclusiveService
  <2>10. ImprovIsFresh'
    <3>1. improv'[h] = 1 =>
              improv[h] = 1 \/ (Reactor /\ pc[w] \in {"serve", "setimprov"})
      BY <1>9, <2>2 DEF RunUnlock, ReadOnceOk, ReadFails, WriteEnds, WriteOk,
         WriteRearms, WriteImprov, Process, SetImprov, LocalInv, connVars,
         TypeOK
    <3> QED
      BY <2>2, <2>3, <2>4, <2>5, <3>1 DEF Reactor, ImprovIsFresh
  <2> QED
    BY <2>7, <2>8, <2>9, <2>10
<1>10. ASSUME NEW w \in Workers, SetTimerFlag(w)
       PROVE  ServiceInv'
  <2>1. Frame
    BY <1>10 DEF SetTimerFlag, queueVars
  <2>2. /\ \A v \in Workers :
                v # w => pc'[v] = pc[v] /\ request'[v] = request[v]
        /\ pc'[Main] = pc[Main] /\ request'[Main] = request[Main]
        /\ pc'[w] = "wait" /\ request'[w] = NoRequest
        /\ UNCHANGED <<m_actor_model, armed, improv>>
    BY <1>10 DEF SetTimerFlag, NextIteration, Goto, TypeOK, Threads
  <2>3. \A v \in Workers : \A r \in Requests :
            Holds(v, r)' => v # w /\ Holds(v, r)
    BY <2>2 DEF Holds
  <2>4. ArmedInv'
    BY <1>0, <2>1, <2>2, <2>3 DEF ArmedInv
  <2>5. HandshakeInv'
    BY <1>0, <2>1, <2>2 DEF HandshakeInv, Expected, Reactor
  <2>6. ExclusiveService' /\ ImprovIsFresh'
    BY <1>0, <2>1, <2>2, <2>3 DEF ExclusiveService, ImprovIsFresh, Reactor
  <2> QED
    BY <2>4, <2>5, <2>6
<1>11. CASE UNCHANGED vars
  BY <1>11 DEF vars, queueVars, connVars, ArmedInv, HandshakeInv, Expected,
     ExclusiveService, ImprovIsFresh, Queued, Holds, Reactor
<1> QED
  BY <1>1, <1>2, <1>3, <1>4, <1>5, <1>6, <1>7, <1>8, <1>9, <1>10, <1>11
     DEF Next, MainStep, WorkerStep, WorkerRuns

-----------------------------------------------------------------------------
(* The inductive invariant and what follows from it.                       *)

\* The conjunction of all of the above is an inductive invariant.
THEOREM Invariance == Safety => []IInv
<1>1. Init => IInv
  <2> SUFFICES ASSUME Init
               PROVE  IInv
    OBVIOUS
  <2> USE ThreadPoolAssumption
  <2>1. TypeOK
    BY DEF Init, TypeOK, Threads, MainPc, WorkerPc
  <2>2. LockInv /\ LocalInv
    BY DEF Init, LockInv, LocalInv, InCS, Threads
  <2>3. \A r \in Requests : ~Queued(r)
    BY DEF Init, Queued
  <2>4. ServiceInv
    BY <2>3 DEF Init, ServiceInv, ArmedInv, HandshakeInv, ExclusiveService,
       ImprovIsFresh, Holds, Threads
  <2> QED
    BY <2>1, <2>2, <2>4 DEF IInv, BaseInv
<1>2. IInv /\ [Next]_vars => IInv'
  BY TypeStep, LockStep, LocalStep, ServiceStep DEF IInv, BaseInv
<1> QED
  BY <1>1, <1>2, PTL DEF Safety

\* Every variable keeps its type, and every local variable designates a
\* request where threadpool.h uses it.
THEOREM TypeCorrect == Safety => []TypeOK
<1>1. IInv => TypeOK
  BY DEF IInv, BaseInv
<1> QED
  BY <1>1, Invariance, PTL

\* No request is ever in two hands: two workers never run process(),
\* read_once() or write() of one connection at the same time.
THEOREM ServiceIsExclusive == Safety => []ExclusiveService
<1>1. IInv => ExclusiveService
  BY DEF IInv, ServiceInv
<1> QED
  BY <1>1, Invariance, PTL

\* A spin of dealwithread or dealwithwrite is never released by a stale improv.
THEOREM HandshakeIsFresh == Safety => []ImprovIsFresh
<1>1. IInv => ImprovIsFresh
  BY DEF IInv, ServiceInv
<1> QED
  BY <1>1, Invariance, PTL

\* In the Reactor model append() finds the queue empty, so it never refuses a
\* request whose main thread would then spin for ever.
THEOREM ReactorAppendSucceeds == Safety => []ReactorNeverRefuses
<1>1. IInv => ReactorNeverRefuses
  <2> SUFFICES ASSUME IInv, Reactor, pc[Main] \in {"append", "size"},
                      m_workqueue # <<>>
               PROVE  FALSE
    BY DEF ReactorNeverRefuses
  <2>1. Queued(m_workqueue[1]) /\ m_workqueue[1] \in Requests
    BY DEF IInv, BaseInv, TypeOK, Queued
  <2> QED
    BY <2>1 DEF IInv, ServiceInv, HandshakeInv
<1> QED
  BY <1>1, Invariance, PTL

-----------------------------------------------------------------------------
(* No wake-up is lost.                                                     *)

\* The workers on their way to the queue are finitely many.
LEMMA AwakeFinite == IsFiniteSet(Awake) /\ Cardinality(Awake) \in Nat
<1>1. Awake \in SUBSET Workers
  BY DEF Awake
<1> QED
  BY <1>1, ThreadPoolAssumption, FS_Subset, FS_CardinalityType

\* One worker more, or one fewer, on its way to the queue.
LEMMA AwakeGrows ==
    ASSUME NEW w \in Workers, w \notin Awake, Awake' = Awake \cup {w}
    PROVE  Cardinality(Awake)' = Cardinality(Awake) + 1
BY AwakeFinite, FS_AddElement

LEMMA AwakeShrinks ==
    ASSUME NEW w \in Workers, w \in Awake, Awake' = Awake \ {w}
    PROVE  Cardinality(Awake)' = Cardinality(Awake) - 1
BY AwakeFinite, FS_RemoveElement

\* Every queued request stays matched by a permit, a pending post or a worker
\* on its way.
LEMMA WakeupStep ==
    IInv /\ NoLostWakeup /\ [Next]_vars => NoLostWakeup'
<1> SUFFICES ASSUME TypeOK, LocalInv, NoLostWakeup, [Next]_vars
             PROVE  NoLostWakeup'
  BY DEF IInv, BaseInv
<1> USE ThreadPoolAssumption
<1>0. /\ Len(m_workqueue) \in Nat /\ m_queuestat \in Nat
      /\ Posting \in {0, 1}
      /\ Cardinality(Awake) \in Nat
  BY AwakeFinite DEF TypeOK, Posting
<1>1. ASSUME NEW w \in Workers, Wait(w) \/ WaitInterrupted(w)
      PROVE  NoLostWakeup'
  <2>1. w \notin Awake /\ Awake' = Awake \cup {w}
    BY <1>1 DEF Wait, WaitInterrupted, Awake, Goto, TypeOK, Threads
  <2>2. Cardinality(Awake)' = Cardinality(Awake) + 1
    BY <2>1, AwakeGrows
  <2>3. m_workqueue' = m_workqueue /\ Posting' = Posting
    BY <1>1 DEF Wait, WaitInterrupted, Posting, Goto, TypeOK, Threads,
       queueVars
  <2>4. m_queuestat' >= m_queuestat - 1
    BY <1>0, <1>1 DEF Wait, WaitInterrupted, queueVars
  <2> QED
    BY <1>0, <1>1, <2>2, <2>3, <2>4
       DEF NoLostWakeup, Wait, WaitInterrupted, queueVars
<1>2. ASSUME NEW w \in Workers, RunEmpty(w)
      PROVE  NoLostWakeup'
  <2>1. /\ Len(m_workqueue') = 0
        /\ m_queuestat' = m_queuestat
    BY <1>2 DEF RunEmpty
  <2>2. Posting' \in {0, 1}
    BY DEF Posting
  <2>3. Cardinality(Awake)' \in Nat
    <3>1. Awake' \in SUBSET Workers
      BY DEF Awake
    <3> QED
      BY <3>1, FS_Subset, FS_CardinalityType
  <2> QED
    BY <1>0, <2>1, <2>2, <2>3 DEF NoLostWakeup
<1>3. ASSUME NEW w \in Workers, RunPop(w)
      PROVE  NoLostWakeup'
  <2>1. w \in Awake /\ Awake' = Awake \ {w}
    BY <1>3 DEF RunPop, Awake, Goto, TypeOK, Threads
  <2>2. Cardinality(Awake)' = Cardinality(Awake) - 1
    BY <2>1, AwakeShrinks
  <2>3. m_queuestat' = m_queuestat /\ Posting' = Posting
    BY <1>3 DEF RunPop, Posting, Goto, TypeOK, Threads
  <2>4. Len(m_workqueue') = Len(m_workqueue) - 1
    BY <1>3 DEF RunPop, LocalInv, TypeOK
  <2> QED
    BY <1>0, <2>2, <2>3, <2>4 DEF NoLostWakeup
<1>4. CASE AppendPush
  <2>1. /\ Len(m_workqueue') = Len(m_workqueue) + 1
        /\ m_queuestat' = m_queuestat
        /\ Posting = 0 /\ Posting' = 1
    BY <1>4, PushQueued DEF AppendPush, Posting, Goto, TypeOK, Threads
  <2>2. Awake' = Awake
    BY <1>4 DEF AppendPush, Awake, Goto, TypeOK, Threads
  <2> QED
    BY <1>0, <2>1, <2>2 DEF NoLostWakeup
<1>5. CASE AppendPost
  <2>1. /\ m_workqueue' = m_workqueue
        /\ m_queuestat' = m_queuestat + 1
        /\ Posting = 1 /\ Posting' = 0
    BY <1>5 DEF AppendPost, AfterAppend, Posting, Goto, TypeOK, Threads
  <2>2. Awake' = Awake
    BY <1>5 DEF AppendPost, Awake, Goto, TypeOK, Threads
  <2> QED
    BY <1>0, <2>1, <2>2 DEF NoLostWakeup
<1>6. ASSUME m_workqueue' = m_workqueue, m_queuestat' = m_queuestat,
             Posting' = Posting, Awake' = Awake
      PROVE  NoLostWakeup'
  BY <1>6 DEF NoLostWakeup
<1>7. CASE \/ \E r \in Requests : \/ \E state \in {0, 1} : Dispatch(r, state)
                                  \/ MainIOFails(r)
                                  \/ MainWrites(r)
           \/ AppendLock \/ AppendFull \/ AppendUnlock \/ SpinSees \/ SpinEnds
  <2>1. /\ m_workqueue' = m_workqueue
        /\ m_queuestat' = m_queuestat
    BY <1>7 DEF Dispatch, MainIOFails, MainWrites, WriteRearms, AppendLock,
       AppendFull, AppendUnlock, SpinSees, SpinEnds, queueVars
  <2>2. Posting' = Posting
    BY <1>7 DEF Dispatch, MainIOFails, MainWrites, WriteRearms, AppendLock,
       AppendFull, AppendUnlock, SpinSees, SpinEnds, AfterAppend, Posting,
       Goto, TypeOK, Threads
  <2>3. Awake' = Awake
    BY <1>7 DEF Dispatch, MainIOFails, MainWrites, WriteRearms, AppendLock,
       AppendFull, AppendUnlock, SpinSees, SpinEnds, Awake, Goto, TypeOK,
       Threads
  <2> QED
    BY <1>6, <2>1, <2>2, <2>3
<1>8. ASSUME NEW w \in Workers,
             \/ RunLock(w) \/ RunFront(w) \/ RunUnlock(w) \/ ReadOnceOk(w)
             \/ ReadFails(w) \/ WriteEnds(w) \/ SetTimerFlag(w)
             \/ WriteOk(w) \/ WriteImprov(w)
             \/ Process(w)
      PROVE  NoLostWakeup'
  <2>1. /\ m_workqueue' = m_workqueue
        /\ m_queuestat' = m_queuestat
    BY <1>8 DEF RunLock, RunFront, RunUnlock, ReadOnceOk, ReadFails, WriteEnds,
       SetTimerFlag, WriteOk, WriteRearms, WriteImprov, Process, queueVars
  <2>2. Posting' = Posting
    BY <1>8 DEF RunLock, RunFront, RunUnlock, ReadOnceOk, ReadFails,
       WriteEnds, SetTimerFlag, WriteOk, WriteRearms, WriteImprov, Process,
       NextIteration, Posting, Goto, TypeOK, Threads
  <2>3. Awake' = Awake
    <3>1. (pc[w] \in {"lock", "empty", "pop"})
              <=> (pc'[w] \in {"lock", "empty", "pop"})
      BY <1>8 DEF RunLock, RunFront, RunUnlock, ReadOnceOk, ReadFails,
         WriteEnds, SetTimerFlag, WriteOk, WriteRearms, WriteImprov, Process,
         NextIteration, Goto, TypeOK, Threads
    <3>2. \A v \in Workers : v # w => pc'[v] = pc[v]
      BY <1>8 DEF RunLock, RunFront, RunUnlock, ReadOnceOk, ReadFails,
         WriteEnds, SetTimerFlag, WriteOk, WriteRearms, WriteImprov, Process,
         NextIteration, Goto, TypeOK, Threads
    <3> QED
      BY <3>1, <3>2 DEF Awake
  <2> QED
    BY <1>6, <2>1, <2>2, <2>3
<1>9. CASE UNCHANGED vars
  BY <1>6, <1>9 DEF vars, queueVars, Posting, Awake
<1> QED
  BY <1>1, <1>2, <1>3, <1>4, <1>5, <1>7, <1>8, <1>9
     DEF Next, MainStep, WorkerStep, WorkerRuns

\* A request that append() has queued is never forgotten: a permit, the post
\* still to come or a worker on its way to the queue answers for it, although
\* run() ignores the result of sem_wait.
THEOREM NoWakeupLost == Safety => []NoLostWakeup
<1>1. Init => NoLostWakeup
  <2> SUFFICES ASSUME Init
               PROVE  NoLostWakeup
    OBVIOUS
  <2>1. Len(m_workqueue) = 0 /\ m_queuestat = 0 /\ Posting \in {0, 1}
    BY DEF Init, Posting
  <2> QED
    BY <2>1, AwakeFinite DEF NoLostWakeup
<1> QED
  BY <1>1, WakeupStep, Invariance, PTL DEF Safety

-----------------------------------------------------------------------------
(* The pool implements the bounded queue.                                  *)

\* What the abstract worker w is busy with.
Serving == [w \in Workers |->
              IF pc[w] \in {"pop", "setflag"} THEN NoRequest ELSE request[w]]

\* Every step of the pool is a step of TaskQueue or changes nothing it sees.
LEMMA QueueStep == IInv /\ [Next]_vars => [TQ!Next]_(TQ!vars)
<1> SUFFICES ASSUME TypeOK, LocalInv, LockInv, ArmedInv, [Next]_vars
             PROVE  TQ!Next \/ UNCHANGED <<m_workqueue, Serving>>
  BY DEF IInv, BaseInv, ServiceInv, TQ!vars, Serving
<1> USE ThreadPoolAssumption
<1>1. CASE AppendPush
  <2>1. /\ request[Main] \in Requests
        /\ ~Queued(request[Main])
        /\ \A w \in Workers : ~Holds(w, request[Main])
    BY <1>1 DEF AppendPush, ArmedInv, TypeOK
  <2>2. Serving' = Serving
    BY <1>1 DEF AppendPush, Goto, TypeOK, Threads, Serving
  <2>3. \A w \in Workers : Serving[w] # request[Main]
    BY <2>1 DEF Serving, Holds
  <2>4. TQ!Submit(request[Main])
    BY <1>1, <2>1, <2>2, <2>3 DEF TQ!Submit, AppendPush, Queued, Serving
  <2> QED
    BY <2>1, <2>4 DEF TQ!Next
<1>2. ASSUME NEW w \in Workers, RunPop(w)
      PROVE  TQ!Next
  <2>1. Serving[w] = NoRequest
    BY <1>2 DEF RunPop, Serving
  <2>2. Serving' = [Serving EXCEPT ![w] = Head(m_workqueue)]
    BY <1>2 DEF RunPop, Goto, TypeOK, Threads, LocalInv, Serving
  <2>3. m_workqueue # <<>> /\ m_workqueue' = Tail(m_workqueue)
    BY <1>2 DEF RunPop, LocalInv
  <2>4. TQ!Take(w)
    BY <2>1, <2>2, <2>3 DEF TQ!Take, Serving
  <2> QED
    BY <2>4 DEF TQ!Next
<1>3. ASSUME NEW w \in Workers,
             ReadFails(w) \/ WriteEnds(w) \/ WriteImprov(w) \/ Process(w)
      PROVE  TQ!Next
  <2>1. Serving[w] # NoRequest
    BY <1>3 DEF ReadFails, WriteEnds, WriteImprov, Process, TypeOK, Serving
  <2>2. Serving' = [Serving EXCEPT ![w] = NoRequest]
    BY <1>3 DEF ReadFails, WriteEnds, WriteImprov, Process, NextIteration,
       Goto, TypeOK, Threads, Serving
  <2>3. m_workqueue' = m_workqueue
    BY <1>3 DEF ReadFails, WriteEnds, WriteImprov, Process, queueVars
  <2>4. TQ!Finish(w)
    BY <2>1, <2>2, <2>3 DEF TQ!Finish, Serving
  <2> QED
    BY <2>4 DEF TQ!Next
<1>4. CASE \/ \E r \in Requests : \/ \E state \in {0, 1} : Dispatch(r, state)
                                  \/ MainIOFails(r)
                                  \/ MainWrites(r)
           \/ AppendLock \/ AppendFull \/ AppendUnlock \/ AppendPost
           \/ SpinSees \/ SpinEnds
  <2>1. m_workqueue' = m_workqueue
    BY <1>4 DEF Dispatch, MainIOFails, MainWrites, WriteRearms, AppendLock,
       AppendFull, AppendUnlock, AppendPost, SpinSees, SpinEnds, queueVars
  <2>2. \A w \in Workers : pc'[w] = pc[w] /\ request'[w] = request[w]
    BY <1>4 DEF Dispatch, MainIOFails, MainWrites, WriteRearms, AppendLock,
       AppendFull, AppendUnlock, AppendPost, SpinSees, SpinEnds, Goto, TypeOK,
       Threads
  <2> QED
    BY <2>1, <2>2 DEF Serving
<1>5. ASSUME NEW w \in Workers,
             \/ Wait(w) \/ WaitInterrupted(w) \/ RunLock(w) \/ RunEmpty(w)
             \/ RunFront(w) \/ RunUnlock(w) \/ ReadOnceOk(w) \/ SetTimerFlag(w)
             \/ WriteOk(w)
      PROVE  UNCHANGED <<m_workqueue, Serving>>
  <2>1. m_workqueue' = m_workqueue
    BY <1>5 DEF Wait, WaitInterrupted, RunLock, RunEmpty, RunFront, RunUnlock,
       ReadOnceOk, SetTimerFlag, NextIteration, WriteOk, WriteRearms, queueVars
  <2>2. \A v \in Workers : v # w => pc'[v] = pc[v] /\ request'[v] = request[v]
    BY <1>5 DEF Wait, WaitInterrupted, RunLock, RunEmpty, RunFront, RunUnlock,
       ReadOnceOk, SetTimerFlag, NextIteration, WriteOk, WriteRearms, Goto,
       TypeOK, Threads
  <2>3. Serving'[w] = Serving[w]
    BY <1>5 DEF Wait, WaitInterrupted, RunLock, RunEmpty, RunFront, RunUnlock,
       ReadOnceOk, SetTimerFlag, NextIteration, WriteOk, WriteRearms, Goto,
       TypeOK, Threads, Serving
  <2> QED
    BY <2>1, <2>2, <2>3 DEF Serving
<1>6. CASE UNCHANGED vars
  BY <1>6 DEF vars, queueVars, Serving
<1> QED
  BY <1>1, <1>2, <1>3, <1>4, <1>5, <1>6
     DEF Next, MainStep, WorkerStep, WorkerRuns

\* The pool implements the bounded FIFO of TaskQueue: at most m_max_requests
\* wait, each accepted request is taken once, in order of acceptance, by a
\* worker that is doing nothing else.
THEOREM ImplementsTaskQueueSafety == Safety => TQ!Safety
<1>1. Init => TQ!Init
  BY ThreadPoolAssumption DEF Init, TQ!Init, Threads
<1> QED
  BY <1>1, QueueStep, Invariance, PTL DEF Safety, TQ!Safety

-----------------------------------------------------------------------------
(* When the close flag is seen.                                            *)

\* A worker that is about to set timer_flag is in time: the main thread has
\* not yet gone on from improv to look at it.
InTime == pc[Main] = "flag" => \A w \in Workers : pc[w] # "setflag"

\* The worker has set improv before, and only in the Reactor model is there a
\* flag to set.
FlagInv ==
    /\ CloseFlagIsSeen
    /\ \A w \in Workers : pc[w] = "setflag" => improv[request[w]] = 1
    /\ \A r \in Requests : timer_flag[r] = 1 => Reactor

LEMMA FlagStep == IInv /\ FlagInv /\ InTime /\ [Next]_vars => FlagInv'
<1> SUFFICES ASSUME IInv, FlagInv, InTime, [Next]_vars
             PROVE  FlagInv'
  OBVIOUS
<1> USE ThreadPoolAssumption
<1>0. TypeOK /\ LocalInv /\ HandshakeInv /\ ImprovIsFresh
  BY DEF IInv, BaseInv, ServiceInv
<1>1. ASSUME NEW r \in Requests, NEW state \in {0, 1}, Dispatch(r, state)
      PROVE  FlagInv'
  BY <1>0, <1>1 DEF FlagInv, CloseFlagIsSeen, Dispatch, Goto, TypeOK, Threads,
     Reactor
<1>2. ASSUME NEW r \in Requests, MainIOFails(r)
      PROVE  FlagInv'
  BY <1>2 DEF FlagInv, CloseFlagIsSeen, MainIOFails, Reactor
\* Only the Proactor's main thread writes itself, and then no flag is in use.
<1>3. ASSUME NEW r \in Requests, MainWrites(r)
      PROVE  FlagInv'
  BY <1>0, <1>3 DEF FlagInv, CloseFlagIsSeen, MainWrites, WriteRearms,
     LocalInv, Reactor, TypeOK
<1>4. CASE AppendLock \/ AppendFull \/ AppendPush \/ AppendUnlock
            \/ AppendPost \/ SpinSees
  BY <1>0, <1>4 DEF FlagInv, CloseFlagIsSeen, AppendLock, AppendFull,
     AppendPush, AppendUnlock, AppendPost, AfterAppend, SpinSees, Goto,
     connVars, TypeOK, Threads, Reactor
\* The flag of the request that was waited for is consumed, there is no other,
\* and nobody is about to set one.
<1>5. CASE SpinEnds
  <2>1. /\ pc[Main] = "flag" /\ pc' = [pc EXCEPT ![Main] = "loop"]
        /\ request[Main] \in Requests
        /\ UNCHANGED <<m_actor_model, request>>
    BY <1>0, <1>5 DEF SpinEnds, Goto, queueVars, TypeOK
  <2>2. \A w \in Workers : pc'[w] # "setflag"
    BY <1>0, <2>1 DEF InTime, TypeOK, Threads
  <2>3. \A r \in Requests : timer_flag'[r] # 1
    BY <1>0, <1>5, <2>1 DEF SpinEnds, FlagInv, CloseFlagIsSeen, TypeOK
  <2> QED
    BY <2>2, <2>3 DEF FlagInv, CloseFlagIsSeen
<1>6. ASSUME NEW w \in Workers, Wait(w) \/ WaitInterrupted(w) \/ RunLock(w)
      PROVE  FlagInv'
  BY <1>0, <1>6 DEF FlagInv, CloseFlagIsSeen, Wait, WaitInterrupted, RunLock,
     Goto, queueVars, connVars, TypeOK, Threads, Reactor
<1>7. ASSUME NEW w \in Workers,
             RunEmpty(w) \/ RunFront(w) \/ RunPop(w) \/ RunUnlock(w)
      PROVE  FlagInv'
  BY <1>0, <1>7 DEF FlagInv, CloseFlagIsSeen, RunEmpty, RunFront, RunPop,
     RunUnlock, Goto, queueVars, connVars, TypeOK, Threads, Reactor
<1>8. ASSUME NEW w \in Workers, ReadOnceOk(w) \/ ReadFails(w) \/ WriteEnds(w)
      PROVE  FlagInv'
  <2>1. /\ request[w] \in Requests
        /\ improv' = [improv EXCEPT ![request[w]] = 1]
        /\ UNCHANGED <<m_actor_model, request, timer_flag>>
        /\ \E l \in {"process", "setflag"} : pc' = [pc EXCEPT ![w] = l]
    BY <1>0, <1>8 DEF ReadOnceOk, ReadFails, WriteEnds, SetImprov, Goto,
       TypeOK
  <2>2. \A v \in Workers : pc[v] = "setflag" => request[v] \in Requests
    BY <1>0 DEF TypeOK
  <2> QED
    BY <1>0, <2>1, <2>2 DEF FlagInv, CloseFlagIsSeen, TypeOK, Threads,
       Reactor
\* improv is fresh: the main thread is still waiting for this request.
<1>9. ASSUME NEW w \in Workers, SetTimerFlag(w)
      PROVE  FlagInv'
  <2>1. /\ pc[w] = "setflag" /\ request[w] \in Requests
        /\ timer_flag' = [timer_flag EXCEPT ![request[w]] = 1]
        /\ pc' = [pc EXCEPT ![w] = "wait"]
        /\ request' = [request EXCEPT ![w] = NoRequest]
        /\ UNCHANGED <<m_actor_model, improv>>
    BY <1>0, <1>9 DEF SetTimerFlag, NextIteration, Goto, TypeOK
  <2>2. /\ pc[Main] \in {"post", "spin", "flag"}
        /\ request[Main] = request[w] /\ Reactor
    BY <1>0, <2>1 DEF FlagInv, ImprovIsFresh
  <2> QED
    BY <1>0, <2>1, <2>2 DEF FlagInv, CloseFlagIsSeen, TypeOK, Threads,
       Reactor
\* init() resets improv, but of a request whose improv is still to be set: no
\* other worker is about to set its flag.
<1>10. ASSUME NEW w \in Workers, WriteOk(w)
       PROVE  FlagInv'
  <2>1. /\ pc[w] = "serve" /\ request[w] \in Requests
        /\ pc' = [pc EXCEPT ![w] = "setimprov"]
        /\ UNCHANGED <<m_actor_model, request>>
        /\ WriteRearms(request[w])
    BY <1>0, <1>10 DEF WriteOk, Goto, TypeOK
  <2>2. improv[request[w]] = 0
    BY <1>0, <2>1 DEF HandshakeInv, LocalInv, Expected
  <2>3. \A v \in Workers : pc[v] = "setflag" => request[v] # request[w]
    BY <2>2 DEF FlagInv
  <2>4. /\ \A r \in Requests : timer_flag'[r] = 1 => timer_flag[r] = 1
        /\ \A r \in Requests : r # request[w] => improv'[r] = improv[r]
    BY <1>0, <2>1 DEF WriteRearms, TypeOK
  <2>5. \A v \in Workers : pc[v] = "setflag" => request[v] \in Requests
    BY <1>0 DEF TypeOK
  <2> QED
    BY <1>0, <2>1, <2>3, <2>4, <2>5 DEF FlagInv, CloseFlagIsSeen, TypeOK,
       Threads, Reactor
<1>11. ASSUME NEW w \in Workers, WriteImprov(w) \/ Process(w)
       PROVE  FlagInv'
  <2>1. /\ request[w] \in Requests /\ pc[w] # "setflag"
        /\ pc' = [pc EXCEPT ![w] = "wait"]
        /\ request' = [request EXCEPT ![w] = NoRequest]
        /\ improv' = improv \/ improv' = [improv EXCEPT ![request[w]] = 1]
        /\ UNCHANGED <<m_actor_model, timer_flag>>
    BY <1>0, <1>11 DEF WriteImprov, Process, SetImprov, NextIteration, Goto,
       TypeOK
  <2>2. \A v \in Workers : pc[v] = "setflag" => request[v] \in Requests
    BY <1>0 DEF TypeOK
  <2> QED
    BY <1>0, <2>1, <2>2 DEF FlagInv, CloseFlagIsSeen, TypeOK, Threads,
       Reactor
<1>12. CASE UNCHANGED vars
  BY <1>12 DEF FlagInv, CloseFlagIsSeen, vars, queueVars, connVars, Reactor
<1> QED
  BY <1>1, <1>2, <1>3, <1>4, <1>5, <1>6, <1>7, <1>8, <1>9, <1>10, <1>11,
     <1>12 DEF Next, MainStep, WorkerStep, WorkerRuns

\* The comments on timer_flag are right as long as every worker sets it before
\* the main thread looks at it: the order of the two stores, improv first, is
\* the only cause of the violation that the run close_flag shows.
THEOREM OnlyTheOrderLosesTheFlag == Safety /\ []InTime => []CloseFlagIsSeen
<1>1. Init => FlagInv
  BY DEF Init, FlagInv, CloseFlagIsSeen, Threads
<1>2. FlagInv => CloseFlagIsSeen
  BY DEF FlagInv
<1> QED
  BY <1>1, <1>2, FlagStep, Invariance, PTL DEF Safety
=============================================================================
