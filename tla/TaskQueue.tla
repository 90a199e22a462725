----------------------------- MODULE TaskQueue -----------------------------
(***************************************************************************)
(* What the thread pool of threadpool/threadpool.h promises the main       *)
(* thread, with no lock, semaphore or program counter: a bounded FIFO of   *)
(* requests from which each worker takes one at a time.  A request that    *)
(* was accepted is taken exactly once, in order of acceptance, as soon as  *)
(* some worker is idle.                                                    *)
(***************************************************************************)
EXTENDS Naturals, Sequences

CONSTANTS
    Workers,        \* the worker threads of the pool
    Requests,       \* the requests (http_conn objects) that may be queued
    MaxRequests,    \* capacity of the queue
    NoRequest       \* a worker that serves nothing

VARIABLES
    queue,          \* accepted requests no worker has taken yet
    serving         \* serving[w]: the request worker w is busy with

vars == <<queue, serving>>

Init ==
    /\ queue = <<>>
    /\ serving = [w \in Workers |-> NoRequest]

\* The main thread hands over a request nobody holds; a full queue refuses it.
Submit(r) ==
    /\ Len(queue) < MaxRequests
    /\ \A i \in 1..Len(queue) : queue[i] # r
    /\ \A w \in Workers : serving[w] # r
    /\ queue' = Append(queue, r)
    /\ UNCHANGED serving

\* An idle worker takes the oldest request.
Take(w) ==
    /\ serving[w] = NoRequest
    /\ queue # <<>>
    /\ serving' = [serving EXCEPT ![w] = Head(queue)]
    /\ queue' = Tail(queue)

\* The worker has dealt with its request.
Finish(w) ==
    /\ serving[w] # NoRequest
    /\ serving' = [serving EXCEPT ![w] = NoRequest]
    /\ UNCHANGED queue

Next ==
    \/ \E r \in Requests : Submit(r)
    \/ \E w \in Workers : Take(w) \/ Finish(w)

Safety == Init /\ [][Next]_vars

Spec ==
    /\ Safety
    /\ WF_vars(\E w \in Workers : Take(w))
    /\ \A w \in Workers : WF_vars(Finish(w))
=============================================================================
