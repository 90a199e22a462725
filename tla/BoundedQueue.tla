---------------------------- MODULE BoundedQueue ----------------------------
(***************************************************************************)
(* What the block_queue of log/block_queue.h promises the log, with no     *)
(* array and no indices: a FIFO of at most Capacity items.  A push finds   *)
(* room or is refused, and a pop waits for an item.                        *)
(***************************************************************************)
EXTENDS Naturals, Sequences

CONSTANTS
    Items,      \* what may be queued
    Capacity    \* m_max_size

VARIABLE queue

Init == queue = <<>>

Push(x) ==
    /\ Len(queue) < Capacity
    /\ queue' = Append(queue, x)

Pop ==
    /\ queue # <<>>
    /\ queue' = Tail(queue)

Next == Pop \/ \E x \in Items : Push(x)

Safety == Init /\ [][Next]_queue

\* Whoever takes items takes the next one as long as there is one.
Spec == Safety /\ WF_queue(Pop)
=============================================================================
