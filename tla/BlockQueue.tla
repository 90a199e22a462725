----------------------------- MODULE BlockQueue -----------------------------
(***************************************************************************)
(* log/block_queue.h: a bounded queue in a circular array.  Each operation *)
(* is one critical section of the queue's mutex, so an operator below is   *)
(* the whole of it.  Those that src/ never calls (clear, front, back,      *)
(* empty, size, max_size and the pop with a timeout) are left out.         *)
(***************************************************************************)
EXTENDS Naturals, Sequences

CONSTANTS
    m_max_size,     \* capacity
    NoItem          \* what an array element holds before it is first used

ASSUME BlockQueueAssumption == m_max_size \in Nat \ {0}

VARIABLES
    m_array,        \* the circular array, indices 0..m_max_size - 1
    m_size,         \* number of items
    m_front,        \* index before the oldest item, -1 at first
    m_back          \* index of the newest item, -1 at first

ringVars == <<m_array, m_size, m_front, m_back>>

RingInit ==
    /\ m_array = [i \in 0..(m_max_size - 1) |-> NoItem]
    /\ m_size = 0
    /\ m_front = 0 - 1
    /\ m_back = 0 - 1

\* Mutant: one item too many.
FullTooLate == m_size > m_max_size

Full == m_size >= m_max_size

\* Mutant: the item is stored before the index moves.
StoreThenAdvance(item) ==
    /\ m_back' = (m_back + 1) % m_max_size
    /\ m_array' = [m_array EXCEPT ![m_back % m_max_size] = item]
    /\ m_size' = m_size + 1
    /\ UNCHANGED m_front

\* The item is stored behind the last one.
Store(item) ==
    /\ m_back' = (m_back + 1) % m_max_size
    /\ m_array' = [m_array EXCEPT ![m_back'] = item]
    /\ m_size' = m_size + 1
    /\ UNCHANGED m_front

\* The oldest item leaves the array.
Remove ==
    /\ m_size > 0
    /\ m_front' = (m_front + 1) % m_max_size
    /\ m_size' = m_size - 1
    /\ UNCHANGED <<m_array, m_back>>

\* Mutant: the newest item comes out first.
OldestIsNewest == m_array[m_back % m_max_size]

Oldest == m_array[(m_front + 1) % m_max_size]

\* The items from the oldest to the newest.
Contents == [i \in 1..m_size |-> m_array[(m_front + i) % m_max_size]]
=============================================================================
