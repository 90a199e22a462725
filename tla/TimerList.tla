----------------------------- MODULE TimerList ------------------------------
(***************************************************************************)
(* timer/lst_timer.{h,cpp}: sort_timer_lst, the doubly linked list of      *)
(* timers, pointer by pointer, as WebServer uses it: timer(),              *)
(* adjust_timer(), deal_timer() and timer_handler().  Only the main thread *)
(* touches the list.  A step is one call, or one iteration of the loops of *)
(* the private add_timer and of tick().                                    *)
(*                                                                         *)
(* time(NULL) is external: wall-clock time, which advances on its own and  *)
(* which an administrator or NTP can set back.                             *)
(***************************************************************************)
EXTENDS Naturals, FiniteSets

CONSTANTS
    Nodes,      \* addresses at which util_timer objects are allocated
    NULL,       \* the null pointer
    Span,       \* 3 * TIMESLOT
    MaxTime     \* bound on the clock

\* The address space is finite.
ASSUME TimerListAssumption ==
    /\ IsFiniteSet(Nodes)
    /\ NULL \notin Nodes /\ NULL \notin 0..MaxTime
    /\ Span \in Nat \ {0}
    /\ MaxTime \in Nat

VARIABLES
    head, tail,         \* sort_timer_lst
    next, prev, expire, \* the fields of the util_timer at each address
    live,               \* addresses allocated by new and not yet deleted
    pc,                 \* "idle", or the loop under way: "walk" or "tick"
    timer, before, tmp, \* locals of the loops (prev is called before)
    cur,                \* local of tick(): the time at its start
    now,                \* the clock
    steady              \* the clock has never been set back

listVars == <<head, tail, next, prev, live>>
loopVars == <<timer, before, tmp, cur>>
clock == <<now, steady>>
vars == <<listVars, expire, pc, loopVars, clock>>

Pointers == Nodes \cup {NULL}
Times == 0..(MaxTime + Span)

Init ==
    /\ head = NULL /\ tail = NULL
    /\ next = [n \in Nodes |-> NULL]
    /\ prev = [n \in Nodes |-> NULL]
    /\ expire = [n \in Nodes |-> 0]
    /\ live = {}
    /\ pc = "idle"
    /\ timer = NULL /\ before = NULL /\ tmp = NULL
    /\ cur = 0
    /\ now = 0
    /\ steady = TRUE

\* p->field = v, and the same guarded by if (p).
Put(f, p, v) == [f EXCEPT ![p] = v]
PutIf(f, p, v) == IF p = NULL THEN f ELSE Put(f, p, v)

\* The locals of a loop go out of scope.
EndLoop ==
    /\ pc' = "idle"
    /\ timer' = NULL /\ before' = NULL /\ tmp' = NULL
    /\ cur' = 0

-----------------------------------------------------------------------------
(* WebServer::timer(): a new timer, add_timer(timer).                      *)

\* The private add_timer(n, start) begins.
BeginWalk(n, start, nextOfStart) ==
    /\ pc' = "walk"
    /\ timer' = n
    /\ before' = start
    /\ tmp' = nextOfStart
    /\ UNCHANGED cur

NewTimer(n) ==
    /\ pc = "idle"
    /\ n \notin live
    /\ live' = live \cup {n}
    /\ expire' = Put(expire, n, now + Span)
    /\ UNCHANGED clock

AddFirst(n) ==
    /\ NewTimer(n)
    /\ head = NULL
    /\ head' = n /\ tail' = n
    /\ next' = Put(next, n, NULL)
    /\ prev' = Put(prev, n, NULL)
    /\ UNCHANGED <<pc, loopVars>>

\* Mutant: the old head does not learn of its predecessor.
AddFrontOneWay(n) ==
    /\ NewTimer(n)
    /\ head # NULL
    /\ expire'[n] < expire[head]
    /\ next' = Put(next, n, head)
    /\ prev' = Put(prev, n, NULL)
    /\ head' = n
    /\ UNCHANGED <<tail, pc, loopVars>>

\* The clock was set back: the new timer is due before all others.
AddFront(n) ==
    /\ NewTimer(n)
    /\ head # NULL
    /\ expire'[n] < expire[head]
    /\ next' = Put(next, n, head)
    /\ prev' = Put(Put(prev, n, NULL), head, n)
    /\ head' = n
    /\ UNCHANGED <<tail, pc, loopVars>>

AddWalk(n) ==
    /\ NewTimer(n)
    /\ head # NULL
    /\ expire'[n] >= expire[head]
    /\ next' = Put(next, n, NULL)
    /\ prev' = Put(prev, n, NULL)
    /\ BeginWalk(n, head, next[head])
    /\ UNCHANGED <<head, tail>>

-----------------------------------------------------------------------------
(* The loop of the private add_timer(timer, lst_head).                     *)

WalkOn ==
    /\ pc = "walk"
    /\ tmp # NULL
    /\ expire[timer] >= expire[tmp]
    /\ before' = tmp
    /\ tmp' = next[tmp]
    /\ UNCHANGED <<listVars, expire, pc, timer, cur, clock>>

WalkLink ==
    /\ pc = "walk"
    /\ tmp # NULL
    /\ expire[timer] < expire[tmp]
    /\ next' = Put(Put(next, before, timer), timer, tmp)
    /\ prev' = Put(Put(prev, tmp, timer), timer, before)
    /\ EndLoop
    /\ UNCHANGED <<head, tail, live, expire, clock>>

WalkEnd ==
    /\ pc = "walk"
    /\ tmp = NULL
    /\ next' = Put(Put(next, before, timer), timer, NULL)
    /\ prev' = Put(prev, timer, before)
    /\ tail' = timer
    /\ EndLoop
    /\ UNCHANGED <<head, live, expire, clock>>

-----------------------------------------------------------------------------
(* WebServer::adjust_timer(): a new deadline, adjust_timer(timer).         *)

\* Mutant: the deadline is pushed back from its old value.
ProlongAccumulates(n) ==
    /\ pc = "idle"
    /\ n \in live
    /\ expire' = Put(expire, n, expire[n] + Span)
    /\ UNCHANGED <<live, clock>>

Prolong(n) ==
    /\ pc = "idle"
    /\ n \in live
    /\ expire' = Put(expire, n, now + Span)
    /\ UNCHANGED <<live, clock>>

\* Mutant: the timer is left in its place whatever its new deadline.
AdjustNever(n) ==
    /\ Prolong(n)
    /\ UNCHANGED <<listVars, pc, loopVars>>

AdjustStay(n) ==
    /\ Prolong(n)
    /\ next[n] # NULL => expire'[n] < expire[next[n]]
    /\ UNCHANGED <<listVars, pc, loopVars>>

AdjustHead(n) ==
    /\ Prolong(n)
    /\ next[n] # NULL
    /\ expire'[n] >= expire[next[n]]
    /\ n = head
    /\ head' = next[n]
    /\ prev' = Put(prev, next[n], NULL)
    /\ next' = Put(next, n, NULL)
    /\ BeginWalk(n, next[n], next[next[n]])
    /\ UNCHANGED tail

AdjustInner(n) ==
    /\ Prolong(n)
    /\ next[n] # NULL
    /\ expire'[n] >= expire[next[n]]
    /\ n # head
    /\ next' = Put(next, prev[n], next[n])
    /\ prev' = Put(prev, next[n], prev[n])
    /\ BeginWalk(n, next[n], next[next[n]])
    /\ UNCHANGED <<head, tail>>

-----------------------------------------------------------------------------
(* WebServer::deal_timer(): the callback, del_timer(timer).                *)

\* delete n: the contents of freed memory are not modelled.
Free(n) ==
    /\ live' = live \ {n}
    /\ expire' = Put(expire, n, 0)

Delete(n) ==
    /\ pc = "idle"
    /\ n \in live
    /\ Free(n)
    /\ UNCHANGED <<pc, loopVars, clock>>

DelOnly(n) ==
    /\ Delete(n)
    /\ n = head /\ n = tail
    /\ head' = NULL /\ tail' = NULL
    /\ next' = Put(next, n, NULL)
    /\ prev' = Put(prev, n, NULL)

DelHead(n) ==
    /\ Delete(n)
    /\ n = head /\ n # tail
    /\ head' = next[n]
    /\ prev' = Put(prev, next[n], NULL)
    /\ next' = Put(next, n, NULL)
    /\ UNCHANGED tail

DelTail(n) ==
    /\ Delete(n)
    /\ n # head /\ n = tail
    /\ tail' = prev[n]
    /\ next' = Put(next, prev[n], NULL)
    /\ prev' = Put(prev, n, NULL)
    /\ UNCHANGED head

\* Mutant: the predecessor keeps pointing to the deleted timer.
DelInnerOneWay(n) ==
    /\ Delete(n)
    /\ n # head /\ n # tail
    /\ next' = Put(next, n, NULL)
    /\ prev' = Put(Put(prev, next[n], prev[n]), n, NULL)
    /\ UNCHANGED <<head, tail>>

DelInner(n) ==
    /\ Delete(n)
    /\ n # head /\ n # tail
    /\ next' = Put(Put(next, prev[n], next[n]), n, NULL)
    /\ prev' = Put(Put(prev, next[n], prev[n]), n, NULL)
    /\ UNCHANGED <<head, tail>>

-----------------------------------------------------------------------------
(* Utils::timer_handler(): tick().                                         *)

TickBegin ==
    /\ pc = "idle"
    /\ head # NULL
    /\ cur' = now
    /\ tmp' = head
    /\ pc' = "tick"
    /\ UNCHANGED <<listVars, expire, timer, before, clock>>

\* Mutant: timers are fired without looking at their deadline.
TickFireAny ==
    /\ pc = "tick"
    /\ tmp # NULL
    /\ head' = next[tmp]
    /\ prev' = PutIf(prev, next[tmp], NULL)
    /\ next' = Put(next, tmp, NULL)
    /\ Free(tmp)
    /\ tmp' = next[tmp]
    /\ UNCHANGED <<tail, pc, timer, before, cur, clock>>

\* The callback closes the connection; tail is left alone, even when the list
\* becomes empty and tail points to a deleted timer.
TickFire ==
    /\ pc = "tick"
    /\ tmp # NULL
    /\ cur >= expire[tmp]
    /\ head' = next[tmp]
    /\ prev' = PutIf(prev, next[tmp], NULL)
    /\ next' = Put(next, tmp, NULL)
    /\ Free(tmp)
    /\ tmp' = next[tmp]
    /\ UNCHANGED <<tail, pc, timer, before, cur, clock>>

TickEnd ==
    /\ pc = "tick"
    /\ tmp # NULL => cur < expire[tmp]
    /\ EndLoop
    /\ UNCHANGED <<listVars, expire, clock>>

-----------------------------------------------------------------------------
ClockAdvances ==
    /\ now < MaxTime
    /\ now' = now + 1
    /\ UNCHANGED <<listVars, expire, pc, loopVars, steady>>

ClockSetBack ==
    /\ \E t \in 0..MaxTime : t < now /\ now' = t
    /\ steady' = FALSE
    /\ UNCHANGED <<listVars, expire, pc, loopVars>>

AddTimer(n) == AddFirst(n) \/ AddFront(n) \/ AddWalk(n)
AdjustTimer(n) == AdjustStay(n) \/ AdjustHead(n) \/ AdjustInner(n)
DelTimer(n) == DelOnly(n) \/ DelHead(n) \/ DelTail(n) \/ DelInner(n)
Walk == WalkOn \/ WalkLink \/ WalkEnd
Tick == TickBegin \/ TickFire \/ TickEnd

Next ==
    \/ \E n \in Nodes : AddTimer(n) \/ AdjustTimer(n) \/ DelTimer(n)
    \/ Walk \/ Tick
    \/ ClockAdvances \/ ClockSetBack

Safety == Init /\ [][Next]_vars

-----------------------------------------------------------------------------
(* Properties.                                                             *)

\* Every variable keeps its type; deadlines stay within Span of the clock.
TypeOK ==
    /\ head \in Pointers /\ tail \in Pointers
    /\ next \in [Nodes -> Pointers]
    /\ prev \in [Nodes -> Pointers]
    /\ expire \in [Nodes -> Times]
    /\ live \in SUBSET Nodes
    /\ pc \in {"idle", "walk", "tick"}
    /\ timer \in Pointers /\ before \in Pointers /\ tmp \in Pointers
    /\ cur \in 0..MaxTime
    /\ now \in 0..MaxTime
    /\ steady \in BOOLEAN

\* The timers in the list: all that exist, but for the one being inserted.
Linked == IF pc = "walk" THEN live \ {timer} ELSE live

\* next and prev are each other's inverse, the list starts at head and ends at
\* tail, and no pointer that is followed leads to a deleted timer.
WellFormed ==
    /\ head = NULL <=> Linked = {}
    /\ head # NULL =>
        /\ head \in Linked /\ prev[head] = NULL
        /\ tail \in Linked /\ next[tail] = NULL
    /\ \A n \in Linked :
        /\ next[n] # NULL => next[n] \in Linked /\ prev[next[n]] = n
        /\ prev[n] # NULL => prev[n] \in Linked /\ next[prev[n]] = n
        /\ next[n] = NULL => n = tail
        /\ prev[n] = NULL => n = head
    /\ pc = "walk" =>
        /\ timer \in live
        /\ before \in Linked
        /\ tmp = next[before]
    /\ pc = "tick" => tmp = head

\* Following next from head one meets every timer that exists: none is left
\* on a detached chain, where tick() would never see it and its connection
\* would never time out.
Chain[k \in 0..Cardinality(Nodes)] ==
    IF k = 0 THEN head
    ELSE IF Chain[k - 1] = NULL THEN NULL ELSE next[Chain[k - 1]]
AllReachable ==
    {Chain[k] : k \in 0..Cardinality(Nodes)} = Linked \cup {NULL}

\* While the clock has not been set back the list is sorted by deadline, which
\* is what lets tick() stop at the first timer that is not due, and a timer
\* being inserted belongs behind the part already walked.
SortedWhileSteady ==
    steady =>
        /\ \A n \in Linked : next[n] # NULL => expire[n] <= expire[next[n]]
        /\ pc = "walk" => expire[before] <= expire[timer]

\* The list implements the set of timers with deadlines.
TM == INSTANCE Timers WITH
        NoPass <- NULL, Times <- 0..MaxTime,
        pending <- live,
        deadline <- expire,
        passTime <- IF pc = "tick" THEN cur ELSE NULL
ImplementsTimers == TM!Safety
=============================================================================
