------------------------------- MODULE Timers -------------------------------
(***************************************************************************)
(* What the timer container of timer/lst_timer.cpp promises the server: a  *)
(* set of timers, each with a deadline.  A pass (tick) fires timers that   *)
(* are due and, as long as the clock has not been set back, ends only when *)
(* none of the timers that were due at its start is left.                  *)
(***************************************************************************)
EXTENDS Naturals

CONSTANTS
    Nodes,      \* timers
    Times,      \* readings of the clock
    NoPass      \* no pass is under way

VARIABLES
    pending,    \* timers added and neither removed nor fired
    deadline,   \* deadline[n], meaningful for n in pending
    passTime,   \* the time at which the pass under way began, or NoPass
    steady      \* the clock has never been set back

vars == <<pending, deadline, passTime, steady>>

Init ==
    /\ pending = {}
    /\ passTime = NoPass
    /\ steady = TRUE

\* Other timers keep their deadlines.
SetDeadline(n) ==
    \A m \in pending \ {n} : deadline'[m] = deadline[m]

Add(n) ==
    /\ passTime = NoPass
    /\ n \notin pending
    /\ pending' = pending \cup {n}
    /\ SetDeadline(n)
    /\ UNCHANGED <<passTime, steady>>

Adjust(n) ==
    /\ passTime = NoPass
    /\ n \in pending
    /\ SetDeadline(n)
    /\ UNCHANGED <<pending, passTime, steady>>

Remove(n) ==
    /\ passTime = NoPass
    /\ n \in pending
    /\ pending' = pending \ {n}
    /\ SetDeadline(n)
    /\ UNCHANGED <<passTime, steady>>

BeginPass(t) ==
    /\ passTime = NoPass
    /\ passTime' = t
    /\ UNCHANGED <<pending, deadline, steady>>

\* A timer fires when it is due, and only then.
Fire(n) ==
    /\ passTime # NoPass
    /\ n \in pending
    /\ deadline[n] <= passTime
    /\ pending' = pending \ {n}
    /\ SetDeadline(n)
    /\ UNCHANGED <<passTime, steady>>

EndPass ==
    /\ passTime # NoPass
    /\ steady => \A n \in pending : deadline[n] > passTime
    /\ passTime' = NoPass
    /\ UNCHANGED <<pending, deadline, steady>>

ClockSetBack ==
    /\ steady' = FALSE
    /\ UNCHANGED <<pending, deadline, passTime>>

Next ==
    \/ \E n \in Nodes : Add(n) \/ Adjust(n) \/ Remove(n) \/ Fire(n)
    \/ \E t \in Times : BeginPass(t)
    \/ EndPass
    \/ ClockSetBack

Safety == Init /\ [][Next]_vars
=============================================================================
