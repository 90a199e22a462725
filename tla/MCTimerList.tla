---------------------------- MODULE MCTimerList -----------------------------
(***************************************************************************)
(* The timer list on a small instance: four timers, a clock of five        *)
(* readings that may be set back.                                          *)
(***************************************************************************)
EXTENDS TimerList, TLC

Symmetry == Permutations(Nodes)
=============================================================================
