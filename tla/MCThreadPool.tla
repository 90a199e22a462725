---------------------------- MODULE MCThreadPool ----------------------------
(***************************************************************************)
(* The thread pool on a small instance.  Symmetry serves the run that      *)
(* checks one invariant only; the run with liveness does without.          *)
(***************************************************************************)
EXTENDS ThreadPool, TLC

Symmetry == Permutations(Workers) \cup Permutations(Requests)
=============================================================================
