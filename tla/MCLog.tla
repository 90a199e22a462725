------------------------------- MODULE MCLog -------------------------------
(***************************************************************************)
(* The log on a small instance.                                            *)
(***************************************************************************)
EXTENDS Log, TLC

Symmetry == Permutations(Writers)
=============================================================================
