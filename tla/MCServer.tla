------------------------------ MODULE MCServer ------------------------------
(***************************************************************************)
(* The connection table on a small instance.                               *)
(***************************************************************************)
EXTENDS Server, TLC

Symmetry == Permutations(Workers)
=============================================================================
