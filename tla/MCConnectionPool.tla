-------------------------- MODULE MCConnectionPool --------------------------
(***************************************************************************)
(* The connection pool on a small instance: three clients, from one to     *)
(* three connections.                                                      *)
(***************************************************************************)
EXTENDS ConnectionPool, TLC

Symmetry == Permutations(Clients)
=============================================================================
