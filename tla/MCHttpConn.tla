----------------------------- MODULE MCHttpConn -----------------------------
(* An instance of HttpConn for TLC; it has nothing symmetric in it.        *)
EXTENDS HttpConn
=============================================================================
