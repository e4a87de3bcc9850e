---------------------------- MODULE MCAcceptLoop ----------------------------
(***************************************************************************)
(* Model-checking module of AcceptLoop.  Sockets are interchangeable, and  *)
(* so are addresses.                                                       *)
(***************************************************************************)
EXTENDS AcceptLoop, TLC

ConnSymmetry == Permutations(Conn) \cup Permutations(Ips)
=============================================================================
