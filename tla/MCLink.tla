------------------------------- MODULE MCLink -------------------------------
(* Instances of Link for TLC: one prove shorter than an interval, one longer *)
(* than the grace.                                                           *)
EXTENDS Link
=============================================================================
