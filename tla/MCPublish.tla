------------------------------ MODULE MCPublish ------------------------------
(* Instances of Publish for TLC: three replicas, one of them faulty.          *)
EXTENDS Publish
CONSTANTS w1, w2, w3, v1, v2
=============================================================================
