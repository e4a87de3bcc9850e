----------------------------- MODULE MCZoneJob -----------------------------
(***************************************************************************)
(* Model-checking module of ZoneJob.  Honest nodes are interchangeable.    *)
(***************************************************************************)
EXTENDS ZoneJob, TLC

HonestSymmetry == Permutations(Nodes \ Faulty)
=============================================================================
