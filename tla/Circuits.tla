------------------------------ MODULE Circuits ------------------------------
(***************************************************************************)
(* The proof system beneath the swarm, scaled down: a behaviour takes one  *)
(* computation of one part (`unit`) through its steps, and each part has   *)
(* its own property.                                                       *)
(***************************************************************************)
EXTENDS VerifyAir, Sha2Air, MlDsaV2, MerkleTree, RecordChain, Stark

Init ==
    \/ FieldInit \/ NativeInit \/ ScalarInit \/ PointInit \/ VerifyInit
    \/ HashInit \/ MerkleInit \/ ExtInit \/ FriInit \/ StarkInit \/ DnsInit
    \/ MlRowsInit \/ MlAirInit \/ MlV2Init

Next ==
    \/ FieldNext \/ NativeNext \/ ScalarNext \/ PointNext \/ VerifyNext
    \/ HashNext \/ MerkleNext \/ ExtNext \/ FriNext \/ StarkNext \/ DnsNext
    \/ MlRowsNext \/ MlAirNext \/ MlV2Next

Spec == Init /\ [][Next]_unitVars
=============================================================================
