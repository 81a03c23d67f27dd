------------------------- MODULE MCPeerAssignments -------------------------
(***************************************************************************)
(* Bounded instance of PeerAssignments: any caller, any statement.         *)
(* Devices, servers and keys are only compared for equality, and every     *)
(* property of the run is safety, so permuting them is sound.              *)
(***************************************************************************)
EXTENDS PeerAssignments, TLC

Interchangeable == Permutations(Devices) \cup Permutations(Servers) \cup Permutations(Keys)

=============================================================================
