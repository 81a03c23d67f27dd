------------------------ MODULE MCReliabilityEngine ------------------------
(***************************************************************************)
(* Bounded instance of ReliabilityEngine: two networks, two configs with   *)
(* different ladders and MTUs off the rungs, one of them out of range.     *)
(* Networks are only compared for equality.                                *)
(***************************************************************************)
EXTENDS ReliabilityEngine, TLC

CONSTANTS c1, c2

MCTransports == c1 :> <<"UDP", "TCP">> @@ c2 :> <<"UDP">>
MCConfigMtu  == c1 :> 1500 @@ c2 :> 1300
MCLadder     == <<1420, 1280, 1200>>

Interchangeable == Permutations(Networks)

=============================================================================
