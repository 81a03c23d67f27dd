--------------------------- MODULE MCProvisioning ---------------------------
(***************************************************************************)
(* Bounded instances of Provisioning.  Servers, keys, users and requests   *)
(* are only compared for equality; permuting them is sound for the safety  *)
(* runs, which are the only ones to use it.                                *)
(***************************************************************************)
EXTENDS Provisioning, TLC

Interchangeable == Permutations(Servers) \cup Permutations(Keys)
                   \cup Permutations(Users) \cup Permutations(Requests)

=============================================================================
