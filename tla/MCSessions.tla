----------------------------- MODULE MCSessions -----------------------------
(***************************************************************************)
(* Bounded instance of Sessions.  Calls are only compared for equality;    *)
(* permuting them is sound for a run without liveness properties.          *)
(***************************************************************************)
EXTENDS Sessions, TLC

Interchangeable == Permutations(Calls)

=============================================================================
