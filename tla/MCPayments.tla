----------------------------- MODULE MCPayments -----------------------------
(***************************************************************************)
(* Bounded instances of Payments.                                          *)
(***************************************************************************)
EXTENDS Payments, TLC

Interchangeable == Permutations(Users) \cup Permutations(Refs) \cup Permutations(Workers)

=============================================================================
