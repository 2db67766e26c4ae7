---------------------------- MODULE MCPointLedger ----------------------------
(* Small instances of PointLedger. *)
EXTENDS PointLedger, TLC

\* Neither users nor requests are told apart by their names.
Interchangeable == Permutations(Users) \cup Permutations(Requests)

\* Issuing does not check the sign of the amount.
MixedAmounts == {-1, 2}
=============================================================================
