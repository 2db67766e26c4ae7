--------------------------- MODULE MCIncentiveGrant ---------------------------
(* Small instances of IncentiveGrant. *)
EXTENDS IncentiveGrant, TLC

\* Neither users nor requests are told apart by their names.
Interchangeable == Permutations(Users) \cup Permutations(Requests)
=============================================================================
