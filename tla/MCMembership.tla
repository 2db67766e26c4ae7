---------------------------- MODULE MCMembership ----------------------------
(* Small instances of Membership. *)
EXTENDS Membership, TLC

\* Calls and wallets are not told apart by their names.
Interchangeable == Permutations(Calls) \cup Permutations(Wallets)
=============================================================================
