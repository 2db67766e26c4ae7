----------------------------- MODULE MCStatusList -----------------------------
(* Small instances of StatusList. *)
EXTENDS StatusList, TLC

\* Neither users, credentials nor requests are told apart by their names.
Interchangeable == Permutations(Users) \cup Permutations(Vcs) \cup Permutations(Requests)
=============================================================================
