-------------------------------- MODULE MCVote --------------------------------
(* Small instances of Vote. *)
EXTENDS Vote, TLC

\* Users, casts and managers are not told apart by their names.
Interchangeable ==
  Permutations(Users) \cup Permutations(Casts) \cup Permutations(Managers)
=============================================================================
