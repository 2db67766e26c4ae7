----------------------------- MODULE MCAnchorBatch -----------------------------
(* Small instances of AnchorBatch. *)
EXTENDS AnchorBatch, TLC

\* Neither requests nor runs are told apart by their names.
Interchangeable == Permutations(Requests) \cup Permutations(Runs)
=============================================================================
