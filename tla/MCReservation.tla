----------------------------- MODULE MCReservation -----------------------------
(* Small instances of Reservation. *)
EXTENDS Reservation, TLC

\* Neither users nor requests are told apart by their names.
Interchangeable == Permutations(Users) \cup Permutations(Requests)
=============================================================================
