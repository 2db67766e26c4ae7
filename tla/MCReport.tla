------------------------------- MODULE MCReport -------------------------------
(* Small instances of Report. *)
EXTENDS Report, TLC
=============================================================================
