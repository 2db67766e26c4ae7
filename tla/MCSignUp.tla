------------------------------- MODULE MCSignUp -------------------------------
(* Small instances of SignUp. *)
EXTENDS SignUp, TLC
=============================================================================
