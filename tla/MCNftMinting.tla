----------------------------- MODULE MCNftMinting -----------------------------
(* Small instances of NftMinting. *)
EXTENDS NftMinting, TLC
=============================================================================
