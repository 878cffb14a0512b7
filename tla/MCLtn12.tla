------------------------------- MODULE MCLtn12 -------------------------------
(* Instances of Ltn12 for TLC. *)
EXTENDS Ltn12
=============================================================================
