------------------------------- MODULE MCWills -------------------------------
(* Wills for TLC: constants are given by the configurations. *)
EXTENDS Wills
=============================================================================
