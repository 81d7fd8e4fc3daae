------------------------------- MODULE MCFence -------------------------------
(* Fence for TLC: constants are given by the configurations. *)
EXTENDS Fence
=============================================================================
