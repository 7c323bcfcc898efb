----------------------------- MODULE MCFt245If -------------------------------
(* TLC instances of Ft245If. *)
EXTENDS Ft245If
=============================================================================
