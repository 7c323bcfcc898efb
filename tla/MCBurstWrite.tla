---------------------------- MODULE MCBurstWrite -----------------------------
(* TLC instances of BurstWrite. *)
EXTENDS BurstWrite
=============================================================================
