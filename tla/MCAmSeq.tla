------------------------------ MODULE MCAmSeq --------------------------------
(* TLC instances of AmSeq. *)
EXTENDS AmSeq
=============================================================================
