------------------------------ MODULE MCPdmCore ------------------------------
(* TLC instances of PdmCore. *)
EXTENDS PdmCore, TLC

\* 32 kHz and 16 kHz.
ModeRates == (0 :> 2) @@ (1 :> 4)
=============================================================================
