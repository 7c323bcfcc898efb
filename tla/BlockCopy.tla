------------------------------ MODULE BlockCopy ------------------------------
(***************************************************************************)
(* What avalon_master_write_mod promises to the transfer sequencer: one    *)
(* request writes the words 0 .. NWords-1 of the line buffer to successive *)
(* addresses, each exactly once and in order, and reports the end only     *)
(* after the last of them.                                                 *)
(***************************************************************************)
EXTENDS Naturals, Sequences

CONSTANT NWords          \* words of one request (16 in pdm_amseq)

VARIABLES copying,       \* a request is being served
          written        \* the words the bus has accepted, oldest first

vars == <<copying, written>>

Init == copying = FALSE /\ written = <<>>

Begin == ~copying /\ copying' = TRUE /\ written' = <<>>

Put == /\ copying /\ Len(written) < NWords
       /\ written' = Append(written, Len(written))
       /\ UNCHANGED copying

Finish == /\ copying /\ Len(written) = NWords
          /\ copying' = FALSE /\ UNCHANGED written

Next == Begin \/ Put \/ Finish

Spec == Init /\ [][Next]_vars
=============================================================================
