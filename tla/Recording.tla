------------------------------ MODULE Recording ------------------------------
(***************************************************************************)
(* What the recorder promises its host: a GW command for n blocks is       *)
(* answered after exactly n blocks of one capture went out, block after    *)
(* block and in each block channel after channel.                          *)
(***************************************************************************)
EXTENDS Integers, Sequences

CONSTANTS Channels,      \* channels sent per block
          Counts         \* the block counts a host asks for

VARIABLES wanted,        \* blocks of the GW being served, or Nothing
          sent           \* <<channel, block>> of every DMA since the last command

vars == <<wanted, sent>>

Nothing == -1

Init == wanted = Nothing /\ sent = <<>>

Ask(n) == wanted = Nothing /\ wanted' = n /\ sent' = <<>>

\* Any other command: nothing is sent on its behalf.
Forget == wanted = Nothing /\ UNCHANGED wanted /\ sent' = <<>>

Send == /\ wanted # Nothing /\ Len(sent) < wanted * Channels
        /\ sent' = Append(sent, <<Len(sent) % Channels, Len(sent) \div Channels>>)
        /\ UNCHANGED wanted

Answer == /\ wanted # Nothing /\ Len(sent) = wanted * Channels
          /\ wanted' = Nothing /\ UNCHANGED sent

Next == (\E n \in Counts : Ask(n)) \/ Forget \/ Send \/ Answer

Spec == Init /\ [][Next]_vars
=============================================================================
