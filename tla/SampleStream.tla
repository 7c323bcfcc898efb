----------------------------- MODULE SampleStream ----------------------------
(***************************************************************************)
(* What pdm_core2 promises to the logic behind it: while CLR is off, the   *)
(* samples come out one by one, all channels of one sample in order, then  *)
(* the next sample; a capture starts over with sample 0 of channel 0.      *)
(* The environment of AmSeq (its action Sample) is this stream.            *)
(***************************************************************************)
EXTENDS Integers

CONSTANTS
    Channels,  \* 8
    Samples    \* after which SMPLCNT_32k wraps (2^24)

VARIABLE next   \* the sample and the channel that come out next

Init == next = <<0, 0>>

After(n, c) == IF c = Channels - 1 THEN <<(n + 1) % Samples, 0>> ELSE <<n, c + 1>>

Deliver == next' = After(next[1], next[2])
Restart == next' = <<0, 0>>

Next == Deliver \/ Restart
Spec == Init /\ [][Next]_next
=============================================================================
