------------------------------- MODULE MCMicCal ------------------------------
(* TLC instances of MicCal. *)
EXTENDS MicCal

\* Half of the ones, as in silence, and up to a tenth off it; and two levels there
\* at which a capture lies across the wrap at some gain.
ModeLevels == {4 * 5945 + 167 * i : i \in -14..14} \cup {22906, 24550}
=============================================================================
