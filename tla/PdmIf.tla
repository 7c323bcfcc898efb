-------------------------------- MODULE PdmIf --------------------------------
(***************************************************************************)
(* src/ip/PDM/pdm_if.vhd: collects the bits of the microphones, two        *)
(* channels per data line, one on the rising and one on the falling edge   *)
(* of the PDM clock, and writes a byte of every channel, one channel per   *)
(* system clock, into a ring of Bytes bytes per channel.                   *)
(*                                                                         *)
(* One step is one system clock.  The PDM clock runs on its own: it        *)
(* changes after a number of system clocks in Halves.  A shift register    *)
(* is represented by the number of its newest bit in the running capture,  *)
(* modulo the bits of the ring; the delay registers, equal for clock and   *)
(* data, are left out.                                                     *)
(***************************************************************************)
EXTENDS Integers

CONSTANTS
    Channels,   \* 8: even ones on the rising edge, odd ones on the falling
    Bits,       \* of a byte (8)
    Bytes,      \* C_PDMBUF_DATA_CH (32)
    Halves      \* system clocks of half a PDM clock (12 or 13)

\* The channels are written before the falling edge shifts theirs again.
PdmIfAssumption ==
    /\ Channels \in Nat \ {0} /\ Bits \in Nat \ {0, 1} /\ Bytes \in Nat \ {0, 1}
    /\ Halves \subseteq Nat /\ Halves # {}
    /\ \A h \in Halves : h > Channels + 1

VARIABLES
    clr_in,
    pdmclk, half,                     \* PDM clock, clocks since it changed
    rises, falls,                     \* newest bit in SR0, SR2.. and SR1, SR3..
    PDMBIT_STS, PDMBYTE_STS, PDM_BYTE_CNT, BUFFER_FILL

sr == <<rises, falls>>
vars == <<clr_in, pdmclk, half, sr, PDMBIT_STS, PDMBYTE_STS, PDM_BYTE_CNT, BUFFER_FILL>>

BS_WAIT == Bits        \* BS_0 .. BS_7 are 0 .. Bits - 1
B8S_IDLE == Channels   \* B8S_0 .. B8S_7 are 0 .. Channels - 1
B8S_WAIT == Channels + 1
RingBits == Bits * Bytes

Init == /\ clr_in = 0 /\ pdmclk \in {0, 1} /\ half = 0 /\ rises = 0 /\ falls = 0
        /\ PDMBIT_STS = BS_WAIT /\ PDMBYTE_STS = B8S_IDLE
        /\ PDM_BYTE_CNT = 0 /\ BUFFER_FILL = 0

---------------------------------------------------------------------------
(* One system clock; edge says whether the PDM clock changes with it. *)

PdmClock(edge) ==
    \/ edge /\ half + 1 \in Halves /\ half' = 0 /\ pdmclk' = 1 - pdmclk
    \/ ~edge /\ (\E h \in Halves : half + 1 < h) /\ half' = half + 1 /\ UNCHANGED pdmclk

PDMCLK_RISE(edge) == edge /\ pdmclk = 0
PDMCLK_FALL(edge) == edge /\ pdmclk = 1

\* Bits are numbered from the first rising edge of the capture.
Shift(edge) ==
    /\ rises' = IF clr_in = 1 THEN 0
                ELSE IF PDMCLK_RISE(edge) THEN (rises + 1) % RingBits ELSE rises
    /\ falls' = IF clr_in = 1 THEN 0
                ELSE IF PDMCLK_FALL(edge) /\ PDMBIT_STS # BS_WAIT
                     THEN (falls + 1) % RingBits ELSE falls

BitNext(edge) ==
    PDMBIT_STS' = IF clr_in = 1 THEN BS_WAIT
                  ELSE IF ~PDMCLK_RISE(edge) THEN PDMBIT_STS
                  ELSE IF PDMBIT_STS \in {BS_WAIT, Bits - 1} THEN 0
                  ELSE PDMBIT_STS + 1

\* Mutant: the byte is taken one bit early.
ByteNext_Early ==
    PDMBYTE_STS' =
        IF clr_in = 1 THEN B8S_IDLE
        ELSE IF PDMBYTE_STS = B8S_IDLE
             THEN IF PDMBIT_STS = Bits - 2 THEN 0 ELSE B8S_IDLE
        ELSE IF PDMBYTE_STS = B8S_WAIT
             THEN IF PDMBIT_STS # Bits - 2 THEN B8S_IDLE ELSE B8S_WAIT
        ELSE IF PDMBYTE_STS = Channels - 1 THEN B8S_WAIT
        ELSE PDMBYTE_STS + 1

ByteNext ==
    PDMBYTE_STS' =
        IF clr_in = 1 THEN B8S_IDLE
        ELSE IF PDMBYTE_STS = B8S_IDLE
             THEN IF PDMBIT_STS = Bits - 1 THEN 0 ELSE B8S_IDLE
        ELSE IF PDMBYTE_STS = B8S_WAIT
             THEN IF PDMBIT_STS # Bits - 1 THEN B8S_IDLE ELSE B8S_WAIT
        ELSE IF PDMBYTE_STS = Channels - 1 THEN B8S_WAIT
        ELSE PDMBYTE_STS + 1

CountNext ==
    /\ PDM_BYTE_CNT' = IF clr_in = 1 THEN 0
                       ELSE IF PDMBYTE_STS = Channels - 1 THEN (PDM_BYTE_CNT + 1) % Bytes
                       ELSE PDM_BYTE_CNT
    /\ BUFFER_FILL' = IF clr_in = 1 THEN 0
                      ELSE IF PDM_BYTE_CNT = Bytes \div 2 THEN 1 ELSE BUFFER_FILL

Clock(edge) == /\ PdmClock(edge) /\ Shift(edge) /\ BitNext(edge) /\ ByteNext /\ CountNext
               /\ clr_in' \in {0, 1}

Next == \E edge \in BOOLEAN : Clock(edge)
Spec == Init /\ [][Next]_vars

---------------------------------------------------------------------------
(* Properties *)

\* Every register stays in its range.
TypeOK ==
    /\ clr_in \in {0, 1} /\ pdmclk \in {0, 1} /\ half \in Nat
    /\ \E h \in Halves : half < h
    /\ rises \in 0..(RingBits - 1) /\ falls \in 0..(RingBits - 1)
    /\ PDMBIT_STS \in 0..BS_WAIT /\ PDMBYTE_STS \in 0..B8S_WAIT
    /\ PDM_BYTE_CNT \in 0..(Bytes - 1) /\ BUFFER_FILL \in {0, 1}

\* The byte written at position n of a channel is made of the bits n*8+1 to
\* n*8+8 of the capture, for a channel on the falling edge of the bits n*8
\* to n*8+7: no bit is lost, doubled or taken from before the last CLR.
WritesItsByte ==
    \A c \in 0..(Channels - 1) : PDMBYTE_STS = c =>
        IF c % 2 = 0 THEN rises = (Bits * (PDM_BYTE_CNT + 1)) % RingBits
                     ELSE falls = Bits * (PDM_BYTE_CNT + 1) - 1
=============================================================================
