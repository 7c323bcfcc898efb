-------------------------------- MODULE MicCal -------------------------------
(***************************************************************************)
(* The offset calibration of the microphones: MicCarivration and           *)
(* setMicGain (pdmmic.c) with the arithmetic of pdm_core2 between the      *)
(* first filter and the sample, integer for integer.  The first filter     *)
(* gives 0 .. 11890; the offset is added in 14 bits, the second filter     *)
(* multiplies by the sum of its coefficients, and the gain selects 16 of   *)
(* 28 bits without regard to those above: what does not fit wraps.         *)
(*                                                                         *)
(* One step is one try: a capture in silence, whose average is the sample  *)
(* of a level at most Ripple from the microphone's own.  Levels are means, *)
(* in quarters of a unit of the first filter.  The captures themselves are *)
(* Recorder's and PdmCore's.                                               *)
(***************************************************************************)
EXTENDS Integers, FiniteSets

CONSTANTS
    Mics,     \* MIC_CH_MAX channels
    Levels,   \* means of the first filter's output in silence, in quarters
    Gains,    \* 0..7
    Ripple    \* by which the mean of a capture is off, in quarters

FIRSUM == 4 * 11890  \* sum of the coefficients of the first filter, in quarters
ADDGAIN == 2552    \* sum of those that the second filter adds up
FIRGAIN == 2553    \* their sum as the firmware has it
OffsetMargin == 100
MaxTries == 20

ASSUME MicCalAssumption ==
    Levels \subseteq 0..FIRSUM /\ Gains \subseteq 0..7 /\ Ripple \in Nat

VARIABLES
    level,        \* of each channel, as it is
    GainReg, OffsetCansel, TryCount,
    result,       \* "running", then 0 or -1
    unsure        \* history: channels of which a capture lay across the wrap

vars == <<level, GainReg, OffsetCansel, TryCount, result, unsure>>

---------------------------------------------------------------------------
(* pdm_core2 *)

Signed(x, w) == LET r == x % w IN IF r >= w \div 2 THEN r - w ELSE r

\* The 14 bits (and the quarters) behind the offset, with the top bit
\* inverted, are signed.
Centred(x, offset) == ((x + 4 * offset) % 65536) - 32768

\* FIR2_OUT; the codes 8000 and 7FFF are not used.
Sample(x, offset, gain) ==
    LET out == Signed((Centred(x, offset) * ADDGAIN) \div 2^(14 - gain), 65536)
    IN  IF out = -32768 THEN -32767 ELSE IF out = 32767 THEN 32766 ELSE out

---------------------------------------------------------------------------
(* pdmmic.c *)

Near(m) == {x \in (level[m] - Ripple)..(level[m] + Ripple) : x \in 0..FIRSUM}
Captured(m) == {Sample(x, OffsetCansel[m], GainReg) : x \in Near(m)}

\* Samples on both sides of the wrap average to anything between: of that, zero,
\* which is accepted at once, and a few on both sides.
AcrossWrap(m) == \E a, b \in Captured(m) : a - b > 32768
Averages(m) == Captured(m) \cup (IF AcrossWrap(m) THEN {8192 * i : i \in -3..3} ELSE {})

\* (int16_t)(avg / CoeffOfstCncl), CoeffOfstCncl = FIRGAIN / 2^(12 - gain):
\* towards zero.
Delta(avg) == LET d == ((IF avg < 0 THEN -avg ELSE avg) * 2^(12 - GainReg)) \div FIRGAIN
              IN  IF avg < 0 THEN -d ELSE d

\* Mutant: the margin is smaller than one step of the offset register.
Outside_Small(avg) == avg > 50 \/ avg < -50

\* Mutant: the average is compared without fabsf.
Outside_NoAbs(avg) == avg > OffsetMargin

Outside(avg) == avg > OffsetMargin \/ avg < -OffsetMargin

\* The register has 14 bits.
Corrected(offset, avg) ==
    IF Outside(avg) THEN (offset - Delta(avg)) % 16384 ELSE offset

\* setMicGain and the head of MicCarivration: at boot, and for SG.
Begin(gain) ==
    /\ GainReg' = gain /\ OffsetCansel' = [m \in Mics |-> 0]
    /\ TryCount' = 0 /\ result' = "running" /\ unsure' = {}

Init == /\ level \in [Mics -> Levels]
        /\ GainReg = 5 /\ OffsetCansel = [m \in Mics |-> 0]
        /\ TryCount = 0 /\ result = "running" /\ unsure = {}

SetGain == \E gain \in Gains : result # "running" /\ Begin(gain) /\ UNCHANGED level

\* One try; the channels differ only in their levels.
Try ==
    /\ result = "running"
    /\ \E avg \in {f \in [Mics -> UNION {Averages(m) : m \in Mics}] :
                     \A m \in Mics : f[m] \in Averages(m)} :
         /\ OffsetCansel' = [m \in Mics |-> Corrected(OffsetCansel[m], avg[m])]
         /\ unsure' = {m \in Mics : AcrossWrap(m) \/ (m \in unsure /\ Outside(avg[m]))}
         /\ IF \A m \in Mics : ~Outside(avg[m]) THEN result' = "0" /\ UNCHANGED TryCount
            ELSE /\ TryCount' = TryCount + 1
                 /\ result' = IF TryCount + 1 = MaxTries THEN "-1" ELSE "running"
    /\ UNCHANGED <<level, GainReg>>

Next == Try \/ SetGain
Spec == Init /\ [][Next]_vars

---------------------------------------------------------------------------
(* Properties *)

Abs(x) == IF x < 0 THEN -x ELSE x
Scaled(x, gain) == (x * ADDGAIN) \div 2^(14 - gain)

\* What the margin and the ripple leave.
Residue(gain) == OffsetMargin + Ripple * (Scaled(1, gain) + 1) + 1

\* Swings about silence that the microphone can make and that 16 bits can
\* hold; a channel stuck at an end makes none.
Excursions(m, gain) ==
    LET swing == {level[m], FIRSUM - level[m],
                  ((32766 - Residue(gain)) * 2^(14 - gain)) \div ADDGAIN}
        most == CHOOSE s \in swing : \A r \in swing : s <= r
    IN  {-most, -(most \div 2), 0, most \div 2, most}

\* A calibration that succeeds leaves every channel so that each sound that
\* 16 bits can hold is sampled as it is, but for the residue, although the
\* offset it settles on may be a whole wrap of the sample away from the
\* microphone's level.  It says nothing of a channel accepted on a capture
\* that lay across the wrap.
CalibratedSamplesAreTrue ==
    result = "0" => \A m \in Mics \ unsure : \A x \in Excursions(m, GainReg) :
        Abs(Sample(level[m] + x, OffsetCansel[m], GainReg) - Scaled(x, GainReg))
            <= Residue(GainReg)

\* Every calibration succeeds, for every gain and level, and in a few tries:
\* a correction overshoots by less than the margin, also where its average
\* had wrapped, and after a capture across the wrap there is one try more.
CalibrationSucceeds == result # "-1" /\ TryCount <= 4
=============================================================================
