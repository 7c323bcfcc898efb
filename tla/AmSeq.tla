-------------------------------- MODULE AmSeq --------------------------------
(***************************************************************************)
(* src/ip/PDM/pdm_amseq.vhd: the sequencer that moves the 32 kHz samples   *)
(* of all channels from the two halves of the wave buffer in pdm_core2 to  *)
(* each channel's ring in SDRAM, while the core fills the other half, and  *)
(* the CLR bit switches the core off and on under it.                      *)
(*                                                                         *)
(* One step is one sample written to the wave buffer, one sample moved to  *)
(* SDRAM, one channel finished, or a change of CLR; the single-clock       *)
(* states MW_FH_START, MW_FH_END and so on are part of the step into them. *)
(* A sample is its number in the running capture; everything written       *)
(* before CLR is Old.  How one line is moved clock by clock is BurstWrite. *)
(***************************************************************************)
EXTENDS Integers

CONSTANTS
    Channels,      \* 8
    Half,          \* samples per half of the wave buffer (32)
    RingHalves,    \* halves in one channel's ring (2^18 / 32)
    MaxSample,     \* bound: the core writes no sample beyond this one
    MaxLag         \* samples the core may write during one pass

\* A pass over all channels is finished before the core comes back to its half.
ASSUME AmSeqAssumption ==
    /\ Channels \in Nat \ {0, 1} /\ Half \in Nat \ {0} /\ RingHalves \in Nat \ {0}
    /\ MaxSample \in Nat /\ MaxLag \in Nat /\ MaxLag < Half

VARIABLES
    clr,
    smpl, wch,             \* core: sample count, channel to be written next
    buf,                   \* wave buffer, [channel][position]
    MWSTS, CH_CNT, SMPLCNT_REG, SMPLCNTDLY_REG,
    word, addr,            \* master: samples moved of this line, START_ADDRESS
    sdram,                 \* [channel][position in the ring]
    lag                    \* samples begun since the pass was started

coreVars == <<clr, smpl, wch, buf>>
seqVars == <<MWSTS, CH_CNT, SMPLCNT_REG, SMPLCNTDLY_REG>>
lineVars == <<word, addr, sdram>>
vars == <<coreVars, seqVars, lineVars, lag>>

Old == -1
Chs == 0..(Channels - 1)
RingSize == RingHalves * Half
Waits == {"MW_FH_WAIT", "MW_SH_WAIT"}
Moves == {"MW_FH_WAIT_END", "MW_SH_WAIT_END"}

Init == /\ clr = 1 /\ smpl = 0 /\ wch = 0
        /\ buf = [c \in Chs |-> [p \in 0..(2 * Half - 1) |-> Old]]
        /\ MWSTS = "MW_IDLE" /\ CH_CNT = 0 /\ SMPLCNT_REG = 0 /\ SMPLCNTDLY_REG = 0
        /\ word = 0 /\ addr = [ch |-> 0, at |-> 0]
        /\ sdram = [c \in Chs |-> [p \in 0..(RingSize - 1) |-> Old]]
        /\ lag = 0

---------------------------------------------------------------------------
(* CLR and the core. *)

\* CLR zeroes the counters.  A waiting sequencer goes to MW_IDLE; one that is
\* moving a line does not look at CLR.
ClrOn == /\ clr = 0 /\ clr' = 1 /\ smpl' = 0 /\ wch' = 0
         /\ MWSTS' = IF MWSTS \in Waits THEN "MW_IDLE" ELSE MWSTS
         /\ CH_CNT' = 0 /\ SMPLCNT_REG' = 0
         /\ buf' = [c \in Chs |-> [p \in DOMAIN buf[c] |-> Old]]
         /\ sdram' = [c \in Chs |-> [p \in DOMAIN sdram[c] |-> Old]]
         /\ UNCHANGED <<SMPLCNTDLY_REG, word, addr, lag>>

ClrOff == /\ clr = 1 /\ clr' = 0
          /\ MWSTS' = IF MWSTS = "MW_IDLE" THEN "MW_FH_WAIT" ELSE MWSTS
          /\ UNCHANGED <<smpl, wch, buf, CH_CNT, SMPLCNT_REG, SMPLCNTDLY_REG,
                         lineVars, lag>>

LastWrite == wch = Channels - 1
START_FH == LastWrite /\ smpl % (2 * Half) = Half
START_SH == LastWrite /\ smpl % (2 * Half) = 0

\* Mutant: the line goes to the address of the half being filled.
Trigger_Undelayed ==
    IF START_FH \/ START_SH
    THEN SMPLCNT_REG' = smpl % RingSize /\ SMPLCNTDLY_REG' = smpl % RingSize
    ELSE UNCHANGED <<SMPLCNT_REG, SMPLCNTDLY_REG>>

\* Mutant: the count is not cut to the ring's 18 bits.
Trigger_Uncut ==
    IF START_FH \/ START_SH
    THEN SMPLCNT_REG' = smpl /\ SMPLCNTDLY_REG' = SMPLCNT_REG
    ELSE UNCHANGED <<SMPLCNT_REG, SMPLCNTDLY_REG>>

\* The line's address is the start of the half that was just filled: the
\* previous trigger's count.
Trigger == IF START_FH \/ START_SH
           THEN SMPLCNT_REG' = smpl % RingSize /\ SMPLCNTDLY_REG' = SMPLCNT_REG
           ELSE UNCHANGED <<SMPLCNT_REG, SMPLCNTDLY_REG>>

\* The master latches channel and address; CH_CNT goes on selecting the source.
BeginLine(c, start) == word' = 0 /\ addr' = [ch |-> c, at |-> start]

\* A filled half starts the first channel's line, if the sequencer waits for it.
Started ==
    \/ START_FH /\ MWSTS = "MW_FH_WAIT" /\ MWSTS' = "MW_FH_WAIT_END"
    \/ START_SH /\ MWSTS = "MW_SH_WAIT" /\ MWSTS' = "MW_SH_WAIT_END"

\* Timing: the core may be MaxLag samples ahead of a pass, and 64 samples at
\* 64 kHz go by before the first sample of a capture.
Paced == MWSTS \in Waits \/ (lag < MaxLag /\ smpl > 0) \/ wch > 0

Sample ==
    /\ clr = 0 /\ smpl < MaxSample /\ Paced
    /\ buf' = [buf EXCEPT ![wch][smpl % (2 * Half)] = smpl]
    /\ wch' = IF LastWrite THEN 0 ELSE wch + 1
    /\ smpl' = IF LastWrite THEN smpl + 1 ELSE smpl
    /\ Trigger
    /\ \/ Started /\ CH_CNT' = 0 /\ BeginLine(0, SMPLCNTDLY_REG') /\ lag' = 0
       \/ /\ ~((START_FH /\ MWSTS = "MW_FH_WAIT") \/ (START_SH /\ MWSTS = "MW_SH_WAIT"))
          /\ lag' = IF wch = 0 /\ MWSTS \in Moves THEN lag + 1 ELSE lag
          /\ UNCHANGED <<MWSTS, CH_CNT, word, addr>>
    /\ UNCHANGED <<clr, sdram>>

---------------------------------------------------------------------------
(* The master moves a line; then the next channel or the other half. *)

HalfStart == IF MWSTS = "MW_FH_WAIT_END" THEN 0 ELSE Half

MoveSample ==
    /\ MWSTS \in Moves /\ word < Half
    /\ sdram' = [sdram EXCEPT ![addr.ch][addr.at + word] = buf[CH_CNT][HalfStart + word]]
    /\ word' = word + 1
    /\ UNCHANGED <<coreVars, seqVars, addr, lag>>

NextWait == IF MWSTS = "MW_FH_WAIT_END" THEN "MW_SH_WAIT" ELSE "MW_FH_WAIT"

\* Mutant: the channel is not counted up.
NextChannel_Same ==
    /\ MWSTS \in Moves /\ word = Half /\ CH_CNT < Channels - 1
    /\ BeginLine(CH_CNT, SMPLCNTDLY_REG)
    /\ UNCHANGED <<coreVars, seqVars, sdram, lag>>

\* CLR holds CH_CNT at zero, so the pass does not end while it is set.
NextChannel ==
    /\ MWSTS \in Moves /\ word = Half /\ CH_CNT < Channels - 1
    /\ CH_CNT' = IF clr = 1 THEN 0 ELSE CH_CNT + 1
    /\ BeginLine(CH_CNT', SMPLCNTDLY_REG)
    /\ UNCHANGED <<coreVars, MWSTS, SMPLCNT_REG, SMPLCNTDLY_REG, sdram, lag>>

\* Mutant: the sequencer forgets to alternate.
PassEnd_SameHalf ==
    /\ MWSTS \in Moves /\ word = Half /\ CH_CNT = Channels - 1
    /\ MWSTS' = IF MWSTS = "MW_FH_WAIT_END" THEN "MW_FH_WAIT" ELSE "MW_SH_WAIT"
    /\ CH_CNT' = 0
    /\ UNCHANGED <<coreVars, SMPLCNT_REG, SMPLCNTDLY_REG, lineVars, lag>>

PassEnd ==
    /\ MWSTS \in Moves /\ word = Half /\ CH_CNT = Channels - 1
    /\ MWSTS' = NextWait /\ CH_CNT' = 0
    /\ UNCHANGED <<coreVars, SMPLCNT_REG, SMPLCNTDLY_REG, lineVars, lag>>

---------------------------------------------------------------------------
Next == ClrOn \/ ClrOff \/ Sample \/ MoveSample \/ NextChannel \/ PassEnd

\* The master ends every line (RequestEnds of BurstWrite).
Fairness == WF_vars(MoveSample) /\ WF_vars(NextChannel) /\ WF_vars(PassEnd)

Spec == Init /\ [][Next]_vars
FairSpec == Spec /\ Fairness

---------------------------------------------------------------------------
(* Properties *)

\* Every register stays in the range its declaration gives it.
TypeOK ==
    /\ clr \in {0, 1} /\ smpl \in 0..MaxSample /\ wch \in Chs
    /\ buf \in [Chs -> [0..(2 * Half - 1) -> Old..MaxSample]]
    /\ MWSTS \in {"MW_IDLE"} \cup Waits \cup Moves /\ CH_CNT \in Chs
    /\ SMPLCNT_REG \in 0..(RingSize - 1) /\ SMPLCNTDLY_REG \in 0..(RingSize - 1)
    /\ word \in 0..Half /\ addr \in [ch : Chs, at : 0..(RingSize - 1)]
    /\ sdram \in [Chs -> [0..(RingSize - 1) -> Old..MaxSample]]
    /\ lag \in 0..MaxLag

\* Halves handed to the sequencer so far: half k with the first sample of k+1.
Handed == IF smpl = 0 THEN 0 ELSE (smpl - 1) \div Half

\* Between two passes every half handed over is in SDRAM, for every channel, at
\* its own place in the ring, unless the ring has come round to it; also when
\* CLR cut the last capture off in the middle of a pass.
HalvesInPlace ==
    clr = 0 /\ MWSTS \in Waits =>
        \A k \in 0..(Handed - 1) : k + RingHalves >= Handed =>
            \A c \in Chs, i \in 0..(Half - 1) :
                sdram[c][(k % RingHalves) * Half + i] = k * Half + i

\* A filled half always finds the sequencer waiting for that half: no trigger
\* is lost, although a pass cut by CLR can end in the wrong wait state.
TriggerFindsWait ==
    [][smpl' = smpl + 1 /\ smpl > 0 /\ smpl % Half = 0 =>
         MWSTS = IF smpl % (2 * Half) = Half THEN "MW_FH_WAIT" ELSE "MW_SH_WAIT"]_vars

\* A pass ends, unless CLR is set while it runs.
PassEnds == MWSTS \in Moves ~> MWSTS \in Waits \/ clr = 1
=============================================================================
