------------------------------- MODULE PdmCore -------------------------------
(***************************************************************************)
(* src/ip/PDM/pdm_core2.vhd: from the bits of the microphones to samples.  *)
(* pdm_if (PdmIf) fills a ring of bytes; every Step bytes the sequencer    *)
(* FIR_REQ has the first filter (Fir128) read a window of that ring for    *)
(* each channel and stores a sample at 64 kHz; every Rate of these the     *)
(* sequencer FIR2_REQ has the second filter (Fir63) read a window of them  *)
(* and hand on a sample at 32 or 16 kHz.  Nothing tells a filter that its  *)
(* window is being overwritten, and a request is not queued: everything    *)
(* rests on a pass being over in time.                                     *)
(*                                                                         *)
(* One step is one system clock.  A byte is its channel and its number in  *)
(* the running capture, a 64 kHz sample the number of its window; what was *)
(* written before CLR is Old in the RAMs and forgotten in the filters,     *)
(* which themselves go on under CLR.  Both RAMs give Undefined for an      *)
(* address read in the clock in which it is written ("DONT_CARE").         *)
(***************************************************************************)
EXTENDS Integers, Sequences

CONSTANTS
    Channels, Bits, Bytes, Halves,   \* see PdmIf
    Step,         \* bytes per 64 kHz sample (4)
    TAP_NUM, POS_MAX,                \* see Fir63
    Count64,      \* after which SMPLCNT_64k wraps (65536)
    Count32,      \* after which SMPLCNT_32k wraps (2^24)
    Rates,        \* 64 kHz samples per output sample with mode_freq 0 and 1
    MayStop,      \* CLR is set while the core runs
    HoldClocks    \* clocks CLR is held at least

\* The counters wrap where the rings do.
ASSUME PdmCoreAssumption ==
    /\ Step \in Nat \ {0, 1} /\ Count64 \in Nat \ {0} /\ Count32 \in Nat \ {0}
    /\ Rates \in [{0, 1} -> Nat \ {0, 1}]
    /\ Bytes % 2 = 0 /\ Bytes % Step = 0 /\ (Step * Count64) % Bytes = 0
    /\ Count64 % POS_MAX = 0
    /\ TAP_NUM \in Nat \ {0, 1} /\ POS_MAX \in Nat
    /\ \A m \in {0, 1} : /\ Count64 % Rates[m] = 0 /\ (Rates[m] * Count32) % Count64 = 0
                         /\ TAP_NUM + Rates[m] < POS_MAX
    /\ MayStop \in BOOLEAN /\ HoldClocks \in Nat
    /\ Channels \in Nat \ {0} /\ Bits \in Nat \ {0, 1} /\ Bytes \in Nat \ {0, 1}
    /\ Halves \subseteq Nat /\ Halves # {} /\ \A h \in Halves : h > Channels + 1

VARIABLES
    clr_in, pdmclk, half, rises, falls,
    PDMBIT_STS, PDMBYTE_STS, PDM_BYTE_CNT, BUFFER_FILL,      \* pdm_if
    hold, mode_freq,                      \* clocks CLR has been set for; mode
    bytes, PDMBUF, PDMBUF_Q,              \* bytes of the capture; ring and its output
    FIR_REQ, FIR_CH_CNT, IF_BUF_ADDR_CNT, FIR, SMPLCNT_64k,
    OFFSET_SUM, BUF64k_WR, BUF64k, BUF64k_RDQ, BUF64k_FILLED, BUF64_RDY,
    FIR2_REQ, FIR2_CH_CNT, FIR2, SMPLCNT_32k,
    next                                  \* history: the sample that has to come next

ifVars == <<clr_in, pdmclk, half, rises, falls,
            PDMBIT_STS, PDMBYTE_STS, PDM_BYTE_CNT, BUFFER_FILL, hold, mode_freq>>
firVars == <<bytes, PDMBUF, PDMBUF_Q, FIR_REQ, FIR_CH_CNT, IF_BUF_ADDR_CNT, FIR, SMPLCNT_64k>>
bufVars == <<OFFSET_SUM, BUF64k_WR, BUF64k, BUF64k_RDQ, BUF64k_FILLED, BUF64_RDY>>
fir2Vars == <<FIR2_REQ, FIR2_CH_CNT, FIR2, SMPLCNT_32k>>
vars == <<ifVars, firVars, bufVars, fir2Vars, next>>

PDMIF == INSTANCE PdmIf
Words == Bytes \div 2

\* CLR lasts longer than what a filter has under way when it is set.
ASSUME HoldAssumption ==
    MayStop => HoldClocks >= Words + 5 /\ HoldClocks >= TAP_NUM + 4

\* With the PDM clock at its fastest, the first filter has gone through the
\* channels before the next byte is counted, the second one before the next
\* 64 kHz sample is.
ASSUME PassAssumption ==
    /\ Words % Step = 0
    /\ \E h \in Halves :
        /\ \A g \in Halves : h <= g
        /\ Channels * (Words + 6) + 3 < 2 * Bits * h
        /\ Channels * (TAP_NUM + 6) + 6 < Step * (2 * Bits * h)

F == INSTANCE Fir128
F2 == INSTANCE Fir63
Stream == INSTANCE SampleStream WITH Samples <- Count32

Old == -1
Undefined == -2
Chs == 0..(Channels - 1)
ByteWrap == Step * Count64
Rate == Rates[mode_freq]
Requests == {"RQ_IDLE", "RQ_START", "RQ_CH_START", "RQ_CH_BUSY", "RQ_CH_END", "RQ_END"}

Init ==
    /\ PDMIF!Init /\ hold = HoldClocks /\ mode_freq \in {0, 1}
    /\ bytes = 0 /\ PDMBUF = [c \in Chs |-> [p \in 0..(Bytes - 1) |-> Old]]
    /\ PDMBUF_Q = <<0, Old>>
    /\ FIR_REQ = "RQ_IDLE" /\ FIR_CH_CNT = 0 /\ IF_BUF_ADDR_CNT = 0 /\ FIR = F!Reset
    /\ SMPLCNT_64k = 0 /\ OFFSET_SUM = Old /\ BUF64k_WR = 0
    /\ BUF64k = [c \in Chs |-> [p \in 0..(POS_MAX - 1) |-> Old]] /\ BUF64k_RDQ = <<0, Old>>
    /\ BUF64k_FILLED = 0 /\ BUF64_RDY = <<0, 0>>
    /\ FIR2_REQ = "RQ_IDLE" /\ FIR2_CH_CNT = 0 /\ FIR2 = F2!Reset /\ SMPLCNT_32k = 0
    /\ next = <<0, 0>>

---------------------------------------------------------------------------
(* The ring of bytes. *)

\* CLR by the firmware, held long enough for what the filters, which it does
\* not reset, have under way; the mode is changed while it is set.
Clear == /\ clr_in' \in IF clr_in = 1 THEN IF hold < HoldClocks THEN {1} ELSE {0, 1}
                        ELSE IF MayStop THEN {0, 1} ELSE {0}
         /\ hold' = IF clr_in = 0 THEN 0 ELSE IF hold < HoldClocks THEN hold + 1 ELSE hold
         /\ mode_freq' \in IF clr_in = 1 /\ hold = HoldClocks THEN {0, 1} ELSE {mode_freq}

PDMBUF_WR == PDMBYTE_STS \in Chs

\* What the shift register of channel c holds: byte number bytes, if its newest
\* bit is the last one of that byte.
ByteIn(c) ==
    IF c % 2 = 0 THEN IF rises = (Bits * (bytes + 1)) % (Bits * Bytes) THEN bytes ELSE Undefined
    ELSE IF falls = (Bits * (bytes + 1) - 1) % (Bits * Bytes) THEN bytes ELSE Undefined

WriteBytes ==
    /\ PDMBUF' = IF clr_in = 1 THEN [c \in Chs |-> [p \in DOMAIN PDMBUF[c] |-> Old]]
                 ELSE IF PDMBUF_WR THEN [PDMBUF EXCEPT ![PDMBYTE_STS][PDM_BYTE_CNT] =
                                           ByteIn(PDMBYTE_STS)]
                 ELSE PDMBUF
    /\ bytes' = IF clr_in = 1 THEN 0
                ELSE IF PDMBYTE_STS = Channels - 1 THEN (bytes + 1) % ByteWrap ELSE bytes

ReadByte ==
    LET at == IF_BUF_ADDR_CNT % Bytes IN
    PDMBUF_Q' = <<FIR_CH_CNT, IF PDMBUF_WR /\ PDMBYTE_STS = FIR_CH_CNT /\ PDM_BYTE_CNT = at
                              THEN Undefined ELSE PDMBUF[FIR_CH_CNT][at]>>

---------------------------------------------------------------------------
(* The first filter: a pass over the channels every Step bytes. *)

\* Mutant: a channel is given a whole byte of time, as its requests would be
\* if they were locked to the bytes.
FirRequest_Slow ==
    FIR_REQ' =
        IF clr_in = 1 THEN "RQ_IDLE"
        ELSE CASE FIR_REQ = "RQ_IDLE" ->
                    IF BUFFER_FILL = 1 /\ PDM_BYTE_CNT % Step = 0 THEN "RQ_START" ELSE "RQ_IDLE"
               [] FIR_REQ = "RQ_START" -> "RQ_CH_START"
               [] FIR_REQ = "RQ_CH_START" -> "RQ_CH_BUSY"
               [] FIR_REQ = "RQ_CH_BUSY" ->
                    IF F!busy(FIR) \/ PDMBYTE_STS # 0 THEN "RQ_CH_BUSY" ELSE "RQ_CH_END"
               [] FIR_REQ = "RQ_CH_END" ->
                    IF FIR_CH_CNT = Channels - 1 THEN "RQ_WAIT" ELSE "RQ_CH_START"
               [] FIR_REQ = "RQ_WAIT" ->
                    IF PDM_BYTE_CNT % Step # 0 THEN "RQ_END" ELSE "RQ_WAIT"
               [] FIR_REQ = "RQ_END" -> "RQ_IDLE"

FirRequest ==
    FIR_REQ' =
        IF clr_in = 1 THEN "RQ_IDLE"
        ELSE CASE FIR_REQ = "RQ_IDLE" ->
                    IF BUFFER_FILL = 1 /\ PDM_BYTE_CNT % Step = 0 THEN "RQ_START" ELSE "RQ_IDLE"
               [] FIR_REQ = "RQ_START" -> "RQ_CH_START"
               [] FIR_REQ = "RQ_CH_START" -> "RQ_CH_BUSY"
               [] FIR_REQ = "RQ_CH_BUSY" -> IF F!busy(FIR) THEN "RQ_CH_BUSY" ELSE "RQ_CH_END"
               [] FIR_REQ = "RQ_CH_END" ->
                    IF FIR_CH_CNT = Channels - 1 THEN "RQ_WAIT" ELSE "RQ_CH_START"
               [] FIR_REQ = "RQ_WAIT" ->
                    IF PDM_BYTE_CNT % Step # 0 THEN "RQ_END" ELSE "RQ_WAIT"
               [] FIR_REQ = "RQ_END" -> "RQ_IDLE"

ChannelCount(cnt, req) ==
    IF req = "RQ_IDLE" THEN 0
    ELSE IF req = "RQ_CH_END" /\ cnt < Channels - 1 THEN cnt + 1 ELSE cnt

\* Half a ring behind the byte being written; 0 between the requests' counts.
POSITION_CNT_START ==
    IF PDM_BYTE_CNT % Step = 0 THEN (PDM_BYTE_CNT + Words) % Bytes ELSE 0

FirPass ==
    /\ FirRequest
    /\ FIR_CH_CNT' = ChannelCount(FIR_CH_CNT, FIR_REQ)
    /\ IF_BUF_ADDR_CNT' = IF FIR_REQ = "RQ_CH_START" THEN POSITION_CNT_START
                          ELSE IF F!addr_inc(FIR) THEN (IF_BUF_ADDR_CNT + 1) % (2 * Bytes)
                          ELSE IF_BUF_ADDR_CNT
    /\ FIR' = LET f == F!Clock(FIR, FIR_REQ = "RQ_CH_START", PDMBUF_Q)
              IN  IF clr_in = 1 THEN F!Forget(f) ELSE f
    /\ SMPLCNT_64k' = IF clr_in = 1 THEN 0
                      ELSE IF FIR_REQ = "RQ_END" THEN (SMPLCNT_64k + 1) % Count64
                      ELSE SMPLCNT_64k

\* The window a sum is made of, or Undefined if it is not one of channel c.
Window(sum, c) ==
    LET first == sum[1][2][2] IN
    IF /\ Len(sum) = Words /\ first >= 0 /\ first % Step = 0
       /\ \A i \in 1..Words : sum[i] = <<i - 1, <<c, (first + i - 1) % ByteWrap>>>>
    THEN first \div Step ELSE Undefined

\* The offset of channel FIR_CH_CNT is added; the sum is stored a clock later.
Store64 ==
    /\ OFFSET_SUM' = IF FIR.RESULT = <<>> THEN Undefined ELSE Window(FIR.RESULT, FIR_CH_CNT)
    /\ BUF64k_WR' = FIR.valid_out
    /\ BUF64k' = IF clr_in = 1 THEN [c \in Chs |-> [p \in DOMAIN BUF64k[c] |-> Old]]
                 ELSE IF BUF64k_WR = 1
                 THEN [BUF64k EXCEPT ![FIR_CH_CNT][SMPLCNT_64k % POS_MAX] = OFFSET_SUM]
                 ELSE BUF64k

---------------------------------------------------------------------------
(* The second filter. *)

Read64 ==
    BUF64k_RDQ' =
        <<FIR2.CH_REG,
          IF BUF64k_WR = 1 /\ FIR_CH_CNT = FIR2.CH_REG /\ SMPLCNT_64k % POS_MAX = FIR2.POS_CNT
          THEN Undefined ELSE BUF64k[FIR2.CH_REG][FIR2.POS_CNT]>>

\* Mutant: the filter starts when one sample of its window is still missing.
Ready_Early ==
    /\ BUF64k_FILLED' = IF clr_in = 1 THEN 0
                        ELSE IF SMPLCNT_64k > TAP_NUM - Rate THEN 1 ELSE BUF64k_FILLED
    /\ BUF64_RDY' = IF clr_in = 1 THEN <<0, 0>>
                    ELSE <<IF BUF64k_FILLED = 1 /\ SMPLCNT_64k % Rate = 0 THEN 1 ELSE 0,
                           BUF64_RDY[1]>>

\* Mutant: the filters wait for a buffer that is never that full.
Ready_Never ==
    /\ BUF64k_FILLED' = IF clr_in = 1 THEN 0
                        ELSE IF SMPLCNT_64k >= Count64 THEN 1 ELSE BUF64k_FILLED
    /\ BUF64_RDY' = IF clr_in = 1 THEN <<0, 0>>
                    ELSE <<IF BUF64k_FILLED = 1 /\ SMPLCNT_64k % Rate = 0 THEN 1 ELSE 0,
                           BUF64_RDY[1]>>

\* BUF64_RDY(0) comes first.
Ready ==
    /\ BUF64k_FILLED' = IF clr_in = 1 THEN 0
                        ELSE IF SMPLCNT_64k > TAP_NUM THEN 1 ELSE BUF64k_FILLED
    /\ BUF64_RDY' = IF clr_in = 1 THEN <<0, 0>>
                    ELSE <<IF BUF64k_FILLED = 1 /\ SMPLCNT_64k % Rate = 0 THEN 1 ELSE 0,
                           BUF64_RDY[1]>>

Fir2Request ==
    FIR2_REQ' =
        IF clr_in = 1 THEN "RQ_IDLE"
        ELSE CASE FIR2_REQ = "RQ_IDLE" -> IF BUF64_RDY = <<1, 0>> THEN "RQ_START" ELSE "RQ_IDLE"
               [] FIR2_REQ = "RQ_START" -> "RQ_CH_START"
               [] FIR2_REQ = "RQ_CH_START" -> "RQ_CH_BUSY"
               [] FIR2_REQ = "RQ_CH_BUSY" -> IF F2!busy(FIR2) THEN "RQ_CH_BUSY" ELSE "RQ_CH_END"
               [] FIR2_REQ = "RQ_CH_END" ->
                    IF FIR2_CH_CNT = Channels - 1 THEN "RQ_END" ELSE "RQ_CH_START"
               [] FIR2_REQ = "RQ_END" -> "RQ_IDLE"

SRC_POS == (SMPLCNT_32k * Rate) % POS_MAX

\* Mutant: the sample is counted with its last channel's start.
Fir2Pass_CountEarly ==
    /\ Fir2Request
    /\ FIR2_CH_CNT' = ChannelCount(FIR2_CH_CNT, FIR2_REQ)
    /\ FIR2' = LET f == F2!Clock(FIR2, FIR2_REQ = "RQ_CH_START", FIR2_CH_CNT, SRC_POS,
                                 BUF64k_RDQ)
               IN  IF clr_in = 1 THEN F2!Forget(f) ELSE f
    /\ SMPLCNT_32k' = IF clr_in = 1 THEN 0
                      ELSE IF FIR2_REQ = "RQ_CH_START" /\ FIR2_CH_CNT = Channels - 1
                      THEN (SMPLCNT_32k + 1) % Count32 ELSE SMPLCNT_32k

Fir2Pass ==
    /\ Fir2Request
    /\ FIR2_CH_CNT' = ChannelCount(FIR2_CH_CNT, FIR2_REQ)
    /\ FIR2' = LET f == F2!Clock(FIR2, FIR2_REQ = "RQ_CH_START", FIR2_CH_CNT, SRC_POS,
                                 BUF64k_RDQ)
               IN  IF clr_in = 1 THEN F2!Forget(f) ELSE f
    /\ SMPLCNT_32k' = IF clr_in = 1 THEN 0
                      ELSE IF FIR2_REQ = "RQ_END" THEN (SMPLCNT_32k + 1) % Count32
                      ELSE SMPLCNT_32k

\* The outputs to pdm_mod: BUF32k_WR with its channel and sample.
valid == FIR2.write_out = 1
valid_ch == FIR2.CH_REG
valid_sample == SMPLCNT_32k

---------------------------------------------------------------------------
Clock(edge) ==
    /\ PDMIF!Clock(edge) /\ Clear
    /\ WriteBytes /\ ReadByte /\ FirPass /\ Store64 /\ Read64 /\ Ready /\ Fir2Pass
    /\ next' = IF clr_in = 1 THEN <<0, 0>>
               ELSE IF valid THEN Stream!After(valid_sample, valid_ch) ELSE next

Next == \E edge \in BOOLEAN : Clock(edge)

\* The clocks run.
Spec == Init /\ [][Next]_vars /\ WF_vars(Next)

---------------------------------------------------------------------------
(* Properties *)

\* Every register stays in its range.
TypeOK ==
    /\ FIR_REQ \in Requests \cup {"RQ_WAIT"} /\ FIR2_REQ \in Requests
    /\ FIR_CH_CNT \in Chs /\ FIR2_CH_CNT \in Chs /\ IF_BUF_ADDR_CNT \in 0..(2 * Bytes - 1)
    /\ bytes \in 0..(ByteWrap - 1) /\ SMPLCNT_64k \in 0..(Count64 - 1)
    /\ SMPLCNT_32k \in 0..(Count32 - 1)
    /\ FIR.CALC_CNT \in 0..Words /\ Len(FIR.RESULT) <= Words
    /\ FIR2.CALC_CNT \in 0..(TAP_NUM - 1) /\ Len(FIR2.ADD_RESULT) <= TAP_NUM

\* No sample is made of data that are not its own, although both rings are
\* written on while they are read.  What is stored as 64 kHz sample s of a
\* channel is the sum over exactly the bytes Step*s .. Step*s + Words - 1 of
\* that channel, every bit of them captured once, each with its own
\* coefficient; sample n handed on is the sum over the 64 kHz samples from
\* Rate*n on of its channel.  The last product is not in it (data_out is
\* loaded a clock before it is added).
SamplesIntact ==
    clr_in = 0 =>
        /\ BUF64k_WR = 1 => OFFSET_SUM = SMPLCNT_64k
        /\ valid => FIR2.data_out =
                [i \in 1..(TAP_NUM - 1) |->
                    <<i - 1, <<valid_ch, (Rate * valid_sample + i - 1) % Count64>>>>]

\* No request is lost: every sequencer is back at rest when its next request
\* comes, with a capture's first request as with the others.
NoRequestMissed ==
    [][clr_in = 0 =>
        /\ BUFFER_FILL = 1 /\ PDM_BYTE_CNT' # PDM_BYTE_CNT /\ PDM_BYTE_CNT' % Step = 0
             => FIR_REQ' = "RQ_IDLE"
        /\ BUF64_RDY' = <<1, 0>> => FIR2_REQ' = "RQ_IDLE"]_vars

\* The samples come out as the abstract stream says.
ImplementsStream == Stream!Spec

\* A capture that is not stopped goes on delivering.
KeepsDelivering == []<>(clr_in = 1 \/ valid)
=============================================================================
