--------------------------- MODULE PdmCore_proofs ---------------------------
(***************************************************************************)
(* Proofs about PdmCore.  The core has no handshake between the bytes, the *)
(* two filters and the two RAMs: each starts on a count and is taken to be *)
(* over in time.  Three invariants show that it is.                        *)
(*                                                                         *)
(*   Inv       the registers are in their ranges, the sequencers and their *)
(*             filters in step with each other.                            *)
(*   Scheduled with N the bytes counted, m the 64 kHz samples stored and q *)
(*             the samples handed on since CLR, the bits shifted in are    *)
(*             those of N bytes, and both sequencers are where the clocks  *)
(*             since the last byte let them be.                            *)
(*   Complete  the rings hold what was written for bytes and samples that  *)
(*             are still needed, and the filters are at their place in a   *)
(*             window of them.                                             *)
(*                                                                         *)
(* N, m and q are no registers: the counters are these numbers modulo      *)
(* their widths.  CLR starts all three from 0.  From the invariants follow *)
(* TypeOK, ImplementsStream, NoRequestMissed and SamplesIntact, for any    *)
(* number of channels, any ring and any length of the filters that         *)
(* PdmCoreAssumption, HoldAssumption and PassAssumption allow.             *)
(***************************************************************************)
EXTENDS PdmCore, Division

---------------------------------------------------------------------------
(* Types. *)

\* What a place of PDMBUF, or its output, may hold.
Values == {Old, Undefined} \cup 0..(ByteWrap - 1)
\* What a place of BUF64k may hold.
Values64 == {Old, Undefined} \cup 0..(Count64 - 1)
\* The products of the first filter.
Items == {<<>>} \cup (Nat \X (Chs \X Values))
\* The products of the second filter.
Items64 == {<<>>} \cup (Nat \X (Chs \X Values64))
\* The states of both filters.
States == {"SEQ_IDLE", "SEQ_START", "SEQ_CALC", "SEQ_END0", "SEQ_END1"}

\* The registers of the first filter.
FirType == [STS : States, CALC_CNT : 0..Words, SUMTIM : {0, 1} \X {0, 1}, ROMQ : Nat,
            ADD0_OUT : Items, RESULT : Seq(Items), valid_out : {0, 1}]
\* The registers of the second filter.
Fir2Type == [STS : States, CALC_CNT : 0..(TAP_NUM - 1), POS_CNT : 0..(POS_MAX - 1), CH_REG : Chs,
             CALC_DELAY : {0, 1} \X {0, 1}, COEF_DATA : Nat, MULL_RESULT : Items64,
             ADD_RESULT : Seq(Items64), data_out : Seq(Items64), write_out : {0, 1}]

\* pdm_if's registers, CLR and the mode. CLR is set only if it may be.
IfTyped ==
    /\ clr_in \in {0, 1} /\ pdmclk \in {0, 1} /\ half \in Nat /\ rises \in Nat /\ falls \in Nat
    /\ PDMBIT_STS \in 0..Bits /\ PDMBYTE_STS \in 0..(Channels + 1)
    /\ PDM_BYTE_CNT \in 0..(Bytes - 1) /\ BUFFER_FILL \in {0, 1}
    /\ hold \in 0..HoldClocks /\ mode_freq \in {0, 1}
    /\ clr_in = 1 => MayStop

\* The ring of bytes.
RingTyped ==
    /\ bytes \in 0..(ByteWrap - 1) /\ PDMBUF \in [Chs -> [0..(Bytes - 1) -> Values]]
    /\ PDMBUF_Q \in Chs \X Values

\* The first sequencer and filter.
FirTyped ==
    /\ FIR_REQ \in Requests \cup {"RQ_WAIT"} /\ FIR_CH_CNT \in Chs
    /\ IF_BUF_ADDR_CNT \in 0..(2 * Bytes - 1) /\ FIR \in FirType
    /\ SMPLCNT_64k \in 0..(Count64 - 1)
    /\ FIR.STS = "SEQ_CALC" => FIR.CALC_CNT < Words

\* The buffer of 64 kHz samples.
BufTyped ==
    /\ OFFSET_SUM \in Values64 /\ BUF64k_WR \in {0, 1}
    /\ BUF64k \in [Chs -> [0..(POS_MAX - 1) -> Values64]] /\ BUF64k_RDQ \in Chs \X Values64
    /\ BUF64k_FILLED \in {0, 1} /\ BUF64_RDY \in {0, 1} \X {0, 1}

\* The second sequencer and filter.
Fir2Typed ==
    /\ FIR2_REQ \in Requests /\ FIR2_CH_CNT \in Chs /\ FIR2 \in Fir2Type
    /\ SMPLCNT_32k \in 0..(Count32 - 1) /\ next \in (0..(Count32 - 1)) \X Chs

\* The type invariant, stronger than TypeOK: it gives the contents of the RAMs a type too.
Typed == IfTyped /\ RingTyped /\ FirTyped /\ BufTyped /\ Fir2Typed

\* What the assumptions say of the constants.
LEMMA Constants ==
    /\ Step \in Nat \ {0, 1} /\ Count64 \in Nat \ {0} /\ Count32 \in Nat \ {0}
    /\ Channels \in Nat \ {0} /\ Bits \in Nat \ {0, 1} /\ Bytes \in Nat \ {0, 1}
    /\ Words \in Nat \ {0} /\ Bytes = 2 * Words
    /\ TAP_NUM \in Nat \ {0, 1} /\ POS_MAX \in Nat \ {0}
    /\ ByteWrap \in Nat \ {0}
    /\ MayStop \in BOOLEAN /\ HoldClocks \in Nat
    /\ MayStop => HoldClocks >= Words + 5 /\ HoldClocks >= TAP_NUM + 4
    /\ Halves \subseteq Nat /\ \A h \in Halves : h > Channels + 1
    /\ Rates \in [{0, 1} -> Nat \ {0, 1}]
<1>1. Bytes \in Nat \ {0, 1} /\ Bytes % 2 = 0 /\ Words = Bytes \div 2
    BY PdmCoreAssumption DEF Words
<1>2. Words \in Nat \ {0} /\ Bytes = 2 * Words
    BY <1>1, DivMod
<1>3. ByteWrap \in Nat \ {0}
    <2>1. Step \in Nat \ {0} /\ Count64 \in Nat \ {0}
        BY PdmCoreAssumption
    <2>2. Step * Count64 \in Nat \ {0}
        <3> DEFINE s == Step
                   c == Count64
        <3>1. (0 + 1) * s <= c * s \/ c = 1
            <4>1. 1 < c => 1 * s + s <= c * s
                BY <2>1, Times
            <4> QED BY <2>1, <4>1
        <3> QED BY <2>1, <3>1
    <2> QED BY <2>2 DEF ByteWrap
<1>4. POS_MAX \in Nat \ {0}
    BY PdmCoreAssumption
<1> QED BY <1>1, <1>2, <1>3, <1>4, PdmCoreAssumption, HoldAssumption

\* A remainder is a place in its ring.
LEMMA Mod == ASSUME NEW n \in Nat \ {0}, NEW x \in Nat PROVE x % n \in 0..(n - 1) /\ x % n \in Nat
BY DivMod

\* The types hold at first.
LEMMA TypedInit == ASSUME Init PROVE Typed
<1>1. IfTyped
    BY Constants DEF Init, PDMIF!Init, PDMIF!BS_WAIT, PDMIF!B8S_IDLE, IfTyped
<1>2. RingTyped
    BY Constants DEF Init, RingTyped, Values, Old, Chs
<1>3. FirTyped
    BY Constants DEF Init, FirTyped, FirType, F!Reset, Chs, Requests, States, Items
<1>4. BufTyped
    BY Constants DEF Init, BufTyped, Values64, Old, Chs
<1>5. Fir2Typed
    BY Constants DEF Init, Fir2Typed, Fir2Type, F2!Reset, Chs, Requests, States, Items64
<1> QED BY <1>1, <1>2, <1>3, <1>4, <1>5 DEF Typed

\* A clock keeps the types of pdm_if.
LEMMA IfStep == ASSUME Typed, NEW edge \in BOOLEAN, Clock(edge) PROVE IfTyped'
<1>1. clr_in' \in {0, 1} /\ hold' \in 0..HoldClocks /\ mode_freq' \in {0, 1} /\ (clr_in' = 1 => MayStop)
    BY Constants DEF Typed, IfTyped, Clock, Clear
<1>2. pdmclk' \in {0, 1} /\ half' \in Nat
    BY Constants DEF Typed, IfTyped, Clock, PDMIF!Clock, PDMIF!PdmClock
<1>3. rises' \in Nat /\ falls' \in Nat
    <2>1. Bits * Bytes \in Nat \ {0}
        <3>1. Bits * Bytes \in Nat /\ (0 < Bits => 0 * Bytes + Bytes <= Bits * Bytes)
            BY Constants, Times
        <3> QED BY <3>1, Constants
    <2>2. PICK n \in Nat \ {0} : n = Bits * Bytes
        BY <2>1
    <2>3. rises + 1 \in Nat /\ falls + 1 \in Nat
        BY DEF Typed, IfTyped
    <2>4. n \in Nat \ {0}
        BY <2>2
    <2>5. \A x \in Nat : x % n \in Nat
        BY ONLY <2>4, Mod
    <2>6. (rises + 1) % n \in Nat /\ (falls + 1) % n \in Nat
        BY <2>3, <2>5
    <2> QED BY <2>2, <2>6 DEF Typed, IfTyped, Clock, PDMIF!Clock, PDMIF!Shift, PDMIF!RingBits
<1>4. PDMBIT_STS' \in 0..Bits /\ PDMBYTE_STS' \in 0..(Channels + 1)
    BY Constants DEF Typed, IfTyped, Clock, PDMIF!Clock, PDMIF!BitNext, PDMIF!ByteNext,
       PDMIF!BS_WAIT, PDMIF!B8S_IDLE, PDMIF!B8S_WAIT
<1>5. PDM_BYTE_CNT' \in 0..(Bytes - 1) /\ BUFFER_FILL' \in {0, 1}
    <2>1. (PDM_BYTE_CNT + 1) % Bytes \in 0..(Bytes - 1)
        BY Constants, Mod DEF Typed, IfTyped
    <2> QED BY <2>1, Constants DEF Typed, IfTyped, Clock, PDMIF!Clock, PDMIF!CountNext
<1> QED BY <1>1, <1>2, <1>3, <1>4, <1>5 DEF IfTyped

\* A clock keeps the type of the ring.
LEMMA RingStep == ASSUME Typed, NEW edge \in BOOLEAN, Clock(edge) PROVE RingTyped'
<1>1. bytes' \in 0..(ByteWrap - 1)
    <2>1. (bytes + 1) % ByteWrap \in 0..(ByteWrap - 1)
        <3>1. ByteWrap \in Nat \ {0} /\ bytes + 1 \in Nat
            BY Constants DEF Typed, RingTyped
        <3> QED BY ONLY <3>1, Mod
    <2> QED BY <2>1, Constants DEF Typed, RingTyped, Clock, WriteBytes
<1>2. \A c \in Chs : ByteIn(c) \in Values
    BY DEF ByteIn, Values, Typed, RingTyped
<1>3. PDMBUF' \in [Chs -> [0..(Bytes - 1) -> Values]]
    <2>1. CASE clr_in = 1
        BY <2>1 DEF Typed, RingTyped, Clock, WriteBytes, Values
    <2>2. CASE clr_in # 1
        BY <2>2, <1>2 DEF Typed, RingTyped, Clock, WriteBytes, PDMBUF_WR
    <2> QED BY <2>1, <2>2
<1>4. PDMBUF_Q' \in Chs \X Values
    <2>1. IF_BUF_ADDR_CNT % Bytes \in 0..(Bytes - 1)
        BY Constants, Mod DEF Typed, FirTyped
    <2>2. PDMBUF[FIR_CH_CNT][IF_BUF_ADDR_CNT % Bytes] \in Values /\ FIR_CH_CNT \in Chs
        BY <2>1 DEF Typed, RingTyped, FirTyped
    <2> QED BY <2>2 DEF Clock, ReadByte, Values
<1> QED BY <1>1, <1>3, <1>4 DEF RingTyped

\* What a clock does to the registers of the first filter.
LEMMA FirFields ==
    ASSUME NEW edge \in BOOLEAN, Clock(edge)
    PROVE  /\ FIR'.STS = F!Sequencer(FIR, FIR_REQ = "RQ_CH_START")
           /\ FIR'.CALC_CNT = IF FIR.STS = "SEQ_START" THEN 0
                              ELSE IF FIR.STS = "SEQ_CALC" THEN FIR.CALC_CNT + 1 ELSE FIR.CALC_CNT
           /\ FIR'.SUMTIM = <<IF FIR.STS = "SEQ_CALC" THEN 1 ELSE 0, FIR.SUMTIM[1]>>
           /\ FIR'.ROMQ = FIR.CALC_CNT % Words
           /\ FIR'.ADD0_OUT = IF clr_in = 1 THEN <<>> ELSE <<FIR.ROMQ, PDMBUF_Q>>
           /\ FIR'.RESULT = IF clr_in = 1 THEN <<>> ELSE F!Sum(FIR)
           /\ FIR'.valid_out = IF FIR.STS = "SEQ_END1" THEN 1 ELSE 0
           /\ FIR' = [STS |-> FIR'.STS, CALC_CNT |-> FIR'.CALC_CNT, SUMTIM |-> FIR'.SUMTIM,
                      ROMQ |-> FIR'.ROMQ, ADD0_OUT |-> FIR'.ADD0_OUT, RESULT |-> FIR'.RESULT,
                      valid_out |-> FIR'.valid_out]
<1> DEFINE f == F!Clock(FIR, FIR_REQ = "RQ_CH_START", PDMBUF_Q)
<1>1. FIR' = IF clr_in = 1 THEN F!Forget(f) ELSE f
    BY DEF Clock, FirPass
<1>2. CASE clr_in = 1
    BY <1>1, <1>2 DEF F!Clock, F!Forget
<1>3. CASE clr_in # 1
    BY <1>1, <1>3 DEF F!Clock
<1> QED BY <1>2, <1>3

\* A clock keeps the types of the first filter.
LEMMA FirStep == ASSUME Typed, NEW edge \in BOOLEAN, Clock(edge) PROVE FirTyped'
<1>1. FIR_REQ' \in Requests \cup {"RQ_WAIT"}
    BY DEF Typed, FirTyped, Requests, Clock, FirPass, FirRequest
<1>2. FIR_CH_CNT' \in Chs
    BY Constants DEF Typed, FirTyped, Chs, Clock, FirPass, ChannelCount
<1>3. IF_BUF_ADDR_CNT' \in 0..(2 * Bytes - 1)
    <2>1. POSITION_CNT_START \in 0..(Bytes - 1)
        <3>1. PDM_BYTE_CNT + Words \in Nat /\ Bytes \in Nat \ {0}
            BY Constants DEF Typed, IfTyped
        <3>2. (PDM_BYTE_CNT + Words) % Bytes \in 0..(Bytes - 1)
            BY ONLY <3>1, Mod
        <3> QED BY <3>1, <3>2 DEF POSITION_CNT_START
    <2>2. (IF_BUF_ADDR_CNT + 1) % (2 * Bytes) \in 0..(2 * Bytes - 1)
        <3>1. PICK n \in Nat \ {0} : n = 2 * Bytes
            BY Constants
        <3>2. IF_BUF_ADDR_CNT + 1 \in Nat
            BY <3>1 DEF Typed, FirTyped
        <3>3. \A x \in Nat : x % n \in 0..(n - 1)
            BY ONLY <3>1, Mod
        <3> QED BY <3>1, <3>2, <3>3
    <2> QED BY <2>1, <2>2, Constants DEF Typed, FirTyped, Clock, FirPass
<1>4. SMPLCNT_64k' \in 0..(Count64 - 1)
    <2>1. (SMPLCNT_64k + 1) % Count64 \in 0..(Count64 - 1)
        <3>1. Count64 \in Nat \ {0} /\ SMPLCNT_64k + 1 \in Nat
            BY Constants DEF Typed, FirTyped
        <3> QED BY ONLY <3>1, Mod
    <2> QED BY <2>1, Constants DEF Typed, FirTyped, Clock, FirPass
<1>5. FIR \in FirType /\ (FIR.STS = "SEQ_CALC" => FIR.CALC_CNT < Words) /\ PDMBUF_Q \in Chs \X Values
    BY DEF Typed, FirTyped, RingTyped
<1>6. FIR'.STS \in States
    BY FirFields, <1>5 DEF F!Sequencer, States, FirType
<1>7. FIR'.CALC_CNT \in 0..Words /\ (FIR'.STS = "SEQ_CALC" => FIR'.CALC_CNT < Words)
    <2>1. FIR.STS \in States /\ FIR.CALC_CNT \in 0..Words
        BY <1>5 DEF FirType
    <2>2. /\ FIR'.CALC_CNT = IF FIR.STS = "SEQ_START" THEN 0
                             ELSE IF FIR.STS = "SEQ_CALC" THEN FIR.CALC_CNT + 1 ELSE FIR.CALC_CNT
          /\ FIR'.STS = F!Sequencer(FIR, FIR_REQ = "RQ_CH_START")
        BY FirFields
    <2>3. Words \in Nat \ {0}
        BY Constants
    <2>4. FIR.STS = "SEQ_CALC" => FIR.CALC_CNT < Words
        BY <1>5
    <2>5. FIR'.CALC_CNT \in 0..Words
        BY ONLY <2>1, <2>2, <2>3, <2>4
    <2>6. FIR'.STS = "SEQ_CALC" => FIR'.CALC_CNT < Words
        BY ONLY <2>1, <2>2, <2>3, <2>4 DEF F!Sequencer, States
    <2> QED BY <2>5, <2>6
<1>8. FIR'.SUMTIM \in {0, 1} \X {0, 1} /\ FIR'.valid_out \in {0, 1}
    BY FirFields, <1>5 DEF FirType
<1>9. FIR'.ROMQ \in Nat
    <2>1. FIR.CALC_CNT \in Nat /\ Words \in Nat \ {0}
        BY <1>5, Constants DEF FirType
    <2>2. FIR.CALC_CNT % Words \in Nat
        BY ONLY <2>1, Mod
    <2> QED BY FirFields, <2>2
<1>10. FIR'.ADD0_OUT \in Items
    BY FirFields, <1>5 DEF FirType, Items
<1>11. FIR'.RESULT \in Seq(Items)
    <2>1. FIR.RESULT \in Seq(Items) /\ FIR.ADD0_OUT \in Items
        BY <1>5 DEF FirType
    <2>2. Append(FIR.RESULT, FIR.ADD0_OUT) \in Seq(Items) /\ <<>> \in Seq(Items)
        BY ONLY <2>1
    <2> QED BY FirFields, <2>1, <2>2 DEF F!Sum
<1>12. FIR' \in FirType
    BY FirFields, <1>6, <1>7, <1>8, <1>9, <1>10, <1>11 DEF FirType
<1> QED BY <1>1, <1>2, <1>3, <1>4, <1>7, <1>12 DEF FirTyped

\* The window of a sum is the number of a 64 kHz sample, or Undefined.
LEMMA WindowType ==
    ASSUME Typed, NEW c PROVE FIR.RESULT = <<>> \/ Window(FIR.RESULT, c) \in Values64
<1> DEFINE sum == FIR.RESULT
           first == sum[1][2][2]
<1> SUFFICES ASSUME sum # <<>>, Len(sum) = Words, first >= 0,
                    sum[1] = <<0, <<c, (first + 1 - 1) % ByteWrap>>>>
             PROVE  first \div Step \in 0..(Count64 - 1)
    <2>1. 1 \in 1..Words /\ 1 - 1 = 0
        BY Constants
    <2> QED BY <2>1 DEF Window, Values64, Undefined
<1>1. sum \in Seq(Items) /\ 1 \in 1..Len(sum)
    BY Constants DEF Typed, FirTyped, FirType
<1>2. sum[1] \in Items
    BY <1>1
<1>3. first \in Values
    BY <1>2 DEF Items
<1>4. first \in 0..(ByteWrap - 1)
    BY <1>3 DEF Values, Old, Undefined
<1>5. PICK x : x = first
    OBVIOUS
<1>6. x \in Nat /\ x < Step * Count64 /\ Step \in Nat \ {0} /\ Count64 \in Nat
    BY <1>4, <1>5, Constants DEF ByteWrap
<1>7. x \div Step \in 0..(Count64 - 1)
    BY ONLY <1>6, Quotient
<1> QED BY <1>5, <1>7

\* A clock keeps the types of the buffer.
LEMMA BufStep == ASSUME Typed, NEW edge \in BOOLEAN, Clock(edge) PROVE BufTyped'
<1>1. OFFSET_SUM' \in Values64
    BY WindowType DEF Clock, Store64, Values64
<1>2. BUF64k_WR' \in {0, 1} /\ BUF64k_FILLED' \in {0, 1} /\ BUF64_RDY' \in {0, 1} \X {0, 1}
    BY DEF Typed, BufTyped, FirTyped, FirType, Clock, Store64, Ready
<1>3. BUF64k' \in [Chs -> [0..(POS_MAX - 1) -> Values64]]
    <2>1. CASE clr_in = 1
        BY <2>1 DEF Typed, BufTyped, Clock, Store64, Values64
    <2>2. CASE clr_in # 1
        BY <2>2 DEF Typed, BufTyped, Clock, Store64
    <2> QED BY <2>1, <2>2
<1>4. BUF64k_RDQ' \in Chs \X Values64
    <2>1. FIR2.CH_REG \in Chs /\ FIR2.POS_CNT \in 0..(POS_MAX - 1)
        BY DEF Typed, Fir2Typed, Fir2Type
    <2> QED BY <2>1 DEF Typed, BufTyped, Clock, Read64, Values64
<1> QED BY <1>1, <1>2, <1>3, <1>4 DEF BufTyped

\* What a clock does to the registers of the second filter.
LEMMA Fir2Fields ==
    ASSUME NEW edge \in BOOLEAN, Clock(edge)
    PROVE  LET start == FIR2_REQ = "RQ_CH_START" IN
           /\ FIR2'.STS = F2!Sequencer(FIR2, start)
           /\ FIR2'.CALC_CNT = IF start THEN 0
                               ELSE IF FIR2.STS = "SEQ_CALC" /\ FIR2.CALC_CNT < TAP_NUM - 1
                               THEN FIR2.CALC_CNT + 1 ELSE FIR2.CALC_CNT
           /\ FIR2'.POS_CNT = IF start THEN SRC_POS
                              ELSE IF FIR2.STS = "SEQ_CALC" THEN (FIR2.POS_CNT + 1) % POS_MAX
                              ELSE FIR2.POS_CNT
           /\ FIR2'.CH_REG = IF start THEN FIR2_CH_CNT ELSE FIR2.CH_REG
           /\ FIR2'.CALC_DELAY = <<IF FIR2.STS = "SEQ_CALC" THEN 1 ELSE 0, FIR2.CALC_DELAY[1]>>
           /\ FIR2'.COEF_DATA = FIR2.CALC_CNT
           /\ FIR2'.MULL_RESULT = IF clr_in = 1 THEN <<>> ELSE <<FIR2.COEF_DATA, BUF64k_RDQ>>
           /\ FIR2'.ADD_RESULT = IF clr_in = 1 THEN <<>> ELSE F2!Sum(FIR2)
           /\ FIR2'.data_out = IF clr_in = 1 THEN <<>>
                               ELSE IF F2!ADD_END(FIR2) THEN FIR2.ADD_RESULT ELSE FIR2.data_out
           /\ FIR2'.write_out = IF F2!ADD_END(FIR2) THEN 1 ELSE 0
           /\ FIR2' = [STS |-> FIR2'.STS, CALC_CNT |-> FIR2'.CALC_CNT, POS_CNT |-> FIR2'.POS_CNT,
                       CH_REG |-> FIR2'.CH_REG, CALC_DELAY |-> FIR2'.CALC_DELAY,
                       COEF_DATA |-> FIR2'.COEF_DATA, MULL_RESULT |-> FIR2'.MULL_RESULT,
                       ADD_RESULT |-> FIR2'.ADD_RESULT, data_out |-> FIR2'.data_out,
                       write_out |-> FIR2'.write_out]
<1> DEFINE f == F2!Clock(FIR2, FIR2_REQ = "RQ_CH_START", FIR2_CH_CNT, SRC_POS, BUF64k_RDQ)
<1>1. FIR2' = IF clr_in = 1 THEN F2!Forget(f) ELSE f
    BY DEF Clock, Fir2Pass
<1>2. CASE clr_in = 1
    BY <1>1, <1>2 DEF F2!Clock, F2!Forget
<1>3. CASE clr_in # 1
    BY <1>1, <1>3 DEF F2!Clock
<1> QED BY <1>2, <1>3

\* A clock keeps the types of the second filter.
LEMMA Fir2Step == ASSUME Typed, NEW edge \in BOOLEAN, Clock(edge) PROVE Fir2Typed'
<1>1. FIR2_REQ' \in Requests
    BY DEF Typed, Fir2Typed, Requests, Clock, Fir2Pass, Fir2Request
<1>2. FIR2_CH_CNT' \in Chs
    BY Constants DEF Typed, Fir2Typed, Chs, Clock, Fir2Pass, ChannelCount
<1>3. /\ (SMPLCNT_32k + 1) % Count32 \in 0..(Count32 - 1) /\ SMPLCNT_32k \in 0..(Count32 - 1)
      /\ 0 \in 0..(Count32 - 1)
    <2>1. Count32 \in Nat \ {0} /\ SMPLCNT_32k + 1 \in Nat
        BY Constants DEF Typed, Fir2Typed
    <2>2. (SMPLCNT_32k + 1) % Count32 \in 0..(Count32 - 1)
        BY ONLY <2>1, Mod
    <2> QED BY <2>1, <2>2 DEF Typed, Fir2Typed
<1>4. SMPLCNT_32k' \in 0..(Count32 - 1)
    BY <1>3 DEF Clock, Fir2Pass
<1>5. FIR2.CH_REG \in Chs /\ 0 \in Chs
    BY Constants DEF Typed, Fir2Typed, Fir2Type, Chs
<1>6. next' \in (0..(Count32 - 1)) \X Chs
    <2>1. Stream!After(SMPLCNT_32k, FIR2.CH_REG) \in (0..(Count32 - 1)) \X Chs
        <3>1. FIR2.CH_REG # Channels - 1 => FIR2.CH_REG + 1 \in Chs
            BY <1>5, Constants DEF Chs
        <3> QED BY <3>1, <1>3, <1>5 DEF Stream!After
    <2> QED BY <2>1, <1>3, <1>5 DEF Typed, Fir2Typed, Clock, valid_sample, valid_ch
<1>7. /\ FIR2.STS \in States /\ FIR2.CALC_CNT \in 0..(TAP_NUM - 1) /\ FIR2.POS_CNT \in 0..(POS_MAX - 1)
      /\ FIR2.CALC_DELAY \in {0, 1} \X {0, 1} /\ FIR2.COEF_DATA \in Nat
      /\ FIR2.MULL_RESULT \in Items64 /\ FIR2.ADD_RESULT \in Seq(Items64)
      /\ FIR2.data_out \in Seq(Items64) /\ FIR2_CH_CNT \in Chs /\ BUF64k_RDQ \in Chs \X Values64
    BY DEF Typed, Fir2Typed, Fir2Type, BufTyped
<1>8. FIR2'.STS \in States
    BY Fir2Fields, <1>7 DEF F2!Sequencer, States
<1>9. FIR2'.CALC_CNT \in 0..(TAP_NUM - 1) /\ FIR2'.COEF_DATA \in Nat
    <2>1. /\ FIR2'.CALC_CNT = IF FIR2_REQ = "RQ_CH_START" THEN 0
                              ELSE IF FIR2.STS = "SEQ_CALC" /\ FIR2.CALC_CNT < TAP_NUM - 1
                              THEN FIR2.CALC_CNT + 1 ELSE FIR2.CALC_CNT
          /\ FIR2'.COEF_DATA = FIR2.CALC_CNT
        BY Fir2Fields
    <2>2. TAP_NUM \in Nat \ {0, 1}
        BY Constants
    <2> QED BY ONLY <2>1, <2>2, <1>7
<1>10. FIR2'.POS_CNT \in 0..(POS_MAX - 1)
    <2>1. SRC_POS \in 0..(POS_MAX - 1)
        <3>1. Rate \in Nat
            BY Constants DEF Rate, Typed, IfTyped
        <3>2. PICK x \in Nat : x = SMPLCNT_32k * Rate
            BY <3>1 DEF Typed, Fir2Typed
        <3>3. POS_MAX \in Nat \ {0}
            BY Constants
        <3>4. x % POS_MAX \in 0..(POS_MAX - 1)
            BY ONLY <3>3, Mod
        <3> QED BY <3>2, <3>4 DEF SRC_POS
    <2>2. (FIR2.POS_CNT + 1) % POS_MAX \in 0..(POS_MAX - 1)
        <3>1. POS_MAX \in Nat \ {0} /\ FIR2.POS_CNT + 1 \in Nat
            BY <1>7, Constants
        <3> QED BY ONLY <3>1, Mod
    <2> QED BY Fir2Fields, <2>1, <2>2, <1>7
<1>11. FIR2'.CH_REG \in Chs /\ FIR2'.CALC_DELAY \in {0, 1} \X {0, 1} /\ FIR2'.write_out \in {0, 1}
    BY Fir2Fields, <1>5, <1>7
<1>12. FIR2'.MULL_RESULT \in Items64
    BY Fir2Fields, <1>7 DEF Items64
<1>13. FIR2'.ADD_RESULT \in Seq(Items64) /\ FIR2'.data_out \in Seq(Items64)
    <2>1. Append(FIR2.ADD_RESULT, FIR2.MULL_RESULT) \in Seq(Items64) /\ <<>> \in Seq(Items64)
        BY ONLY <1>7
    <2> QED BY Fir2Fields, <1>7, <2>1 DEF F2!Sum
<1>14. FIR2' \in Fir2Type
    BY Fir2Fields, <1>8, <1>9, <1>10, <1>11, <1>12, <1>13 DEF Fir2Type
<1> QED BY <1>1, <1>2, <1>4, <1>6, <1>14 DEF Fir2Typed

\* A clock keeps the types.
LEMMA TypedStep == ASSUME Typed, NEW edge \in BOOLEAN, Clock(edge) PROVE Typed'
BY IfStep, RingStep, FirStep, BufStep, Fir2Step DEF Typed

---------------------------------------------------------------------------
(* How much the filters have added up. *)

\* A flag as a bit.
Bit(b) == IF b THEN 1 ELSE 0

\* The first filter has not added more than it has read.
Sizes1 ==
    /\ FIR.STS \in {"SEQ_IDLE", "SEQ_START"} => FIR.SUMTIM = <<0, 0>>
    /\ FIR.STS = "SEQ_CALC" => Len(FIR.RESULT) + FIR.SUMTIM[1] + FIR.SUMTIM[2] <= FIR.CALC_CNT
    /\ FIR.STS = "SEQ_END0" => Len(FIR.RESULT) + FIR.SUMTIM[1] + FIR.SUMTIM[2] <= Words
    /\ FIR.STS = "SEQ_END1" => FIR.SUMTIM[1] = 0 /\ Len(FIR.RESULT) + FIR.SUMTIM[2] <= Words
    /\ Len(FIR.RESULT) <= Words

\* The lengths Append gives.
LEMMA Lengths == 
    ASSUME NEW S, NEW s \in Seq(S), NEW x \in S
    PROVE  /\ Append(s, x) \in Seq(S) /\ Len(Append(s, x)) = Len(s) + 1
           /\ Len(s) \in Nat /\ Len(<<>>) = 0
OBVIOUS

\* A clock keeps the first sum within its window.
LEMMA Sizes1Step == ASSUME Typed, Sizes1, NEW edge \in BOOLEAN, Clock(edge) PROVE Sizes1'
<1>1. PICK t1 \in {0, 1}, t2 \in {0, 1} : FIR.SUMTIM = <<t1, t2>>
    BY DEF Typed, FirTyped, FirType
<1>2. FIR.STS \in States /\ FIR.CALC_CNT \in 0..Words /\ (FIR.STS = "SEQ_CALC" => FIR.CALC_CNT < Words)
    BY DEF Typed, FirTyped, FirType
<1>3. Words \in Nat \ {0}
    BY Constants
<1>4. PICK u1, u2 : FIR'.SUMTIM = <<u1, u2>> /\ u1 = (IF FIR.STS = "SEQ_CALC" THEN 1 ELSE 0) /\ u2 = t1
    BY FirFields, <1>1
<1>5. PICK n \in Nat : n = Len(FIR.RESULT)
    BY Lengths DEF Typed, FirTyped, FirType
<1>6. PICK k \in Nat : k = Len(FIR'.RESULT) /\ (IF FIR.STS = "SEQ_START" THEN k = 0 ELSE k <= n + t2)
    <2>1. FIR.RESULT \in Seq(Items) /\ FIR.ADD0_OUT \in Items
        BY DEF Typed, FirTyped, FirType
    <2>2. Len(Append(FIR.RESULT, FIR.ADD0_OUT)) = n + 1 /\ Len(<<>>) = 0
        BY <2>1, <1>5, Lengths
    <2>3. FIR'.RESULT = IF clr_in = 1 THEN <<>> ELSE F!Sum(FIR)
        BY FirFields
    <2>4. F!Sum(FIR) = IF FIR.STS = "SEQ_START" THEN <<>>
                       ELSE IF t2 = 1 THEN Append(FIR.RESULT, FIR.ADD0_OUT) ELSE FIR.RESULT
        BY <1>1 DEF F!Sum
    <2> QED BY <2>2, <2>3, <2>4, <1>5
<1>7. /\ FIR'.CALC_CNT = IF FIR.STS = "SEQ_START" THEN 0
                         ELSE IF FIR.STS = "SEQ_CALC" THEN FIR.CALC_CNT + 1 ELSE FIR.CALC_CNT
      /\ FIR'.STS = F!Sequencer(FIR, FIR_REQ = "RQ_CH_START")
    BY FirFields
<1>8. /\ t1 \in {0, 1} /\ t2 \in {0, 1} /\ n \in Nat /\ k \in Nat
      /\ FIR.STS \in {"SEQ_IDLE", "SEQ_START"} => t1 = 0 /\ t2 = 0
      /\ FIR.STS = "SEQ_CALC" => n + t1 + t2 <= FIR.CALC_CNT
      /\ FIR.STS = "SEQ_END0" => n + t1 + t2 <= Words
      /\ FIR.STS = "SEQ_END1" => t1 = 0 /\ n + t2 <= Words
      /\ n <= Words
    BY <1>1, <1>5, <1>6 DEF Sizes1
<1>9. /\ FIR'.STS \in {"SEQ_IDLE", "SEQ_START"} => u1 = 0 /\ u2 = 0
      /\ FIR'.STS = "SEQ_CALC" => k + u1 + u2 <= FIR'.CALC_CNT
      /\ FIR'.STS = "SEQ_END0" => k + u1 + u2 <= Words
      /\ FIR'.STS = "SEQ_END1" => u1 = 0 /\ k + u2 <= Words
      /\ k <= Words
    <2>1. CASE FIR.STS = "SEQ_IDLE"
        BY ONLY <2>1, <1>2, <1>3, <1>4, <1>6, <1>7, <1>8 DEF F!Sequencer
    <2>2. CASE FIR.STS = "SEQ_START"
        BY ONLY <2>2, <1>2, <1>3, <1>4, <1>6, <1>7, <1>8 DEF F!Sequencer
    <2>3. CASE FIR.STS = "SEQ_CALC"
        <3>1. FIR'.STS = (IF FIR.CALC_CNT = Words - 1 THEN "SEQ_END0" ELSE "SEQ_CALC")
            BY ONLY <2>3, <1>7 DEF F!Sequencer
        <3>2. u1 = 1 /\ u2 = t1 /\ k <= n + t2 /\ FIR'.CALC_CNT = FIR.CALC_CNT + 1
            BY ONLY <2>3, <1>4, <1>6, <1>7
        <3>3. n + t1 + t2 <= FIR.CALC_CNT /\ FIR.CALC_CNT \in 0..(Words - 1)
            BY ONLY <2>3, <1>2, <1>3, <1>8
        <3>4. k + u1 + u2 <= FIR.CALC_CNT + 1 /\ k <= Words
            BY ONLY <3>2, <3>3, <1>3, <1>6, <1>8
        <3>5. FIR'.STS = "SEQ_END0" => FIR.CALC_CNT + 1 = Words
            BY ONLY <3>1, <3>3, <1>3
        <3>6. FIR'.STS \in {"SEQ_END0", "SEQ_CALC"}
            BY ONLY <3>1
        <3> QED BY ONLY <3>2, <3>4, <3>5, <3>6
    <2>4. CASE FIR.STS = "SEQ_END0"
        BY ONLY <2>4, <1>2, <1>3, <1>4, <1>6, <1>7, <1>8 DEF F!Sequencer
    <2>5. CASE FIR.STS = "SEQ_END1"
        BY ONLY <2>5, <1>2, <1>3, <1>4, <1>6, <1>7, <1>8 DEF F!Sequencer
    <2> QED BY ONLY <2>1, <2>2, <2>3, <2>4, <2>5, <1>2 DEF States
<1>10. FIR'.SUMTIM[1] = u1 /\ FIR'.SUMTIM[2] = u2
    BY <1>4
<1> QED BY <1>4, <1>6, <1>9, <1>10 DEF Sizes1

\* CALC_DELAY follows the states of the second filter, and CALC_CNT starts at 0.
Shape2 ==
    /\ FIR2.STS \in {"SEQ_IDLE", "SEQ_START"} => FIR2.CALC_DELAY = <<0, 0>>
    /\ FIR2.STS = "SEQ_START" => FIR2.CALC_CNT = 0
    /\ FIR2.STS = "SEQ_CALC" => FIR2.CALC_DELAY = <<Bit(FIR2.CALC_CNT >= 1), Bit(FIR2.CALC_CNT >= 2)>>
    /\ FIR2.STS = "SEQ_END0" => FIR2.CALC_DELAY = <<1, 1>>
    /\ FIR2.STS = "SEQ_END1" => FIR2.CALC_DELAY = <<0, 1>>
    /\ FIR2.STS # "SEQ_IDLE" => FIR2.write_out = 0

\* The second filter has not added more than it has read.
Sizes2 ==
    /\ FIR2.STS = "SEQ_CALC" => IF FIR2.CALC_CNT < 2 THEN Len(FIR2.ADD_RESULT) = 0
                                ELSE Len(FIR2.ADD_RESULT) <= FIR2.CALC_CNT - 2
    /\ FIR2.STS = "SEQ_END0" => Len(FIR2.ADD_RESULT) <= TAP_NUM - 2
    /\ FIR2.STS = "SEQ_END1" => Len(FIR2.ADD_RESULT) <= TAP_NUM - 1
    /\ Len(FIR2.ADD_RESULT) <= TAP_NUM

\* A start comes only to a filter at rest.
Calm2 == FIR2_REQ = "RQ_CH_START" => FIR2.STS = "SEQ_IDLE"

\* A clock keeps the delay line in step with the states.
LEMMA Shape2Step == ASSUME Typed, Shape2, Calm2, NEW edge \in BOOLEAN, Clock(edge) PROVE Shape2'
<1>1. PICK d1 \in {0, 1}, d2 \in {0, 1} : FIR2.CALC_DELAY = <<d1, d2>>
    BY DEF Typed, Fir2Typed, Fir2Type
<1>2. FIR2.STS \in States /\ FIR2.CALC_CNT \in 0..(TAP_NUM - 1)
    BY DEF Typed, Fir2Typed, Fir2Type
<1>3. TAP_NUM \in Nat \ {0, 1}
    BY Constants
<1>4. PICK e1, e2 : FIR2'.CALC_DELAY = <<e1, e2>> /\ e1 = (IF FIR2.STS = "SEQ_CALC" THEN 1 ELSE 0) /\ e2 = d1
    BY Fir2Fields, <1>1
<1>5. /\ FIR2'.CALC_CNT = IF FIR2_REQ = "RQ_CH_START" THEN 0
                          ELSE IF FIR2.STS = "SEQ_CALC" /\ FIR2.CALC_CNT < TAP_NUM - 1
                          THEN FIR2.CALC_CNT + 1 ELSE FIR2.CALC_CNT
      /\ FIR2'.STS = F2!Sequencer(FIR2, FIR2_REQ = "RQ_CH_START")
      /\ FIR2'.write_out = IF d1 = 0 /\ d2 = 1 THEN 1 ELSE 0
    BY Fir2Fields, <1>1 DEF F2!ADD_END
<1>6. /\ FIR2.STS \in {"SEQ_IDLE", "SEQ_START"} => d1 = 0 /\ d2 = 0
      /\ FIR2.STS = "SEQ_START" => FIR2.CALC_CNT = 0
      /\ FIR2.STS = "SEQ_CALC" => d1 = Bit(FIR2.CALC_CNT >= 1) /\ d2 = Bit(FIR2.CALC_CNT >= 2)
      /\ FIR2.STS = "SEQ_END0" => d1 = 1 /\ d2 = 1
      /\ FIR2.STS = "SEQ_END1" => d1 = 0 /\ d2 = 1
    BY <1>1 DEF Shape2
<1>7. FIR2_REQ = "RQ_CH_START" => FIR2.STS = "SEQ_IDLE"
    BY DEF Calm2
<1>8. /\ FIR2'.STS \in {"SEQ_IDLE", "SEQ_START"} => e1 = 0 /\ e2 = 0
      /\ FIR2'.STS = "SEQ_START" => FIR2'.CALC_CNT = 0
      /\ FIR2'.STS = "SEQ_CALC" => e1 = Bit(FIR2'.CALC_CNT >= 1) /\ e2 = Bit(FIR2'.CALC_CNT >= 2)
      /\ FIR2'.STS = "SEQ_END0" => e1 = 1 /\ e2 = 1
      /\ FIR2'.STS = "SEQ_END1" => e1 = 0 /\ e2 = 1
      /\ FIR2'.STS # "SEQ_IDLE" => FIR2'.write_out = 0
    BY ONLY <1>2, <1>3, <1>4, <1>5, <1>6, <1>7 DEF F2!Sequencer, States, Bit
<1> QED BY <1>4, <1>8 DEF Shape2

\* A clock keeps the second sum within its window.
LEMMA Sizes2Step ==
    ASSUME Typed, Shape2, Sizes2, Calm2, NEW edge \in BOOLEAN, Clock(edge) PROVE Sizes2'
<1>1. PICK d1 \in {0, 1}, d2 \in {0, 1} : FIR2.CALC_DELAY = <<d1, d2>>
    BY DEF Typed, Fir2Typed, Fir2Type
<1>2. FIR2.STS \in States /\ FIR2.CALC_CNT \in 0..(TAP_NUM - 1)
    BY DEF Typed, Fir2Typed, Fir2Type
<1>3. TAP_NUM \in Nat \ {0, 1}
    BY Constants
<1>4. PICK n \in Nat : n = Len(FIR2.ADD_RESULT)
    BY Lengths DEF Typed, Fir2Typed, Fir2Type
<1>5. PICK k \in Nat : /\ k = Len(FIR2'.ADD_RESULT)
                       /\ IF d2 = 0 THEN k = 0 ELSE k <= n + 1
    <2>1. FIR2.ADD_RESULT \in Seq(Items64) /\ FIR2.MULL_RESULT \in Items64
        BY DEF Typed, Fir2Typed, Fir2Type
    <2>2. Len(Append(FIR2.ADD_RESULT, FIR2.MULL_RESULT)) = n + 1 /\ Len(<<>>) = 0
        BY <2>1, <1>4, Lengths
    <2>3. FIR2'.ADD_RESULT = IF clr_in = 1 THEN <<>> ELSE F2!Sum(FIR2)
        BY Fir2Fields
    <2>4. F2!Sum(FIR2) = IF d2 = 0 THEN <<>> ELSE Append(FIR2.ADD_RESULT, FIR2.MULL_RESULT)
        BY <1>1 DEF F2!Sum, F2!ADD_CLR
    <2> QED BY <2>2, <2>3, <2>4, <1>4
<1>6. /\ FIR2'.CALC_CNT = IF FIR2_REQ = "RQ_CH_START" THEN 0
                          ELSE IF FIR2.STS = "SEQ_CALC" /\ FIR2.CALC_CNT < TAP_NUM - 1
                          THEN FIR2.CALC_CNT + 1 ELSE FIR2.CALC_CNT
      /\ FIR2'.STS = F2!Sequencer(FIR2, FIR2_REQ = "RQ_CH_START")
    BY Fir2Fields
<1>7. /\ FIR2.STS \in {"SEQ_IDLE", "SEQ_START"} => d1 = 0 /\ d2 = 0
      /\ FIR2.STS = "SEQ_START" => FIR2.CALC_CNT = 0
      /\ FIR2.STS = "SEQ_CALC" => d1 = Bit(FIR2.CALC_CNT >= 1) /\ d2 = Bit(FIR2.CALC_CNT >= 2)
      /\ FIR2.STS = "SEQ_END0" => d1 = 1 /\ d2 = 1
      /\ FIR2.STS = "SEQ_END1" => d1 = 0 /\ d2 = 1
    BY <1>1 DEF Shape2
<1>8. FIR2_REQ = "RQ_CH_START" => FIR2.STS = "SEQ_IDLE"
    BY DEF Calm2
<1>9. /\ FIR2.STS = "SEQ_CALC" => IF FIR2.CALC_CNT < 2 THEN n = 0 ELSE n <= FIR2.CALC_CNT - 2
      /\ FIR2.STS = "SEQ_END0" => n <= TAP_NUM - 2
      /\ FIR2.STS = "SEQ_END1" => n <= TAP_NUM - 1
      /\ n <= TAP_NUM
    BY <1>4 DEF Sizes2
<1>10. /\ FIR2'.STS = "SEQ_CALC" => IF FIR2'.CALC_CNT < 2 THEN k = 0 ELSE k <= FIR2'.CALC_CNT - 2
       /\ FIR2'.STS = "SEQ_END0" => k <= TAP_NUM - 2
       /\ FIR2'.STS = "SEQ_END1" => k <= TAP_NUM - 1
       /\ k <= TAP_NUM
    <2>1. CASE FIR2.STS = "SEQ_IDLE"
        BY ONLY <2>1, <1>2, <1>3, <1>5, <1>6, <1>7, <1>8, <1>9 DEF F2!Sequencer, Bit
    <2>2. CASE FIR2.STS = "SEQ_START"
        BY ONLY <2>2, <1>2, <1>3, <1>5, <1>6, <1>7, <1>8, <1>9 DEF F2!Sequencer, Bit
    <2>3. CASE FIR2.STS = "SEQ_CALC"
        <3>1. /\ FIR2_REQ # "RQ_CH_START" /\ d2 = Bit(FIR2.CALC_CNT >= 2)
              /\ IF FIR2.CALC_CNT < 2 THEN n = 0 ELSE n <= FIR2.CALC_CNT - 2
            BY ONLY <1>7, <1>8, <1>9, <2>3
        <3>2. k <= n + 1 /\ (FIR2.CALC_CNT < 2 => k = 0)
            BY ONLY <1>2, <1>5, <3>1, n \in Nat DEF Bit
        <3>3. CASE FIR2.CALC_CNT < TAP_NUM - 1
            BY ONLY <1>2, <1>3, <1>6, <1>9, <2>3, <3>1, <3>2, <3>3 DEF F2!Sequencer
        <3>4. CASE ~ (FIR2.CALC_CNT < TAP_NUM - 1)
            BY ONLY <1>2, <1>3, <1>6, <1>9, <2>3, <3>1, <3>2, <3>4 DEF F2!Sequencer
        <3> QED BY ONLY <3>3, <3>4
    <2>4. CASE FIR2.STS = "SEQ_END0"
        BY ONLY <2>4, <1>2, <1>3, <1>5, <1>6, <1>7, <1>8, <1>9 DEF F2!Sequencer, Bit
    <2>5. CASE FIR2.STS = "SEQ_END1"
        BY ONLY <2>5, <1>2, <1>3, <1>5, <1>6, <1>7, <1>8, <1>9 DEF F2!Sequencer, Bit
    <2> QED BY ONLY <2>1, <2>2, <2>3, <2>4, <2>5, <1>2 DEF States
<1> QED BY <1>5, <1>10 DEF Sizes2

---------------------------------------------------------------------------
(* The second sequencer and its filter. *)

\* CLR is not set, or has been set in this very clock.
Running == clr_in = 0 \/ hold = 0

\* The clocks the second filter still needs.
Left2 == CASE FIR2.STS = "SEQ_START" -> TAP_NUM + 4
           [] FIR2.STS = "SEQ_CALC" -> TAP_NUM - FIR2.CALC_CNT + 3
           [] FIR2.STS = "SEQ_END0" -> 3
           [] FIR2.STS = "SEQ_END1" -> 2
           [] FIR2.STS = "SEQ_IDLE" -> FIR2.write_out

\* While the core runs the sequencer waits for its filter: the filter is busy in
\* RQ_CH_BUSY alone, and next is the sample the sequencer has under way.
Hand2 ==
    /\ FIR2_REQ # "RQ_CH_BUSY" => FIR2.STS = "SEQ_IDLE" /\ FIR2.write_out = 0
    /\ FIR2_REQ = "RQ_CH_BUSY" => /\ FIR2.STS = "SEQ_IDLE" => FIR2.write_out = 1
                                  /\ FIR2.CH_REG = FIR2_CH_CNT
    /\ FIR2_REQ = "RQ_START" => FIR2_CH_CNT = 0
    /\ FIR2_REQ \in {"RQ_IDLE", "RQ_START"} => next = <<SMPLCNT_32k, 0>>
    /\ FIR2_REQ \in {"RQ_CH_START", "RQ_CH_BUSY"} => next = <<SMPLCNT_32k, FIR2_CH_CNT>>
    /\ FIR2_REQ = "RQ_CH_END" => next = Stream!After(SMPLCNT_32k, FIR2_CH_CNT)
    /\ FIR2_REQ = "RQ_END" => next = <<(SMPLCNT_32k + 1) % Count32, 0>>

\* Under CLR the sequencer is at rest and the filter comes to rest.
Cleared2 ==
    /\ Left2 + hold <= TAP_NUM + 5 \/ Left2 = 0
    /\ FIR2_REQ = "RQ_IDLE" /\ SMPLCNT_32k = 0 /\ next = <<0, 0>>

\* What is known of the second sequencer and filter.
Filter2 == Shape2 /\ Sizes2 /\ (Running => Hand2) /\ (~Running => Cleared2)

\* In both cases a start comes to a filter at rest.
LEMMA Calm2Holds == ASSUME Filter2 PROVE Calm2
BY DEF Filter2, Hand2, Cleared2, Calm2

\* How long CLR has been set when it is let go.
LEMMA Holding ==
    ASSUME Typed, NEW edge \in BOOLEAN, Clock(edge)
    PROVE  /\ clr_in = 0 => Running /\ Running'
           /\ Running /\ ~Running' => clr_in = 1 /\ hold = 0 /\ hold' = 1
           /\ ~Running /\ ~Running' => hold' \in {hold, hold + 1}
           /\ Running' /\ clr_in = 1 => ~Running /\ hold >= Words + 5 /\ hold >= TAP_NUM + 4
<1>1. clr_in \in {0, 1} /\ hold \in 0..HoldClocks /\ (clr_in = 1 => MayStop)
    BY DEF Typed, IfTyped
<1>2. /\ clr_in' \in IF clr_in = 1 THEN IF hold < HoldClocks THEN {1} ELSE {0, 1}
                     ELSE IF MayStop THEN {0, 1} ELSE {0}
      /\ hold' = IF clr_in = 0 THEN 0 ELSE IF hold < HoldClocks THEN hold + 1 ELSE hold
    BY DEF Clock, Clear
<1>3. /\ Words \in Nat \ {0} /\ TAP_NUM \in Nat \ {0, 1} /\ HoldClocks \in Nat
      /\ MayStop => HoldClocks >= Words + 5 /\ HoldClocks >= TAP_NUM + 4
    BY Constants
<1> QED BY ONLY <1>1, <1>2, <1>3 DEF Running

\* With every clock the second filter needs one clock less.
LEMMA Left2Step ==
    ASSUME Typed, Shape2, Calm2, NEW edge \in BOOLEAN, Clock(edge)
    PROVE  /\ Left2 \in 0..(TAP_NUM + 4) /\ Left2' \in 0..(TAP_NUM + 4)
           /\ FIR2_REQ # "RQ_CH_START" => Left2' = IF Left2 = 0 THEN 0 ELSE Left2 - 1
           /\ Left2 = 0 => FIR2.STS = "SEQ_IDLE" /\ FIR2.write_out = 0
<1>1. PICK d1 \in {0, 1}, d2 \in {0, 1} : FIR2.CALC_DELAY = <<d1, d2>>
    BY DEF Typed, Fir2Typed, Fir2Type
<1>2. FIR2.STS \in States /\ FIR2.CALC_CNT \in 0..(TAP_NUM - 1) /\ FIR2.write_out \in {0, 1}
    BY DEF Typed, Fir2Typed, Fir2Type
<1>3. TAP_NUM \in Nat \ {0, 1}
    BY Constants
<1>4. /\ FIR2'.CALC_CNT = IF FIR2_REQ = "RQ_CH_START" THEN 0
                          ELSE IF FIR2.STS = "SEQ_CALC" /\ FIR2.CALC_CNT < TAP_NUM - 1
                          THEN FIR2.CALC_CNT + 1 ELSE FIR2.CALC_CNT
      /\ FIR2'.STS = F2!Sequencer(FIR2, FIR2_REQ = "RQ_CH_START")
      /\ FIR2'.write_out = IF d1 = 0 /\ d2 = 1 THEN 1 ELSE 0
    BY Fir2Fields, <1>1 DEF F2!ADD_END
<1>5. /\ FIR2.STS \in {"SEQ_IDLE", "SEQ_START"} => d1 = 0 /\ d2 = 0
      /\ FIR2.STS = "SEQ_START" => FIR2.CALC_CNT = 0
      /\ FIR2.STS = "SEQ_CALC" => d1 = Bit(FIR2.CALC_CNT >= 1) /\ d2 = Bit(FIR2.CALC_CNT >= 2)
      /\ FIR2.STS = "SEQ_END0" => d1 = 1 /\ d2 = 1
      /\ FIR2.STS = "SEQ_END1" => d1 = 0 /\ d2 = 1
      /\ FIR2.STS # "SEQ_IDLE" => FIR2.write_out = 0
    BY <1>1 DEF Shape2
<1>6. FIR2_REQ = "RQ_CH_START" => FIR2.STS = "SEQ_IDLE"
    BY DEF Calm2
<1>7. Left2 \in 0..(TAP_NUM + 4) /\ (Left2 = 0 => FIR2.STS = "SEQ_IDLE" /\ FIR2.write_out = 0)
    BY ONLY <1>2, <1>3 DEF Left2, States
<1>8. Left2' \in 0..(TAP_NUM + 4) /\ (FIR2_REQ # "RQ_CH_START" => Left2' = IF Left2 = 0 THEN 0 ELSE Left2 - 1)
    <2>1. CASE FIR2.STS = "SEQ_IDLE"
        BY ONLY <2>1, <1>2, <1>3, <1>4, <1>5, <1>6 DEF F2!Sequencer, Left2, Bit
    <2>2. CASE FIR2.STS = "SEQ_START"
        BY ONLY <2>2, <1>2, <1>3, <1>4, <1>5, <1>6 DEF F2!Sequencer, Left2, Bit
    <2>3. CASE FIR2.STS = "SEQ_CALC"
        BY ONLY <2>3, <1>2, <1>3, <1>4, <1>5, <1>6 DEF F2!Sequencer, Left2, Bit
    <2>4. CASE FIR2.STS = "SEQ_END0"
        BY ONLY <2>4, <1>2, <1>3, <1>4, <1>5, <1>6 DEF F2!Sequencer, Left2, Bit
    <2>5. CASE FIR2.STS = "SEQ_END1"
        BY ONLY <2>5, <1>2, <1>3, <1>4, <1>5, <1>6 DEF F2!Sequencer, Left2, Bit
    <2> QED BY ONLY <2>1, <2>2, <2>3, <2>4, <2>5, <1>2 DEF States
<1> QED BY <1>7, <1>8

\* While the core runs, sequencer and filter stay in step, and what is handed on is
\* the sample that has to come next.
LEMMA Hand2Step ==
    ASSUME Typed, Shape2, Hand2, clr_in = 0, NEW edge \in BOOLEAN, Clock(edge)
    PROVE  /\ Hand2'
           /\ valid => next = <<valid_sample, valid_ch>>
<1>0. Calm2
    BY DEF Hand2, Calm2
<1>1. FIR2.STS \in States /\ FIR2_REQ \in Requests /\ FIR2.write_out \in {0, 1} /\ FIR2_CH_CNT \in Chs
    BY DEF Typed, Fir2Typed, Fir2Type
<1>2. /\ FIR2'.STS = F2!Sequencer(FIR2, FIR2_REQ = "RQ_CH_START")
      /\ FIR2'.CH_REG = IF FIR2_REQ = "RQ_CH_START" THEN FIR2_CH_CNT ELSE FIR2.CH_REG
      /\ FIR2'.write_out = IF F2!ADD_END(FIR2) THEN 1 ELSE 0
    BY Fir2Fields
<1>3. /\ F2!ADD_END(FIR2) => FIR2.STS \notin {"SEQ_IDLE", "SEQ_START", "SEQ_END0"}
      /\ FIR2.STS = "SEQ_END1" => F2!ADD_END(FIR2)
      /\ FIR2.STS # "SEQ_IDLE" => FIR2.write_out = 0
    BY DEF F2!ADD_END, Shape2
<1>4. next' = IF FIR2.write_out = 1 THEN Stream!After(SMPLCNT_32k, FIR2.CH_REG) ELSE next
    BY DEF Clock, valid, valid_sample, valid_ch
<1>5. /\ FIR2_REQ' = CASE FIR2_REQ = "RQ_IDLE" -> IF BUF64_RDY = <<1, 0>> THEN "RQ_START" ELSE "RQ_IDLE"
                       [] FIR2_REQ = "RQ_START" -> "RQ_CH_START"
                       [] FIR2_REQ = "RQ_CH_START" -> "RQ_CH_BUSY"
                       [] FIR2_REQ = "RQ_CH_BUSY" -> IF FIR2.STS # "SEQ_IDLE" THEN "RQ_CH_BUSY" ELSE "RQ_CH_END"
                       [] FIR2_REQ = "RQ_CH_END" ->
                            IF FIR2_CH_CNT = Channels - 1 THEN "RQ_END" ELSE "RQ_CH_START"
                       [] FIR2_REQ = "RQ_END" -> "RQ_IDLE"
      /\ FIR2_CH_CNT' = ChannelCount(FIR2_CH_CNT, FIR2_REQ)
      /\ SMPLCNT_32k' = IF FIR2_REQ = "RQ_END" THEN (SMPLCNT_32k + 1) % Count32 ELSE SMPLCNT_32k
    BY DEF Clock, Fir2Pass, Fir2Request, F2!busy
<1>6. valid => FIR2_REQ = "RQ_CH_BUSY" /\ FIR2.STS = "SEQ_IDLE" /\ next = <<valid_sample, valid_ch>>
    BY <1>3 DEF valid, valid_sample, valid_ch, Hand2
<1>7. CASE FIR2_REQ = "RQ_IDLE"
    BY <1>7, <1>1, <1>2, <1>3, <1>4, <1>5, <1>6 DEF Hand2, F2!Sequencer, ChannelCount, Requests
<1>8. CASE FIR2_REQ = "RQ_START"
    BY <1>8, <1>1, <1>2, <1>3, <1>4, <1>5, <1>6 DEF Hand2, F2!Sequencer, ChannelCount, Requests
<1>9. CASE FIR2_REQ = "RQ_CH_START"
    BY <1>9, <1>1, <1>2, <1>3, <1>4, <1>5, <1>6 DEF Hand2, F2!Sequencer, ChannelCount, Requests
<1>10. CASE FIR2_REQ = "RQ_CH_BUSY"
    <2>0. next = <<SMPLCNT_32k, FIR2_CH_CNT>> /\ FIR2.CH_REG = FIR2_CH_CNT /\ (FIR2.STS = "SEQ_IDLE" => FIR2.write_out = 1)
        BY <1>10 DEF Hand2
    <2>1. FIR2_CH_CNT' = FIR2_CH_CNT /\ SMPLCNT_32k' = SMPLCNT_32k /\ FIR2'.CH_REG = FIR2.CH_REG
        BY <1>10, <1>2, <1>5 DEF ChannelCount
    <2>2. CASE FIR2.STS = "SEQ_IDLE"
        <3>1. FIR2_REQ' = "RQ_CH_END" /\ next' = Stream!After(SMPLCNT_32k', FIR2_CH_CNT')
            BY <2>0, <2>1, <2>2, <1>4, <1>5, <1>10
        <3>2. FIR2'.STS = "SEQ_IDLE" /\ FIR2'.write_out = 0
            BY <2>2, <1>2, <1>3, <1>10 DEF F2!Sequencer
        <3> QED BY <3>1, <3>2, <1>6 DEF Hand2
    <2>3. CASE FIR2.STS # "SEQ_IDLE"
        <3>1. FIR2_REQ' = "RQ_CH_BUSY" /\ next' = <<SMPLCNT_32k', FIR2_CH_CNT'>> /\ FIR2'.CH_REG = FIR2_CH_CNT'
            BY <2>0, <2>1, <2>3, <1>3, <1>4, <1>5, <1>1, <1>10
        <3>2. FIR2'.STS = "SEQ_IDLE" => FIR2'.write_out = 1
            BY <2>3, <1>1, <1>2, <1>3, <1>10 DEF F2!Sequencer, States
        <3> QED BY <3>1, <3>2, <1>6 DEF Hand2
    <2> QED BY <2>2, <2>3
<1>11. CASE FIR2_REQ = "RQ_CH_END"
    <2>0. next = Stream!After(SMPLCNT_32k, FIR2_CH_CNT) /\ FIR2.STS = "SEQ_IDLE" /\ FIR2.write_out = 0
        BY <1>11 DEF Hand2
    <2>1. next' = next /\ SMPLCNT_32k' = SMPLCNT_32k
        BY <2>0, <1>4, <1>5, <1>11
    <2>2. FIR2'.STS = "SEQ_IDLE" /\ FIR2'.write_out = 0
        BY <2>0, <1>2, <1>3, <1>11 DEF F2!Sequencer
    <2>3. CASE FIR2_CH_CNT = Channels - 1
        <3>1. FIR2_REQ' = "RQ_END" /\ next = <<(SMPLCNT_32k + 1) % Count32, 0>>
            BY <2>0, <2>3, <1>5, <1>11 DEF Stream!After
        <3> QED BY <2>1, <2>2, <3>1, <1>6 DEF Hand2
    <2>4. CASE FIR2_CH_CNT # Channels - 1
        <3>1. FIR2_CH_CNT < Channels - 1
            BY <2>4, <1>1, Constants DEF Chs
        <3>2. FIR2_REQ' = "RQ_CH_START" /\ FIR2_CH_CNT' = FIR2_CH_CNT + 1
            BY <2>4, <3>1, <1>5, <1>11 DEF ChannelCount
        <3>3. next = <<SMPLCNT_32k, FIR2_CH_CNT + 1>>
            BY <2>0, <2>4 DEF Stream!After
        <3>4. next' = <<SMPLCNT_32k', FIR2_CH_CNT'>>
            BY <2>1, <3>2, <3>3
        <3> QED BY <2>2, <3>2, <3>4, <1>6 DEF Hand2
    <2> QED BY <2>3, <2>4
<1>12. CASE FIR2_REQ = "RQ_END"
    <2>1. PICK n : n = (SMPLCNT_32k + 1) % Count32
        OBVIOUS
    <2>2. next = <<n, 0>> /\ SMPLCNT_32k' = n /\ FIR2.STS = "SEQ_IDLE" /\ FIR2.write_out = 0
        BY <2>1, <1>5, <1>12 DEF Hand2
    <2>3. FIR2_REQ' = "RQ_IDLE" /\ next' = <<SMPLCNT_32k', 0>>
        BY <2>2, <1>4, <1>5, <1>12
    <2>4. FIR2'.STS = "SEQ_IDLE" /\ FIR2'.write_out = 0
        BY <2>2, <1>2, <1>3, <1>12 DEF F2!Sequencer
    <2> QED BY <2>3, <2>4, <1>6 DEF Hand2
<1> QED BY <1>1, <1>6, <1>7, <1>8, <1>9, <1>10, <1>11, <1>12 DEF Requests

\* The second filter is at rest at first.
LEMMA Filter2Init == ASSUME Init PROVE Filter2
<1>1. FIR2 = F2!Reset /\ FIR2_REQ = "RQ_IDLE" /\ SMPLCNT_32k = 0 /\ next = <<0, 0>> /\ Running
    BY DEF Init, PDMIF!Init, Running
<1>2. Len(FIR2.ADD_RESULT) = 0
    BY <1>1, Lengths DEF F2!Reset
<1> QED BY <1>1, <1>2, Constants DEF F2!Reset, Filter2, Shape2, Sizes2, Hand2

\* A clock, with CLR or without, keeps what is known of the second filter.
LEMMA Filter2Step == ASSUME Typed, Filter2, NEW edge \in BOOLEAN, Clock(edge) PROVE Filter2'
<1>1. Calm2 /\ Shape2 /\ Sizes2
    BY Calm2Holds DEF Filter2
<1>2. Shape2' /\ Sizes2'
    BY <1>1, Shape2Step, Sizes2Step
<1>3. CASE clr_in = 0
    <2>1. Running /\ Running'
        BY <1>3, Holding
    <2>2. Hand2'
        BY <2>1, <1>1, <1>3, Hand2Step DEF Filter2
    <2> QED BY <1>2, <2>1, <2>2 DEF Filter2
<1>4. CASE clr_in = 1
    <2>1. FIR2_REQ' = "RQ_IDLE" /\ SMPLCNT_32k' = 0 /\ next' = <<0, 0>>
        BY <1>4 DEF Clock, Fir2Pass, Fir2Request
    <2>2. CASE Running'
        <3>1. ~Running /\ hold >= TAP_NUM + 4
            BY <1>4, <2>2, Holding
        <3>2. FIR2_REQ = "RQ_IDLE" /\ (Left2 + hold <= TAP_NUM + 5 \/ Left2 = 0)
            BY <3>1 DEF Filter2, Cleared2
        <3>3. Left2 \in 0..(TAP_NUM + 4) /\ Left2' = IF Left2 = 0 THEN 0 ELSE Left2 - 1
            BY <1>1, <3>2, Left2Step
        <3>4. hold \in Nat /\ TAP_NUM \in Nat
            BY Constants DEF Typed, IfTyped
        <3>5. Left2' = 0
            BY ONLY <3>1, <3>2, <3>3, <3>4
        <3>6. FIR2'.STS = "SEQ_IDLE" /\ FIR2'.write_out = 0
            <4>1. FIR2'.STS \in States /\ TAP_NUM \in Nat /\ FIR2'.CALC_CNT \in 0..(TAP_NUM - 1)
                BY TypedStep, Constants DEF Typed, Fir2Typed, Fir2Type
            <4> QED BY ONLY <3>5, <4>1 DEF Left2, States
        <3> QED BY <1>2, <2>1, <2>2, <3>6 DEF Filter2, Hand2
    <2>3. CASE ~Running'
        <3>1. Left2' + hold' <= TAP_NUM + 5 \/ Left2' = 0
            <4>0. PICK l, g : l = Left2' /\ g = hold'
                OBVIOUS
            <4>1. TAP_NUM \in Nat /\ hold \in Nat
                BY Constants DEF Typed, IfTyped
            <4>2. CASE Running
                <5>1. g = 1 /\ l \in 0..(TAP_NUM + 4)
                    BY <2>3, <4>0, <4>2, <1>1, Holding, Left2Step
                <5>2. l + g <= TAP_NUM + 5
                    BY ONLY <5>1, <4>1
                <5> QED BY <5>2, <4>0
            <4>3. CASE ~Running
                <5>1. g \in {hold, hold + 1} /\ FIR2_REQ = "RQ_IDLE"
                    BY <2>3, <4>0, <4>3, Holding DEF Filter2, Cleared2
                <5>2. Left2 \in 0..(TAP_NUM + 4) /\ l = IF Left2 = 0 THEN 0 ELSE Left2 - 1
                    BY <1>1, <4>0, <5>1, Left2Step
                <5>3. Left2 + hold <= TAP_NUM + 5 \/ Left2 = 0
                    BY <4>3 DEF Filter2, Cleared2
                <5>4. l + g <= TAP_NUM + 5 \/ l = 0
                    BY ONLY <5>1, <5>2, <5>3, <4>1
                <5> QED BY <5>4, <4>0
            <4> QED BY <4>2, <4>3
        <3> QED BY <1>2, <2>1, <2>3, <3>1 DEF Filter2, Cleared2
    <2> QED BY <2>2, <2>3
<1> QED BY <1>3, <1>4 DEF Typed, IfTyped

---------------------------------------------------------------------------
(* Types and the stream of samples. *)

\* The inductive invariant of the types and of the stream.
Inv == Typed /\ Sizes1 /\ Filter2

\* Inv is an invariant: every register keeps its range, every sum fits its window,
\* and the second sequencer (FIR2_REQ) is never ahead of the filter it starts, with
\* CLR set and released at any time HoldAssumption allows.
THEOREM Invariance == Spec => []Inv
<1>1. Init => Inv
    <2>1. ASSUME Init PROVE Sizes1
        <3>1. FIR = F!Reset
            BY <2>1 DEF Init
        <3>2. Len(FIR.RESULT) = 0
            BY <3>1, Lengths DEF F!Reset
        <3> QED BY <3>1, <3>2, Constants DEF F!Reset, Sizes1
    <2> QED BY <2>1, TypedInit, Filter2Init DEF Inv
<1>2. Inv /\ [Next]_vars => Inv'
    <2>1. ASSUME Inv, NEW edge \in BOOLEAN, Clock(edge) PROVE Inv'
        BY <2>1, TypedStep, Sizes1Step, Filter2Step DEF Inv
    <2>2. ASSUME Inv, UNCHANGED vars PROVE Inv'
        <3>1. UNCHANGED ifVars /\ UNCHANGED firVars /\ UNCHANGED bufVars /\ UNCHANGED fir2Vars /\ next' = next
            BY <2>2 DEF vars
        <3>2. Typed'
            BY <2>2, <3>1 DEF Inv, Typed, IfTyped, RingTyped, FirTyped, BufTyped, Fir2Typed,
               ifVars, firVars, bufVars, fir2Vars
        <3>3. Sizes1'
            BY <2>2, <3>1 DEF Inv, Sizes1, firVars
        <3>4. Filter2'
            <4>1. UNCHANGED <<clr_in, hold, FIR2, FIR2_REQ, FIR2_CH_CNT, SMPLCNT_32k, next>>
                BY <3>1 DEF ifVars, fir2Vars
            <4>2. (Shape2' <=> Shape2) /\ (Sizes2' <=> Sizes2) /\ (Running' <=> Running)
                BY <4>1 DEF Shape2, Sizes2, Running
            <4>3. (Hand2' <=> Hand2) /\ Left2' = Left2
                BY <4>1 DEF Hand2, Left2
            <4>4. Cleared2' <=> Cleared2
                BY <4>1, <4>3 DEF Cleared2
            <4> QED BY <2>2, <4>2, <4>3, <4>4 DEF Inv, Filter2
        <3> QED BY <3>2, <3>3, <3>4 DEF Inv
    <2> QED BY <2>1, <2>2 DEF Next
<1> QED BY <1>1, <1>2, PTL DEF Spec

\* Every register of the core stays in its range: TypeOK, for every size of the core.
THEOREM TypeCorrect == Spec => []TypeOK
<1>1. Inv => TypeOK
    BY DEF Inv, Typed, FirTyped, Fir2Typed, RingTyped, FirType, Fir2Type, Filter2, Sizes1, Sizes2, TypeOK
<1> QED BY <1>1, Invariance, PTL

\* The core refines the abstract stream: BUF32k_WR hands on sample after sample,
\* channel after channel, none left out or repeated, from 0 again after CLR.
THEOREM Implements == Spec => ImplementsStream
<1>1. Init => Stream!Init
    BY DEF Init, Stream!Init
<1>2. Inv /\ [Next]_vars => [Stream!Next]_next
    <2>1. ASSUME Inv, NEW edge \in BOOLEAN, Clock(edge) PROVE Stream!Next \/ next' = next
        <3>1. next' = IF clr_in = 1 THEN <<0, 0>>
                      ELSE IF valid THEN Stream!After(valid_sample, valid_ch) ELSE next
            BY <2>1 DEF Clock
        <3>2. clr_in = 0 /\ valid => next = <<valid_sample, valid_ch>>
            BY <2>1, Holding, Hand2Step DEF Inv, Filter2
        <3>3. clr_in \in {0, 1}
            BY <2>1 DEF Inv, Typed, IfTyped
        <3> QED BY <3>1, <3>2, <3>3 DEF Stream!Next, Stream!Deliver, Stream!Restart
    <2>2. ASSUME UNCHANGED vars PROVE next' = next
        BY <2>2 DEF vars
    <2> QED BY <2>1, <2>2 DEF Next
<1> QED BY <1>1, <1>2, Invariance, PTL DEF Spec, ImplementsStream, Stream!Spec

---------------------------------------------------------------------------
(* Time: the bits and bytes of the microphones. *)

\* The shortest half period of the PDM clock.
ShortHalf == CHOOSE h \in Halves : \A g \in Halves : h <= g
\* The system clocks of a bit, at least.
BitClocks == 2 * ShortHalf
\* The system clocks of a byte, at least.
ByteClocks == Bits * BitClocks
\* The bits of the ring.
RB == Bits * Bytes

\* What PassAssumption says of these times.
LEMMA Timing ==
    /\ ShortHalf \in Nat /\ ShortHalf > Channels + 1 /\ \A g \in Halves : ShortHalf <= g
    /\ BitClocks \in Nat /\ BitClocks = ShortHalf + ShortHalf
    /\ ByteClocks \in Nat
    /\ Channels * (Words + 6) + 3 < ByteClocks
    /\ Channels * (TAP_NUM + 6) + 6 < Step * ByteClocks
    /\ Words % Step = 0
    /\ RB \in Nat \ {0}
<1>1. /\ ShortHalf \in Halves /\ \A g \in Halves : ShortHalf <= g
      /\ Channels * (Words + 6) + 3 < 2 * Bits * ShortHalf
      /\ Channels * (TAP_NUM + 6) + 6 < Step * (2 * Bits * ShortHalf)
    <2>1. PICK h \in Halves : /\ \A g \in Halves : h <= g
                              /\ Channels * (Words + 6) + 3 < 2 * Bits * h
                              /\ Channels * (TAP_NUM + 6) + 6 < Step * (2 * Bits * h)
        BY PassAssumption
    <2>2. ShortHalf \in Halves /\ \A g \in Halves : ShortHalf <= g
        BY <2>1 DEF ShortHalf
    <2>3. ShortHalf <= h /\ h <= ShortHalf /\ h \in Nat /\ ShortHalf \in Nat
        BY <2>1, <2>2, Constants
    <2>4. h = ShortHalf
        BY <2>3
    <2> QED BY <2>1, <2>2, <2>4
<1>2. ShortHalf \in Nat /\ ShortHalf > Channels + 1
    BY <1>1, Constants
<1>3. 2 * Bits * ShortHalf = ByteClocks
    <2>1. Bits \in Nat
        BY Constants
    <2> QED BY ONLY <2>1, <1>2 DEF ByteClocks, BitClocks
<1>4. BitClocks \in Nat /\ BitClocks = ShortHalf + ShortHalf
    BY <1>2 DEF BitClocks
<1>5. ByteClocks \in Nat
    BY <1>4, Constants DEF ByteClocks
<1>6. RB \in Nat \ {0}
    <2>1. Bits * Bytes \in Nat /\ (0 < Bits => 0 * Bytes + Bytes <= Bits * Bytes)
        BY Constants, Times
    <2> QED BY <2>1, Constants DEF RB
<1>7. Words % Step = 0
    BY PassAssumption
<1> QED BY <1>1, <1>2, <1>3, <1>4, <1>5, <1>6, <1>7

\* Where the byte machine of pdm_if stands within a bit.
Sync ==
    /\ PDMBYTE_STS \in Chs => PDMBIT_STS = Bits - 1 /\ pdmclk = 1 /\ half = PDMBYTE_STS + 1
    /\ PDMBYTE_STS = Channels /\ PDMBIT_STS = Bits - 1 => pdmclk = 1 /\ half = 0
    /\ PDMBYTE_STS = Channels + 1 =>
         \/ PDMBIT_STS = Bits - 1 /\ (pdmclk = 0 \/ half >= Channels + 1)
         \/ PDMBIT_STS = 0 /\ pdmclk = 1 /\ half = 0

\* What a clock without CLR does to pdm_if.
IfMoves ==
    /\ \/ /\ half' = 0 /\ pdmclk' = 1 - pdmclk /\ half + 1 >= ShortHalf
          /\ PDMBIT_STS' = IF pdmclk # 0 THEN PDMBIT_STS
                           ELSE IF PDMBIT_STS \in {Bits, Bits - 1} THEN 0 ELSE PDMBIT_STS + 1
          /\ rises' = IF pdmclk = 0 THEN (rises + 1) % RB ELSE rises
          /\ falls' = IF pdmclk = 1 /\ PDMBIT_STS # Bits THEN (falls + 1) % RB ELSE falls
       \/ /\ half' = half + 1 /\ pdmclk' = pdmclk /\ PDMBIT_STS' = PDMBIT_STS
          /\ rises' = rises /\ falls' = falls
    /\ PDMBYTE_STS' = IF PDMBYTE_STS = Channels
                      THEN IF PDMBIT_STS = Bits - 1 THEN 0 ELSE Channels
                      ELSE IF PDMBYTE_STS = Channels + 1
                      THEN IF PDMBIT_STS # Bits - 1 THEN Channels ELSE Channels + 1
                      ELSE IF PDMBYTE_STS = Channels - 1 THEN Channels + 1 ELSE PDMBYTE_STS + 1

\* It does.
LEMMA IfMovesHolds ==
    ASSUME Typed, clr_in = 0, NEW edge \in BOOLEAN, Clock(edge) PROVE IfMoves
<1>1. \A h \in Halves : half + 1 = h => half + 1 >= ShortHalf
    BY Timing, Constants DEF Typed, IfTyped
<1>2. PDMIF!PdmClock(edge) /\ PDMIF!Shift(edge) /\ PDMIF!BitNext(edge) /\ PDMIF!ByteNext
    BY DEF Clock, PDMIF!Clock
<1>3. pdmclk \in {0, 1} /\ PDMBIT_STS \in 0..Bits /\ PDMBYTE_STS \in 0..(Channels + 1)
    BY DEF Typed, IfTyped
<1>4. PDMBYTE_STS' = IF PDMBYTE_STS = Channels
                     THEN IF PDMBIT_STS = Bits - 1 THEN 0 ELSE Channels
                     ELSE IF PDMBYTE_STS = Channels + 1
                     THEN IF PDMBIT_STS # Bits - 1 THEN Channels ELSE Channels + 1
                     ELSE IF PDMBYTE_STS = Channels - 1 THEN Channels + 1 ELSE PDMBYTE_STS + 1
    BY <1>2, <1>3, Constants DEF PDMIF!ByteNext, PDMIF!B8S_IDLE, PDMIF!B8S_WAIT
<1>5. CASE edge
    <2>1. half' = 0 /\ pdmclk' = 1 - pdmclk /\ half + 1 >= ShortHalf
        BY <1>1, <1>2, <1>5 DEF PDMIF!PdmClock
    <2>2. PDMBIT_STS' = IF pdmclk # 0 THEN PDMBIT_STS
                        ELSE IF PDMBIT_STS \in {Bits, Bits - 1} THEN 0 ELSE PDMBIT_STS + 1
        BY <1>2, <1>5 DEF PDMIF!BitNext, PDMIF!PDMCLK_RISE, PDMIF!BS_WAIT
    <2>3. /\ rises' = IF pdmclk = 0 THEN (rises + 1) % RB ELSE rises
          /\ falls' = IF pdmclk = 1 /\ PDMBIT_STS # Bits THEN (falls + 1) % RB ELSE falls
        BY <1>2, <1>5 DEF PDMIF!Shift, PDMIF!PDMCLK_RISE, PDMIF!PDMCLK_FALL, PDMIF!BS_WAIT, PDMIF!RingBits, RB
    <2> QED BY <2>1, <2>2, <2>3, <1>4 DEF IfMoves
<1>6. CASE ~edge
    <2>1. half' = half + 1 /\ pdmclk' = pdmclk
        BY <1>2, <1>6 DEF PDMIF!PdmClock
    <2>2. PDMBIT_STS' = PDMBIT_STS
        BY <1>2, <1>6 DEF PDMIF!BitNext, PDMIF!PDMCLK_RISE
    <2>3. rises' = rises /\ falls' = falls
        BY <1>2, <1>6 DEF PDMIF!Shift, PDMIF!PDMCLK_RISE, PDMIF!PDMCLK_FALL
    <2> QED BY <2>1, <2>2, <2>3, <1>4 DEF IfMoves
<1> QED BY <1>5, <1>6

\* The types of pdm_if and the constants, in one place.
IfRanges ==
    /\ pdmclk \in {0, 1} /\ half \in Nat /\ rises \in Nat /\ falls \in Nat
    /\ PDMBIT_STS \in 0..Bits /\ PDMBYTE_STS \in 0..(Channels + 1)
    /\ Channels \in Nat \ {0} /\ Bits \in Nat \ {0, 1}
    /\ ShortHalf \in Nat /\ ShortHalf > Channels + 1
    /\ BitClocks \in Nat /\ BitClocks = ShortHalf + ShortHalf

\* They hold.
LEMMA IfRangesHolds == ASSUME Typed PROVE IfRanges
BY Constants, Timing DEF Typed, IfTyped, IfRanges

\* A clock keeps the byte machine in its place within the bit.
LEMMA SyncStep == ASSUME Typed, Sync, NEW edge \in BOOLEAN, Clock(edge) PROVE Sync'
<1>1. CASE clr_in = 0
    <2>1. IfMoves /\ IfRanges
        BY <1>1, IfMovesHolds, IfRangesHolds
    <2>2. CASE PDMBYTE_STS \in Chs
        BY ONLY <2>1, <2>2, Sync DEF IfMoves, IfRanges, Sync, Chs
    <2>3. CASE PDMBYTE_STS = Channels
        BY ONLY <2>1, <2>3, Sync DEF IfMoves, IfRanges, Sync, Chs
    <2>4. CASE PDMBYTE_STS = Channels + 1
        BY ONLY <2>1, <2>4, Sync DEF IfMoves, IfRanges, Sync, Chs
    <2> QED BY <2>1, <2>2, <2>3, <2>4 DEF IfRanges, Chs
<1>2. CASE clr_in = 1
    <2>1. PDMBIT_STS' = Bits /\ PDMBYTE_STS' = Channels
        BY <1>2 DEF Clock, PDMIF!Clock, PDMIF!BitNext, PDMIF!ByteNext, PDMIF!BS_WAIT, PDMIF!B8S_IDLE
    <2> QED BY <2>1, Constants DEF Sync, Chs
<1> QED BY <1>1, <1>2 DEF Typed, IfTyped

\* Clocks since the last byte was counted, at least.
Since ==
    LET bits == IF PDMBIT_STS = Bits - 1
                THEN IF pdmclk = 1 /\ half <= Channels THEN Bits ELSE 0
                ELSE PDMBIT_STS + 1
    IN  bits * BitClocks + (IF pdmclk = 0 THEN ShortHalf ELSE 0) + half - (Channels + 1)

\* Once bits come in, some time has gone by.
LEMMA SinceNat == ASSUME Typed, Sync, PDMBIT_STS # Bits PROVE Since \in Nat
<1>1. IfRanges
    BY IfRangesHolds
<1>2. PICK k : k = IF PDMBIT_STS = Bits - 1
                   THEN IF pdmclk = 1 /\ half <= Channels THEN Bits ELSE 0
                   ELSE PDMBIT_STS + 1
    OBVIOUS
<1>3. k \in Nat
    BY ONLY <1>1, <1>2 DEF IfRanges
<1>4. PICK p \in Nat : p = k * BitClocks /\ (k # 0 => p >= BitClocks)
    <2>1. k * BitClocks \in Nat /\ (0 < k => 0 * BitClocks + BitClocks <= k * BitClocks)
        BY <1>1, <1>3, Times DEF IfRanges
    <2> QED BY <2>1, <1>1, <1>3 DEF IfRanges
<1>5. Since = p + (IF pdmclk = 0 THEN ShortHalf ELSE 0) + half - (Channels + 1)
    BY <1>2, <1>4 DEF Since
<1>6. k = 0 => pdmclk = 0 \/ half > Channels
    BY ONLY <1>1, <1>2 DEF IfRanges
<1> QED BY ONLY <1>1, <1>3, <1>4, <1>5, <1>6 DEF IfRanges

\* A byte is counted after ByteClocks clocks and not before.
LEMMA SinceStep ==
    ASSUME Typed, Sync, PDMBIT_STS # Bits, clr_in = 0, NEW edge \in BOOLEAN, Clock(edge)
    PROVE  /\ PDMBIT_STS' # Bits /\ Since' \in Int
           /\ PDMBYTE_STS = Channels - 1 => Since = ByteClocks - 1 /\ Since' = 0
           /\ PDMBYTE_STS # Channels - 1 => Since' <= Since + 1
<1>1. IfRanges /\ IfMoves
    BY IfRangesHolds, IfMovesHolds
<1>10. IfRanges
    BY <1>1
<1>0. PICK b, c, h : b = PDMBIT_STS' /\ c = pdmclk' /\ h = half'
    OBVIOUS
<1>11. \/ /\ h = 0 /\ c = 1 - pdmclk /\ half + 1 >= ShortHalf
          /\ b = IF pdmclk # 0 THEN PDMBIT_STS
                 ELSE IF PDMBIT_STS \in {Bits, Bits - 1} THEN 0 ELSE PDMBIT_STS + 1
       \/ h = half + 1 /\ c = pdmclk /\ b = PDMBIT_STS
    BY <1>0, <1>1 DEF IfMoves
<1>2. PICK k : k = IF PDMBIT_STS = Bits - 1
                   THEN IF pdmclk = 1 /\ half <= Channels THEN Bits ELSE 0
                   ELSE PDMBIT_STS + 1
    OBVIOUS
<1>3. PICK l : l = IF b = Bits - 1
                   THEN IF c = 1 /\ h <= Channels THEN Bits ELSE 0
                   ELSE b + 1
    OBVIOUS
<1>4. k \in Nat /\ b # Bits /\ b \in 0..Bits /\ c \in {0, 1} /\ h \in Nat
    BY ONLY <1>10, <1>11, <1>2, PDMBIT_STS # Bits DEF IfRanges
<1>5. l \in Nat
    BY ONLY <1>1, <1>3, <1>4 DEF IfRanges
<1>6. PICK p \in Nat, r \in Nat : p = k * BitClocks /\ r = l * BitClocks
    BY ONLY <1>1, <1>4, <1>5, Times DEF IfRanges
<1>7. Since = p + (IF pdmclk = 0 THEN ShortHalf ELSE 0) + half - (Channels + 1)
    BY <1>2, <1>6 DEF Since
<1>8. Since' = r + (IF c = 0 THEN ShortHalf ELSE 0) + h - (Channels + 1)
    BY <1>0, <1>3, <1>6 DEF Since
<1>13. Since' \in Int
    BY ONLY <1>10, <1>8, <1>6, <1>4 DEF IfRanges
<1>9. CASE PDMBYTE_STS = Channels - 1
    <2>1. k = Bits /\ half = Channels /\ pdmclk = 1
        BY ONLY <1>1, <1>2, <1>9, Sync DEF IfRanges, Sync, Chs
    <2>2. l = 0 /\ h = Channels + 1 /\ c = 1
        BY ONLY <1>11, <1>10, <1>3, <1>9, <2>1, Sync DEF IfRanges, Sync, Chs
    <2>3. p = ByteClocks /\ r = 0
        BY <1>1, <1>6, <2>1, <2>2 DEF ByteClocks, IfRanges
    <2>4. Since = p + Channels - (Channels + 1) /\ Since' = r + (Channels + 1) - (Channels + 1)
        BY <1>7, <1>8, <2>1, <2>2, <1>1 DEF IfRanges
    <2> QED BY <2>3, <2>4, <1>0, <1>1, <1>4, <1>9, <1>13 DEF IfRanges
<1>12. CASE PDMBYTE_STS # Channels - 1
    <2>0. PDMBIT_STS # Bits - 1 \/ (pdmclk = 1 /\ half < Channels) \/ pdmclk = 0 \/ (pdmclk = 1 /\ half >= Channels + 1)
        BY ONLY <1>10, <1>12, Sync DEF IfRanges, Sync, Chs
    <2>1. \/ l = k /\ c = pdmclk /\ h = half + 1
          \/ l = k /\ c = 0 /\ h = 0 /\ pdmclk = 1 /\ half + 1 >= ShortHalf
          \/ l = k + 1 /\ h = 0 /\ pdmclk = 0 /\ c = 1 /\ half + 1 >= ShortHalf
          \/ l = 0 /\ c = 0 /\ h = 0 /\ pdmclk = 1 /\ k = Bits
        <3>1. CASE PDMBIT_STS # Bits - 1
            BY ONLY <3>1, <1>11, <1>10, <1>2, <1>3, <1>4, PDMBIT_STS # Bits DEF IfRanges
        <3>2. CASE PDMBIT_STS = Bits - 1 /\ pdmclk = 0
            BY ONLY <3>2, <1>11, <1>10, <1>2, <1>3, <1>4, PDMBIT_STS # Bits DEF IfRanges
        <3>3. CASE PDMBIT_STS = Bits - 1 /\ pdmclk = 1 /\ half < Channels
            BY ONLY <3>3, <1>11, <1>10, <1>2, <1>3, <1>4, PDMBIT_STS # Bits DEF IfRanges
        <3>4. CASE PDMBIT_STS = Bits - 1 /\ pdmclk = 1 /\ half >= Channels + 1
            BY ONLY <3>4, <1>11, <1>10, <1>2, <1>3, <1>4, PDMBIT_STS # Bits DEF IfRanges
        <3> QED BY ONLY <2>0, <3>1, <3>2, <3>3, <3>4
    <2>2. l = k => r = p
        BY <1>6
    <2>3. l = k + 1 => r = p + BitClocks
        BY <1>1, <1>4, <1>6, Times DEF IfRanges
    <2>4. l = 0 /\ k = Bits => r = 0 /\ p >= BitClocks
        <3>1. 0 < k => 0 * BitClocks + BitClocks <= p
            BY <1>1, <1>4, <1>6, Times DEF IfRanges
        <3> QED BY <3>1, <1>1, <1>4, <1>6 DEF IfRanges
    <2>5. Since' <= Since + 1
        BY ONLY <1>10, <1>4, <1>6, <1>7, <1>8, <2>1, <2>2, <2>3, <2>4 DEF IfRanges
    <2> QED BY <2>5, <1>0, <1>4, <1>12, <1>13
<1> QED BY <1>9, <1>12

---------------------------------------------------------------------------
(* The bits shifted in. *)

\* The byte has been counted, the first bit of the next one has not come yet.
Counted == PDMBYTE_STS = Channels + 1 /\ PDMBIT_STS = Bits - 1
\* The rising edges of the capture when N bytes are counted.
BitsIn(N) == Bits * N + (IF Counted THEN 0 ELSE PDMBIT_STS + 1)

\* N bytes and the bits of the next one are shifted in, both phases.
Captured(N) ==
    IF PDMBIT_STS = Bits THEN rises = 0 /\ falls = 0 /\ N = 0 /\ PDMBYTE_STS = Channels
    ELSE /\ BitsIn(N) >= 1 /\ rises = BitsIn(N) % RB
         /\ falls = (IF pdmclk = 1 THEN BitsIn(N) - 1 ELSE BitsIn(N)) % RB

\* The number of bytes after a clock.
More(N) == IF PDMBYTE_STS = Channels - 1 THEN N + 1 ELSE N

\* One place on in a ring.
LEMMA ModSucc ==
    ASSUME NEW n \in Nat \ {0}, NEW x \in Nat PROVE ((x % n) + 1) % n = (x + 1) % n
<1>1. 1 \in Nat
    OBVIOUS
<1> QED BY <1>1, ModPlus

\* A rising edge brings one bit more.
LEMMA BitsInMoves ==
    ASSUME Typed, Sync, clr_in = 0, NEW N \in Nat, Captured(N),
           NEW M \in Nat, M = More(N), NEW edge \in BOOLEAN, Clock(edge)
    PROVE  /\ PDMBIT_STS' # Bits
                => BitsIn(M)' = IF PDMBIT_STS = Bits THEN 1
                                      ELSE IF pdmclk = 0 /\ pdmclk' = 1 THEN BitsIn(N) + 1 ELSE BitsIn(N)
           /\ PDMBIT_STS = Bits /\ PDMBIT_STS' # Bits => pdmclk' = 1 /\ pdmclk = 0
<1>1. IfRanges /\ IfMoves
    BY IfRangesHolds, IfMovesHolds
<1>2. IfRanges
    BY <1>1
<1>3. PICK b, c, h, y : b = PDMBIT_STS' /\ c = pdmclk' /\ h = half' /\ y = PDMBYTE_STS'
    OBVIOUS
<1>4. \/ /\ h = 0 /\ c = 1 - pdmclk /\ half + 1 >= ShortHalf
         /\ b = IF pdmclk # 0 THEN PDMBIT_STS
                ELSE IF PDMBIT_STS \in {Bits, Bits - 1} THEN 0 ELSE PDMBIT_STS + 1
      \/ h = half + 1 /\ c = pdmclk /\ b = PDMBIT_STS
    BY <1>1, <1>3 DEF IfMoves
<1>5. y = IF PDMBYTE_STS = Channels
          THEN IF PDMBIT_STS = Bits - 1 THEN 0 ELSE Channels
          ELSE IF PDMBYTE_STS = Channels + 1
          THEN IF PDMBIT_STS # Bits - 1 THEN Channels ELSE Channels + 1
          ELSE IF PDMBYTE_STS = Channels - 1 THEN Channels + 1 ELSE PDMBYTE_STS + 1
    BY <1>1, <1>3 DEF IfMoves
<1>6. PICK p \in Nat : p = Bits * N /\ Bits * (N + 1) = p + Bits
    <2>1. Bits * N = N * Bits /\ Bits * (N + 1) = (N + 1) * Bits
        BY <1>2 DEF IfRanges
    <2>2. N * Bits \in Nat /\ (N + 1) * Bits = N * Bits + Bits
        BY <1>2, Times DEF IfRanges
    <2> QED BY <2>1, <2>2
<1>7. BitsIn(N) = p + (IF PDMBYTE_STS = Channels + 1 /\ PDMBIT_STS = Bits - 1 THEN 0 ELSE PDMBIT_STS + 1)
    BY <1>6 DEF BitsIn, Counted
<1>8. PICK p2 : p2 = IF PDMBYTE_STS = Channels - 1 THEN p + Bits ELSE p
    OBVIOUS
<1>9. BitsIn(M)' = p2 + (IF y = Channels + 1 /\ b = Bits - 1 THEN 0 ELSE b + 1)
    BY <1>3, <1>6, <1>8 DEF BitsIn, Counted, More
<1>10. PDMBIT_STS = Bits => N = 0 /\ PDMBYTE_STS = Channels
    BY DEF Captured
<1>11. N = 0 => p = 0
    BY <1>2, <1>6 DEF IfRanges
<1>12. PICK v, w : v = BitsIn(N) /\ w = BitsIn(M)'
    OBVIOUS
<1>13. /\ v = p + (IF PDMBYTE_STS = Channels + 1 /\ PDMBIT_STS = Bits - 1 THEN 0 ELSE PDMBIT_STS + 1)
       /\ w = p2 + (IF y = Channels + 1 /\ b = Bits - 1 THEN 0 ELSE b + 1)
    BY <1>7, <1>9, <1>12
<1>14. b # Bits => w = IF PDMBIT_STS = Bits THEN 1 ELSE IF pdmclk = 0 /\ c = 1 THEN v + 1 ELSE v
    <2>1. CASE PDMBYTE_STS \in Chs
        BY ONLY <2>1, <1>2, <1>4, <1>5, <1>6, <1>8, <1>13, Sync DEF IfRanges, Sync, Chs
    <2>2. CASE PDMBYTE_STS = Channels /\ PDMBIT_STS = Bits
        BY ONLY <2>2, <1>2, <1>4, <1>5, <1>6, <1>8, <1>10, <1>11, <1>13 DEF IfRanges, Chs
    <2>3. CASE PDMBYTE_STS = Channels /\ PDMBIT_STS = Bits - 1
        BY ONLY <2>3, <1>2, <1>4, <1>5, <1>6, <1>8, <1>13, Sync DEF IfRanges, Sync, Chs
    <2>4. CASE PDMBYTE_STS = Channels /\ PDMBIT_STS < Bits - 1
        BY ONLY <2>4, <1>2, <1>4, <1>5, <1>6, <1>8, <1>13 DEF IfRanges
    <2>5. CASE PDMBYTE_STS = Channels + 1 /\ PDMBIT_STS = Bits - 1
        BY ONLY <2>5, <1>2, <1>4, <1>5, <1>6, <1>8, <1>13 DEF IfRanges
    <2>6. CASE PDMBYTE_STS = Channels + 1 /\ PDMBIT_STS # Bits - 1
        BY ONLY <2>6, <1>2, <1>4, <1>5, <1>6, <1>8, <1>13, Sync DEF IfRanges, Sync
    <2> QED BY <2>1, <2>2, <2>3, <2>4, <2>5, <2>6, <1>2 DEF IfRanges, Chs
<1>15. PDMBIT_STS = Bits /\ b # Bits => c = 1 /\ pdmclk = 0
    BY ONLY <1>2, <1>4 DEF IfRanges
<1> QED BY <1>3, <1>12, <1>14, <1>15

\* A clock keeps the count of the bits.
LEMMA CapturedStep ==
    ASSUME Typed, Sync, clr_in = 0, NEW N \in Nat, Captured(N),
           NEW M \in Nat, M = More(N), NEW edge \in BOOLEAN, Clock(edge)
    PROVE  Captured(M)'
<1>1. IfRanges /\ IfMoves
    BY IfRangesHolds, IfMovesHolds
<1>2. IfRanges
    BY <1>1
<1>3. PICK b, c, h, y, r, f : /\ b = PDMBIT_STS' /\ c = pdmclk' /\ h = half' /\ y = PDMBYTE_STS'
                              /\ r = rises' /\ f = falls'
    OBVIOUS
<1>4. \/ /\ c = 1 - pdmclk
         /\ b = IF pdmclk # 0 THEN PDMBIT_STS
                ELSE IF PDMBIT_STS \in {Bits, Bits - 1} THEN 0 ELSE PDMBIT_STS + 1
         /\ r = IF pdmclk = 0 THEN (rises + 1) % RB ELSE rises
         /\ f = IF pdmclk = 1 /\ PDMBIT_STS # Bits THEN (falls + 1) % RB ELSE falls
      \/ c = pdmclk /\ b = PDMBIT_STS /\ r = rises /\ f = falls
    BY <1>1, <1>3 DEF IfMoves
<1>5. CASE b = Bits
    <2>1. PDMBIT_STS = Bits
        BY ONLY <1>2, <1>4, <1>5 DEF IfRanges
    <2>2. rises = 0 /\ falls = 0 /\ N = 0 /\ PDMBYTE_STS = Channels
        BY <2>1 DEF Captured
    <2>3. r = rises /\ f = falls
        BY ONLY <1>2, <1>4, <1>5, <2>1 DEF IfRanges
    <2>4. M = 0 /\ y = Channels
        <3>1. PDMBYTE_STS' = Channels
            BY <1>1, <2>1, <2>2, <1>2 DEF IfMoves, IfRanges
        <3> QED BY <3>1, <1>3, <2>2, <1>2 DEF More, IfRanges
    <2> QED BY <1>3, <1>5, <2>2, <2>3, <2>4 DEF Captured
<1>6. CASE b # Bits
    <2>1. PICK v, w : v = BitsIn(N) /\ w = BitsIn(M)'
        OBVIOUS
    <2>2. /\ w = IF PDMBIT_STS = Bits THEN 1 ELSE IF pdmclk = 0 /\ c = 1 THEN v + 1 ELSE v
          /\ PDMBIT_STS = Bits => c = 1 /\ pdmclk = 0
        BY <2>1, <1>3, <1>6, BitsInMoves
    <2>3. v \in Nat
        BY <1>2, <2>1 DEF BitsIn, IfRanges
    <2>4. IF PDMBIT_STS = Bits THEN rises = 0 /\ falls = 0
          ELSE /\ v >= 1 /\ rises = v % RB
               /\ falls = (IF pdmclk = 1 THEN v - 1 ELSE v) % RB
        BY <2>1 DEF Captured
    <2>5. RB \in Nat \ {0}
        BY Timing
    <2>6. w >= 1 /\ r = w % RB /\ f = (IF c = 1 THEN w - 1 ELSE w) % RB
        <3>1. CASE PDMBIT_STS = Bits
            <4>1. r = (0 + 1) % RB /\ f = 0 /\ w = 1 /\ c = 1
                BY ONLY <3>1, <1>2, <1>4, <2>2, <2>4 DEF IfRanges
            <4>2. 0 % RB = 0
                BY <2>5, DivUnique
            <4> QED BY <4>1, <4>2
        <3>2. CASE PDMBIT_STS # Bits /\ pdmclk = 0 /\ c = 1
            <4>1. w = v + 1 /\ r = (rises + 1) % RB /\ f = falls /\ rises = v % RB /\ falls = v % RB
                BY ONLY <3>2, <1>2, <1>4, <2>2, <2>4 DEF IfRanges
            <4>2. ((v % RB) + 1) % RB = (v + 1) % RB
                BY ONLY <2>3, <2>5, ModSucc
            <4>3. w - 1 = v /\ w >= 1
                BY <4>1, <2>3
            <4> QED BY <4>1, <4>2, <4>3, <3>2
        <3>3. CASE PDMBIT_STS # Bits /\ pdmclk = 1 /\ c = 0
            <4>1. w = v /\ r = rises /\ f = (falls + 1) % RB /\ rises = v % RB /\ falls = (v - 1) % RB /\ v >= 1
                BY ONLY <3>3, <1>2, <1>4, <2>2, <2>4 DEF IfRanges
            <4>2. v - 1 \in Nat /\ (v - 1) + 1 = v
                BY <4>1, <2>3
            <4>3. (((v - 1) % RB) + 1) % RB = ((v - 1) + 1) % RB
                BY ONLY <4>2, <2>5, ModSucc
            <4> QED BY <4>1, <4>2, <4>3, <3>3
        <3>4. CASE PDMBIT_STS # Bits /\ pdmclk = c
            <4>1. w = v /\ r = rises /\ f = falls /\ v >= 1 
                BY ONLY <3>4, <1>2, <1>4, <2>2, <2>4 DEF IfRanges
            <4> QED BY <4>1, <3>4, <2>4
        <3> QED BY ONLY <3>1, <3>2, <3>3, <3>4, <1>2, <1>4 DEF IfRanges
    <2> QED BY <1>3, <1>6, <2>1, <2>6 DEF Captured
<1> QED BY <1>5, <1>6

\* bytes wraps where the bits do.
LEMMA Rounds ==
    ASSUME NEW N \in Nat
    PROVE  \E z \in Nat : Bits * (N + 1) = Bits * ((N % ByteWrap) + 1) + z * RB
<1>1. PICK d \in Nat, r \in 0..(ByteWrap - 1) : N = d * ByteWrap + r /\ r = N % ByteWrap
    BY Constants, DivMod
<1>2. PICK k \in Nat : ByteWrap = k * Bytes
    <2>1. ByteWrap % Bytes = 0 /\ ByteWrap \in Nat \ {0} /\ Bytes \in Nat \ {0}
        BY Constants, PdmCoreAssumption DEF ByteWrap
    <2>2. PICK k \in Nat, e \in 0..(Bytes - 1) : ByteWrap = k * Bytes + e /\ e = ByteWrap % Bytes
        BY <2>1, DivMod
    <2>3. k * Bytes \in Nat
        BY <2>1
    <2> QED BY <2>1, <2>2, <2>3
<1>3. Bits \in Nat /\ Bytes \in Nat /\ ByteWrap \in Nat
    BY Constants
<1>4. d * ByteWrap = (d * k) * Bytes /\ d * k \in Nat
    <2>1. d * (k * Bytes) = (d * k) * Bytes
        BY ONLY <1>1, <1>2, <1>3
    <2> QED BY <2>1, <1>2
<1>5. PICK z \in Nat : z = d * k
    BY <1>4
<1>6. r \in Nat /\ N = z * Bytes + r
    BY <1>1, <1>4, <1>5, <1>3
<1>7. Bits * ((z * Bytes + r) + 1) = Bits * (r + 1) + z * (Bits * Bytes)
    BY ONLY <1>3, <1>6
<1> QED BY <1>1, <1>6, <1>7 DEF RB

\* The shift register of the channel that is written holds byte N, complete.
LEMMA ByteWritten ==
    ASSUME Typed, Sync, NEW N \in Nat, Captured(N), bytes = N % ByteWrap, PDMBYTE_STS \in Chs
    PROVE  ByteIn(PDMBYTE_STS) = N % ByteWrap
<1>1. PDMBIT_STS = Bits - 1 /\ pdmclk = 1
    BY DEF Sync
<1>2. Bits \in Nat \ {0, 1} /\ Channels \in Nat
    BY Constants
<1>3. PICK U \in Nat : U = Bits * (N + 1) /\ BitsIn(N) = U
    <2>1. Bits * N = N * Bits /\ Bits * (N + 1) = (N + 1) * Bits
        BY <1>2
    <2>2. N * Bits \in Nat /\ (N + 1) * Bits = N * Bits + Bits
        BY <1>2, Times
    <2>3. ~Counted
        BY <1>2 DEF Counted, Chs
    <2>4. BitsIn(N) = Bits * N + Bits
        BY <2>3, <1>1, <1>2 DEF BitsIn
    <2>5. PICK p \in Nat : p = N * Bits
        BY <2>2
    <2>6. Bits * (N + 1) = p + Bits /\ BitsIn(N) = p + Bits /\ p + Bits \in Nat
        BY <2>1, <2>2, <2>4, <2>5, <1>2
    <2> QED BY <2>6
<1>4. U >= 1 /\ rises = U % RB /\ falls = (U - 1) % RB
    BY <1>1, <1>2, <1>3 DEF Captured
<1>5. PICK u \in Nat : u = Bits * (bytes + 1) /\ u >= 1
    <2>1. bytes \in Nat
        BY Constants DEF Typed, RingTyped
    <2>2. Bits * (bytes + 1) = (bytes + 1) * Bits /\ (bytes + 1) * Bits = bytes * Bits + Bits /\ bytes * Bits \in Nat
        BY <1>2, <2>1, Times
    <2> QED BY <2>2, <1>2
<1>6. PICK z \in Nat : U = u + z * RB
    BY <1>3, <1>5, Rounds
<1>7. RB \in Nat \ {0}
    BY Timing
<1>8. U % RB = u % RB
    BY <1>6, <1>7, ModRounds
<1>9. (U - 1) % RB = (u - 1) % RB
    <2>1. u - 1 \in Nat /\ z \in Nat
        BY <1>5
    <2>2. ((u - 1) + z * RB) % RB = (u - 1) % RB
        BY ONLY <2>1, <1>7, ModRounds
    <2>3. PICK x \in Nat : x = z * RB
        BY <1>7
    <2> QED BY <2>2, <2>3, <1>5, <1>6
<1>10. PICK ri, fa : ri = u % RB /\ fa = (u - 1) % RB
    OBVIOUS
<1> QED BY <1>4, <1>5, <1>8, <1>9, <1>10 DEF ByteIn, RB

---------------------------------------------------------------------------
(* The first sequencer and its filter. *)

\* The clocks the first filter still needs.
Left1 == CASE FIR.STS = "SEQ_START" -> Words + 5
           [] FIR.STS = "SEQ_CALC" -> Words - FIR.CALC_CNT + 4
           [] FIR.STS = "SEQ_END0" -> 4
           [] FIR.STS = "SEQ_END1" -> 3
           [] FIR.STS = "SEQ_IDLE" -> IF FIR.valid_out = 1 THEN 2 ELSE BUF64k_WR

\* SUMTIM follows the states of the first filter.
Shape1 ==
    /\ FIR.STS \in {"SEQ_IDLE", "SEQ_START"} => FIR.SUMTIM = <<0, 0>>
    /\ FIR.STS = "SEQ_CALC" => FIR.SUMTIM = <<Bit(FIR.CALC_CNT >= 1), Bit(FIR.CALC_CNT >= 2)>>
    /\ FIR.STS = "SEQ_END0" => FIR.SUMTIM = <<1, Bit(Words >= 2)>>
    /\ FIR.STS = "SEQ_END1" => FIR.SUMTIM = <<0, 1>>
    /\ FIR.STS # "SEQ_IDLE" => FIR.valid_out = 0

\* A start comes only to a filter at rest.
Calm1 == FIR_REQ = "RQ_CH_START" => FIR.STS = "SEQ_IDLE"

\* While the core runs the first sequencer waits for its filter, and a sum is stored
\* in the one clock of RQ_CH_END.
Hand1 ==
    /\ FIR_REQ \notin {"RQ_CH_BUSY", "RQ_CH_END"} =>
            FIR.STS = "SEQ_IDLE" /\ FIR.valid_out = 0 /\ BUF64k_WR = 0
    /\ FIR_REQ = "RQ_CH_BUSY" => BUF64k_WR = 0 /\ (FIR.STS = "SEQ_IDLE" => FIR.valid_out = 1)
    /\ FIR_REQ = "RQ_CH_END" => FIR.STS = "SEQ_IDLE" /\ FIR.valid_out = 0 /\ BUF64k_WR = 1
    /\ FIR_REQ = "RQ_START" => FIR_CH_CNT = 0

\* Under CLR the first sequencer, pdm_if and the counters are at their start.
Cleared1 ==
    /\ Left1 + hold <= Words + 6 \/ Left1 = 0
    /\ FIR_REQ = "RQ_IDLE" /\ SMPLCNT_64k = 0 /\ bytes = 0
    /\ PDM_BYTE_CNT = 0 /\ BUFFER_FILL = 0 /\ BUF64k_FILLED = 0 /\ BUF64_RDY = <<0, 0>>
    /\ PDMBIT_STS = Bits /\ PDMBYTE_STS = Channels /\ rises = 0 /\ falls = 0

\* What is known of the first sequencer and filter.
Filter1 == Shape1 /\ (Running => Hand1) /\ (~Running => Cleared1)

\* The bits of SUMTIM before and after a clock.
LEMMA Fir1Moves ==
    ASSUME Typed, Shape1, NEW edge \in BOOLEAN, Clock(edge)
    PROVE  \E d1 \in {0, 1}, d2 \in {0, 1}, e1 \in {0, 1}, e2 \in {0, 1} :
              /\ FIR.SUMTIM = <<d1, d2>> /\ FIR'.SUMTIM = <<e1, e2>>
              /\ e1 = (IF FIR.STS = "SEQ_CALC" THEN 1 ELSE 0) /\ e2 = d1
<1>1. PICK d1 \in {0, 1}, d2 \in {0, 1} : FIR.SUMTIM = <<d1, d2>>
    BY DEF Typed, FirTyped, FirType
<1> QED BY FirFields, <1>1

\* A clock keeps SUMTIM in step with the states.
LEMMA Shape1Step == ASSUME Typed, Shape1, Calm1, NEW edge \in BOOLEAN, Clock(edge) PROVE Shape1'
<1>1. PICK d1 \in {0, 1}, d2 \in {0, 1}, e1 \in {0, 1}, e2 \in {0, 1} :
              /\ FIR.SUMTIM = <<d1, d2>> /\ FIR'.SUMTIM = <<e1, e2>>
              /\ e1 = (IF FIR.STS = "SEQ_CALC" THEN 1 ELSE 0) /\ e2 = d1
    BY Fir1Moves
<1>2. /\ FIR.STS \in States /\ FIR.CALC_CNT \in 0..Words /\ FIR.valid_out \in {0, 1}
      /\ FIR.STS = "SEQ_CALC" => FIR.CALC_CNT < Words
    BY DEF Typed, FirTyped, FirType
<1>3. Words \in Nat \ {0}
    BY Constants
<1>4. PICK s, k, v : s = FIR'.STS /\ k = FIR'.CALC_CNT /\ v = FIR'.valid_out
    OBVIOUS
<1>5. /\ k = IF FIR.STS = "SEQ_START" THEN 0
             ELSE IF FIR.STS = "SEQ_CALC" THEN FIR.CALC_CNT + 1 ELSE FIR.CALC_CNT
      /\ s = F!Sequencer(FIR, FIR_REQ = "RQ_CH_START")
      /\ v = IF FIR.STS = "SEQ_END1" THEN 1 ELSE 0
    BY FirFields, <1>4
<1>6. /\ FIR.STS \in {"SEQ_IDLE", "SEQ_START"} => d1 = 0 /\ d2 = 0
      /\ FIR.STS = "SEQ_CALC" => d1 = Bit(FIR.CALC_CNT >= 1) /\ d2 = Bit(FIR.CALC_CNT >= 2)
      /\ FIR.STS = "SEQ_END0" => d1 = 1 /\ d2 = Bit(Words >= 2)
      /\ FIR.STS = "SEQ_END1" => d1 = 0 /\ d2 = 1
    BY <1>1 DEF Shape1
<1>7. e1 = (IF FIR.STS = "SEQ_CALC" THEN 1 ELSE 0) /\ e2 = d1
    BY <1>1
<1>8. FIR_REQ = "RQ_CH_START" => FIR.STS = "SEQ_IDLE"
    BY DEF Calm1
<1>9. /\ s \in {"SEQ_IDLE", "SEQ_START"} => e1 = 0 /\ e2 = 0
      /\ s = "SEQ_CALC" => e1 = Bit(k >= 1) /\ e2 = Bit(k >= 2)
      /\ s = "SEQ_END0" => e1 = 1 /\ e2 = Bit(Words >= 2)
      /\ s = "SEQ_END1" => e1 = 0 /\ e2 = 1
      /\ s # "SEQ_IDLE" => v = 0
    <2>1. CASE FIR.STS = "SEQ_IDLE"
        BY ONLY <2>1, <1>2, <1>3, <1>5, <1>6, <1>7 DEF F!Sequencer, Bit
    <2>2. CASE FIR.STS = "SEQ_START"
        BY ONLY <2>2, <1>2, <1>3, <1>5, <1>6, <1>7, <1>8 DEF F!Sequencer, Bit
    <2>3. CASE FIR.STS = "SEQ_CALC"
        BY ONLY <2>3, <1>2, <1>3, <1>5, <1>6, <1>7 DEF F!Sequencer, Bit
    <2>4. CASE FIR.STS = "SEQ_END0"
        BY ONLY <2>4, <1>2, <1>3, <1>5, <1>6, <1>7 DEF F!Sequencer, Bit
    <2>5. CASE FIR.STS = "SEQ_END1"
        BY ONLY <2>5, <1>2, <1>3, <1>5, <1>6, <1>7 DEF F!Sequencer, Bit
    <2> QED BY ONLY <2>1, <2>2, <2>3, <2>4, <2>5, <1>2 DEF States
<1> QED BY <1>1, <1>4, <1>9 DEF Shape1

\* With every clock the first filter needs one clock less.
LEMMA Left1Step ==
    ASSUME Typed, Shape1, Calm1, NEW edge \in BOOLEAN, Clock(edge)
    PROVE  /\ Left1 \in 0..(Words + 5) /\ Left1' \in 0..(Words + 5)
           /\ FIR_REQ # "RQ_CH_START" => Left1' = IF Left1 = 0 THEN 0 ELSE Left1 - 1
<1>2. /\ FIR.STS \in States /\ FIR.CALC_CNT \in 0..Words /\ FIR.valid_out \in {0, 1}
      /\ FIR.STS = "SEQ_CALC" => FIR.CALC_CNT < Words
      /\ BUF64k_WR \in {0, 1}
    BY DEF Typed, FirTyped, FirType, BufTyped
<1>3. Words \in Nat \ {0}
    BY Constants
<1>4. PICK s, k, v, w, l : s = FIR'.STS /\ k = FIR'.CALC_CNT /\ v = FIR'.valid_out /\ w = BUF64k_WR' /\ l = Left1'
    OBVIOUS
<1>5. /\ k = IF FIR.STS = "SEQ_START" THEN 0
             ELSE IF FIR.STS = "SEQ_CALC" THEN FIR.CALC_CNT + 1 ELSE FIR.CALC_CNT
      /\ s = F!Sequencer(FIR, FIR_REQ = "RQ_CH_START")
      /\ v = IF FIR.STS = "SEQ_END1" THEN 1 ELSE 0
      /\ w = FIR.valid_out
    BY FirFields, <1>4 DEF Clock, Store64
<1>6. l = CASE s = "SEQ_START" -> Words + 5
            [] s = "SEQ_CALC" -> Words - k + 4
            [] s = "SEQ_END0" -> 4
            [] s = "SEQ_END1" -> 3
            [] s = "SEQ_IDLE" -> IF v = 1 THEN 2 ELSE w
    BY <1>4 DEF Left1
<1>7. FIR.STS # "SEQ_IDLE" => FIR.valid_out = 0
    BY DEF Shape1
<1>8. FIR_REQ = "RQ_CH_START" => FIR.STS = "SEQ_IDLE"
    BY DEF Calm1
<1>9. Left1 \in 0..(Words + 5)
    BY ONLY <1>2, <1>3 DEF Left1, States
<1>10. l \in 0..(Words + 5) /\ (FIR_REQ # "RQ_CH_START" => l = IF Left1 = 0 THEN 0 ELSE Left1 - 1)
    <2>1. CASE FIR.STS = "SEQ_IDLE"
        <3>1. v = 0 /\ Left1 = IF FIR.valid_out = 1 THEN 2 ELSE BUF64k_WR
            BY ONLY <2>1, <1>5 DEF Left1
        <3>2. s = IF FIR_REQ = "RQ_CH_START" THEN "SEQ_START" ELSE "SEQ_IDLE"
            BY ONLY <2>1, <1>5 DEF F!Sequencer
        <3>3. l = IF FIR_REQ = "RQ_CH_START" THEN Words + 5 ELSE FIR.valid_out
            BY ONLY <3>1, <3>2, <1>5, <1>6
        <3> QED BY ONLY <3>1, <3>3, <1>2, <1>3
    <2>2. CASE FIR.STS = "SEQ_START"
        <3>1. k = 0 /\ s = "SEQ_CALC" /\ Left1 = Words + 5
            BY ONLY <2>2, <1>5, <1>8 DEF F!Sequencer, Left1
        <3>2. l = Words - 0 + 4
            BY ONLY <3>1, <1>6
        <3> QED BY ONLY <3>1, <3>2, <1>3
    <2>3. CASE FIR.STS = "SEQ_CALC"
        <3>1. k = FIR.CALC_CNT + 1 /\ Left1 = Words - FIR.CALC_CNT + 4
            BY ONLY <2>3, <1>5 DEF Left1
        <3>2. s = IF FIR.CALC_CNT = Words - 1 THEN "SEQ_END0" ELSE "SEQ_CALC"
            BY ONLY <2>3, <1>5 DEF F!Sequencer
        <3>3. l = IF FIR.CALC_CNT = Words - 1 THEN 4 ELSE Words - k + 4
            BY ONLY <3>2, <1>6
        <3> QED BY ONLY <2>3, <3>1, <3>3, <1>2, <1>3
    <2>4. CASE FIR.STS = "SEQ_END0"
        BY ONLY <2>4, <1>2, <1>3, <1>5, <1>6, <1>7 DEF F!Sequencer, Left1
    <2>5. CASE FIR.STS = "SEQ_END1"
        BY ONLY <2>5, <1>2, <1>3, <1>5, <1>6, <1>7 DEF F!Sequencer, Left1
    <2> QED BY ONLY <2>1, <2>2, <2>3, <2>4, <2>5, <1>2 DEF States
<1> QED BY <1>4, <1>9, <1>10

\* What a clock without CLR does to the first sequencer.
LEMMA FirRequestMoves ==
    ASSUME Typed, clr_in = 0, NEW edge \in BOOLEAN, Clock(edge)
    PROVE  /\ FIR_REQ' = CASE FIR_REQ = "RQ_IDLE" ->
                                IF BUFFER_FILL = 1 /\ PDM_BYTE_CNT % Step = 0 THEN "RQ_START" ELSE "RQ_IDLE"
                           [] FIR_REQ = "RQ_START" -> "RQ_CH_START"
                           [] FIR_REQ = "RQ_CH_START" -> "RQ_CH_BUSY"
                           [] FIR_REQ = "RQ_CH_BUSY" -> IF FIR.STS # "SEQ_IDLE" THEN "RQ_CH_BUSY" ELSE "RQ_CH_END"
                           [] FIR_REQ = "RQ_CH_END" ->
                                IF FIR_CH_CNT = Channels - 1 THEN "RQ_WAIT" ELSE "RQ_CH_START"
                           [] FIR_REQ = "RQ_WAIT" ->
                                IF PDM_BYTE_CNT % Step # 0 THEN "RQ_END" ELSE "RQ_WAIT"
                           [] FIR_REQ = "RQ_END" -> "RQ_IDLE"
           /\ FIR_CH_CNT' = ChannelCount(FIR_CH_CNT, FIR_REQ)
           /\ FIR_REQ \in Requests \cup {"RQ_WAIT"}
           /\ BUF64k_WR' = FIR.valid_out
BY DEF Clock, FirPass, FirRequest, F!busy, Typed, FirTyped, Store64

\* While the core runs, sequencer and filter stay in step.
LEMMA Hand1Step ==
    ASSUME Typed, Shape1, Hand1, clr_in = 0, NEW edge \in BOOLEAN, Clock(edge)
    PROVE  Hand1'
<1>1. FIR.STS \in States /\ FIR.valid_out \in {0, 1} /\ FIR_CH_CNT \in Chs
    BY DEF Typed, FirTyped, FirType
<1>2. PICK s, v, w : s = FIR'.STS /\ v = FIR'.valid_out /\ w = BUF64k_WR'
    OBVIOUS
<1>3. /\ s = F!Sequencer(FIR, FIR_REQ = "RQ_CH_START")
      /\ v = IF FIR.STS = "SEQ_END1" THEN 1 ELSE 0
      /\ w = FIR.valid_out
    BY <1>2, FirFields, FirRequestMoves
<1>4. FIR.STS # "SEQ_IDLE" => FIR.valid_out = 0
    BY DEF Shape1
<1>5. CASE FIR_REQ = "RQ_IDLE"
    <2>1. FIR_REQ' \in {"RQ_IDLE", "RQ_START"} /\ FIR_CH_CNT' = 0
        BY <1>5, FirRequestMoves DEF ChannelCount
    <2>2. s = "SEQ_IDLE" /\ v = 0 /\ w = 0
        BY <1>5, <1>3 DEF Hand1, F!Sequencer
    <2> QED BY <2>1, <2>2, <1>2 DEF Hand1
<1>6. CASE FIR_REQ \in {"RQ_START", "RQ_WAIT", "RQ_END"}
    <2>1. FIR_REQ' \in {"RQ_CH_START", "RQ_WAIT", "RQ_END", "RQ_IDLE"}
        BY <1>6, FirRequestMoves
    <2>2. s = "SEQ_IDLE" /\ v = 0 /\ w = 0
        BY <1>6, <1>3 DEF Hand1, F!Sequencer
    <2> QED BY <2>1, <2>2, <1>2 DEF Hand1
<1>7. CASE FIR_REQ = "RQ_CH_START"
    <2>1. FIR_REQ' = "RQ_CH_BUSY"
        BY <1>7, FirRequestMoves
    <2>2. s = "SEQ_START" /\ w = 0
        BY <1>7, <1>3 DEF Hand1, F!Sequencer
    <2> QED BY <2>1, <2>2, <1>2 DEF Hand1
<1>8. CASE FIR_REQ = "RQ_CH_BUSY"
    <2>1. CASE FIR.STS = "SEQ_IDLE"
        <3>1. FIR_REQ' = "RQ_CH_END"
            BY <1>8, <2>1, FirRequestMoves
        <3>2. s = "SEQ_IDLE" /\ v = 0 /\ w = 1
            BY <1>8, <2>1, <1>3 DEF Hand1, F!Sequencer
        <3> QED BY <3>1, <3>2, <1>2 DEF Hand1
    <2>2. CASE FIR.STS # "SEQ_IDLE"
        <3>1. FIR_REQ' = "RQ_CH_BUSY"
            BY <1>8, <2>2, FirRequestMoves
        <3>2. w = 0 /\ (s = "SEQ_IDLE" => v = 1)
            BY <1>8, <2>2, <1>1, <1>3, <1>4 DEF F!Sequencer, States
        <3> QED BY <3>1, <3>2, <1>2 DEF Hand1
    <2> QED BY <2>1, <2>2
<1>9. CASE FIR_REQ = "RQ_CH_END"
    <2>1. FIR_REQ' \in {"RQ_WAIT", "RQ_CH_START"}
        BY <1>9, FirRequestMoves
    <2>2. s = "SEQ_IDLE" /\ v = 0 /\ w = 0
        BY <1>9, <1>3 DEF Hand1, F!Sequencer
    <2> QED BY <2>1, <2>2, <1>2 DEF Hand1
<1> QED BY <1>5, <1>6, <1>7, <1>8, <1>9, FirRequestMoves DEF Requests

\* The first filter is at rest at first.
LEMMA Filter1Init == ASSUME Init PROVE Filter1
<1>1. FIR = F!Reset /\ FIR_REQ = "RQ_IDLE" /\ BUF64k_WR = 0 /\ Running
    BY DEF Init, PDMIF!Init, Running
<1> QED BY <1>1, Constants DEF F!Reset, Filter1, Shape1, Hand1

\* CLR puts the counters and pdm_if back to their start.
LEMMA Reset ==
    ASSUME clr_in = 1, NEW edge \in BOOLEAN, Clock(edge)
    PROVE  /\ FIR_REQ' = "RQ_IDLE" /\ SMPLCNT_64k' = 0 /\ bytes' = 0
           /\ PDM_BYTE_CNT' = 0 /\ BUFFER_FILL' = 0 /\ BUF64k_FILLED' = 0 /\ BUF64_RDY' = <<0, 0>>
           /\ PDMBIT_STS' = Bits /\ PDMBYTE_STS' = Channels /\ rises' = 0 /\ falls' = 0
<1>1. PDMBIT_STS' = Bits /\ PDMBYTE_STS' = Channels /\ rises' = 0 /\ falls' = 0 /\ PDM_BYTE_CNT' = 0 /\ BUFFER_FILL' = 0
    BY DEF Clock, PDMIF!Clock, PDMIF!Shift, PDMIF!BitNext, PDMIF!ByteNext, PDMIF!CountNext,
       PDMIF!BS_WAIT, PDMIF!B8S_IDLE
<1>2. FIR_REQ' = "RQ_IDLE" /\ SMPLCNT_64k' = 0 /\ bytes' = 0
    BY DEF Clock, FirPass, FirRequest, WriteBytes
<1>3. BUF64k_FILLED' = 0 /\ BUF64_RDY' = <<0, 0>>
    BY DEF Clock, Ready
<1> QED BY <1>1, <1>2, <1>3

\* A clock, with CLR or without, keeps what is known of the first filter.
LEMMA Filter1Step == ASSUME Typed, Filter1, NEW edge \in BOOLEAN, Clock(edge) PROVE Filter1'
<1>1. Calm1 /\ Shape1
    BY DEF Filter1, Hand1, Cleared1, Calm1
<1>2. Shape1'
    BY <1>1, Shape1Step
<1>3. CASE clr_in = 0
    <2>1. Running /\ Running'
        BY <1>3, Holding
    <2>2. Hand1'
        BY <2>1, <1>1, <1>3, Hand1Step DEF Filter1
    <2> QED BY <1>2, <2>1, <2>2 DEF Filter1
<1>4. CASE clr_in = 1
    <2>1. FIR_REQ' = "RQ_IDLE"
        BY <1>4, Reset
    <2>2. CASE Running'
        <3>1. ~Running /\ hold >= Words + 5
            BY <1>4, <2>2, Holding
        <3>2. FIR_REQ = "RQ_IDLE" /\ (Left1 + hold <= Words + 6 \/ Left1 = 0)
            BY <3>1 DEF Filter1, Cleared1
        <3>3. Left1 \in 0..(Words + 5) /\ Left1' = IF Left1 = 0 THEN 0 ELSE Left1 - 1
            BY <1>1, <3>2, Left1Step
        <3>4. hold \in Nat /\ Words \in Nat
            BY Constants DEF Typed, IfTyped
        <3>5. Left1' = 0
            BY ONLY <3>1, <3>2, <3>3, <3>4
        <3>6. FIR'.STS = "SEQ_IDLE" /\ FIR'.valid_out = 0 /\ BUF64k_WR' = 0
            <4>1. /\ FIR'.STS \in States /\ Words \in Nat /\ FIR'.CALC_CNT \in 0..Words /\ FIR'.valid_out \in {0, 1}
                  /\ FIR'.STS = "SEQ_CALC" => FIR'.CALC_CNT < Words
                BY TypedStep, Constants DEF Typed, FirTyped, FirType
            <4> QED BY ONLY <3>5, <4>1 DEF Left1, States
        <3> QED BY <1>2, <2>1, <2>2, <3>6 DEF Filter1, Hand1
    <2>3. CASE ~Running'
        <3>1. Left1' + hold' <= Words + 6 \/ Left1' = 0
            <4>0. PICK l, g : l = Left1' /\ g = hold'
                OBVIOUS
            <4>1. Words \in Nat /\ hold \in Nat
                BY Constants DEF Typed, IfTyped
            <4>2. CASE Running
                <5>1. g = 1 /\ l \in 0..(Words + 5)
                    BY <2>3, <4>0, <4>2, <1>1, Holding, Left1Step
                <5>2. l + g <= Words + 6
                    BY ONLY <5>1, <4>1
                <5> QED BY <5>2, <4>0
            <4>3. CASE ~Running
                <5>1. g \in {hold, hold + 1} /\ FIR_REQ = "RQ_IDLE"
                    BY <2>3, <4>0, <4>3, Holding DEF Filter1, Cleared1
                <5>2. Left1 \in 0..(Words + 5) /\ l = IF Left1 = 0 THEN 0 ELSE Left1 - 1
                    BY <1>1, <4>0, <5>1, Left1Step
                <5>3. Left1 + hold <= Words + 6 \/ Left1 = 0
                    BY <4>3 DEF Filter1, Cleared1
                <5>4. l + g <= Words + 6 \/ l = 0
                    BY ONLY <5>1, <5>2, <5>3, <4>1
                <5> QED BY <5>4, <4>0
            <4> QED BY <4>2, <4>3
        <3> QED BY <1>2, <1>4, <2>3, <3>1, Reset DEF Filter1, Cleared1
    <2> QED BY <2>2, <2>3
<1> QED BY <1>3, <1>4 DEF Typed, IfTyped

---------------------------------------------------------------------------
(* The clocks of a pass of the first filter. *)

\* The first filter goes through the channels.
Pass == {"RQ_START", "RQ_CH_START", "RQ_CH_BUSY", "RQ_CH_END"}

\* Clocks since the start of the filter's calculation.
Stage1 == CASE FIR.STS = "SEQ_START" -> 0
            [] FIR.STS = "SEQ_CALC" -> FIR.CALC_CNT + 1
            [] FIR.STS = "SEQ_END0" -> Words + 1
            [] FIR.STS = "SEQ_END1" -> Words + 2
            [] FIR.STS = "SEQ_IDLE" -> Words + 3

\* Clocks since the pass was asked for.
Gone1 == CASE FIR_REQ = "RQ_START" -> 1
           [] FIR_REQ = "RQ_CH_START" -> 2 + FIR_CH_CNT * (Words + 6)
           [] FIR_REQ = "RQ_CH_BUSY" -> 3 + FIR_CH_CNT * (Words + 6) + Stage1
           [] FIR_REQ = "RQ_CH_END" -> 1 + (FIR_CH_CNT + 1) * (Words + 6)

\* The stage follows the clock.
LEMMA Stage1Step ==
    ASSUME Typed, NEW edge \in BOOLEAN, Clock(edge)
    PROVE  /\ Stage1 \in 0..(Words + 3)
           /\ FIR.STS = "SEQ_IDLE" <=> Stage1 = Words + 3
           /\ FIR_REQ = "RQ_CH_START" /\ FIR.STS = "SEQ_IDLE" => Stage1' = 0
           /\ FIR_REQ = "RQ_CH_BUSY" /\ FIR.STS # "SEQ_IDLE" => Stage1' = Stage1 + 1
<1>1. /\ FIR.STS \in States /\ FIR.CALC_CNT \in 0..Words
      /\ FIR.STS = "SEQ_CALC" => FIR.CALC_CNT < Words
    BY DEF Typed, FirTyped, FirType
<1>2. Words \in Nat \ {0}
    BY Constants
<1>3. PICK s, k, t : s = FIR'.STS /\ k = FIR'.CALC_CNT /\ t = Stage1'
    OBVIOUS
<1>4. /\ k = IF FIR.STS = "SEQ_START" THEN 0
             ELSE IF FIR.STS = "SEQ_CALC" THEN FIR.CALC_CNT + 1 ELSE FIR.CALC_CNT
      /\ s = F!Sequencer(FIR, FIR_REQ = "RQ_CH_START")
    BY FirFields, <1>3
<1>5. t = CASE s = "SEQ_START" -> 0
            [] s = "SEQ_CALC" -> k + 1
            [] s = "SEQ_END0" -> Words + 1
            [] s = "SEQ_END1" -> Words + 2
            [] s = "SEQ_IDLE" -> Words + 3
    BY <1>3 DEF Stage1
<1>6. Stage1 \in 0..(Words + 3) /\ (FIR.STS = "SEQ_IDLE" <=> Stage1 = Words + 3)
    BY ONLY <1>1, <1>2 DEF Stage1, States
<1>7. ASSUME FIR_REQ = "RQ_CH_START", FIR.STS = "SEQ_IDLE" PROVE t = 0
    <2>1. s = "SEQ_START"
        BY ONLY <1>4, <1>7 DEF F!Sequencer
    <2> QED BY ONLY <1>5, <2>1
<1>8. ASSUME FIR_REQ = "RQ_CH_BUSY", FIR.STS # "SEQ_IDLE" PROVE t = Stage1 + 1
    <2>1. CASE FIR.STS = "SEQ_START"
        <3>1. s = "SEQ_CALC" /\ k = 0 /\ Stage1 = 0
            BY ONLY <1>4, <1>8, <2>1 DEF F!Sequencer, Stage1
        <3> QED BY ONLY <1>5, <3>1
    <2>2. CASE FIR.STS = "SEQ_CALC"
        <3>1. /\ s = IF FIR.CALC_CNT = Words - 1 THEN "SEQ_END0" ELSE "SEQ_CALC"
              /\ k = FIR.CALC_CNT + 1 /\ Stage1 = FIR.CALC_CNT + 1
            BY ONLY <1>4, <1>8, <2>2 DEF F!Sequencer, Stage1
        <3>2. t = IF FIR.CALC_CNT = Words - 1 THEN Words + 1 ELSE k + 1
            BY ONLY <1>5, <3>1
        <3> QED BY ONLY <3>1, <3>2, <1>1, <1>2
    <2>3. CASE FIR.STS = "SEQ_END0"
        <3>1. s = "SEQ_END1" /\ Stage1 = Words + 1
            BY ONLY <1>4, <1>8, <2>3 DEF F!Sequencer, Stage1
        <3> QED BY ONLY <1>5, <3>1, <1>2
    <2>4. CASE FIR.STS = "SEQ_END1"
        <3>1. s = "SEQ_IDLE" /\ Stage1 = Words + 2
            BY ONLY <1>4, <1>8, <2>4 DEF F!Sequencer, Stage1
        <3> QED BY ONLY <1>5, <3>1, <1>2
    <2> QED BY <2>1, <2>2, <2>3, <2>4, <1>1, <1>8 DEF States
<1> QED BY <1>3, <1>6, <1>7, <1>8

\* A pass over the channels takes Words + 6 clocks for each.
LEMMA Gone1Step ==
    ASSUME Typed, Shape1, Hand1, clr_in = 0, NEW edge \in BOOLEAN, Clock(edge)
    PROVE  /\ FIR_REQ \in Pass => Gone1 \in 1..(Channels * (Words + 6) + 1)
           /\ FIR_REQ \in Pass => FIR_REQ' \in Pass \cup {"RQ_WAIT"}
           /\ FIR_REQ \in Pass /\ FIR_REQ' \in Pass => Gone1' = Gone1 + 1
           /\ FIR_REQ' = "RQ_START" => Gone1' = 1
<1>0. FIR_CH_CNT \in Chs /\ Channels \in Nat \ {0} /\ Words \in Nat \ {0}
    BY Constants DEF Typed, FirTyped
<1>1. PICK x \in Nat : x = Words + 6
    BY <1>0
<1>2. FIR_CH_CNT \in Nat /\ FIR_CH_CNT < Channels
    BY <1>0 DEF Chs
<1>3. PICK p \in Nat, q \in Nat, z \in Nat :
         /\ p = FIR_CH_CNT * x /\ q = (FIR_CH_CNT + 1) * x /\ z = Channels * x
         /\ q = p + x /\ p + x <= z
    <2>1. FIR_CH_CNT * x \in Nat /\ (FIR_CH_CNT + 1) * x = FIR_CH_CNT * x + x
        BY ONLY <1>2, Times
    <2>2. Channels \in Nat
        BY <1>0
    <2>3. Channels * x \in Nat /\ FIR_CH_CNT * x + x <= Channels * x
        BY ONLY <1>2, <2>2, Times
    <2> QED BY <2>1, <2>3
<1>4. PICK r, c, g, t : r = FIR_REQ' /\ c = FIR_CH_CNT' /\ g = Gone1' /\ t = Stage1'
    OBVIOUS
<1>5. Gone1 = CASE FIR_REQ = "RQ_START" -> 1
                [] FIR_REQ = "RQ_CH_START" -> 2 + p
                [] FIR_REQ = "RQ_CH_BUSY" -> 3 + p + Stage1
                [] FIR_REQ = "RQ_CH_END" -> 1 + q
    BY <1>1, <1>3 DEF Gone1
<1>6. g = CASE r = "RQ_START" -> 1
            [] r = "RQ_CH_START" -> 2 + c * x
            [] r = "RQ_CH_BUSY" -> 3 + c * x + t
            [] r = "RQ_CH_END" -> 1 + (c + 1) * x
    BY <1>1, <1>4 DEF Gone1
<1>7. /\ Stage1 \in 0..(Words + 3)
      /\ FIR.STS = "SEQ_IDLE" <=> Stage1 = Words + 3
      /\ FIR_REQ = "RQ_CH_START" /\ FIR.STS = "SEQ_IDLE" => t = 0
      /\ FIR_REQ = "RQ_CH_BUSY" /\ FIR.STS # "SEQ_IDLE" => t = Stage1 + 1
    BY <1>4, Stage1Step
<1>8. FIR_REQ \in Pass => Gone1 \in 1..(z + 1)
    BY ONLY <1>0, <1>1, <1>3, <1>5, <1>7 DEF Pass
<1>9. r = "RQ_START" => g = 1
    BY ONLY <1>6
<1>10. CASE FIR_REQ = "RQ_START"
    <2>1. r = "RQ_CH_START" /\ c = 0
        BY <1>4, <1>10, FirRequestMoves DEF Hand1, ChannelCount
    <2>2. g = 2 /\ Gone1 = 1
        BY ONLY <1>5, <1>6, <1>10, <2>1
    <2> QED BY <1>1, <1>3, <1>4, <1>8, <1>9, <2>1, <2>2 DEF Pass
<1>11. CASE FIR_REQ = "RQ_CH_START"
    <2>1. r = "RQ_CH_BUSY" /\ c = FIR_CH_CNT /\ FIR.STS = "SEQ_IDLE"
        BY <1>4, <1>11, FirRequestMoves DEF Hand1, ChannelCount
    <2>2. g = 3 + p /\ Gone1 = 2 + p
        BY ONLY <1>3, <1>5, <1>6, <1>7, <1>11, <2>1
    <2> QED BY <1>1, <1>3, <1>4, <1>8, <1>9, <2>1, <2>2 DEF Pass
<1>12. CASE FIR_REQ = "RQ_CH_BUSY" /\ FIR.STS # "SEQ_IDLE"
    <2>1. r = "RQ_CH_BUSY" /\ c = FIR_CH_CNT
        BY <1>4, <1>12, FirRequestMoves DEF ChannelCount
    <2>2. g = 3 + p + (Stage1 + 1) /\ Gone1 = 3 + p + Stage1
        BY ONLY <1>3, <1>5, <1>6, <1>7, <1>12, <2>1
    <2>3. g = Gone1 + 1
        BY ONLY <2>2, <1>3, <1>7, <1>0
    <2> QED BY <1>1, <1>3, <1>4, <1>8, <1>9, <2>1, <2>3 DEF Pass
<1>13. CASE FIR_REQ = "RQ_CH_BUSY" /\ FIR.STS = "SEQ_IDLE"
    <2>1. r = "RQ_CH_END" /\ c = FIR_CH_CNT
        BY <1>4, <1>13, FirRequestMoves DEF ChannelCount
    <2>2. g = 1 + q /\ Gone1 = 3 + p + (Words + 3)
        BY ONLY <1>3, <1>5, <1>6, <1>7, <1>13, <2>1
    <2>3. g = Gone1 + 1
        BY ONLY <2>2, <1>1, <1>3, <1>0
    <2> QED BY <1>1, <1>3, <1>4, <1>8, <1>9, <2>1, <2>3 DEF Pass
<1>14. CASE FIR_REQ = "RQ_CH_END"
    <2>1. r \in {"RQ_WAIT", "RQ_CH_START"} /\ (r = "RQ_CH_START" => c = FIR_CH_CNT + 1)
        BY <1>0, <1>4, <1>14, FirRequestMoves DEF ChannelCount, Chs
    <2>2. Gone1 = 1 + q /\ (r = "RQ_CH_START" => g = 2 + q)
        BY ONLY <1>3, <1>5, <1>6, <1>14, <2>1
    <2> QED BY <1>1, <1>3, <1>4, <1>8, <1>9, <2>1, <2>2 DEF Pass
<1>15. CASE FIR_REQ \notin Pass
    BY <1>4, <1>9, <1>15
<1> QED BY <1>10, <1>11, <1>12, <1>13, <1>14, <1>15 DEF Pass

---------------------------------------------------------------------------
(* The passes of the first filter against the bytes. *)

\* The number of bytes counted when sample m is asked for.
Due(m) == Words + Step * m

\* The counters are those of N bytes and m samples. A pass is for the byte just
\* counted and has taken no longer than the time since; after it the sequencer waits
\* for the next byte, then for the next multiple of Step.
Time1(N, m) ==
    /\ bytes = N % ByteWrap /\ PDM_BYTE_CNT = N % Bytes /\ SMPLCNT_64k = m % Count64
    /\ BUFFER_FILL = 0 => N <= Words /\ m = 0 /\ FIR_REQ = "RQ_IDLE" /\ (N = Words => Since = 0)
    /\ BUFFER_FILL = 1 =>
         /\ N >= Words /\ PDMBIT_STS # Bits
         /\ FIR_REQ \in Pass => N = Due(m) /\ Since <= Gone1 + 1
         /\ FIR_REQ = "RQ_WAIT" => N = Due(m) \/ (N = Due(m) + 1 /\ Since = 0)
         /\ FIR_REQ = "RQ_END" => N = Due(m) + 1 /\ Since <= 1
         /\ FIR_REQ = "RQ_IDLE" => /\ N <= Due(m)
                                   /\ IF m = 0 THEN N = Due(m) ELSE N > Due(m) - Step
                                   /\ N = Due(m) => Since <= 1

\* The bytes that ask for a sample are the multiples of Step.
LEMMA DueFacts ==
    ASSUME NEW m \in Nat
    PROVE  /\ Due(m) \in Nat /\ Due(m) >= Words /\ Due(m + 1) = Due(m) + Step
           /\ Due(0) = Words
           /\ \A r \in 0..(Step - 1) : (Due(m) + r) % Step = r
           /\ \A x \in Nat : x < Due(m) /\ x > Due(m) - Step => x % Step # 0
<1>1. Step \in Nat \ {0, 1} /\ Words \in Nat \ {0} /\ Words % Step = 0
    BY Constants, Timing
<1>2. PICK p \in Nat : p = Step * m /\ Step * (m + 1) = p + Step /\ p = m * Step
    <2>1. m * Step \in Nat /\ (m + 1) * Step = m * Step + Step
        BY <1>1, Times
    <2>2. Step * m = m * Step /\ Step * (m + 1) = (m + 1) * Step
        BY <1>1
    <2> QED BY <2>1, <2>2
<1>3. Due(m) = Words + p /\ Due(m + 1) = Words + (p + Step) /\ Due(0) = Words
    BY <1>1, <1>2 DEF Due
<1>4. PICK k \in Nat : Words = k * Step
    <2>1. PICK k \in Nat, r \in 0..(Step - 1) : Words = k * Step + r /\ r = Words % Step
        BY <1>1, DivMod
    <2>2. k * Step \in Nat
        BY <1>1
    <2> QED BY <2>1, <2>2, <1>1
<1>5. PICK j \in Nat : j = k + m
    OBVIOUS
<1>6. Words + p = j * Step
    <2>1. (k + m) * Step = k * Step + m * Step
        BY <1>1
    <2> QED BY <2>1, <1>2, <1>4, <1>5
<1>7. \A r \in 0..(Step - 1) : (Words + p + r) % Step = r
    <2>1. Step \in Nat \ {0}
        BY <1>1
    <2>2. \A r \in 0..(Step - 1) : (j * Step + r) % Step = r
        BY ONLY <1>5, <2>1, DivUnique
    <2> QED BY <2>2, <1>6
<1>8. ASSUME NEW x \in Nat, x < Words + p, x > Words + p - Step PROVE x % Step # 0
    <2>1. PICK d \in Nat, r \in 0..(Step - 1) : x = d * Step + r /\ r = x % Step
        BY <1>1, DivMod
    <2>2. d < j => d * Step + Step <= j * Step
        BY <1>1, Times
    <2>3. j < d => j * Step + Step <= d * Step
        BY <1>1, Times
    <2>4. PICK a \in Nat, b \in Nat : a = d * Step /\ b = j * Step
        BY <1>1
    <2>5. d = j => a = b
        BY <2>4
    <2>6. (d < j => a + Step <= b) /\ (j < d => b + Step <= a) /\ x = a + r /\ Words + p = b
        BY <2>1, <2>2, <2>3, <2>4, <1>6
    <2>7. r # 0
        BY ONLY <2>5, <2>6, <1>8, <1>1, <1>2
    <2> QED BY <2>1, <2>7
<1> QED BY <1>1, <1>2, <1>3, <1>7, <1>8

\* How a clock counts bytes.
LEMMA CountMoves ==
    ASSUME Typed, Sync, NEW N \in Nat, Captured(N), clr_in = 0, NEW M \in Nat, M = More(N),
           NEW edge \in BOOLEAN, Clock(edge)
    PROVE  /\ M \in {N, N + 1}
           /\ PDMBIT_STS = Bits => M = N /\ N = 0
           /\ PDMBIT_STS # Bits =>
                 /\ PDMBIT_STS' # Bits /\ Since \in Nat /\ Since' \in Int
                 /\ M = N => Since' <= Since + 1
                 /\ M # N => Since = ByteClocks - 1 /\ Since' = 0
           /\ bytes = N % ByteWrap => bytes' = M % ByteWrap
           /\ PDM_BYTE_CNT = N % Bytes => PDM_BYTE_CNT' = M % Bytes
           /\ BUFFER_FILL' = IF PDM_BYTE_CNT = Words THEN 1 ELSE BUFFER_FILL
<1>1. M = (IF PDMBYTE_STS = Channels - 1 THEN N + 1 ELSE N) /\ Channels \in Nat \ {0}
    BY Constants DEF More
<1>2. PDMBIT_STS = Bits => M = N /\ N = 0
    BY <1>1 DEF Captured
<1>3. PDMBIT_STS # Bits =>
         /\ PDMBIT_STS' # Bits /\ Since \in Nat /\ Since' \in Int
         /\ M = N => Since' <= Since + 1
         /\ M # N => Since = ByteClocks - 1 /\ Since' = 0
    BY <1>1, SinceStep, SinceNat
<1>4. bytes = N % ByteWrap => bytes' = M % ByteWrap
    <2>1. bytes' = IF PDMBYTE_STS = Channels - 1 THEN (bytes + 1) % ByteWrap ELSE bytes
        BY DEF Clock, WriteBytes
    <2>2. ByteWrap \in Nat \ {0}
        BY Constants
    <2>3. ((N % ByteWrap) + 1) % ByteWrap = (N + 1) % ByteWrap
        BY ONLY <2>2, N \in Nat, ModSucc
    <2> QED BY <1>1, <2>1, <2>3
<1>5. PDM_BYTE_CNT = N % Bytes => PDM_BYTE_CNT' = M % Bytes
    <2>1. PDM_BYTE_CNT' = IF PDMBYTE_STS = Channels - 1 THEN (PDM_BYTE_CNT + 1) % Bytes ELSE PDM_BYTE_CNT
        BY DEF Clock, PDMIF!Clock, PDMIF!CountNext
    <2>2. Bytes \in Nat \ {0}
        BY Constants
    <2>3. ((N % Bytes) + 1) % Bytes = (N + 1) % Bytes
        BY ONLY <2>2, N \in Nat, ModSucc
    <2> QED BY <1>1, <2>1, <2>3
<1>6. BUFFER_FILL' = IF PDM_BYTE_CNT = Words THEN 1 ELSE BUFFER_FILL
    BY DEF Clock, PDMIF!Clock, PDMIF!CountNext, Words
<1> QED BY <1>1, <1>2, <1>3, <1>4, <1>5, <1>6

\* The number of 64 kHz samples after a clock.
Sampled(m) == IF FIR_REQ = "RQ_END" THEN m + 1 ELSE m

\* A clock keeps the first filter in time: its pass is over before the next byte.
LEMMA Time1Step ==
    ASSUME Typed, Sync, Shape1, Hand1, clr_in = 0, NEW N \in Nat, Captured(N), NEW m \in Nat, Time1(N, m),
           NEW M \in Nat, M = More(N), NEW k \in Nat, k = Sampled(m), NEW edge \in BOOLEAN, Clock(edge)
    PROVE  Time1(M, k)' /\ (BUFFER_FILL = 1 => BUFFER_FILL' = 1)
<1>1. PICK r, s, f, g : r = FIR_REQ' /\ s = Since' /\ f = BUFFER_FILL' /\ g = Gone1'
    OBVIOUS
<1>2. /\ bytes = N % ByteWrap /\ PDM_BYTE_CNT = N % Bytes /\ SMPLCNT_64k = m % Count64
      /\ bytes' = M % ByteWrap /\ PDM_BYTE_CNT' = M % Bytes
    BY CountMoves DEF Time1
<1>3. SMPLCNT_64k' = k % Count64
    <2>1. SMPLCNT_64k' = IF FIR_REQ = "RQ_END" THEN (SMPLCNT_64k + 1) % Count64 ELSE SMPLCNT_64k
        BY DEF Clock, FirPass
    <2>2. Count64 \in Nat \ {0}
        BY Constants
    <2>3. ((m % Count64) + 1) % Count64 = (m + 1) % Count64
        BY ONLY <2>2, m \in Nat, ModSucc
    <2> QED BY <1>2, <2>1, <2>3 DEF Sampled
<1>4. /\ M \in {N, N + 1}
      /\ PDMBIT_STS = Bits => M = N /\ N = 0
      /\ PDMBIT_STS # Bits =>
            /\ PDMBIT_STS' # Bits /\ Since \in Nat /\ s \in Int
            /\ M = N => s <= Since + 1
            /\ M # N => Since = ByteClocks - 1 /\ s = 0
      /\ f = IF N % Bytes = Words THEN 1 ELSE BUFFER_FILL
    BY <1>1, <1>2, CountMoves
<1>5. PICK z \in Nat : z = Channels * (Words + 6) /\ z + 3 < ByteClocks /\ z >= 6
    <2>1. Channels \in Nat \ {0} /\ Words \in Nat \ {0}
        BY Constants
    <2>2. Channels * (Words + 6) \in Nat /\ (0 < Channels => 0 * (Words + 6) + (Words + 6) <= Channels * (Words + 6))
        BY <2>1, Times
    <2> QED BY <2>1, <2>2, Timing
<1>6. Step \in Nat \ {0, 1} /\ Words \in Nat \ {0} /\ Bytes = 2 * Words /\ ByteClocks \in Nat
    BY Constants, Timing
<1>7. BUFFER_FILL \in {0, 1} /\ FIR_REQ \in Requests \cup {"RQ_WAIT"}
    BY DEF Typed, IfTyped, FirTyped
<1>8. r = CASE FIR_REQ = "RQ_IDLE" ->
                   IF BUFFER_FILL = 1 /\ PDM_BYTE_CNT % Step = 0 THEN "RQ_START" ELSE "RQ_IDLE"
            [] FIR_REQ = "RQ_START" -> "RQ_CH_START"
            [] FIR_REQ = "RQ_CH_START" -> "RQ_CH_BUSY"
            [] FIR_REQ = "RQ_CH_BUSY" -> IF FIR.STS # "SEQ_IDLE" THEN "RQ_CH_BUSY" ELSE "RQ_CH_END"
            [] FIR_REQ = "RQ_CH_END" -> IF FIR_CH_CNT = Channels - 1 THEN "RQ_WAIT" ELSE "RQ_CH_START"
            [] FIR_REQ = "RQ_WAIT" -> IF PDM_BYTE_CNT % Step # 0 THEN "RQ_END" ELSE "RQ_WAIT"
            [] FIR_REQ = "RQ_END" -> "RQ_IDLE"
    BY <1>1, FirRequestMoves
<1>9. PDM_BYTE_CNT % Step = N % Step
    <2>1. Bytes \in Nat \ {0} /\ Step \in Nat \ {0} /\ Bytes % Step = 0
        BY <1>6, PdmCoreAssumption
    <2>2. (N % Bytes) % Step = N % Step
        BY ONLY <2>1, N \in Nat, ModMod
    <2> QED BY <1>2, <2>2
<1>10. PICK d \in Nat, e \in Nat :
         /\ d = Due(m) /\ e = Due(k) /\ e = (IF FIR_REQ = "RQ_END" THEN d + Step ELSE d)
         /\ d >= Words /\ e >= Words /\ (k = 0 => e = Words) /\ (m = 0 => d = Words)
         /\ d % Step = 0 /\ (d + 1) % Step = 1
         /\ N < d /\ N > d - Step => N % Step # 0
    <2>1. Due(m) \in Nat /\ Due(k) \in Nat /\ Due(m) >= Words /\ Due(k) >= Words /\ Due(m + 1) = Due(m) + Step
        BY DueFacts
    <2>2. (k = 0 => Due(k) = Words) /\ (m = 0 => Due(m) = Words)
        BY DueFacts
    <2>3. \A x \in 0..(Step - 1) : (Due(m) + x) % Step = x
        BY DueFacts
    <2>4. (Due(m) + 0) % Step = 0 /\ (Due(m) + 1) % Step = 1 /\ Due(m) + 0 = Due(m)
        BY <2>1, <2>3, <1>6
    <2>5. N < Due(m) /\ N > Due(m) - Step => N % Step # 0
        BY DueFacts
    <2>6. Due(k) = IF FIR_REQ = "RQ_END" THEN Due(m) + Step ELSE Due(m)
        BY <2>1 DEF Sampled
    <2> QED BY <2>1, <2>2, <2>4, <2>5, <2>6
<1>11. k = IF FIR_REQ = "RQ_END" THEN m + 1 ELSE m
    BY DEF Sampled
<1>12. /\ BUFFER_FILL = 0 => N <= Words /\ m = 0 /\ FIR_REQ = "RQ_IDLE" /\ (N = Words => Since = 0)
       /\ BUFFER_FILL = 1 =>
            /\ N >= Words /\ PDMBIT_STS # Bits
            /\ FIR_REQ \in Pass => N = d /\ Since <= Gone1 + 1
            /\ FIR_REQ = "RQ_WAIT" => N = d \/ (N = d + 1 /\ Since = 0)
            /\ FIR_REQ = "RQ_END" => N = d + 1 /\ Since <= 1
            /\ FIR_REQ = "RQ_IDLE" => /\ N <= d
                                      /\ IF m = 0 THEN N = d ELSE N > d - Step
                                      /\ N = d => Since <= 1
    BY <1>10 DEF Time1
<1>13. /\ f = 0 => M <= Words /\ k = 0 /\ r = "RQ_IDLE" /\ (M = Words => s = 0)
       /\ f = 1 =>
            /\ M >= Words /\ PDMBIT_STS' # Bits
            /\ r \in Pass => M = e /\ s <= g + 1
            /\ r = "RQ_WAIT" => M = e \/ (M = e + 1 /\ s = 0)
            /\ r = "RQ_END" => M = e + 1 /\ s <= 1
            /\ r = "RQ_IDLE" => /\ M <= e
                                /\ IF k = 0 THEN M = e ELSE M > e - Step
                                /\ M = e => s <= 1
       /\ f \in {0, 1} /\ (BUFFER_FILL = 1 => f = 1)
    <2>1. CASE BUFFER_FILL = 0
        <3>1. N <= Words /\ m = 0 /\ k = 0 /\ r = "RQ_IDLE" /\ (N = Words => Since = 0) /\ e = Words
            BY ONLY <1>8, <1>10, <1>11, <1>12, <2>1
        <3>2. N % Bytes = N
            <4>1. Bytes \in Nat \ {0} /\ 0 \in Nat /\ N < Bytes
                BY ONLY <3>1, <1>6, N \in Nat
            <4>2. (0 * Bytes + N) % Bytes = N
                BY ONLY <4>1, N \in Nat, ModMultiple
            <4> QED BY <4>1, <4>2
        <3>3. f = IF N = Words THEN 1 ELSE 0
            BY ONLY <1>4, <2>1, <3>2
        <3>4. PDMBIT_STS = Bits => N = 0 /\ M = N
            BY ONLY <1>4
        <3>5. CASE N = Words
            BY ONLY <1>4, <1>5, <1>6, <3>1, <3>3, <3>4, <3>5, N \in Nat, M \in Nat DEF Pass
        <3>6. CASE N # Words
            BY ONLY <1>4, <1>5, <1>6, <3>1, <3>3, <3>4, <3>6, N \in Nat, M \in Nat DEF Pass
        <3> QED BY <3>5, <3>6
    <2>2. CASE BUFFER_FILL = 1
        <3>1. f = 1 /\ PDMBIT_STS' # Bits /\ Since \in Nat /\ s \in Int /\ N >= Words
              /\ (M = N => s <= Since + 1) /\ (M # N => Since = ByteClocks - 1 /\ s = 0)
              /\ M \in {N, N + 1}
            BY ONLY <1>4, <1>12, <2>2
        <3>2. CASE FIR_REQ \in Pass
            <4>1. Gone1 \in 1..(z + 1) /\ r \in Pass \cup {"RQ_WAIT"} /\ (r \in Pass => g = Gone1 + 1)
                BY <1>1, <1>5, <3>2, Gone1Step
            <4>2. N = d /\ Since <= Gone1 + 1 /\ e = d
                BY ONLY <1>10, <1>12, <2>2, <3>2 DEF Pass
            <4>3. M = N
                BY ONLY <1>5, <1>6, <3>1, <4>1, <4>2
            <4> QED BY ONLY <3>1, <4>1, <4>2, <4>3, <1>5, N \in Nat DEF Pass
        <3>3. CASE FIR_REQ = "RQ_WAIT"
            <4>1. (N = d \/ (N = d + 1 /\ Since = 0)) /\ e = d
                BY ONLY <1>10, <1>12, <2>2, <3>3
            <4>2. CASE N = d
                <5>1. r = "RQ_WAIT"
                    BY ONLY <1>8, <1>9, <1>10, <3>3, <4>2
                <5> QED BY ONLY <5>1, <3>1, <4>1, <4>2, <1>10, <1>6, M \in Nat, N \in Nat DEF Pass
            <4>3. CASE N = d + 1 /\ Since = 0
                <5>1. r = "RQ_END"
                    BY ONLY <1>8, <1>9, <1>10, <3>3, <4>3
                <5> QED BY ONLY <5>1, <3>1, <4>1, <4>3, <1>5, <1>6, <1>10, N \in Nat DEF Pass
            <4> QED BY <4>1, <4>2, <4>3
        <3>4. CASE FIR_REQ = "RQ_END"
            <4>1. N = d + 1 /\ Since <= 1 /\ e = d + Step /\ k = m + 1 /\ r = "RQ_IDLE"
                BY ONLY <1>8, <1>10, <1>11, <1>12, <2>2, <3>4
            <4> QED BY ONLY <4>1, <3>1, <1>5, <1>6, N \in Nat, m \in Nat, d \in Nat DEF Pass
        <3>5. CASE FIR_REQ = "RQ_IDLE"
            <4>1. N <= d /\ (IF m = 0 THEN N = d ELSE N > d - Step) /\ (N = d => Since <= 1) /\ e = d /\ k = m
                BY ONLY <1>10, <1>11, <1>12, <2>2, <3>5
            <4>2. CASE N = d
                <5>1. r = "RQ_START"
                    BY ONLY <1>8, <1>9, <1>10, <2>2, <3>5, <4>2
                <5>2. g = 1
                    BY <5>1, <1>1, Gone1Step
                <5> QED BY ONLY <5>1, <5>2, <3>1, <4>1, <4>2, <1>5, <1>6, N \in Nat DEF Pass
            <4>3. CASE N # d
                <5>1. r = "RQ_IDLE"
                    BY ONLY <1>8, <1>9, <1>10, <3>5, <4>1, <4>3, N \in Nat, d \in Nat
                <5> QED BY ONLY <5>1, <3>1, <4>1, <4>3, <1>5, <1>6, N \in Nat, d \in Nat, m \in Nat DEF Pass
            <4> QED BY <4>2, <4>3
        <3> QED BY <3>2, <3>3, <3>4, <3>5, <1>7 DEF Requests, Pass
    <2> QED BY <2>1, <2>2, <1>7
<1> QED BY <1>1, <1>2, <1>3, <1>10, <1>13 DEF Time1

---------------------------------------------------------------------------
(* The clocks of a pass of the second filter. *)

\* Clocks since the start of the second filter's calculation.
Stage2 == CASE FIR2.STS = "SEQ_START" -> 0
            [] FIR2.STS = "SEQ_CALC" -> FIR2.CALC_CNT + 1
            [] FIR2.STS = "SEQ_END0" -> TAP_NUM + 1
            [] FIR2.STS = "SEQ_END1" -> TAP_NUM + 2
            [] FIR2.STS = "SEQ_IDLE" -> TAP_NUM + 3

\* Clocks since the samples were asked for.
Gone2 == CASE FIR2_REQ = "RQ_START" -> 1
           [] FIR2_REQ = "RQ_CH_START" -> 2 + FIR2_CH_CNT * (TAP_NUM + 6)
           [] FIR2_REQ = "RQ_CH_BUSY" -> 3 + FIR2_CH_CNT * (TAP_NUM + 6) + Stage2
           [] FIR2_REQ = "RQ_CH_END" -> 1 + (FIR2_CH_CNT + 1) * (TAP_NUM + 6)
           [] FIR2_REQ = "RQ_END" -> 2 + Channels * (TAP_NUM + 6)

\* What a clock without CLR does to the second sequencer.
LEMMA Fir2RequestMoves ==
    ASSUME Typed, clr_in = 0, NEW edge \in BOOLEAN, Clock(edge)
    PROVE  /\ FIR2_REQ' = CASE FIR2_REQ = "RQ_IDLE" -> IF BUF64_RDY = <<1, 0>> THEN "RQ_START" ELSE "RQ_IDLE"
                            [] FIR2_REQ = "RQ_START" -> "RQ_CH_START"
                            [] FIR2_REQ = "RQ_CH_START" -> "RQ_CH_BUSY"
                            [] FIR2_REQ = "RQ_CH_BUSY" -> IF FIR2.STS # "SEQ_IDLE" THEN "RQ_CH_BUSY" ELSE "RQ_CH_END"
                            [] FIR2_REQ = "RQ_CH_END" ->
                                 IF FIR2_CH_CNT = Channels - 1 THEN "RQ_END" ELSE "RQ_CH_START"
                            [] FIR2_REQ = "RQ_END" -> "RQ_IDLE"
           /\ FIR2_CH_CNT' = ChannelCount(FIR2_CH_CNT, FIR2_REQ)
           /\ SMPLCNT_32k' = IF FIR2_REQ = "RQ_END" THEN (SMPLCNT_32k + 1) % Count32 ELSE SMPLCNT_32k
           /\ FIR2_REQ \in Requests
BY DEF Clock, Fir2Pass, Fir2Request, F2!busy, Typed, Fir2Typed

\* The stage follows the clock.
LEMMA Stage2Step ==
    ASSUME Typed, Shape2, NEW edge \in BOOLEAN, Clock(edge)
    PROVE  /\ Stage2 \in 0..(TAP_NUM + 3)
           /\ FIR2.STS = "SEQ_IDLE" <=> Stage2 = TAP_NUM + 3
           /\ FIR2_REQ = "RQ_CH_START" /\ FIR2.STS = "SEQ_IDLE" => Stage2' = 0
           /\ FIR2_REQ = "RQ_CH_BUSY" /\ FIR2.STS # "SEQ_IDLE" => Stage2' = Stage2 + 1
<1>1. FIR2.STS \in States /\ FIR2.CALC_CNT \in 0..(TAP_NUM - 1) /\ (FIR2.STS = "SEQ_START" => FIR2.CALC_CNT = 0)
    BY DEF Typed, Fir2Typed, Fir2Type, Shape2
<1>2. TAP_NUM \in Nat \ {0, 1}
    BY Constants
<1>3. PICK s, k, t : s = FIR2'.STS /\ k = FIR2'.CALC_CNT /\ t = Stage2'
    OBVIOUS
<1>4. /\ k = IF FIR2_REQ = "RQ_CH_START" THEN 0
             ELSE IF FIR2.STS = "SEQ_CALC" /\ FIR2.CALC_CNT < TAP_NUM - 1
             THEN FIR2.CALC_CNT + 1 ELSE FIR2.CALC_CNT
      /\ s = F2!Sequencer(FIR2, FIR2_REQ = "RQ_CH_START")
    BY Fir2Fields, <1>3
<1>5. t = CASE s = "SEQ_START" -> 0
            [] s = "SEQ_CALC" -> k + 1
            [] s = "SEQ_END0" -> TAP_NUM + 1
            [] s = "SEQ_END1" -> TAP_NUM + 2
            [] s = "SEQ_IDLE" -> TAP_NUM + 3
    BY <1>3 DEF Stage2
<1>6. Stage2 \in 0..(TAP_NUM + 3) /\ (FIR2.STS = "SEQ_IDLE" <=> Stage2 = TAP_NUM + 3)
    BY ONLY <1>1, <1>2 DEF Stage2, States
<1>7. ASSUME FIR2_REQ = "RQ_CH_START", FIR2.STS = "SEQ_IDLE" PROVE t = 0
    <2>1. s = "SEQ_START"
        BY ONLY <1>4, <1>7 DEF F2!Sequencer
    <2> QED BY ONLY <1>5, <2>1
<1>8. ASSUME FIR2_REQ = "RQ_CH_BUSY", FIR2.STS # "SEQ_IDLE" PROVE t = Stage2 + 1
    <2>1. CASE FIR2.STS = "SEQ_START"
        <3>1. s = "SEQ_CALC" /\ k = 0 /\ Stage2 = 0
            BY ONLY <1>1, <1>4, <1>8, <2>1 DEF F2!Sequencer, Stage2
        <3> QED BY ONLY <1>5, <3>1
    <2>2. CASE FIR2.STS = "SEQ_CALC"
        <3>1. /\ s = IF FIR2.CALC_CNT = TAP_NUM - 1 THEN "SEQ_END0" ELSE "SEQ_CALC"
              /\ FIR2.CALC_CNT < TAP_NUM - 1 => k = FIR2.CALC_CNT + 1
              /\ Stage2 = FIR2.CALC_CNT + 1
            BY ONLY <1>4, <1>8, <2>2 DEF F2!Sequencer, Stage2
        <3>2. t = IF FIR2.CALC_CNT = TAP_NUM - 1 THEN TAP_NUM + 1 ELSE k + 1
            BY ONLY <1>5, <3>1
        <3> QED BY ONLY <3>1, <3>2, <1>1, <1>2
    <2>3. CASE FIR2.STS = "SEQ_END0"
        <3>1. s = "SEQ_END1" /\ Stage2 = TAP_NUM + 1
            BY ONLY <1>4, <1>8, <2>3 DEF F2!Sequencer, Stage2
        <3> QED BY ONLY <1>5, <3>1, <1>2
    <2>4. CASE FIR2.STS = "SEQ_END1"
        <3>1. s = "SEQ_IDLE" /\ Stage2 = TAP_NUM + 2
            BY ONLY <1>4, <1>8, <2>4 DEF F2!Sequencer, Stage2
        <3> QED BY ONLY <1>5, <3>1, <1>2
    <2> QED BY <2>1, <2>2, <2>3, <2>4, <1>1, <1>8 DEF States
<1> QED BY <1>3, <1>6, <1>7, <1>8

\* A pass over the channels takes TAP_NUM + 6 clocks for each.
LEMMA Gone2Step ==
    ASSUME Typed, Shape2, Hand2, clr_in = 0, NEW edge \in BOOLEAN, Clock(edge)
    PROVE  /\ FIR2_REQ # "RQ_IDLE" => Gone2 \in 1..(Channels * (TAP_NUM + 6) + 2)
           /\ FIR2_REQ # "RQ_IDLE" /\ FIR2_REQ' # "RQ_IDLE" => Gone2' = Gone2 + 1
           /\ FIR2_REQ' = "RQ_START" => Gone2' = 1
<1>0. FIR2_CH_CNT \in Chs /\ Channels \in Nat \ {0} /\ TAP_NUM \in Nat \ {0}
    BY Constants DEF Typed, Fir2Typed
<1>1. PICK x \in Nat : x = TAP_NUM + 6
    BY <1>0
<1>2. FIR2_CH_CNT \in Nat /\ FIR2_CH_CNT < Channels
    BY <1>0 DEF Chs
<1>3. PICK p \in Nat, q \in Nat, z \in Nat :
         /\ p = FIR2_CH_CNT * x /\ q = (FIR2_CH_CNT + 1) * x /\ z = Channels * x
         /\ q = p + x /\ p + x <= z
    <2>1. FIR2_CH_CNT * x \in Nat /\ (FIR2_CH_CNT + 1) * x = FIR2_CH_CNT * x + x
        BY ONLY <1>2, Times
    <2>2. Channels \in Nat
        BY <1>0
    <2>3. Channels * x \in Nat /\ FIR2_CH_CNT * x + x <= Channels * x
        BY ONLY <1>2, <2>2, Times
    <2> QED BY <2>1, <2>3
<1>4. PICK r, c, g, t : r = FIR2_REQ' /\ c = FIR2_CH_CNT' /\ g = Gone2' /\ t = Stage2'
    OBVIOUS
<1>5. Gone2 = CASE FIR2_REQ = "RQ_START" -> 1
                [] FIR2_REQ = "RQ_CH_START" -> 2 + p
                [] FIR2_REQ = "RQ_CH_BUSY" -> 3 + p + Stage2
                [] FIR2_REQ = "RQ_CH_END" -> 1 + q
                [] FIR2_REQ = "RQ_END" -> 2 + z
    BY <1>1, <1>3 DEF Gone2
<1>6. g = CASE r = "RQ_START" -> 1
            [] r = "RQ_CH_START" -> 2 + c * x
            [] r = "RQ_CH_BUSY" -> 3 + c * x + t
            [] r = "RQ_CH_END" -> 1 + (c + 1) * x
            [] r = "RQ_END" -> 2 + z
    BY <1>1, <1>3, <1>4 DEF Gone2
<1>7. /\ Stage2 \in 0..(TAP_NUM + 3)
      /\ FIR2.STS = "SEQ_IDLE" <=> Stage2 = TAP_NUM + 3
      /\ FIR2_REQ = "RQ_CH_START" /\ FIR2.STS = "SEQ_IDLE" => t = 0
      /\ FIR2_REQ = "RQ_CH_BUSY" /\ FIR2.STS # "SEQ_IDLE" => t = Stage2 + 1
    BY <1>4, Stage2Step
<1>16. FIR2_REQ \in Requests
    BY Fir2RequestMoves
<1>8. FIR2_REQ # "RQ_IDLE" => Gone2 \in 1..(z + 2)
    BY ONLY <1>0, <1>1, <1>3, <1>5, <1>7, <1>16 DEF Requests
<1>9. r = "RQ_START" => g = 1
    BY ONLY <1>6
<1>10. CASE FIR2_REQ = "RQ_START"
    <2>1. r = "RQ_CH_START" /\ c = 0
        BY <1>4, <1>10, Fir2RequestMoves DEF Hand2, ChannelCount
    <2>2. g = 2 /\ Gone2 = 1
        BY ONLY <1>5, <1>6, <1>10, <2>1
    <2> QED BY <1>1, <1>3, <1>4, <1>8, <1>9, <2>1, <2>2
<1>11. CASE FIR2_REQ = "RQ_CH_START"
    <2>1. r = "RQ_CH_BUSY" /\ c = FIR2_CH_CNT /\ FIR2.STS = "SEQ_IDLE"
        BY <1>4, <1>11, Fir2RequestMoves DEF Hand2, ChannelCount
    <2>2. g = 3 + p /\ Gone2 = 2 + p
        BY ONLY <1>3, <1>5, <1>6, <1>7, <1>11, <2>1
    <2> QED BY <1>1, <1>3, <1>4, <1>8, <1>9, <2>1, <2>2
<1>12. CASE FIR2_REQ = "RQ_CH_BUSY" /\ FIR2.STS # "SEQ_IDLE"
    <2>1. r = "RQ_CH_BUSY" /\ c = FIR2_CH_CNT
        BY <1>4, <1>12, Fir2RequestMoves DEF ChannelCount
    <2>2. g = 3 + p + (Stage2 + 1) /\ Gone2 = 3 + p + Stage2
        BY ONLY <1>3, <1>5, <1>6, <1>7, <1>12, <2>1
    <2>3. g = Gone2 + 1
        BY ONLY <2>2, <1>3, <1>7, <1>0
    <2> QED BY <1>1, <1>3, <1>4, <1>8, <1>9, <2>1, <2>3
<1>13. CASE FIR2_REQ = "RQ_CH_BUSY" /\ FIR2.STS = "SEQ_IDLE"
    <2>1. r = "RQ_CH_END" /\ c = FIR2_CH_CNT
        BY <1>4, <1>13, Fir2RequestMoves DEF ChannelCount
    <2>2. g = 1 + q /\ Gone2 = 3 + p + (TAP_NUM + 3)
        BY ONLY <1>3, <1>5, <1>6, <1>7, <1>13, <2>1
    <2>3. g = Gone2 + 1
        BY ONLY <2>2, <1>1, <1>3, <1>0
    <2> QED BY <1>1, <1>3, <1>4, <1>8, <1>9, <2>1, <2>3
<1>14. CASE FIR2_REQ = "RQ_CH_END"
    <2>1. \/ r = "RQ_END" /\ FIR2_CH_CNT = Channels - 1
          \/ r = "RQ_CH_START" /\ c = FIR2_CH_CNT + 1
        BY <1>0, <1>4, <1>14, Fir2RequestMoves DEF ChannelCount, Chs
    <2>2. Gone2 = 1 + q /\ (r = "RQ_CH_START" => g = 2 + q) /\ (r = "RQ_END" => g = 2 + z)
        BY ONLY <1>3, <1>5, <1>6, <1>14, <2>1
    <2>3. FIR2_CH_CNT = Channels - 1 => q = z
        <3>1. FIR2_CH_CNT = Channels - 1 => FIR2_CH_CNT + 1 = Channels
            BY <1>0
        <3> QED BY <3>1, <1>3
    <2>4. g = Gone2 + 1
        BY ONLY <2>1, <2>2, <2>3, <1>3
    <2> QED BY <1>1, <1>3, <1>4, <1>8, <1>9, <2>1, <2>4
<1>15. CASE FIR2_REQ = "RQ_END"
    <2>1. r = "RQ_IDLE"
        BY <1>4, <1>15, Fir2RequestMoves
    <2> QED BY <1>1, <1>3, <1>4, <1>8, <1>15, <2>1
<1>17. CASE FIR2_REQ = "RQ_IDLE"
    BY <1>4, <1>9, <1>17
<1> QED BY <1>10, <1>11, <1>12, <1>13, <1>14, <1>15, <1>16, <1>17 DEF Requests

---------------------------------------------------------------------------
(* The passes of the second filter against the 64 kHz samples. *)

\* The number of 64 kHz samples stored when output sample q is asked for.
First == ((TAP_NUM + Rate) \div Rate) * Rate
Due2(q) == First + Rate * q

\* Clocks since 64 kHz sample m - 1 was counted, at most.
Since64(N, m) == (N - Due(m) + Step - 1) * ByteClocks + Since - 2

\* The counter is that of q samples handed on. A pass is for the 64 kHz sample just
\* stored and has taken no longer than the time since; then the sequencer waits for
\* the next multiple of Rate.
Time2(N, m, q) ==
    /\ SMPLCNT_32k = q % Count32
    /\ BUF64k_FILLED = 0 =>
         /\ q = 0 /\ m <= TAP_NUM + 1 /\ FIR2_REQ = "RQ_IDLE" /\ BUF64_RDY = <<0, 0>>
         /\ m = TAP_NUM + 1 => Since64(N, m) <= 0
    /\ BUF64k_FILLED = 1 =>
         /\ BUFFER_FILL = 1 /\ m > TAP_NUM
         /\ FIR2_REQ # "RQ_IDLE" => m = Due2(q) /\ BUF64_RDY[1] = 1 /\ Since64(N, m) <= Gone2 + 2
         /\ FIR2_REQ = "RQ_IDLE" =>
              /\ m <= Due2(q)
              /\ q > 0 => m >= Due2(q) - Rate
              /\ q > 0 /\ m = Due2(q) - Rate => BUF64_RDY[1] = 1
              /\ m = Due2(q) => \/ BUF64_RDY[1] = 0 /\ Since64(N, m) <= 1
                                \/ BUF64_RDY = <<1, 0>> /\ Since64(N, m) <= 2
              /\ BUF64_RDY = <<1, 0>> => m = Due2(q)

\* What the assumptions say of the rate in use.
LEMMA RateFacts ==
    ASSUME Typed
    PROVE  /\ Rate \in Nat \ {0, 1} /\ Count64 % Rate = 0 /\ (Rate * Count32) % Count64 = 0
           /\ TAP_NUM + Rate < POS_MAX /\ POS_MAX <= Count64
<1>1. /\ Rate \in Nat \ {0, 1} /\ Count64 % Rate = 0 /\ (Rate * Count32) % Count64 = 0
      /\ TAP_NUM + Rate < POS_MAX
    BY Constants, PdmCoreAssumption DEF Rate, Typed, IfTyped
<1>2. POS_MAX <= Count64
    <2>1. Count64 \in Nat \ {0} /\ POS_MAX \in Nat \ {0} /\ Count64 % POS_MAX = 0
        BY Constants, PdmCoreAssumption
    <2>2. ASSUME Count64 < POS_MAX PROVE FALSE
        <3>1. (0 * POS_MAX + Count64) % POS_MAX = Count64
            <4>1. 0 \in Nat /\ Count64 \in Nat
                BY <2>1
            <4> QED BY ONLY <2>1, <2>2, <4>1, ModMultiple
        <3> QED BY <2>1, <3>1
    <2> QED BY <2>1, <2>2
<1> QED BY <1>1, <1>2

\* The 64 kHz samples that ask for a sample are the multiples of Rate.
LEMMA Due2Facts ==
    ASSUME Typed, NEW q \in Nat
    PROVE  /\ Due2(q) \in Nat /\ Due2(q + 1) = Due2(q) + Rate /\ Due2(q) % Rate = 0
           /\ Due2(q) > TAP_NUM /\ Due2(0) <= TAP_NUM + Rate
           /\ \A x \in Nat : x < Due2(q) /\ x > Due2(q) - Rate => x % Rate # 0
<1>1. PICK R \in Nat \ {0, 1} : R = Rate
    BY RateFacts
<1>2. TAP_NUM \in Nat
    BY Constants
<1>3. PICK d \in Nat, r \in 0..(R - 1) : TAP_NUM + R = d * R + r /\ d = (TAP_NUM + R) \div R
    <2>1. R \in Nat \ {0} /\ TAP_NUM + R \in Nat
        BY <1>1, <1>2
    <2> QED BY ONLY <2>1, DivMod
<1>4. First = d * R
    BY <1>1, <1>3 DEF First
<1>5. PICK j \in Nat : j = d + q
    OBVIOUS
<1>6. PICK a \in Nat, p \in Nat, b \in Nat :
        a = d * R /\ p = q * R /\ b = j * R /\ b = a + p /\ (q + 1) * R = p + R
    <2>1. d * R \in Nat /\ q * R \in Nat /\ (q + 1) * R = q * R + R
        BY <1>1, Times
    <2>2. (d + q) * R = d * R + q * R
        BY <1>1
    <2> QED BY <2>1, <2>2, <1>5
<1>7. Due2(q) = b /\ Due2(q + 1) = b + R /\ Due2(0) = a
    <2>1. R * q = q * R /\ R * (q + 1) = (q + 1) * R /\ R * 0 = 0
        BY <1>1
    <2>2. Due2(q) = a + p /\ Due2(q + 1) = a + (p + R) /\ Due2(0) = a + 0
        BY <1>1, <1>4, <1>6, <2>1 DEF Due2
    <2> QED BY <2>2, <1>1, <1>6
<1>8. b % R = 0
    <2>1. R \in Nat \ {0} /\ 0 \in Nat /\ 0 < R
        BY <1>1
    <2>2. (j * R) % R = 0
        BY ONLY <2>1, <1>5, ModMultiple
    <2> QED BY <2>2, <1>6
<1>9. a > TAP_NUM /\ a <= TAP_NUM + R
    BY ONLY <1>1, <1>2, <1>3, <1>6
<1>10. ASSUME NEW x \in Nat, x < b, x > b - R PROVE x % R # 0
    <2>1. PICK e \in Nat, t \in 0..(R - 1) : x = e * R + t /\ t = x % R
        BY <1>1, DivMod
    <2>2. (e < j => e * R + R <= j * R) /\ (j < e => j * R + R <= e * R)
        BY <1>1, Times
    <2>3. PICK f \in Nat : f = e * R
        BY <1>1
    <2>4. e = j => f = b
        BY <2>3, <1>6
    <2>5. (e < j => f + R <= b) /\ (j < e => b + R <= f) /\ x = f + t
        BY <2>1, <2>2, <2>3, <1>6
    <2>6. t # 0
        BY ONLY <2>4, <2>5, <1>10, <1>1, <1>6, e \in Nat, j \in Nat
    <2> QED BY <2>1, <2>6
<1>11. b \in Nat /\ b > TAP_NUM
    BY ONLY <1>6, <1>9, <1>2
<1>12. \A x \in Nat : x < Due2(q) /\ x > Due2(q) - Rate => x % Rate # 0
    BY <1>1, <1>7, <1>10
<1> QED BY <1>1, <1>7, <1>8, <1>9, <1>11, <1>12

\* A 64 kHz sample is stored every Step bytes.
LEMMA Since64Step ==
    ASSUME Typed, Sync, Shape1, Hand1, clr_in = 0, NEW N \in Nat, Captured(N), NEW m \in Nat, Time1(N, m),
           NEW M \in Nat, M = More(N), NEW k \in Nat, k = Sampled(m), NEW edge \in BOOLEAN, Clock(edge),
           BUFFER_FILL = 1
    PROVE  /\ Since64(N, m) \in Int /\ Since64(M, k)' \in Int
           /\ k = m => Since64(M, k)' <= Since64(N, m) + 1
           /\ k # m => /\ k = m + 1
                       /\ Since64(M, k)' <= 0
                       /\ Since64(N, m) >= Step * ByteClocks - 2
<1>1. PICK s : s = Since'
    OBVIOUS
<1>2. PDMBIT_STS # Bits /\ (FIR_REQ = "RQ_END" => N = Due(m) + 1 /\ Since <= 1)
    BY DEF Time1
<1>3. /\ M \in {N, N + 1} /\ Since \in Nat /\ s \in Int
      /\ M = N => s <= Since + 1
      /\ M # N => Since = ByteClocks - 1 /\ s = 0
    BY <1>1, <1>2, CountMoves
<1>4. PICK B \in Nat : B = ByteClocks /\ B > 3
    <2>1. Channels \in Nat /\ Words \in Nat
        BY Constants
    <2>2. Channels * (Words + 6) \in Nat
        BY <2>1
    <2> QED BY <2>2, Timing
<1>5. Step \in Nat \ {0, 1}
    BY Constants
<1>6. PICK d \in Nat : d = Due(m) /\ Due(m + 1) = d + Step
    BY DueFacts
<1>7. PICK u \in Int : u = N - d + Step - 1
    BY <1>5
<1>8. PICK p \in Int : p = u * B /\ (u + 1) * B = p + B
    <2>1. u * B \in Int /\ (u + 1) * B = u * B + B
        BY <1>7, <1>4
    <2> QED BY <2>1
<1>9. Since64(N, m) = p + Since - 2
    BY <1>4, <1>6, <1>7, <1>8 DEF Since64
<1>10. CASE FIR_REQ # "RQ_END"
    <2>1. k = m
        BY <1>10 DEF Sampled
    <2>2. Since64(M, k)' = (M - d + Step - 1) * B + s - 2
        BY <1>1, <1>4, <1>6, <2>1 DEF Since64, Due
    <2>3. CASE M = N
        <3>1. Since64(M, k)' = p + s - 2
            BY <2>2, <2>3, <1>7, <1>8
        <3> QED BY <1>3, <1>8, <1>9, <2>1, <2>3, <3>1
    <2>4. CASE M = N + 1
        <3>1. M - d + Step - 1 = u + 1
            BY <2>4, <1>5, <1>7
        <3>2. Since64(M, k)' = p + B + s - 2
            BY <2>2, <3>1, <1>8
        <3>3. Since = B - 1 /\ s = 0
            BY <2>4, <1>3, <1>4
        <3> QED BY <1>8, <1>9, <2>1, <3>2, <3>3, <1>4
    <2> QED BY <1>3, <2>3, <2>4
<1>11. CASE FIR_REQ = "RQ_END"
    <2>1. k = m + 1 /\ k # m
        BY <1>11 DEF Sampled
    <2>2. N = d + 1 /\ Since <= 1 /\ M = N
        BY ONLY <1>2, <1>3, <1>4, <1>6, <1>11
    <2>3. Due(k) = d + Step
        BY <1>6, <2>1
    <2>4. Since64(M, k)' = (M - (d + Step) + Step - 1) * B + s - 2
        BY <1>1, <1>4, <2>3 DEF Since64, Due
    <2>5. M - (d + Step) + Step - 1 = 0
        BY <2>2, <1>5
    <2>6. Since64(M, k)' = s - 2
        BY <2>4, <2>5, <1>3, <1>4
    <2>7. u = Step
        BY <2>2, <1>5, <1>7
    <2>8. p = Step * ByteClocks
        BY <2>7, <1>8, <1>4
    <2> QED BY <1>3, <1>8, <1>9, <2>1, <2>2, <2>6, <2>8
<1> QED BY <1>10, <1>11

\* The number of samples handed on after a clock.
Handed(q) == IF FIR2_REQ = "RQ_END" THEN q + 1 ELSE q

\* A clock keeps the second filter in time: its pass is over before the next 64 kHz
\* sample is stored.
LEMMA Time2Step ==
    ASSUME Typed, Sync, Shape1, Hand1, Shape2, Hand2, clr_in = 0,
           NEW N \in Nat, Captured(N), NEW m \in Nat, Time1(N, m), NEW q \in Nat, Time2(N, m, q),
           NEW M \in Nat, M = More(N), NEW k \in Nat, k = Sampled(m), NEW n \in Nat, n = Handed(q),
           NEW edge \in BOOLEAN, Clock(edge)
    PROVE  Time2(M, k, n)'
<1>1. PICK r, f, v, g, Y, rdy1, rdy2 :
        /\ r = FIR2_REQ' /\ f = BUFFER_FILL' /\ v = BUF64k_FILLED' /\ g = Gone2' /\ Y = Since64(M, k)'
        /\ rdy1 = BUF64_RDY'[1] /\ rdy2 = BUF64_RDY'[2]
    OBVIOUS
<1>17. PICK X : X = Since64(N, m)
    OBVIOUS
<1>18. PICK o1 \in {0, 1}, o2 \in {0, 1} : BUF64_RDY = <<o1, o2>>
    BY DEF Typed, BufTyped
<1>2. X = Since64(N, m) /\ BUF64_RDY = <<o1, o2>> /\ o1 \in {0, 1} /\ o2 \in {0, 1}
    BY <1>17, <1>18
<1>3. SMPLCNT_32k' = n % Count32
    <2>1. SMPLCNT_32k' = IF FIR2_REQ = "RQ_END" THEN (SMPLCNT_32k + 1) % Count32 ELSE SMPLCNT_32k
        BY Fir2RequestMoves
    <2>2. Count32 \in Nat \ {0}
        BY Constants
    <2>3. ((q % Count32) + 1) % Count32 = (q + 1) % Count32
        BY ONLY <2>2, q \in Nat, ModSucc
    <2>4. SMPLCNT_32k = q % Count32
        BY DEF Time2
    <2> QED BY <2>1, <2>3, <2>4 DEF Handed
<1>4. PICK R \in Nat \ {0, 1}, T \in Nat \ {0, 1} : R = Rate /\ T = TAP_NUM /\ Rate' = R
    <2>1. mode_freq' = mode_freq
        BY DEF Clock, Clear
    <2> QED BY <2>1, RateFacts, Constants DEF Rate
<1>5. SMPLCNT_64k = m % Count64 /\ (m <= T + 1 => SMPLCNT_64k = m) /\ SMPLCNT_64k % R = m % R
    <2>1. SMPLCNT_64k = m % Count64
        BY DEF Time1
    <2>2. Count64 \in Nat \ {0} /\ R \in Nat \ {0} /\ Count64 % R = 0
        BY <1>4, RateFacts, Constants
    <2>3. (m % Count64) % R = m % R
        <3>1. PICK c \in Nat \ {0} : c = Count64 /\ c % R = 0
            BY <2>2
        <3>2. c \in Nat \ {0} /\ R \in Nat \ {0} /\ c % R = 0
            BY <2>2, <3>1
        <3>3. (m % c) % R = m % R
            BY ONLY <3>2, m \in Nat, ModMod
        <3> QED BY <3>1, <3>3
    <2>4. T + R < Count64
        <3>1. T + R < POS_MAX /\ POS_MAX <= Count64 /\ POS_MAX \in Nat
            BY <1>4, RateFacts, Constants
        <3> QED BY ONLY <3>1, <2>2, <1>4
    <2>5. m <= T + 1 => m % Count64 = m
        <3>1. ASSUME m <= T + 1 PROVE m % Count64 = m
            <4>1. m < Count64 /\ 0 \in Nat
                BY ONLY <2>2, <2>4, <3>1, <1>4, m \in Nat
            <4>2. (0 * Count64 + m) % Count64 = m
                BY ONLY <2>2, <4>1, m \in Nat, ModMultiple
            <4> QED BY <4>2, <2>2
        <3> QED BY <3>1
    <2> QED BY <2>1, <2>3, <2>5
<1>6. v = (IF SMPLCNT_64k > T THEN 1 ELSE BUF64k_FILLED) /\ BUF64k_FILLED \in {0, 1}
    BY <1>1, <1>4 DEF Clock, Ready, Typed, BufTyped
<1>7. rdy1 = (IF BUF64k_FILLED = 1 /\ m % R = 0 THEN 1 ELSE 0) /\ rdy2 = o1 /\ BUF64_RDY' = <<rdy1, rdy2>>
    BY <1>1, <1>2, <1>4, <1>5 DEF Clock, Ready
<1>8. /\ r = CASE FIR2_REQ = "RQ_IDLE" -> IF o1 = 1 /\ o2 = 0 THEN "RQ_START" ELSE "RQ_IDLE"
               [] FIR2_REQ = "RQ_START" -> "RQ_CH_START"
               [] FIR2_REQ = "RQ_CH_START" -> "RQ_CH_BUSY"
               [] FIR2_REQ = "RQ_CH_BUSY" -> IF FIR2.STS # "SEQ_IDLE" THEN "RQ_CH_BUSY" ELSE "RQ_CH_END"
               [] FIR2_REQ = "RQ_CH_END" ->
                    IF FIR2_CH_CNT = Channels - 1 THEN "RQ_END" ELSE "RQ_CH_START"
               [] FIR2_REQ = "RQ_END" -> "RQ_IDLE"
      /\ FIR2_REQ \in Requests
    BY <1>1, <1>2, Fir2RequestMoves
<1>9. PICK z \in Nat : z = Channels * (TAP_NUM + 6) /\ z + 6 < Step * ByteClocks /\ z >= 6
    <2>1. Channels \in Nat \ {0} /\ TAP_NUM \in Nat
        BY Constants
    <2>2. Channels * (TAP_NUM + 6) \in Nat /\ (0 < Channels => 0 * (TAP_NUM + 6) + (TAP_NUM + 6) <= Channels * (TAP_NUM + 6))
        BY <2>1, Times
    <2> QED BY <2>1, <2>2, Timing
<1>10. PICK e \in Nat, e2 \in Nat :
         /\ e = Due2(q) /\ e2 = Due2(n)' /\ e2 = (IF FIR2_REQ = "RQ_END" THEN e + R ELSE e)
         /\ e % R = 0 /\ e > T /\ (q = 0 => e <= T + R)
         /\ \A x \in Nat : x < e /\ x > e - R => x % R # 0
    <2>1. /\ Due2(q) \in Nat /\ Due2(q + 1) = Due2(q) + R /\ Due2(q) % R = 0 /\ Due2(q) > T
          /\ (q = 0 => Due2(q) <= T + R)
          /\ \A x \in Nat : x < Due2(q) /\ x > Due2(q) - R => x % R # 0
        BY <1>4, Due2Facts
    <2>2. Due2(n)' = Due2(n)
        BY <1>4 DEF Due2, First
    <2>3. Due2(n) = IF FIR2_REQ = "RQ_END" THEN Due2(q) + R ELSE Due2(q)
        BY <2>1 DEF Handed
    <2>4. Due2(n)' \in Nat /\ Due2(q) \in Nat
        BY <2>1, <2>2, <2>3
    <2>5. PICK e \in Nat, e2 \in Nat : e = Due2(q) /\ e2 = Due2(n)'
        BY <2>4
    <2>6. e2 = IF FIR2_REQ = "RQ_END" THEN e + R ELSE e
        BY <2>2, <2>3, <2>5
    <2> QED BY <2>1, <2>5, <2>6
<1>11. k \in {m, m + 1} /\ n = (IF FIR2_REQ = "RQ_END" THEN q + 1 ELSE q)
    BY DEF Sampled, Handed
<1>12. BUFFER_FILL = 1 =>
         /\ f = 1 /\ X \in Int /\ Y \in Int
         /\ k = m => Y <= X + 1
         /\ k # m => Y <= 0 /\ X > z + 4
    <2>1. ASSUME BUFFER_FILL = 1
          PROVE  /\ X \in Int /\ Y \in Int /\ (k = m => Y <= X + 1)
                 /\ k # m => Y <= 0 /\ X >= Step * ByteClocks - 2
        BY <2>1, <1>1, <1>2, Since64Step
    <2>2. BUFFER_FILL = 1 => f = 1
        BY <1>1, Time1Step
    <2>3. Step * ByteClocks \in Nat
        <3>1. Step \in Nat /\ ByteClocks \in Nat
            BY Timing, Constants
        <3> QED BY ONLY <3>1
    <2>4. PICK w \in Nat : w = Step * ByteClocks
        BY <2>3
    <2> QED BY <2>1, <2>2, <2>4, <1>9
<1>13. /\ BUFFER_FILL \in {0, 1} /\ (BUFFER_FILL = 0 => m = 0 /\ k = m)
    BY DEF Time1, Typed, IfTyped, Sampled
<1>14. /\ BUF64k_FILLED = 0 =>
            /\ q = 0 /\ m <= T + 1 /\ FIR2_REQ = "RQ_IDLE" /\ o1 = 0 /\ o2 = 0
            /\ m = T + 1 => X <= 0
       /\ BUF64k_FILLED = 1 =>
            /\ BUFFER_FILL = 1 /\ m > T
            /\ FIR2_REQ # "RQ_IDLE" => m = e /\ o1 = 1 /\ X <= Gone2 + 2
            /\ FIR2_REQ = "RQ_IDLE" =>
                 /\ m <= e
                 /\ q > 0 => m >= e - R
                 /\ q > 0 /\ m = e - R => o1 = 1
                 /\ m = e => \/ o1 = 0 /\ X <= 1
                             \/ o1 = 1 /\ o2 = 0 /\ X <= 2
                 /\ o1 = 1 /\ o2 = 0 => m = e
    <2>1. BUF64_RDY[1] = o1 /\ (BUF64_RDY = <<1, 0>> <=> o1 = 1 /\ o2 = 0) /\ (BUF64_RDY = <<0, 0>> <=> o1 = 0 /\ o2 = 0)
        BY <1>2
    <2> QED BY <1>2, <1>4, <1>10, <2>1 DEF Time2
<1>15. /\ v = 0 =>
            /\ n = 0 /\ k <= T + 1 /\ r = "RQ_IDLE" /\ rdy1 = 0 /\ rdy2 = 0
            /\ k = T + 1 => Y <= 0
       /\ v = 1 =>
            /\ f = 1 /\ k > T
            /\ r # "RQ_IDLE" => k = e2 /\ rdy1 = 1 /\ Y <= g + 2
            /\ r = "RQ_IDLE" =>
                 /\ k <= e2
                 /\ n > 0 => k >= e2 - R
                 /\ n > 0 /\ k = e2 - R => rdy1 = 1
                 /\ k = e2 => \/ rdy1 = 0 /\ Y <= 1
                              \/ rdy1 = 1 /\ rdy2 = 0 /\ Y <= 2
                 /\ rdy1 = 1 /\ rdy2 = 0 => k = e2
       /\ v \in {0, 1}
    <2>1. CASE BUF64k_FILLED = 0
        <3>1. /\ q = 0 /\ m <= T + 1 /\ FIR2_REQ = "RQ_IDLE" /\ o1 = 0 /\ o2 = 0
              /\ m = T + 1 => X <= 0
              /\ r = "RQ_IDLE" /\ n = 0 /\ e2 = e /\ rdy1 = 0 /\ rdy2 = 0
            BY ONLY <1>7, <1>8, <1>10, <1>11, <1>14, <2>1
        <3>2. v = IF m > T THEN 1 ELSE 0
            BY ONLY <1>5, <1>6, <2>1, <3>1
        <3>3. CASE m <= T
            <4>1. v = 0
                BY ONLY <3>2, <3>3, <1>4, m \in Nat
            <4> QED BY ONLY <3>1, <3>3, <4>1, <1>4, <1>11, <1>12, <1>13, m \in Nat
        <3>4. CASE m = T + 1
            <4>1. v = 1 /\ X <= 0 /\ BUFFER_FILL = 1
                BY ONLY <3>1, <3>2, <3>4, <1>4, <1>13
            <4>2. k = m /\ Y <= 1 /\ f = 1
                BY ONLY <4>1, <1>12, <1>9
            <4> QED BY ONLY <3>1, <3>4, <4>1, <4>2, <1>4, <1>10
        <3> QED BY ONLY <3>1, <3>3, <3>4, <1>4, m \in Nat
    <2>2. CASE BUF64k_FILLED = 1
        <3>1. v = 1 /\ f = 1 /\ X \in Int /\ Y \in Int /\ m > T /\ k > T
              /\ (k = m => Y <= X + 1) /\ (k # m => k = m + 1 /\ Y <= 0 /\ X > z + 4)
              /\ rdy1 = (IF m % R = 0 THEN 1 ELSE 0) /\ rdy2 = o1
            BY ONLY <1>4, <1>6, <1>7, <1>11, <1>12, <1>14, <2>2, m \in Nat
        <3>2. CASE FIR2_REQ = "RQ_IDLE"
            <4>1. /\ m <= e
                  /\ q > 0 => m >= e - R
                  /\ q > 0 /\ m = e - R => o1 = 1
                  /\ m = e => \/ o1 = 0 /\ X <= 1
                              \/ o1 = 1 /\ o2 = 0 /\ X <= 2
                  /\ o1 = 1 /\ o2 = 0 => m = e
                  /\ e2 = e /\ n = q
                BY ONLY <1>10, <1>11, <1>14, <2>2, <3>2
            <4>2. CASE o1 = 1 /\ o2 = 0
                <5>1. r = "RQ_START"
                    BY ONLY <1>8, <3>2, <4>2
                <5>2. g = 1
                    BY <1>1, <5>1, Gone2Step
                <5>3. m = e /\ X <= 2
                    BY ONLY <4>1, <4>2
                <5>4. k = m /\ Y <= 3
                    BY ONLY <3>1, <5>3, <1>9
                <5>5. rdy1 = 1
                    BY ONLY <3>1, <5>3, <1>10
                <5> QED BY ONLY <3>1, <4>1, <5>1, <5>2, <5>3, <5>4, <5>5
            <4>3. CASE ~(o1 = 1 /\ o2 = 0) /\ m = e
                <5>1. r = "RQ_IDLE"
                    BY ONLY <1>8, <3>2, <4>3
                <5>2. o1 = 0 /\ X <= 1
                    BY ONLY <4>1, <4>3
                <5>3. k = m /\ Y <= 2
                    BY ONLY <3>1, <5>2, <1>9
                <5>4. rdy1 = 1 /\ rdy2 = 0
                    BY ONLY <3>1, <4>3, <5>2, <1>10
                <5> QED BY ONLY <3>1, <4>1, <4>3, <5>1, <5>2, <5>3, <5>4, <1>4
            <4>4. CASE ~(o1 = 1 /\ o2 = 0) /\ m # e
                <5>1. r = "RQ_IDLE"
                    BY ONLY <1>8, <3>2, <4>4
                <5>2. m < e /\ (m > e - R => rdy1 = 0)
                    BY ONLY <1>4, <1>10, <3>1, <4>1, <4>4, m \in Nat
                <5>3. m < e - R => q = 0
                    BY ONLY <4>1, <1>4, m \in Nat, q \in Nat, e \in Nat
                <5>4. m > T /\ (q = 0 => e <= T + R)
                    BY ONLY <1>10, <3>1
                <5>5. m >= e - R /\ (m = e - R => q > 0)
                    BY ONLY <4>1, <5>4, <1>4, m \in Nat, q \in Nat, e \in Nat
                <5>6. m = e - R => o1 = 1
                    BY ONLY <4>1, <5>5
                <5>7. rdy1 = 1 => rdy2 = 1
                    BY ONLY <3>1, <5>2, <5>5, <5>6, <1>4, m \in Nat, e \in Nat
                <5>8. m = e - R => rdy1 = 1
                    <6>1. ASSUME m = e - R PROVE m % R = 0
                        <7>1. PICK w \in Nat : e = w * R
                            <8>1. R \in Nat \ {0}
                                BY <1>4
                            <8>2. PICK w \in Nat, t \in 0..(R - 1) : e = w * R + t /\ t = e % R
                                BY <8>1, DivMod
                            <8>3. w * R \in Nat
                                BY <8>1
                            <8> QED BY <8>2, <8>3, <1>10
                        <7>2. w # 0
                            BY <7>1, <1>4, <1>10
                        <7>3. w - 1 \in Nat /\ (w - 1) * R = w * R - R
                            BY <7>2, <1>4
                        <7>4. ((w - 1) * R) % R = 0
                            <8>1. R \in Nat \ {0} /\ 0 \in Nat /\ 0 < R
                                BY <1>4
                            <8> QED BY ONLY <8>1, <7>3, ModMultiple
                        <7> QED BY <6>1, <7>1, <7>3, <7>4
                    <6> QED BY <6>1, <3>1
                <5>9. CASE k = m
                    BY ONLY <3>1, <4>1, <5>1, <5>2, <5>5, <5>7, <5>8, <5>9, <1>4, m \in Nat, q \in Nat, e \in Nat
                <5>10. CASE k = m + 1
                    <6>1. Y <= 0
                        BY ONLY <3>1, <5>10, m \in Nat
                    <6>2. k = e => rdy1 = 0
                        BY ONLY <5>2, <5>10, <1>4, m \in Nat, e \in Nat
                    <6>3. k <= e /\ k > e - R
                        BY ONLY <5>2, <5>5, <5>10, <1>4, m \in Nat, e \in Nat
                    <6> QED BY ONLY <3>1, <4>1, <5>1, <5>7, <6>1, <6>2, <6>3, <1>4, k \in Nat, e \in Nat
                <5> QED BY <5>9, <5>10, <1>11
            <4> QED BY ONLY <4>2, <4>3, <4>4, <1>2
        <3>3. CASE FIR2_REQ # "RQ_IDLE"
            <4>1. m = e /\ o1 = 1 /\ X <= Gone2 + 2
                BY ONLY <1>14, <2>2, <3>3
            <4>2. Gone2 \in 1..(z + 2) /\ (r # "RQ_IDLE" => g = Gone2 + 1)
                BY <1>1, <1>9, <3>3, Gone2Step
            <4>3. k = m /\ Y <= Gone2 + 3
                BY ONLY <3>1, <4>1, <4>2, <1>9
            <4>4. rdy1 = 1 /\ rdy2 = 1
                BY ONLY <3>1, <4>1, <1>10
            <4>5. CASE FIR2_REQ = "RQ_END"
                <5>1. r = "RQ_IDLE" /\ n = q + 1 /\ e2 = e + R
                    BY ONLY <1>8, <1>10, <1>11, <4>5
                <5> QED BY ONLY <3>1, <4>1, <4>3, <4>4, <5>1, <1>4, e \in Nat, q \in Nat
            <4>6. CASE FIR2_REQ # "RQ_END"
                <5>1. r # "RQ_IDLE" /\ n = q /\ e2 = e
                    BY ONLY <1>8, <1>10, <1>11, <3>3, <4>6 DEF Requests
                <5>2. g = Gone2 + 1
                    BY ONLY <4>2, <5>1
                <5> QED BY ONLY <3>1, <4>1, <4>2, <4>3, <4>4, <5>1, <5>2, <1>9
            <4> QED BY <4>5, <4>6
        <3> QED BY <3>2, <3>3
    <2> QED BY <2>1, <2>2, <1>6
<1>16. (BUF64_RDY' = <<1, 0>> <=> rdy1 = 1 /\ rdy2 = 0) /\ (BUF64_RDY' = <<0, 0>> <=> rdy1 = 0 /\ rdy2 = 0)
    BY <1>7
<1> QED BY <1>1, <1>3, <1>4, <1>10, <1>15, <1>16 DEF Time2

---------------------------------------------------------------------------
(* All requests are met. *)

\* The core has counted N bytes, stored m samples and handed on q, and is in time.
Schedule(N, m, q) == Captured(N) /\ Time1(N, m) /\ Time2(N, m, q)

\* What is known of the core without these numbers.
Inv1 == Typed /\ Sync /\ Filter1 /\ Filter2

\* All rings begin at 0.
LEMMA ZeroMod == 0 % ByteWrap = 0 /\ 0 % Bytes = 0 /\ 0 % Count64 = 0 /\ 0 % Count32 = 0
<1>1. ASSUME NEW n \in Nat \ {0} PROVE 0 % n = 0
    <2>1. 0 \in 0..(n - 1) /\ 0 \in Nat
        OBVIOUS
    <2>2. (0 * n + 0) % n = 0
        BY ONLY <2>1, n \in Nat \ {0}, DivUnique
    <2> QED BY <2>2
<1>2. ByteWrap \in Nat \ {0} /\ Bytes \in Nat \ {0} /\ Count64 \in Nat \ {0} /\ Count32 \in Nat \ {0}
    BY Constants
<1> QED BY <1>1, <1>2

\* The core starts with nothing counted.
LEMMA ScheduleInit == ASSUME Init PROVE Schedule(0, 0, 0)
<1>1. /\ PDMBIT_STS = Bits /\ PDMBYTE_STS = Channels /\ rises = 0 /\ falls = 0
      /\ PDM_BYTE_CNT = 0 /\ BUFFER_FILL = 0
    BY DEF Init, PDMIF!Init, PDMIF!BS_WAIT, PDMIF!B8S_IDLE
<1>2. /\ bytes = 0 /\ FIR_REQ = "RQ_IDLE" /\ SMPLCNT_64k = 0 /\ SMPLCNT_32k = 0
      /\ BUF64k_FILLED = 0 /\ BUF64_RDY = <<0, 0>> /\ FIR2_REQ = "RQ_IDLE"
    BY DEF Init
<1>3. Words \in Nat \ {0} /\ TAP_NUM \in Nat
    BY Constants
<1>4. 0 <= Words /\ 0 # Words /\ 0 <= TAP_NUM + 1 /\ 0 # TAP_NUM + 1
    BY <1>3
<1>5. Captured(0)
    BY <1>1 DEF Captured
<1>6. Time1(0, 0)
    BY <1>1, <1>2, <1>4, ZeroMod DEF Time1
<1>7. Time2(0, 0, 0)
    BY <1>1, <1>2, <1>4, ZeroMod DEF Time2
<1> QED BY <1>5, <1>6, <1>7 DEF Schedule

\* So it does after CLR.
LEMMA ScheduleReset ==
    ASSUME clr_in = 1, NEW edge \in BOOLEAN, Clock(edge)
    PROVE  Schedule(0, 0, 0)'
<1>1. FIR2_REQ' = "RQ_IDLE" /\ SMPLCNT_32k' = 0
    BY DEF Clock, Fir2Pass, Fir2Request
<1>3. Words \in Nat \ {0} /\ TAP_NUM \in Nat
    BY Constants
<1>4. 0 <= Words /\ 0 # Words /\ 0 <= TAP_NUM + 1 /\ 0 # TAP_NUM + 1
    BY <1>3
<1>5. Captured(0)'
    BY Reset DEF Captured
<1>6. Time1(0, 0)'
    BY <1>4, Reset, ZeroMod DEF Time1
<1>7. Time2(0, 0, 0)'
    BY <1>1, <1>4, Reset, ZeroMod DEF Time2
<1> QED BY <1>5, <1>6, <1>7 DEF Schedule

\* A clock keeps the core in time.
LEMMA ScheduleStep ==
    ASSUME Inv1, clr_in = 0, NEW N \in Nat, NEW m \in Nat, NEW q \in Nat, Schedule(N, m, q),
           NEW M \in Nat, M = More(N), NEW k \in Nat, k = Sampled(m), NEW n \in Nat, n = Handed(q),
           NEW edge \in BOOLEAN, Clock(edge)
    PROVE  Schedule(M, k, n)'
<1>1. Typed /\ Sync /\ Shape1 /\ Hand1 /\ Shape2 /\ Hand2 /\ Captured(N) /\ Time1(N, m) /\ Time2(N, m, q)
    BY DEF Inv1, Filter1, Filter2, Running, Schedule
<1>2. Captured(M)'
    BY <1>1, CapturedStep
<1>3. Time1(M, k)'
    BY <1>1, Time1Step
<1>4. Time2(M, k, n)'
    BY <1>1, Time2Step
<1> QED BY <1>2, <1>3, <1>4 DEF Schedule

\* A core in time meets its requests.
LEMMA RequestMet ==
    ASSUME Inv1, clr_in = 0, NEW N \in Nat, NEW m \in Nat, NEW q \in Nat, Schedule(N, m, q),
           NEW edge \in BOOLEAN, Clock(edge)
    PROVE  /\ BUFFER_FILL = 1 /\ PDM_BYTE_CNT' # PDM_BYTE_CNT /\ PDM_BYTE_CNT' % Step = 0
                => FIR_REQ' = "RQ_IDLE"
           /\ BUF64_RDY' = <<1, 0>> => FIR2_REQ' = "RQ_IDLE"
<1>1. Typed /\ Sync /\ Shape1 /\ Hand1 /\ Shape2 /\ Hand2 /\ Captured(N) /\ Time1(N, m) /\ Time2(N, m, q)
    BY DEF Inv1, Filter1, Filter2, Running, Schedule
<1>2. PICK M \in Nat : M = More(N)
    BY DEF More
<1>3. PICK k \in Nat : k = Sampled(m)
    BY DEF Sampled
<1>4. PICK r : r = FIR_REQ'
    OBVIOUS
<1>5. ASSUME BUFFER_FILL = 1, PDM_BYTE_CNT' # PDM_BYTE_CNT, PDM_BYTE_CNT' % Step = 0
      PROVE  r = "RQ_IDLE"
    <2>1. Time1(M, k)' /\ BUFFER_FILL' = 1
        BY <1>1, <1>2, <1>3, <1>5, Time1Step
    <2>2. PDM_BYTE_CNT = N % Bytes /\ PDM_BYTE_CNT' = M % Bytes /\ M \in {N, N + 1}
        BY <1>1, <1>2, CountMoves DEF Time1
    <2>3. M = N + 1
        BY <2>2, <1>5
    <2>4. N % Step = PDM_BYTE_CNT % Step /\ M % Step = 0
        <3>1. PICK b \in Nat \ {0}, s \in Nat \ {0} : b = Bytes /\ s = Step /\ b % s = 0
            BY Constants, PdmCoreAssumption
        <3>2. b \in Nat \ {0} /\ s \in Nat \ {0} /\ b % s = 0
            BY <3>1
        <3>3. (N % b) % s = N % s
            BY ONLY <3>2, N \in Nat, ModMod
        <3>4. (M % b) % s = M % s
            BY ONLY <3>2, M \in Nat, ModMod
        <3> QED BY <2>2, <3>1, <3>3, <3>4, <1>5
    <2>5. N % Step # 0
        <3>1. PICK s \in Nat \ {0, 1} : s = Step
            BY Constants
        <3>2. (N + 1) % s # N % s
            <4>1. s \in Nat \ {0} /\ N + 1 \in Nat /\ N < N + 1 /\ N + 1 < N + s
                BY ONLY <3>1, N \in Nat
            <4> QED BY ONLY <4>1, N \in Nat, Apart
        <3> QED BY <2>3, <2>4, <3>1, <3>2
    <2>6. PICK d \in Nat, e \in Nat : d = Due(m) /\ e = Due(k) /\ (FIR_REQ # "RQ_END" => e = d) /\ (e + 1) % Step = 1 /\ d % Step = 0
        <3>1. Due(m) \in Nat /\ Due(k) \in Nat
            BY DueFacts
        <3>2. \A x \in 0..(Step - 1) : (Due(k) + x) % Step = x /\ (Due(m) + x) % Step = x
            BY DueFacts
        <3>3. Step \in Nat \ {0, 1}
            BY Constants
        <3>4. (Due(k) + 1) % Step = 1 /\ (Due(m) + 0) % Step = 0 /\ Due(m) + 0 = Due(m)
            BY <3>1, <3>2, <3>3
        <3> QED BY <3>1, <3>4, <1>3 DEF Sampled
    <2>7. /\ FIR_REQ \in Pass => N = d
          /\ FIR_REQ = "RQ_WAIT" => N = d \/ N = d + 1
        BY <1>1, <1>5, <2>6 DEF Time1
    <2>8. /\ r \in Pass => M = e
          /\ r = "RQ_WAIT" => M = e \/ M = e + 1
          /\ r = "RQ_END" => M = e + 1
        <3>1. Due(k)' = e
            BY <2>6 DEF Due
        <3> QED BY <2>1, <1>4, <3>1 DEF Time1
    <2>9. r = CASE FIR_REQ = "RQ_IDLE" ->
                   IF BUFFER_FILL = 1 /\ PDM_BYTE_CNT % Step = 0 THEN "RQ_START" ELSE "RQ_IDLE"
            [] FIR_REQ = "RQ_START" -> "RQ_CH_START"
            [] FIR_REQ = "RQ_CH_START" -> "RQ_CH_BUSY"
            [] FIR_REQ = "RQ_CH_BUSY" -> IF FIR.STS # "SEQ_IDLE" THEN "RQ_CH_BUSY" ELSE "RQ_CH_END"
            [] FIR_REQ = "RQ_CH_END" -> IF FIR_CH_CNT = Channels - 1 THEN "RQ_WAIT" ELSE "RQ_CH_START"
            [] FIR_REQ = "RQ_WAIT" -> IF PDM_BYTE_CNT % Step # 0 THEN "RQ_END" ELSE "RQ_WAIT"
            [] FIR_REQ = "RQ_END" -> "RQ_IDLE"
        BY <1>1, <1>4, FirRequestMoves
    <2>10. FIR_REQ \in Requests \cup {"RQ_WAIT"}
        BY <1>1 DEF Typed, FirTyped
    <2>11. CASE FIR_REQ = "RQ_IDLE"
        BY ONLY <2>4, <2>5, <2>9, <2>11
    <2>12. CASE FIR_REQ = "RQ_END"
        BY ONLY <2>9, <2>12
    <2>13. CASE FIR_REQ \in Pass
        <3>1. M = d + 1 /\ e = d /\ r \in Pass \cup {"RQ_WAIT"}
            BY ONLY <2>3, <2>6, <2>7, <2>9, <2>13 DEF Pass
        <3>2. M # e /\ M # e + 1
            BY ONLY <3>1, <2>4, <2>6
        <3> QED BY ONLY <3>1, <3>2, <2>8
    <2>14. CASE FIR_REQ = "RQ_WAIT"
        <3>1. e = d /\ N # d /\ r \in {"RQ_WAIT", "RQ_END"}
            BY ONLY <2>4, <2>5, <2>6, <2>9, <2>14
        <3>2. M = e + 2
            BY ONLY <3>1, <2>3, <2>7, <2>14, <2>6
        <3>3. M # e /\ M # e + 1
            BY ONLY <3>2, <2>6
        <3> QED BY ONLY <3>1, <3>3, <2>8
    <2> QED BY <2>10, <2>11, <2>12, <2>13, <2>14 DEF Pass, Requests
<1>6. ASSUME BUF64_RDY' = <<1, 0>> PROVE FIR2_REQ' = "RQ_IDLE"
    <2>1. BUF64_RDY[1] = 0 /\ BUF64_RDY # <<1, 0>>
        BY <1>6 DEF Clock, Ready
    <2>2. FIR2_REQ = "RQ_IDLE"
        BY <1>1, <2>1 DEF Time2, Typed, BufTyped
    <2> QED BY <1>1, <2>1, <2>2, Fir2RequestMoves
<1> QED BY <1>4, <1>5, <1>6

\* Inv1 holds at first.
LEMMA Inv1Init == ASSUME Init PROVE Inv1
<1>1. Sync
    BY Constants DEF Init, PDMIF!Init, PDMIF!BS_WAIT, PDMIF!B8S_IDLE, Sync, Chs
<1> QED BY <1>1, TypedInit, Filter1Init, Filter2Init DEF Inv1

\* A clock keeps Inv1.
LEMMA Inv1Step == ASSUME Inv1, NEW edge \in BOOLEAN, Clock(edge) PROVE Inv1'
BY TypedStep, SyncStep, Filter1Step, Filter2Step DEF Inv1

\* So does stuttering.
LEMMA Inv1Same == ASSUME Inv1, UNCHANGED vars PROVE Inv1'
<1>1. UNCHANGED ifVars /\ UNCHANGED firVars /\ UNCHANGED bufVars /\ UNCHANGED fir2Vars /\ next' = next
    BY DEF vars
<1>2. Typed'
    BY <1>1 DEF Inv1, Typed, IfTyped, RingTyped, FirTyped, BufTyped, Fir2Typed,
       ifVars, firVars, bufVars, fir2Vars
<1>3. Sync'
    BY <1>1 DEF Inv1, Sync, ifVars
<1>4. Running' <=> Running
    BY <1>1 DEF Running, ifVars
<1>5. Filter1'
    <2>1. (Shape1' <=> Shape1) /\ (Hand1' <=> Hand1) /\ Left1' = Left1
        BY <1>1 DEF Shape1, Hand1, Left1, firVars, bufVars
    <2>2. Cleared1' <=> Cleared1
        BY <1>1, <2>1 DEF Cleared1, ifVars, firVars, bufVars
    <2> QED BY <1>4, <2>1, <2>2 DEF Inv1, Filter1
<1>6. Filter2'
    <2>1. UNCHANGED <<clr_in, hold, FIR2, FIR2_REQ, FIR2_CH_CNT, SMPLCNT_32k, next>>
        BY <1>1 DEF ifVars, fir2Vars
    <2>2. (Shape2' <=> Shape2) /\ (Sizes2' <=> Sizes2)
        BY <2>1 DEF Shape2, Sizes2
    <2>3. (Hand2' <=> Hand2) /\ Left2' = Left2
        BY <2>1 DEF Hand2, Left2
    <2>4. Cleared2' <=> Cleared2
        BY <2>1, <2>3 DEF Cleared2
    <2> QED BY <1>4, <2>2, <2>3, <2>4 DEF Inv1, Filter2
<1> QED BY <1>2, <1>3, <1>5, <1>6 DEF Inv1

\* The schedule depends on the variables only.
LEMMA ScheduleSame ==
    ASSUME NEW N \in Nat, NEW m \in Nat, NEW q \in Nat, Schedule(N, m, q), UNCHANGED vars
    PROVE  Schedule(N, m, q)'
<1>1. UNCHANGED ifVars /\ UNCHANGED firVars /\ UNCHANGED bufVars /\ UNCHANGED fir2Vars
    BY DEF vars
<1>2. Captured(N)'
    BY <1>1 DEF Schedule, Captured, BitsIn, Counted, ifVars
<1>3. Since' = Since /\ Gone1' = Gone1 /\ Gone2' = Gone2 /\ Rate' = Rate
    <2>1. Since' = Since /\ Rate' = Rate
        BY <1>1 DEF Since, Rate, ifVars
    <2>2. Stage1' = Stage1 /\ Stage2' = Stage2
        BY <1>1 DEF Stage1, Stage2, firVars, fir2Vars
    <2>3. Gone1' = Gone1 /\ Gone2' = Gone2
        BY <1>1, <2>2 DEF Gone1, Gone2, firVars, fir2Vars
    <2> QED BY <2>1, <2>3
<1>4. Time1(N, m)'
    BY <1>1, <1>3 DEF Schedule, Time1, Due, ifVars, firVars
<1>5. Time2(N, m, q)'
    <2>1. Since64(N, m)' = Since64(N, m) /\ Due2(q)' = Due2(q)
        BY <1>3 DEF Since64, Due, Due2, First
    <2> QED BY <1>1, <1>3, <2>1 DEF Schedule, Time2, ifVars, bufVars, fir2Vars
<1> QED BY <1>2, <1>4, <1>5 DEF Schedule

\* The inductive invariant of the schedule.
Scheduled == Inv1 /\ \E N, m, q \in Nat : Schedule(N, m, q)

\* A step keeps the schedule.
LEMMA ScheduledStep == ASSUME Scheduled, [Next]_vars PROVE Scheduled'
<1>1. PICK N \in Nat, m \in Nat, q \in Nat : Schedule(N, m, q)
    BY DEF Scheduled
<1>2. ASSUME NEW edge \in BOOLEAN, Clock(edge) PROVE Scheduled'
    <2>1. CASE clr_in = 1
        <3>1. Schedule(0, 0, 0)'
            BY <1>2, <2>1, ScheduleReset
        <3> QED BY <1>2, <3>1, Inv1Step DEF Scheduled
    <2>2. CASE clr_in = 0
        <3>1. PICK M \in Nat, k \in Nat, n \in Nat : M = More(N) /\ k = Sampled(m) /\ n = Handed(q)
            BY DEF More, Sampled, Handed
        <3>2. Schedule(M, k, n)'
            BY <1>1, <1>2, <2>2, <3>1, ScheduleStep DEF Scheduled
        <3> QED BY <1>2, <3>2, Inv1Step DEF Scheduled
    <2> QED BY <2>1, <2>2 DEF Scheduled, Inv1, Typed, IfTyped
<1>3. ASSUME UNCHANGED vars PROVE Scheduled'
    <2>1. Schedule(N, m, q)'
        BY <1>1, <1>3, ScheduleSame
    <2> QED BY <1>3, <2>1, Inv1Same DEF Scheduled
<1> QED BY <1>2, <1>3 DEF Next

\* At every clock there are numbers of bytes, 64 kHz samples and samples handed on
\* since CLR that the counters, the bits shifted in and both sequencers agree with:
\* neither filter falls behind the microphones, whenever CLR comes and goes.
THEOREM OnSchedule == Spec => []Scheduled
<1>1. Init => Scheduled
    BY Inv1Init, ScheduleInit DEF Scheduled
<1> QED BY <1>1, ScheduledStep, PTL DEF Spec

\* No request is lost: FIR_REQ and FIR2_REQ are back at rest when the byte count or
\* the sample count asks for the next pass, which is not queued in the code.
THEOREM RequestsMet == Spec => NoRequestMissed
<1> DEFINE Met == clr_in = 0 =>
              /\ BUFFER_FILL = 1 /\ PDM_BYTE_CNT' # PDM_BYTE_CNT /\ PDM_BYTE_CNT' % Step = 0
                   => FIR_REQ' = "RQ_IDLE"
              /\ BUF64_RDY' = <<1, 0>> => FIR2_REQ' = "RQ_IDLE"
<1>1. Scheduled /\ [Next]_vars => [Met]_vars
    <2>1. ASSUME Scheduled, NEW edge \in BOOLEAN, Clock(edge), clr_in = 0 PROVE Met
        <3>1. PICK N \in Nat, m \in Nat, q \in Nat : Schedule(N, m, q)
            BY <2>1 DEF Scheduled
        <3> QED BY <2>1, <3>1, RequestMet DEF Scheduled
    <2> QED BY <2>1 DEF Next
<1> QED BY <1>1, OnSchedule, PTL DEF Spec, NoRequestMissed

---------------------------------------------------------------------------
(* What the rings hold and the filters make of it. *)

\* The ring holds the last half ring of bytes of every channel, and byte N of
\* the channels it has been written for.
Contents1(N) ==
    /\ \A c \in Chs : \A i \in 0..(N - 1) : N <= i + Words => PDMBUF[c][i % Bytes] = i % ByteWrap
    /\ PDMBYTE_STS \in Chs =>
         \A c \in Chs : c < PDMBYTE_STS => PDMBUF[c][N % Bytes] = N % ByteWrap

\* 64 kHz sample m of channel c is in the buffer.
StoredFor(c) == \/ FIR_REQ \in {"RQ_CH_START", "RQ_CH_BUSY", "RQ_CH_END"} /\ c < FIR_CH_CNT
                \/ FIR_REQ \in {"RQ_WAIT", "RQ_END"}

\* The buffer holds the samples from the window of sample q on.
Contents2(m, q) ==
    \A c \in Chs :
        /\ \A i \in 0..(m - 1) : Rate * q <= i => BUF64k[c][i % POS_MAX] = i % Count64
        /\ StoredFor(c) => BUF64k[c][m % POS_MAX] = m % Count64

\* Product i of a window from a on.
Item(c, a, i) == <<i - 1, <<c, (a + i - 1) % ByteWrap>>>>
Item64(c, a, i) == <<i - 1, <<c, (a + i - 1) % Count64>>>>

\* What the first filter has read and added at stage s of a window from a on.
Flow1(s, a, c) ==
    /\ s = 0 => IF_BUF_ADDR_CNT % Bytes = a % Bytes
    /\ 1 <= s /\ s <= Words => IF_BUF_ADDR_CNT % Bytes = (a + s - 1) % Bytes
    /\ 2 <= s /\ s <= Words + 1 => PDMBUF_Q = <<c, (a + s - 2) % ByteWrap>> /\ FIR.ROMQ = s - 2
    /\ 3 <= s /\ s <= Words + 2 => FIR.ADD0_OUT = Item(c, a, s - 2)
    /\ 1 <= s => FIR.RESULT = [i \in 1..(IF s < 3 THEN 0 ELSE s - 3) |-> Item(c, a, i)]

\* The same of the second filter and a window from b on.
Flow2(s, b, c) ==
    /\ s = 0 => FIR2.POS_CNT = b % POS_MAX
    /\ 1 <= s /\ s <= TAP_NUM => FIR2.POS_CNT = (b + s - 1) % POS_MAX
    /\ 2 <= s /\ s <= TAP_NUM + 1 => BUF64k_RDQ = <<c, (b + s - 2) % Count64>> /\ FIR2.COEF_DATA = s - 2
    /\ 3 <= s /\ s <= TAP_NUM + 2 => FIR2.MULL_RESULT = Item64(c, b, s - 2)
    /\ 1 <= s /\ s <= TAP_NUM + 2 =>
         FIR2.ADD_RESULT = [i \in 1..(IF s < 3 THEN 0 ELSE s - 3) |-> Item64(c, b, i)]
    /\ s = TAP_NUM + 3 => FIR2.data_out = [i \in 1..(TAP_NUM - 1) |-> Item64(c, b, i)]

\* What the rings hold and the filters have made of it.
Data(N, m, q) ==
    /\ Contents1(N) /\ Contents2(m, q)
    /\ FIR_REQ = "RQ_CH_BUSY" => Flow1(Stage1, N - Words, FIR_CH_CNT)
    /\ FIR_REQ = "RQ_CH_END" => OFFSET_SUM = m % Count64
    /\ FIR2_REQ = "RQ_CH_BUSY" => Flow2(Stage2, Rate * q, FIR2_CH_CNT)

\* What a clock writes into the ring of bytes.
LEMMA ByteWrites ==
    ASSUME Typed, Sync, clr_in = 0, NEW N \in Nat, Captured(N), bytes = N % ByteWrap, PDM_BYTE_CNT = N % Bytes,
           NEW edge \in BOOLEAN, Clock(edge), NEW c \in Chs, NEW p \in 0..(Bytes - 1)
    PROVE  PDMBUF'[c][p] = IF PDMBYTE_STS = c /\ p = N % Bytes THEN N % ByteWrap ELSE PDMBUF[c][p]
<1>1. PDMBUF \in [Chs -> [0..(Bytes - 1) -> Values]] /\ PDM_BYTE_CNT \in 0..(Bytes - 1)
    BY DEF Typed, RingTyped, IfTyped
<1>2. PDMBUF' = IF PDMBYTE_STS \in Chs
                THEN [PDMBUF EXCEPT ![PDMBYTE_STS][PDM_BYTE_CNT] = ByteIn(PDMBYTE_STS)] ELSE PDMBUF
    BY DEF Clock, WriteBytes, PDMBUF_WR
<1>3. CASE PDMBYTE_STS \in Chs
    <2>1. PICK v : v = ByteIn(PDMBYTE_STS)
        OBVIOUS
    <2>2. v = N % ByteWrap
        BY <1>3, <2>1, ByteWritten
    <2>3. PDMBUF' = [PDMBUF EXCEPT ![PDMBYTE_STS][PDM_BYTE_CNT] = v]
        BY <1>2, <1>3, <2>1
    <2>4. PDMBUF'[c][p] = IF PDMBYTE_STS = c /\ p = PDM_BYTE_CNT THEN v ELSE PDMBUF[c][p]
        BY ONLY <2>3, <1>1, <1>3, c \in Chs, p \in 0..(Bytes - 1)
    <2> QED BY <2>2, <2>4
<1>4. CASE PDMBYTE_STS \notin Chs
    BY <1>2, <1>4
<1> QED BY <1>3, <1>4

\* The ring keeps the bytes of the last half ring.
LEMMA Contents1Step ==
    ASSUME Typed, Sync, clr_in = 0, NEW N \in Nat, NEW m \in Nat, Captured(N), Time1(N, m), Contents1(N),
           NEW M \in Nat, M = More(N), NEW edge \in BOOLEAN, Clock(edge)
    PROVE  Contents1(M)'
<1>1. Bytes \in Nat \ {0, 1} /\ Words \in Nat \ {0} /\ Bytes = 2 * Words /\ Channels \in Nat \ {0}
    BY Constants
<1>2. \A c \in Chs, p \in 0..(Bytes - 1) :
         PDMBUF'[c][p] = IF PDMBYTE_STS = c /\ p = N % Bytes THEN N % ByteWrap ELSE PDMBUF[c][p]
    BY ByteWrites DEF Time1
<1>3. \A i \in Nat : i % Bytes \in 0..(Bytes - 1)
    <2>1. Bytes \in Nat \ {0}
        BY <1>1
    <2> QED BY ONLY <2>1, Mod
<1>4. ASSUME NEW i \in 0..(N - 1), N <= i + Words PROVE i % Bytes # N % Bytes
    <2>1. Bytes \in Nat \ {0} /\ i \in Nat /\ i < N /\ N < i + Bytes
        BY ONLY <1>1, <1>4, N \in Nat
    <2> QED BY ONLY <2>1, N \in Nat, Apart
<1>5. ASSUME NEW c \in Chs, NEW i \in 0..(N - 1), N <= i + Words
      PROVE  PDMBUF'[c][i % Bytes] = i % ByteWrap
    <2>1. PDMBUF[c][i % Bytes] = i % ByteWrap
        BY <1>5 DEF Contents1
    <2>2. i % Bytes # N % Bytes /\ i % Bytes \in 0..(Bytes - 1)
        BY <1>3, <1>4, <1>5
    <2> QED BY <1>2, <2>1, <2>2
<1>6. ASSUME NEW c \in Chs, PDMBYTE_STS \in Chs, c <= PDMBYTE_STS PROVE PDMBUF'[c][N % Bytes] = N % ByteWrap
    <2>1. PDMBUF'[c][N % Bytes] = IF PDMBYTE_STS = c THEN N % ByteWrap ELSE PDMBUF[c][N % Bytes]
        BY <1>2, <1>3
    <2>2. CASE PDMBYTE_STS = c
        BY <2>1, <2>2
    <2>3. CASE PDMBYTE_STS # c
        <3>1. c < PDMBYTE_STS
            BY <1>6, <2>3, <1>1 DEF Chs
        <3>2. PDMBUF[c][N % Bytes] = N % ByteWrap
            BY <1>6, <3>1 DEF Contents1
        <3> QED BY <2>1, <2>3, <3>2
    <2> QED BY <2>2, <2>3
<1>7. PICK y : y = PDMBYTE_STS'
    OBVIOUS
<1>8. /\ M = IF PDMBYTE_STS = Channels - 1 THEN N + 1 ELSE N
      /\ y \in Chs => y = 0 \/ (PDMBYTE_STS \in Chs /\ y = PDMBYTE_STS + 1 /\ M = N)
      /\ PDMBYTE_STS = Channels - 1 => y \notin Chs /\ PDMBYTE_STS \in Chs
    <2>1. y = IF PDMBYTE_STS = Channels
                      THEN IF PDMBIT_STS = Bits - 1 THEN 0 ELSE Channels
                      ELSE IF PDMBYTE_STS = Channels + 1
                      THEN IF PDMBIT_STS # Bits - 1 THEN Channels ELSE Channels + 1
                      ELSE IF PDMBYTE_STS = Channels - 1 THEN Channels + 1 ELSE PDMBYTE_STS + 1
        BY <1>7, IfMovesHolds DEF IfMoves
    <2>2. PDMBYTE_STS \in 0..(Channels + 1) /\ M = IF PDMBYTE_STS = Channels - 1 THEN N + 1 ELSE N
        BY DEF Typed, IfTyped, More
    <2> QED BY ONLY <2>1, <2>2, <1>1 DEF Chs
<1>9. ASSUME NEW c \in Chs, NEW i \in 0..(M - 1), M <= i + Words PROVE PDMBUF'[c][i % Bytes] = i % ByteWrap
    <2>1. CASE i < N
        <3>1. i \in 0..(N - 1) /\ N <= i + Words
            BY <1>1, <1>8, <1>9, <2>1
        <3> QED BY <1>5, <3>1
    <2>2. CASE ~(i < N)
        <3>1. i = N /\ M = N + 1
            BY <1>8, <1>9, <2>2
        <3>2. PDMBYTE_STS \in Chs /\ c <= PDMBYTE_STS
            BY <3>1, <1>1, <1>8 DEF Chs
        <3> QED BY <1>6, <3>1, <3>2
    <2> QED BY <2>1, <2>2
<1>10. ASSUME NEW c \in Chs, y \in Chs, c < y PROVE PDMBUF'[c][M % Bytes] = M % ByteWrap
    <2>1. PDMBYTE_STS \in Chs /\ y = PDMBYTE_STS + 1 /\ M = N
        BY <1>8, <1>10 DEF Chs
    <2>2. c <= PDMBYTE_STS
        BY <2>1, <1>1, <1>10 DEF Chs
    <2> QED BY <1>6, <2>1, <2>2
<1> QED BY <1>7, <1>9, <1>10 DEF Contents1

\* The second filter's window and the sample being written never meet.
LEMMA Span ==
    ASSUME Typed, NEW N \in Nat, NEW m \in Nat, NEW q \in Nat, Time2(N, m, q)
    PROVE  /\ Rate * q \in Nat /\ m < Rate * q + POS_MAX
           /\ FIR2_REQ # "RQ_IDLE" => m > Rate * q + TAP_NUM
<1>1. PICK R \in Nat \ {0, 1}, T \in Nat, P \in Nat : R = Rate /\ T = TAP_NUM /\ P = POS_MAX /\ T + R < P
    BY RateFacts, Constants
<1>2. PICK b \in Nat : b = Rate * q
    <2>1. R * q \in Nat
        BY <1>1
    <2> QED BY <2>1, <1>1
<1>3. PICK d \in Nat : d = First /\ d > T /\ d <= T + R
    <2>1. Due2(0) \in Nat /\ Due2(0) > T /\ Due2(0) <= T + R
        <3>1. 0 \in Nat
            OBVIOUS
        <3> QED BY ONLY <3>1, <1>1, Typed, Due2Facts
    <2>2. Due2(0) = First
        <3>1. First \in Nat
            <4>1. R \in Nat \ {0} /\ T + R \in Nat
                BY <1>1
            <4>2. (T + R) \div R \in Nat
                BY ONLY <4>1, DivMod
            <4> QED BY <4>2, <1>1 DEF First
        <3>2. Rate * 0 = 0
            BY <1>1
        <3> QED BY <3>1, <3>2 DEF Due2
    <2> QED BY <2>1, <2>2
<1>4. Due2(q) = d + b
    BY <1>2, <1>3 DEF Due2
<1>5. BUF64k_FILLED \in {0, 1}
    BY DEF Typed, BufTyped
<1>6. /\ BUF64k_FILLED = 0 => q = 0 /\ m <= T + 1 /\ FIR2_REQ = "RQ_IDLE"
      /\ BUF64k_FILLED = 1 => m <= d + b /\ (FIR2_REQ # "RQ_IDLE" => m = d + b)
    BY <1>1, <1>4 DEF Time2
<1>7. m < b + P /\ (FIR2_REQ # "RQ_IDLE" => m > b + T)
    BY ONLY <1>1, <1>3, <1>5, <1>6, m \in Nat, b \in Nat
<1> QED BY <1>1, <1>2, <1>7

\* What a clock writes into the buffer.
LEMMA SampleWrites ==
    ASSUME Typed, Hand1, clr_in = 0, NEW N \in Nat, NEW m \in Nat, Time1(N, m),
           FIR_REQ = "RQ_CH_END" => OFFSET_SUM = m % Count64,
           NEW edge \in BOOLEAN, Clock(edge), NEW c \in Chs, NEW p \in 0..(POS_MAX - 1)
    PROVE  BUF64k'[c][p] = IF FIR_REQ = "RQ_CH_END" /\ FIR_CH_CNT = c /\ p = m % POS_MAX
                           THEN m % Count64 ELSE BUF64k[c][p]
<1>1. BUF64k \in [Chs -> [0..(POS_MAX - 1) -> Values64]] /\ FIR_CH_CNT \in Chs
    BY DEF Typed, BufTyped, FirTyped
<1>2. SMPLCNT_64k % POS_MAX = m % POS_MAX /\ m % POS_MAX \in 0..(POS_MAX - 1)
    <2>1. PICK a \in Nat \ {0}, b \in Nat \ {0} : a = Count64 /\ b = POS_MAX /\ a % b = 0
        BY Constants, PdmCoreAssumption
    <2>2. a \in Nat \ {0} /\ b \in Nat \ {0} /\ a % b = 0
        BY <2>1
    <2>3. (m % a) % b = m % b
        BY ONLY <2>2, m \in Nat, ModMod
    <2>4. m % b \in 0..(b - 1)
        BY ONLY <2>2, m \in Nat, Mod
    <2> QED BY <2>1, <2>3, <2>4 DEF Time1
<1>8. PICK at : at = SMPLCNT_64k % POS_MAX
    OBVIOUS
<1>3. at = m % POS_MAX
    BY <1>2, <1>8
<1>4. BUF64k' = IF BUF64k_WR = 1 THEN [BUF64k EXCEPT ![FIR_CH_CNT][at] = OFFSET_SUM] ELSE BUF64k
    <2>1. BUF64k' = IF BUF64k_WR = 1 THEN [BUF64k EXCEPT ![FIR_CH_CNT][SMPLCNT_64k % POS_MAX] = OFFSET_SUM]
                    ELSE BUF64k
        BY DEF Clock, Store64
    <2> QED BY <2>1, <1>8
<1>5. BUF64k_WR = 1 <=> FIR_REQ = "RQ_CH_END"
    BY DEF Hand1, Typed, BufTyped
<1>6. CASE FIR_REQ = "RQ_CH_END"
    <2>1. BUF64k' = [BUF64k EXCEPT ![FIR_CH_CNT][at] = OFFSET_SUM] /\ OFFSET_SUM = m % Count64
        BY <1>4, <1>5, <1>6
    <2>2. BUF64k'[c][p] = IF FIR_CH_CNT = c /\ p = at THEN OFFSET_SUM ELSE BUF64k[c][p]
        BY ONLY <2>1, <1>1, c \in Chs, p \in 0..(POS_MAX - 1)
    <2> QED BY <2>1, <2>2, <1>3, <1>6
<1>7. CASE FIR_REQ # "RQ_CH_END"
    BY <1>4, <1>5, <1>7
<1> QED BY <1>6, <1>7

\* The buffer keeps the samples that are still needed.
LEMMA Contents2Step ==
    ASSUME Typed, Hand1, clr_in = 0, NEW N \in Nat, NEW m \in Nat, NEW q \in Nat, Time1(N, m), Time2(N, m, q),
           Contents2(m, q), FIR_REQ = "RQ_CH_END" => OFFSET_SUM = m % Count64,
           NEW k \in Nat, k = Sampled(m), NEW n \in Nat, n = Handed(q), NEW edge \in BOOLEAN, Clock(edge)
    PROVE  Contents2(k, n)'
<1>1. PICK R \in Nat \ {0, 1} : R = Rate /\ Rate' = R
    <2>1. mode_freq' = mode_freq
        BY DEF Clock, Clear
    <2> QED BY <2>1, RateFacts DEF Rate
<1>2. PICK b \in Nat, b2 \in Nat : b = Rate * q /\ b2 = R * n /\ b <= b2 /\ m < b + POS_MAX
    <2>1. n \in {q, q + 1}
        BY DEF Handed
    <2>2. q * R \in Nat /\ (q + 1) * R = q * R + R
        BY <1>1, Times
    <2>3. R * q = q * R /\ R * (q + 1) = (q + 1) * R
        BY <1>1
    <2>4. PICK x \in Nat : x = q * R
        BY <2>2
    <2>5. R * n \in {x, x + R} /\ R * q = x
        BY <2>1, <2>2, <2>3, <2>4
    <2> QED BY <2>5, <1>1, Span
<1>3. \A c \in Chs, p \in 0..(POS_MAX - 1) :
        BUF64k'[c][p] = IF FIR_REQ = "RQ_CH_END" /\ FIR_CH_CNT = c /\ p = m % POS_MAX
                        THEN m % Count64 ELSE BUF64k[c][p]
    BY SampleWrites
<1>4. POS_MAX \in Nat \ {0} /\ \A i \in Nat : i % POS_MAX \in 0..(POS_MAX - 1)
    <2>1. POS_MAX \in Nat \ {0}
        BY Constants
    <2> QED BY ONLY <2>1, Mod
<1>5. ASSUME NEW c \in Chs, NEW i \in 0..(m - 1), b <= i PROVE BUF64k'[c][i % POS_MAX] = i % Count64
    <2>1. i \in Nat /\ i < m /\ m < i + POS_MAX /\ POS_MAX \in Nat \ {0}
        BY <1>2, <1>4, <1>5
    <2>2. i % POS_MAX # m % POS_MAX
        BY ONLY <2>1, m \in Nat, Apart
    <2>3. BUF64k[c][i % POS_MAX] = i % Count64
        BY <1>2, <1>5 DEF Contents2
    <2> QED BY <1>3, <1>4, <2>1, <2>2, <2>3
<1>6. ASSUME NEW c \in Chs, StoredFor(c) \/ (FIR_REQ = "RQ_CH_END" /\ FIR_CH_CNT = c)
      PROVE  BUF64k'[c][m % POS_MAX] = m % Count64
    <2>1. BUF64k'[c][m % POS_MAX] = IF FIR_REQ = "RQ_CH_END" /\ FIR_CH_CNT = c
                                    THEN m % Count64 ELSE BUF64k[c][m % POS_MAX]
        BY <1>3, <1>4
    <2>2. StoredFor(c) => BUF64k[c][m % POS_MAX] = m % Count64
        BY DEF Contents2
    <2> QED BY <1>6, <2>1, <2>2
<1>7. k = IF FIR_REQ = "RQ_END" THEN m + 1 ELSE m
    BY DEF Sampled
<1>8. ASSUME NEW c \in Chs, NEW i \in 0..(k - 1), b2 <= i PROVE BUF64k'[c][i % POS_MAX] = i % Count64
    <2>1. CASE i < m
        <3>1. i \in 0..(m - 1) /\ b <= i
            BY <1>2, <1>8, <2>1
        <3> QED BY <1>5, <3>1
    <2>2. CASE ~(i < m)
        <3>1. i = m /\ FIR_REQ = "RQ_END"
            BY <1>7, <1>8, <2>2
        <3> QED BY <3>1, <1>6 DEF StoredFor
    <2> QED BY <2>1, <2>2
<1>9. ASSUME NEW c \in Chs, StoredFor(c)' PROVE BUF64k'[c][k % POS_MAX] = k % Count64
    <2>1. PICK r, h : r = FIR_REQ' /\ h = FIR_CH_CNT'
        OBVIOUS
    <2>2. r = CASE FIR_REQ = "RQ_IDLE" ->
                   IF BUFFER_FILL = 1 /\ PDM_BYTE_CNT % Step = 0 THEN "RQ_START" ELSE "RQ_IDLE"
            [] FIR_REQ = "RQ_START" -> "RQ_CH_START"
            [] FIR_REQ = "RQ_CH_START" -> "RQ_CH_BUSY"
            [] FIR_REQ = "RQ_CH_BUSY" -> IF FIR.STS # "SEQ_IDLE" THEN "RQ_CH_BUSY" ELSE "RQ_CH_END"
            [] FIR_REQ = "RQ_CH_END" -> IF FIR_CH_CNT = Channels - 1 THEN "RQ_WAIT" ELSE "RQ_CH_START"
            [] FIR_REQ = "RQ_WAIT" -> IF PDM_BYTE_CNT % Step # 0 THEN "RQ_END" ELSE "RQ_WAIT"
            [] FIR_REQ = "RQ_END" -> "RQ_IDLE"
        BY <2>1, FirRequestMoves
    <2>3. /\ h = IF FIR_REQ = "RQ_IDLE" THEN 0
                 ELSE IF FIR_REQ = "RQ_CH_END" /\ FIR_CH_CNT < Channels - 1 THEN FIR_CH_CNT + 1 ELSE FIR_CH_CNT
          /\ FIR_REQ \in Requests \cup {"RQ_WAIT"}
          /\ FIR_REQ = "RQ_START" => FIR_CH_CNT = 0
        BY <2>1, FirRequestMoves DEF ChannelCount, Hand1
    <2>4. (r \in {"RQ_CH_START", "RQ_CH_BUSY", "RQ_CH_END"} /\ c < h) \/ r \in {"RQ_WAIT", "RQ_END"}
        BY <1>9, <2>1 DEF StoredFor
    <2>5. FIR_CH_CNT \in Chs /\ Channels \in Nat
        BY Constants DEF Typed, FirTyped
    <2>6. FIR_REQ # "RQ_END" /\ (StoredFor(c) \/ (FIR_REQ = "RQ_CH_END" /\ FIR_CH_CNT = c))
        <3>1. CASE FIR_REQ \in {"RQ_IDLE", "RQ_START", "RQ_END"}
            BY ONLY <3>1, <2>2, <2>3, <2>4, c \in Chs DEF Chs
        <3>2. CASE FIR_REQ \in {"RQ_CH_START", "RQ_CH_BUSY"}
            BY ONLY <3>2, <2>2, <2>3, <2>4, c \in Chs DEF Chs, StoredFor
        <3>3. CASE FIR_REQ = "RQ_CH_END"
            BY ONLY <3>3, <2>2, <2>3, <2>4, <2>5, c \in Chs DEF Chs, StoredFor
        <3>4. CASE FIR_REQ = "RQ_WAIT"
            BY ONLY <3>4 DEF StoredFor
        <3> QED BY ONLY <3>1, <3>2, <3>3, <3>4, <2>3 DEF Requests
    <2> QED BY <1>6, <1>7, <2>6
<1> QED BY <1>1, <1>2, <1>8, <1>9 DEF Contents2

\* A sequence of the first n of n + 1 items and the last one are all of them.
LEMMA Extend ==
    ASSUME NEW S, NEW n \in Nat, NEW f \in [1..(n + 1) -> S]
    PROVE  Append([i \in 1..n |-> f[i]], f[n + 1]) = [i \in 1..(n + 1) |-> f[i]]
<1> DEFINE s == [i \in 1..n |-> f[i]]
<1>1. s \in Seq(S) /\ Len(s) = n /\ f[n + 1] \in S
    OBVIOUS
<1>2. \A i \in 1..n : s[i] = f[i]
    OBVIOUS
<1> HIDE DEF s
<1>3. /\ Append(s, f[n + 1]) \in Seq(S) /\ Len(Append(s, f[n + 1])) = n + 1
      /\ \A i \in 1..(n + 1) : Append(s, f[n + 1])[i] = f[i]
    BY <1>1, <1>2
<1> DEFINE t == Append(s, f[n + 1])
<1>4. t = [i \in 1..Len(t) |-> t[i]]
    BY <1>3
<1> QED BY <1>3, <1>4 DEF s

\* So for the products of the first filter,
LEMMA Grow1 ==
    ASSUME NEW c, NEW a \in Nat, NEW n \in Nat
    PROVE  Append([i \in 1..n |-> Item(c, a, i)], Item(c, a, n + 1)) = [i \in 1..(n + 1) |-> Item(c, a, i)]
<1> DEFINE f == [i \in 1..(n + 1) |-> Item(c, a, i)]
           S == {Item(c, a, i) : i \in 1..(n + 1)}
<1>1. f \in [1..(n + 1) -> S]
    OBVIOUS
<1>2. Append([i \in 1..n |-> f[i]], f[n + 1]) = [i \in 1..(n + 1) |-> f[i]]
    <2> HIDE DEF f, S
    <2> QED BY <1>1, Extend
<1>3. f[n + 1] = Item(c, a, n + 1)
    OBVIOUS
<1>4. [i \in 1..n |-> f[i]] = [i \in 1..n |-> Item(c, a, i)]
    OBVIOUS
<1>5. [i \in 1..(n + 1) |-> f[i]] = [i \in 1..(n + 1) |-> Item(c, a, i)]
    OBVIOUS
<1> QED BY <1>2, <1>3, <1>4, <1>5

\* and of the second one.
LEMMA Grow2 ==
    ASSUME NEW c, NEW a \in Nat, NEW n \in Nat
    PROVE  Append([i \in 1..n |-> Item64(c, a, i)], Item64(c, a, n + 1)) = [i \in 1..(n + 1) |-> Item64(c, a, i)]
<1> DEFINE f == [i \in 1..(n + 1) |-> Item64(c, a, i)]
           S == {Item64(c, a, i) : i \in 1..(n + 1)}
<1>1. f \in [1..(n + 1) -> S]
    OBVIOUS
<1>2. Append([i \in 1..n |-> f[i]], f[n + 1]) = [i \in 1..(n + 1) |-> f[i]]
    <2> HIDE DEF f, S
    <2> QED BY <1>1, Extend
<1>3. f[n + 1] = Item64(c, a, n + 1)
    OBVIOUS
<1>4. [i \in 1..n |-> f[i]] = [i \in 1..n |-> Item64(c, a, i)]
    OBVIOUS
<1>5. [i \in 1..(n + 1) |-> f[i]] = [i \in 1..(n + 1) |-> Item64(c, a, i)]
    OBVIOUS
<1> QED BY <1>2, <1>3, <1>4, <1>5

\* No byte is counted during a pass.
LEMMA PassStill ==
    ASSUME Typed, Sync, Shape1, Hand1, clr_in = 0, NEW N \in Nat, Captured(N), NEW m \in Nat, Time1(N, m),
           FIR_REQ \in Pass, NEW edge \in BOOLEAN, Clock(edge)
    PROVE  More(N) = N /\ N = Due(m) /\ N >= Words
<1>1. N = Due(m) /\ Since <= Gone1 + 1 /\ PDMBIT_STS # Bits /\ BUFFER_FILL = 1
    BY DEF Time1, Pass, Typed, IfTyped
<1>2. Gone1 \in 1..(Channels * (Words + 6) + 1)
    BY Gone1Step
<1>3. PICK z \in Nat : z = Channels * (Words + 6) /\ z + 3 < ByteClocks
    <2>1. Channels \in Nat /\ Words \in Nat
        BY Constants
    <2>2. Channels * (Words + 6) \in Nat
        BY <2>1
    <2> QED BY <2>2, Timing
<1>4. PICK M \in Nat : M = More(N)
    BY DEF More
<1>5. (M # N => Since = ByteClocks - 1) /\ ByteClocks \in Nat
    BY <1>1, <1>4, CountMoves, Timing
<1>6. M = N
    BY ONLY <1>1, <1>2, <1>3, <1>5
<1> QED BY <1>1, <1>4, <1>6, DueFacts

\* When the first filter starts, reads and adds.
LEMMA SumTime ==
    ASSUME Typed, Shape1
    PROVE  /\ FIR.STS = "SEQ_START" <=> Stage1 = 0
           /\ FIR.STS = "SEQ_CALC" <=> Stage1 \in 1..Words
           /\ FIR.STS = "SEQ_CALC" => Stage1 = FIR.CALC_CNT + 1
           /\ FIR.STS = "SEQ_IDLE" <=> Stage1 = Words + 3
           /\ FIR.SUMTIM[2] = 1 <=> Stage1 >= 3 /\ Stage1 <= Words + 2
           /\ Stage1 \in 0..(Words + 3)
<1>1. PICK d1 \in {0, 1}, d2 \in {0, 1} : FIR.SUMTIM = <<d1, d2>>
    BY DEF Typed, FirTyped, FirType
<1>2. /\ FIR.STS \in States /\ FIR.CALC_CNT \in 0..Words
      /\ FIR.STS = "SEQ_CALC" => FIR.CALC_CNT < Words
    BY DEF Typed, FirTyped, FirType
<1>3. Words \in Nat \ {0}
    BY Constants
<1>4. /\ FIR.STS \in {"SEQ_IDLE", "SEQ_START"} => d2 = 0
      /\ FIR.STS = "SEQ_CALC" => d2 = Bit(FIR.CALC_CNT >= 2)
      /\ FIR.STS = "SEQ_END0" => d2 = Bit(Words >= 2)
      /\ FIR.STS = "SEQ_END1" => d2 = 1
    BY <1>1 DEF Shape1
<1>5. PICK s : s = Stage1
    OBVIOUS
<1>6. s = CASE FIR.STS = "SEQ_START" -> 0
            [] FIR.STS = "SEQ_CALC" -> FIR.CALC_CNT + 1
            [] FIR.STS = "SEQ_END0" -> Words + 1
            [] FIR.STS = "SEQ_END1" -> Words + 2
            [] FIR.STS = "SEQ_IDLE" -> Words + 3
    BY <1>5 DEF Stage1
<1>7. /\ FIR.STS = "SEQ_START" <=> s = 0
      /\ FIR.STS = "SEQ_CALC" <=> s \in 1..Words
      /\ FIR.STS = "SEQ_CALC" => s = FIR.CALC_CNT + 1
      /\ FIR.STS = "SEQ_IDLE" <=> s = Words + 3
      /\ d2 = 1 <=> s >= 3 /\ s <= Words + 2
      /\ s \in 0..(Words + 3)
    <2>1. CASE FIR.STS = "SEQ_START"
        BY ONLY <2>1, <1>2, <1>3, <1>4, <1>6 DEF Bit
    <2>2. CASE FIR.STS = "SEQ_CALC"
        BY ONLY <2>2, <1>2, <1>3, <1>4, <1>6 DEF Bit
    <2>3. CASE FIR.STS = "SEQ_END0"
        BY ONLY <2>3, <1>2, <1>3, <1>4, <1>6 DEF Bit
    <2>4. CASE FIR.STS = "SEQ_END1"
        BY ONLY <2>4, <1>2, <1>3, <1>4, <1>6 DEF Bit
    <2>5. CASE FIR.STS = "SEQ_IDLE"
        BY ONLY <2>5, <1>2, <1>3, <1>4, <1>6 DEF Bit
    <2> QED BY ONLY <2>1, <2>2, <2>3, <2>4, <2>5, <1>2 DEF States
<1> QED BY <1>1, <1>5, <1>7

\* A pass of the first filter starts at its window.
LEMMA Flow1Start ==
    ASSUME Typed, Sync, Shape1, Hand1, clr_in = 0, NEW N \in Nat, Captured(N), NEW m \in Nat, Time1(N, m),
           FIR_REQ = "RQ_CH_START", NEW edge \in BOOLEAN, Clock(edge), NEW c
    PROVE  Flow1(0, N - Words, c)'
<1>1. IF_BUF_ADDR_CNT' = POSITION_CNT_START
    BY DEF Clock, FirPass
<1>2. N = Due(m) /\ N >= Words /\ PDM_BYTE_CNT = N % Bytes
    BY PassStill DEF Time1, Pass
<1>3. Bytes \in Nat \ {0, 1} /\ Step \in Nat \ {0, 1} /\ Bytes % Step = 0 /\ Words \in Nat \ {0} /\ Bytes = 2 * Words
    BY Constants, PdmCoreAssumption
<1>4. PDM_BYTE_CNT % Step = 0
    <2>1. Bytes \in Nat \ {0} /\ Step \in Nat \ {0} /\ Bytes % Step = 0
        BY <1>3
    <2>2. (N % Bytes) % Step = N % Step
        BY ONLY <2>1, N \in Nat, ModMod
    <2>3. \A r \in 0..(Step - 1) : (Due(m) + r) % Step = r
        BY DueFacts
    <2>4. Due(m) + 0 = Due(m) /\ 0 \in 0..(Step - 1)
        BY <1>2, <1>3
    <2>5. N % Step = 0
        BY <1>2, <2>3, <2>4
    <2> QED BY <1>2, <2>2, <2>5
<1>5. IF_BUF_ADDR_CNT' = ((N % Bytes) + Words) % Bytes
    BY <1>1, <1>2, <1>4 DEF POSITION_CNT_START
<1>6. PICK b \in Nat \ {0} : b = Bytes
    BY <1>3
<1>7. PICK a \in Nat : a = N - Words
    BY <1>2, <1>3
<1>8. ((N % b) + Words) % b = (N + Words) % b
    <2>1. b \in Nat \ {0} /\ Words \in Nat
        BY <1>3
    <2> QED BY ONLY <2>1, N \in Nat, ModPlus
<1>9. (a + 1 * b) % b = a % b
    <2>1. 1 \in Nat /\ a \in Nat /\ b \in Nat \ {0}
        OBVIOUS
    <2> QED BY ONLY <2>1, ModRounds
<1>10. a + 1 * b = N + Words
    BY <1>3, <1>6, <1>7
<1>11. IF_BUF_ADDR_CNT' = a % b
    BY <1>5, <1>6, <1>8, <1>9, <1>10
<1>12. (a % b) % b = a % b
    <2>1. a \in Nat /\ b \in Nat \ {0} /\ 0 \in Nat
        OBVIOUS
    <2>2. ((a % b) + 0) % b = (a + 0) % b
        BY ONLY <2>1, ModPlus
    <2>3. (a % b) + 0 = a % b /\ a + 0 = a
        <3>1. a % b \in 0..(b - 1)
            BY ONLY <2>1, Mod
        <3> QED BY <3>1
    <2> QED BY <2>2, <2>3
<1>13. IF_BUF_ADDR_CNT' % Bytes = (N - Words) % Bytes
    BY <1>6, <1>7, <1>11, <1>12
<1>14. Words \in Nat
    BY <1>3
<1> QED BY ONLY <1>13, <1>14 DEF Flow1

\* With every clock the first filter is one place further in its window.
LEMMA Flow1Step ==
    ASSUME Typed, Sync, Shape1, clr_in = 0, NEW N \in Nat, NEW m \in Nat, Captured(N), Time1(N, m),
           Contents1(N), FIR.STS # "SEQ_IDLE", NEW a \in Nat, N = a + Words,
           NEW c \in Chs, c = FIR_CH_CNT, FIR_REQ = "RQ_CH_BUSY",
           NEW s \in Nat, s = Stage1, Flow1(s, a, c), NEW edge \in BOOLEAN, Clock(edge)
    PROVE  Flow1(s + 1, a, c)'
<1>1. PICK A, Q, G : A = IF_BUF_ADDR_CNT' /\ Q = PDMBUF_Q' /\ G = FIR'
    OBVIOUS
<1>2. /\ FIR.STS = "SEQ_START" <=> s = 0
      /\ FIR.STS = "SEQ_CALC" <=> s \in 1..Words
      /\ FIR.STS = "SEQ_CALC" => s = FIR.CALC_CNT + 1
      /\ FIR.SUMTIM[2] = 1 <=> s >= 3 /\ s <= Words + 2
      /\ s <= Words + 2
    BY SumTime, Constants
<1>3. Words \in Nat \ {0} /\ Bytes \in Nat \ {0} /\ Bytes = 2 * Words /\ 2 * Bytes \in Nat \ {0}
    BY Constants
<1>4. IF_BUF_ADDR_CNT \in Nat /\ FIR.CALC_CNT \in Nat
    BY Constants DEF Typed, FirTyped, FirType
<1>5. /\ A = IF FIR.STS = "SEQ_CALC" THEN (IF_BUF_ADDR_CNT + 1) % (2 * Bytes) ELSE IF_BUF_ADDR_CNT
      /\ G.ROMQ = FIR.CALC_CNT % Words /\ G.ADD0_OUT = <<FIR.ROMQ, PDMBUF_Q>> /\ G.RESULT = F!Sum(FIR)
    <2>1. IF_BUF_ADDR_CNT' = IF FIR.STS = "SEQ_CALC" THEN (IF_BUF_ADDR_CNT + 1) % (2 * Bytes) ELSE IF_BUF_ADDR_CNT
        BY DEF Clock, FirPass, F!addr_inc
    <2>2. /\ FIR'.ROMQ = FIR.CALC_CNT % Words /\ FIR'.ADD0_OUT = <<FIR.ROMQ, PDMBUF_Q>>
          /\ FIR'.RESULT = F!Sum(FIR)
        BY FirFields
    <2> QED BY <1>1, <2>1, <2>2
<1>6. s + 1 <= Words => A % Bytes = (a + s) % Bytes
    <2>1. CASE s = 0
        BY <1>2, <1>5, <2>1 DEF Flow1
    <2>2. CASE s >= 1 /\ s + 1 <= Words
        <3>1. PICK i \in Nat : i = IF_BUF_ADDR_CNT /\ i + 1 \in Nat
            BY <1>4
        <3>2. A = (i + 1) % (2 * Bytes)
            BY <1>2, <1>3, <1>5, <2>2, <3>1
        <3>3. (2 * Bytes) % Bytes = 0
            <4>1. 2 \in Nat /\ 0 \in Nat /\ Bytes \in Nat \ {0} /\ 0 < Bytes
                BY <1>3
            <4> QED BY ONLY <4>1, ModMultiple
        <3>4. 2 * Bytes \in Nat \ {0} /\ Bytes \in Nat \ {0} /\ (2 * Bytes) % Bytes = 0
            BY <1>3, <3>3
        <3>5. ((i + 1) % (2 * Bytes)) % Bytes = (i + 1) % Bytes
            BY ONLY <3>1, <3>4, ModMod
        <3>6. ((i % Bytes) + 1) % Bytes = (i + 1) % Bytes
            BY ONLY <3>1, <3>4, ModSucc
        <3>7. PICK x \in Nat : x = a + s - 1
            BY <2>2
        <3>8. i % Bytes = x % Bytes
            BY <1>2, <1>3, <2>2, <3>1, <3>7 DEF Flow1
        <3>9. ((x % Bytes) + 1) % Bytes = (x + 1) % Bytes
            BY ONLY <3>4, <3>7, ModSucc
        <3>10. x + 1 = a + s
            BY <3>7
        <3> QED BY <3>2, <3>5, <3>6, <3>8, <3>9, <3>10
    <2> QED BY <2>1, <2>2
<1>7. ASSUME 1 <= s, s <= Words PROVE Q = <<c, (a + s - 1) % ByteWrap>> /\ G.ROMQ = s - 1
    <2>1. PICK i \in Nat : i = a + s - 1 /\ i \in 0..(N - 1) /\ N <= i + Words
        BY <1>3, <1>7
    <2>2. IF_BUF_ADDR_CNT % Bytes = i % Bytes
        BY <1>7, <2>1 DEF Flow1
    <2>3. PDMBUF[c][i % Bytes] = i % ByteWrap
        BY <2>1 DEF Contents1
    <2>4. i % Bytes # N % Bytes
        <3>1. i < N /\ N < i + Bytes /\ Bytes \in Nat \ {0}
            BY <1>3, <2>1
        <3> QED BY ONLY <3>1, <2>1, N \in Nat, Apart
    <2>5. PDM_BYTE_CNT = N % Bytes
        BY DEF Time1
    <2>6. PDMBUF_Q' = <<c, PDMBUF[c][IF_BUF_ADDR_CNT % Bytes]>>
        BY <2>2, <2>4, <2>5 DEF Clock, ReadByte
    <2>7. G.ROMQ = s - 1
        <3>1. s - 1 = FIR.CALC_CNT /\ 0 \in Nat /\ s - 1 \in Nat /\ s - 1 < Words
            BY <1>2, <1>7, <1>3, <1>4
        <3>2. PICK r \in Nat : r = s - 1 /\ r < Words
            BY <3>1
        <3>3. Words \in Nat \ {0} /\ 0 \in Nat
            BY <1>3
        <3>4. (0 * Words + r) % Words = r
            BY ONLY <3>2, <3>3, ModMultiple
        <3> QED BY <1>5, <3>1, <3>2, <3>4, <1>3
    <2> QED BY <1>1, <2>1, <2>2, <2>3, <2>6, <2>7
<1>8. ASSUME 2 <= s, s <= Words + 1 PROVE G.ADD0_OUT = Item(c, a, s - 1)
    <2>1. PDMBUF_Q = <<c, (a + s - 2) % ByteWrap>> /\ FIR.ROMQ = s - 2
        BY <1>8 DEF Flow1
    <2>2. a + (s - 1) - 1 = a + s - 2 /\ (s - 1) - 1 = s - 2
        OBVIOUS
    <2> QED BY <1>5, <2>1, <2>2 DEF Item
<1>9. G.RESULT = [i \in 1..(IF s + 1 < 3 THEN 0 ELSE s - 2) |-> Item(c, a, i)]
    <2>1. CASE s = 0
        <3>1. G.RESULT = <<>>
            BY <1>2, <1>5, <2>1 DEF F!Sum
        <3>2. [i \in 1..0 |-> Item(c, a, i)] = <<>>
            OBVIOUS
        <3> QED BY <2>1, <3>1, <3>2
    <2>2. CASE s \in {1, 2}
        <3>1. G.RESULT = FIR.RESULT
            BY <1>2, <1>5, <2>2 DEF F!Sum
        <3>2. FIR.RESULT = [i \in 1..0 |-> Item(c, a, i)]
            BY <2>2 DEF Flow1
        <3>3. (IF s + 1 < 3 THEN 0 ELSE s - 2) = 0
            BY <2>2
        <3> QED BY <3>1, <3>2, <3>3
    <2>3. CASE s >= 3
        <3>1. G.RESULT = Append(FIR.RESULT, FIR.ADD0_OUT)
            BY <1>2, <1>5, <2>3 DEF F!Sum
        <3>2. FIR.ADD0_OUT = Item(c, a, s - 2) /\ FIR.RESULT = [i \in 1..(s - 3) |-> Item(c, a, i)]
            BY <1>2, <2>3 DEF Flow1
        <3>3. PICK n \in Nat : n = s - 3 /\ n + 1 = s - 2
            BY <2>3
        <3>4. Append([i \in 1..n |-> Item(c, a, i)], Item(c, a, n + 1)) = [i \in 1..(n + 1) |-> Item(c, a, i)]
            BY ONLY <3>3, a \in Nat, Grow1
        <3>5. (IF s + 1 < 3 THEN 0 ELSE s - 2) = n + 1
            BY <2>3, <3>3
        <3> QED BY <3>1, <3>2, <3>3, <3>4, <3>5
    <2> QED BY <2>1, <2>2, <2>3
<1>10. PICK t \in Nat : t = s + 1 /\ t - 1 = s /\ t - 2 = s - 1 /\ t - 3 = s - 2
    OBVIOUS
<1>11. /\ t # 0 /\ (1 <= t /\ t <= Words => A % Bytes = (a + t - 1) % Bytes)
       /\ 2 <= t /\ t <= Words + 1 => Q = <<c, (a + t - 2) % ByteWrap>> /\ G.ROMQ = t - 2
       /\ 3 <= t /\ t <= Words + 2 => G.ADD0_OUT = Item(c, a, t - 2)
       /\ G.RESULT = [i \in 1..(IF t < 3 THEN 0 ELSE t - 3) |-> Item(c, a, i)]
    <2>1. a + t - 1 = a + s /\ a + t - 2 = a + s - 1 /\ t # 0
        BY <1>10
    <2>2. t <= Words => A % Bytes = (a + t - 1) % Bytes
        BY <1>6, <1>10, <2>1
    <2>3. 2 <= t /\ t <= Words + 1 => 1 <= s /\ s <= Words
        BY <1>10, <1>3
    <2>4. 3 <= t /\ t <= Words + 2 => 2 <= s /\ s <= Words + 1
        BY <1>10, <1>3
    <2>5. G.RESULT = [i \in 1..(IF t < 3 THEN 0 ELSE t - 3) |-> Item(c, a, i)]
        BY <1>9, <1>10
    <2> QED BY <1>7, <1>8, <1>10, <2>1, <2>2, <2>3, <2>4, <2>5
<1> QED BY <1>1, <1>10, <1>11 DEF Flow1, Item

\* A whole pass makes 64 kHz sample m.
LEMMA SampleMade ==
    ASSUME Typed, clr_in = 0, NEW m \in Nat, NEW N \in Nat, N = Due(m), NEW a \in Nat, N = a + Words,
           NEW c \in Chs, c = FIR_CH_CNT, Flow1(Words + 3, a, c), NEW edge \in BOOLEAN, Clock(edge)
    PROVE  OFFSET_SUM' = m % Count64
<1>1. PICK W \in Nat \ {0}, k \in Nat \ {0}, n \in Nat \ {0} : W = Words /\ k = Step /\ n = Count64 /\ ByteWrap = k * n
    BY Constants DEF ByteWrap
<1>2. FIR.RESULT = [i \in 1..W |-> Item(c, a, i)]
    <2>1. 1 <= W + 3 /\ (IF W + 3 < 3 THEN 0 ELSE W + 3 - 3) = W
        BY <1>1
    <2> QED BY <1>1, <2>1 DEF Flow1
<1>3. PICK b \in Nat \ {0} : b = k * n /\ a = k * m /\ a % b = k * (m % n)
    <2>1. (k * m) % (k * n) = k * (m % n) /\ k * n \in Nat \ {0}
        BY ONLY k \in Nat \ {0}, n \in Nat \ {0}, m \in Nat, ModScale
    <2>2. a = k * m
        <3>1. PICK y \in Nat : y = k * m
            BY <1>1
        <3>2. N = W + y
            BY <1>1, <3>1 DEF Due
        <3> QED BY <1>1, <3>1, <3>2
    <2> QED BY <2>1, <2>2
<1>4. PICK f \in Nat, r \in Nat : f = a % b /\ r = m % n /\ f = k * r
    <2>1. a % b \in Nat /\ m % n \in Nat
        BY ONLY a \in Nat, m \in Nat, b \in Nat \ {0}, n \in Nat \ {0}, Mod
    <2> QED BY <1>3, <2>1
<1>5. f % k = 0 /\ f \div k = r
    <2>1. 0 \in 0..(k - 1)
        OBVIOUS
    <2>2. (r * k + 0) \div k = r /\ (r * k + 0) % k = 0
        BY ONLY <2>1, k \in Nat \ {0}, r \in Nat, DivUnique
    <2>3. r * k + 0 = f
        <3>1. r * k = k * r
            OBVIOUS
        <3> QED BY <1>4, <3>1
    <2> QED BY <2>2, <2>3
<1>6. PICK sum : sum = FIR.RESULT
    OBVIOUS
<1>7. sum = [i \in 1..W |-> <<i - 1, <<c, (a + i - 1) % b>>>>]
    BY <1>1, <1>2, <1>3, <1>6 DEF Item
<1>8. \A i \in 1..W : sum[i] = <<i - 1, <<c, (a + i - 1) % b>>>>
    BY ONLY <1>7
<1>9. sum[1][2][2] = f
    <2>1. 1 \in 1..W /\ a + 1 - 1 = a
        BY <1>1
    <2> QED BY <1>4, <1>8, <2>1
<1>10. ASSUME NEW i \in 1..W PROVE sum[i] = <<i - 1, <<c, (f + i - 1) % b>>>>
    <2>1. PICK j \in Nat : j = i - 1
        OBVIOUS
    <2>2. ((a % b) + j) % b = (a + j) % b
        BY ONLY <2>1, a \in Nat, b \in Nat \ {0}, ModPlus
    <2>3. f + i - 1 = (a % b) + j /\ a + i - 1 = a + j
        BY <1>4, <2>1
    <2> QED BY <1>8, <2>2, <2>3
<1>11. Len(sum) = W /\ sum # <<>>
    <2> DEFINE g(i) == <<i - 1, <<c, (a + i - 1) % b>>>>
               S == {g(i) : i \in 1..W}
    <2>1. [i \in 1..W |-> g(i)] \in [1..W -> S]
        OBVIOUS
    <2>2. sum \in [1..W -> S]
        BY <1>7, <2>1
    <2> HIDE DEF S
    <2>3. sum \in Seq(S) /\ Len(sum) = W
        BY ONLY <2>2, W \in Nat
    <2> QED BY ONLY <2>3, W \in Nat \ {0}
<1>12. Window(sum, c) = r
    <2>1. sum[1][2][2] >= 0
        BY <1>9
    <2> QED BY <1>1, <1>3, <1>5, <1>9, <1>10, <1>11, <2>1 DEF Window
<1>13. OFFSET_SUM' = IF sum = <<>> THEN Undefined ELSE Window(sum, c)
    BY <1>6 DEF Clock, Store64
<1> QED BY <1>1, <1>4, <1>11, <1>12, <1>13

\* When the second filter starts, reads, clears and adds.
LEMMA SumTime2 ==
    ASSUME Typed, Shape2
    PROVE  /\ FIR2.STS = "SEQ_START" <=> Stage2 = 0
           /\ FIR2.STS = "SEQ_CALC" <=> Stage2 \in 1..TAP_NUM
           /\ FIR2.STS = "SEQ_CALC" => Stage2 = FIR2.CALC_CNT + 1
           /\ FIR2.STS = "SEQ_IDLE" <=> Stage2 = TAP_NUM + 3
           /\ FIR2.CALC_DELAY = <<0, 0>> <=> Stage2 \in {0, 1, TAP_NUM + 3}
           /\ FIR2.CALC_DELAY = <<1, 0>> <=> Stage2 = 2
           /\ FIR2.CALC_DELAY = <<0, 1>> <=> Stage2 = TAP_NUM + 2
           /\ Stage2 \in 0..(TAP_NUM + 3)
<1>1. PICK d1 \in {0, 1}, d2 \in {0, 1} : FIR2.CALC_DELAY = <<d1, d2>>
    BY DEF Typed, Fir2Typed, Fir2Type
<1>2. FIR2.STS \in States /\ FIR2.CALC_CNT \in 0..(TAP_NUM - 1)
    BY DEF Typed, Fir2Typed, Fir2Type
<1>3. TAP_NUM \in Nat \ {0, 1}
    BY Constants
<1>4. /\ FIR2.STS \in {"SEQ_IDLE", "SEQ_START"} => d1 = 0 /\ d2 = 0
      /\ FIR2.STS = "SEQ_CALC" => d1 = Bit(FIR2.CALC_CNT >= 1) /\ d2 = Bit(FIR2.CALC_CNT >= 2)
      /\ FIR2.STS = "SEQ_END0" => d1 = 1 /\ d2 = 1
      /\ FIR2.STS = "SEQ_END1" => d1 = 0 /\ d2 = 1
    BY <1>1 DEF Shape2
<1>5. PICK s : s = Stage2
    OBVIOUS
<1>6. s = CASE FIR2.STS = "SEQ_START" -> 0
            [] FIR2.STS = "SEQ_CALC" -> FIR2.CALC_CNT + 1
            [] FIR2.STS = "SEQ_END0" -> TAP_NUM + 1
            [] FIR2.STS = "SEQ_END1" -> TAP_NUM + 2
            [] FIR2.STS = "SEQ_IDLE" -> TAP_NUM + 3
    BY <1>5 DEF Stage2
<1>7. /\ FIR2.STS = "SEQ_START" <=> s = 0
      /\ FIR2.STS = "SEQ_CALC" <=> s \in 1..TAP_NUM
      /\ FIR2.STS = "SEQ_CALC" => s = FIR2.CALC_CNT + 1
      /\ FIR2.STS = "SEQ_IDLE" <=> s = TAP_NUM + 3
      /\ d1 = 0 /\ d2 = 0 <=> s \in {0, 1, TAP_NUM + 3}
      /\ d1 = 1 /\ d2 = 0 <=> s = 2
      /\ d1 = 0 /\ d2 = 1 <=> s = TAP_NUM + 2
      /\ s \in 0..(TAP_NUM + 3)
    <2>1. CASE FIR2.STS = "SEQ_START"
        BY ONLY <2>1, <1>2, <1>3, <1>4, <1>6 DEF Bit
    <2>2. CASE FIR2.STS = "SEQ_CALC"
        BY ONLY <2>2, <1>2, <1>3, <1>4, <1>6 DEF Bit
    <2>3. CASE FIR2.STS = "SEQ_END0"
        BY ONLY <2>3, <1>2, <1>3, <1>4, <1>6 DEF Bit
    <2>4. CASE FIR2.STS = "SEQ_END1"
        BY ONLY <2>4, <1>2, <1>3, <1>4, <1>6 DEF Bit
    <2>5. CASE FIR2.STS = "SEQ_IDLE"
        BY ONLY <2>5, <1>2, <1>3, <1>4, <1>6 DEF Bit
    <2> QED BY ONLY <2>1, <2>2, <2>3, <2>4, <2>5, <1>2 DEF States
<1>8. /\ FIR2.CALC_DELAY = <<0, 0>> <=> d1 = 0 /\ d2 = 0
      /\ FIR2.CALC_DELAY = <<1, 0>> <=> d1 = 1 /\ d2 = 0
      /\ FIR2.CALC_DELAY = <<0, 1>> <=> d1 = 0 /\ d2 = 1
    BY <1>1
<1> QED BY <1>5, <1>7, <1>8

\* With every clock the second filter is one place further in its window.
LEMMA Flow2Step ==
    ASSUME Typed, Shape2, Hand2, clr_in = 0, NEW N \in Nat, NEW m \in Nat, NEW q \in Nat, Time1(N, m), Time2(N, m, q),
           Contents2(m, q), FIR2.STS # "SEQ_IDLE", NEW b \in Nat, b = Rate * q,
           NEW c \in Chs, c = FIR2_CH_CNT, FIR2_REQ = "RQ_CH_BUSY",
           NEW s \in Nat, s = Stage2, Flow2(s, b, c), NEW edge \in BOOLEAN, Clock(edge)
    PROVE  Flow2(s + 1, b, c)'
<1>1. PICK Q, G : Q = BUF64k_RDQ' /\ G = FIR2'
    OBVIOUS
<1>2. /\ FIR2.STS = "SEQ_START" <=> s = 0
      /\ FIR2.STS = "SEQ_CALC" <=> s \in 1..TAP_NUM
      /\ FIR2.STS = "SEQ_CALC" => s = FIR2.CALC_CNT + 1
      /\ FIR2.CALC_DELAY = <<0, 0>> <=> s \in {0, 1, TAP_NUM + 3}
      /\ FIR2.CALC_DELAY = <<1, 0>> <=> s = 2
      /\ FIR2.CALC_DELAY = <<0, 1>> <=> s = TAP_NUM + 2
      /\ s <= TAP_NUM + 2
    BY SumTime2, Constants
<1>3. TAP_NUM \in Nat \ {0, 1} /\ POS_MAX \in Nat \ {0}
    BY Constants
<1>4. FIR2.POS_CNT \in Nat /\ FIR2.CALC_CNT \in Nat
    BY Constants DEF Typed, Fir2Typed, Fir2Type
<1>5. /\ G.POS_CNT = IF FIR2.STS = "SEQ_CALC" THEN (FIR2.POS_CNT + 1) % POS_MAX ELSE FIR2.POS_CNT
      /\ G.COEF_DATA = FIR2.CALC_CNT /\ G.MULL_RESULT = <<FIR2.COEF_DATA, BUF64k_RDQ>>
      /\ G.ADD_RESULT = F2!Sum(FIR2)
      /\ G.data_out = IF F2!ADD_END(FIR2) THEN FIR2.ADD_RESULT ELSE FIR2.data_out
    BY <1>1, Fir2Fields
<1>6. s + 1 <= TAP_NUM => G.POS_CNT = (b + s) % POS_MAX
    <2>1. CASE s = 0
        BY <1>2, <1>5, <2>1 DEF Flow2
    <2>2. CASE s >= 1 /\ s + 1 <= TAP_NUM
        <3>1. PICK x \in Nat : x = b + s - 1 /\ x + 1 = b + s
            BY <2>2
        <3>2. FIR2.POS_CNT = x % POS_MAX /\ G.POS_CNT = (FIR2.POS_CNT + 1) % POS_MAX
            BY <1>2, <1>3, <1>5, <2>2, <3>1 DEF Flow2
        <3>3. ((x % POS_MAX) + 1) % POS_MAX = (x + 1) % POS_MAX
            <4>1. POS_MAX \in Nat \ {0}
                BY <1>3
            <4> QED BY ONLY <4>1, <3>1, ModSucc
        <3> QED BY <3>1, <3>2, <3>3
    <2> QED BY <2>1, <2>2
<1>7. ASSUME 1 <= s, s <= TAP_NUM PROVE Q = <<c, (b + s - 1) % Count64>> /\ G.COEF_DATA = s - 1
    <2>1. m < b + POS_MAX /\ m > b + TAP_NUM
        BY Span
    <2>2. PICK i \in Nat : i = b + s - 1 /\ i \in 0..(m - 1) /\ b <= i /\ i < m /\ m < i + POS_MAX
        BY <1>3, <1>7, <2>1
    <2>3. FIR2.POS_CNT = i % POS_MAX /\ FIR2.CH_REG = c
        BY <1>7, <2>2 DEF Flow2, Hand2
    <2>4. BUF64k[c][i % POS_MAX] = i % Count64
        BY <2>2 DEF Contents2
    <2>5. i % POS_MAX # m % POS_MAX
        <3>1. POS_MAX \in Nat \ {0}
            BY <1>3
        <3> QED BY ONLY <3>1, <2>2, m \in Nat, Apart
    <2>6. SMPLCNT_64k % POS_MAX = m % POS_MAX
        <3>1. PICK n \in Nat \ {0}, p \in Nat \ {0} : n = Count64 /\ p = POS_MAX /\ n % p = 0
            BY Constants, PdmCoreAssumption
        <3>2. n \in Nat \ {0} /\ p \in Nat \ {0} /\ n % p = 0
            BY <3>1
        <3>3. (m % n) % p = m % p
            BY ONLY <3>2, m \in Nat, ModMod
        <3> QED BY <3>1, <3>3 DEF Time1
    <2>7. BUF64k_RDQ' = <<FIR2.CH_REG, BUF64k[FIR2.CH_REG][FIR2.POS_CNT]>>
        BY <2>3, <2>5, <2>6 DEF Clock, Read64
    <2>8. FIR2.CALC_CNT = s - 1
        BY <1>2, <1>3, <1>4, <1>7
    <2> QED BY <1>1, <1>5, <2>2, <2>3, <2>4, <2>7, <2>8
<1>8. ASSUME 2 <= s, s <= TAP_NUM + 1 PROVE G.MULL_RESULT = Item64(c, b, s - 1)
    <2>1. BUF64k_RDQ = <<c, (b + s - 2) % Count64>> /\ FIR2.COEF_DATA = s - 2
        BY <1>8 DEF Flow2
    <2>2. b + (s - 1) - 1 = b + s - 2 /\ (s - 1) - 1 = s - 2
        OBVIOUS
    <2> QED BY <1>5, <2>1, <2>2 DEF Item64
<1>9. s <= TAP_NUM + 1 => G.ADD_RESULT = [i \in 1..(IF s + 1 < 3 THEN 0 ELSE s - 2) |-> Item64(c, b, i)]
    <2>1. CASE s \in {0, 1, 2}
        <3>1. G.ADD_RESULT = <<>>
            BY <1>2, <1>5, <2>1 DEF F2!Sum, F2!ADD_CLR
        <3>2. [i \in 1..0 |-> Item64(c, b, i)] = <<>>
            OBVIOUS
        <3>3. (IF s + 1 < 3 THEN 0 ELSE s - 2) = 0
            BY <2>1
        <3> QED BY <3>1, <3>2, <3>3
    <2>2. CASE s >= 3 /\ s <= TAP_NUM + 1
        <3>1. G.ADD_RESULT = Append(FIR2.ADD_RESULT, FIR2.MULL_RESULT)
            <4>1. FIR2.CALC_DELAY # <<1, 0>> /\ FIR2.CALC_DELAY # <<0, 0>>
                BY <1>2, <1>3, <2>2
            <4> QED BY <1>5, <4>1 DEF F2!Sum, F2!ADD_CLR
        <3>2. FIR2.MULL_RESULT = Item64(c, b, s - 2) /\ FIR2.ADD_RESULT = [i \in 1..(s - 3) |-> Item64(c, b, i)]
            <4>1. 1 <= s /\ s <= TAP_NUM + 2 /\ (IF s < 3 THEN 0 ELSE s - 3) = s - 3
                BY <1>3, <2>2
            <4>2. FIR2.MULL_RESULT = Item64(c, b, s - 2)
                BY <2>2, <4>1 DEF Flow2
            <4>3. FIR2.ADD_RESULT = [i \in 1..(IF s < 3 THEN 0 ELSE s - 3) |-> Item64(c, b, i)]
                BY <4>1 DEF Flow2
            <4> QED BY <4>1, <4>2, <4>3
        <3>3. PICK n \in Nat : n = s - 3 /\ n + 1 = s - 2
            BY <2>2
        <3>4. Append([i \in 1..n |-> Item64(c, b, i)], Item64(c, b, n + 1)) = [i \in 1..(n + 1) |-> Item64(c, b, i)]
            BY ONLY <3>3, b \in Nat, Grow2
        <3>5. (IF s + 1 < 3 THEN 0 ELSE s - 2) = n + 1
            BY <2>2, <3>3
        <3> QED BY <3>1, <3>2, <3>3, <3>4, <3>5
    <2> QED BY <2>1, <2>2, <1>3
<1>10. s = TAP_NUM + 2 => G.data_out = [i \in 1..(TAP_NUM - 1) |-> Item64(c, b, i)]
    <2>1. ASSUME s = TAP_NUM + 2 PROVE G.data_out = [i \in 1..(TAP_NUM - 1) |-> Item64(c, b, i)]
        <3>1. G.data_out = FIR2.ADD_RESULT
            BY <1>2, <1>5, <2>1 DEF F2!ADD_END
        <3>2. FIR2.ADD_RESULT = [i \in 1..(IF s < 3 THEN 0 ELSE s - 3) |-> Item64(c, b, i)]
            BY <1>3, <2>1 DEF Flow2
        <3>3. (IF s < 3 THEN 0 ELSE s - 3) = TAP_NUM - 1
            BY <1>3, <2>1
        <3> QED BY <3>1, <3>2, <3>3
    <2> QED BY <2>1
<1>11. PICK t \in Nat : t = s + 1 /\ t - 1 = s /\ t - 2 = s - 1 /\ t - 3 = s - 2
    OBVIOUS
<1>12. /\ t # 0 /\ (1 <= t /\ t <= TAP_NUM => G.POS_CNT = (b + t - 1) % POS_MAX)
       /\ 2 <= t /\ t <= TAP_NUM + 1 => Q = <<c, (b + t - 2) % Count64>> /\ G.COEF_DATA = t - 2
       /\ 3 <= t /\ t <= TAP_NUM + 2 => G.MULL_RESULT = Item64(c, b, t - 2)
       /\ 1 <= t /\ t <= TAP_NUM + 2 =>
            G.ADD_RESULT = [i \in 1..(IF t < 3 THEN 0 ELSE t - 3) |-> Item64(c, b, i)]
       /\ t = TAP_NUM + 3 => G.data_out = [i \in 1..(TAP_NUM - 1) |-> Item64(c, b, i)]
    <2>1. b + t - 1 = b + s /\ b + t - 2 = b + s - 1 /\ t # 0
        BY <1>11
    <2>2. t <= TAP_NUM => G.POS_CNT = (b + t - 1) % POS_MAX
        BY <1>6, <1>11, <2>1
    <2>3. 2 <= t /\ t <= TAP_NUM + 1 => 1 <= s /\ s <= TAP_NUM
        BY <1>11, <1>3
    <2>4. 3 <= t /\ t <= TAP_NUM + 2 => 2 <= s /\ s <= TAP_NUM + 1
        BY <1>11, <1>3
    <2>5. t <= TAP_NUM + 2 => G.ADD_RESULT = [i \in 1..(IF t < 3 THEN 0 ELSE t - 3) |-> Item64(c, b, i)]
        <3>1. t <= TAP_NUM + 2 => s <= TAP_NUM + 1
            BY <1>3, <1>11
        <3> QED BY <1>9, <1>11, <3>1
    <2>6. t = TAP_NUM + 3 => s = TAP_NUM + 2
        BY <1>3, <1>11
    <2> QED BY <1>7, <1>8, <1>10, <1>11, <2>1, <2>2, <2>3, <2>4, <2>5, <2>6
<1> QED BY <1>1, <1>11, <1>12 DEF Flow2, Item64

\* The counter wraps where the buffer does.
LEMMA RoundsOfOutputs ==
    ASSUME Typed, NEW q \in Nat, NEW p \in Nat \ {0}, Count64 % p = 0
    PROVE  (Rate * (q % Count32)) % p = (Rate * q) % p /\ Rate * (q % Count32) \in Nat
<1>1. PICK R \in Nat \ {0}, w \in Nat \ {0}, n \in Nat \ {0} :
         R = Rate /\ w = Count32 /\ n = Count64 /\ (R * w) % n = 0 /\ n % p = 0
    BY RateFacts, Constants
<1>2. R * w \in Nat \ {0} /\ R * (q % w) \in Nat /\ (R * q) % (R * w) = R * (q % w)
    BY ONLY R \in Nat \ {0}, w \in Nat \ {0}, q \in Nat, ModScale
<1>3. PICK P \in Nat \ {0}, x \in Nat : P = R * w /\ x = R * q
    <2>1. R * q \in Nat
        OBVIOUS
    <2> QED BY <1>2, <2>1
<1>4. P % p = 0
    <2>1. n \in Nat \ {0} /\ p \in Nat \ {0} /\ n % p = 0 /\ P \in Nat
        <3>1. n % p = 0
            BY ONLY <1>1
        <3> QED BY ONLY <3>1, n \in Nat \ {0}, p \in Nat \ {0}, P \in Nat \ {0}
    <2>2. (P % n) % p = P % p
        <3>1. Rem(n, p) = 0
            BY ONLY <2>1 DEF Rem
        <3>2. Rem(Rem(P, n), p) = Rem(P, p)
            BY ONLY <2>1, <3>1, RemRem
        <3> QED BY ONLY <3>2 DEF Rem
    <2>3. P % n = 0
        BY <1>1, <1>3
    <2>4. 0 % p = 0
        <3>1. 0 \in Nat /\ 0 < p
            OBVIOUS
        <3>2. (0 * p + 0) % p = 0
            BY ONLY <3>1, p \in Nat \ {0}, ModMultiple
        <3> QED BY <3>2
    <2> QED BY ONLY <2>2, <2>3, <2>4
<1>5. (x % P) % p = x % p
    <2>1. P \in Nat \ {0} /\ p \in Nat \ {0} /\ P % p = 0
        BY <1>4, Zenon
    <2>2. x \in Nat
        BY <1>3
    <2>3. Rem(P, p) = 0
        BY ONLY <2>1 DEF Rem
    <2>4. Rem(Rem(x, P), p) = Rem(x, p)
        BY ONLY <2>1, <2>2, <2>3, RemRem
    <2> QED BY ONLY <2>4 DEF Rem
<1>6. (R * q) % (R * w) = R * (q % w) /\ (R * q) % (R * w) = x % P /\ R * q = x
    BY ONLY <1>2, <1>3
<1> QED BY ONLY <1>1, <1>2, <1>5, <1>6

\* A pass of the second filter starts at its window.
LEMMA Flow2Start ==
    ASSUME Typed, NEW N \in Nat, NEW m \in Nat, NEW q \in Nat, Time2(N, m, q), NEW b \in Nat, b = Rate * q,
           FIR2_REQ = "RQ_CH_START", NEW edge \in BOOLEAN, Clock(edge), NEW c
    PROVE  Flow2(0, b, c)'
<1>1. FIR2'.POS_CNT = SRC_POS
    BY Fir2Fields
<1>2. SMPLCNT_32k = q % Count32
    BY DEF Time2
<1>3. (Rate * (q % Count32)) % POS_MAX = b % POS_MAX
    <2>1. POS_MAX \in Nat \ {0} /\ Count64 % POS_MAX = 0
        BY Constants, PdmCoreAssumption
    <2>2. (Rate * (q % Count32)) % POS_MAX = (Rate * q) % POS_MAX
        BY ONLY <2>1, q \in Nat, Typed, RoundsOfOutputs, Zenon
    <2> QED BY <2>2, Zenon
<1>4. SMPLCNT_32k * Rate = Rate * SMPLCNT_32k
    <2>1. SMPLCNT_32k \in Nat /\ Rate \in Nat
        BY Constants, RateFacts DEF Typed, Fir2Typed
    <2> QED BY <2>1
<1>5. FIR2'.POS_CNT = b % POS_MAX
    BY <1>1, <1>2, <1>3, <1>4 DEF SRC_POS
<1>6. TAP_NUM \in Nat
    BY Constants
<1> QED BY ONLY <1>5, <1>6 DEF Flow2

\* Nothing is needed at first,
LEMMA DataInit == ASSUME Init PROVE Data(0, 0, 0)
<1>1. PDMBYTE_STS \notin Chs
    BY Constants DEF Init, PDMIF!Init, PDMIF!B8S_IDLE, Chs
<1>2. FIR_REQ = "RQ_IDLE" /\ FIR2_REQ = "RQ_IDLE"
    BY DEF Init
<1>3. Contents1(0)
    BY <1>1 DEF Contents1
<1>4. Contents2(0, 0)
    BY <1>2 DEF Contents2, StoredFor
<1> QED BY <1>2, <1>3, <1>4 DEF Data

\* nor after CLR.
LEMMA DataReset ==
    ASSUME clr_in = 1, NEW edge \in BOOLEAN, Clock(edge)
    PROVE  Data(0, 0, 0)'
<1>1. FIR2_REQ' = "RQ_IDLE"
    BY DEF Clock, Fir2Pass, Fir2Request
<1>2. FIR_REQ' = "RQ_IDLE" /\ PDMBYTE_STS' \notin Chs
    BY Reset, Constants DEF Chs
<1>3. Contents1(0)'
    BY <1>2 DEF Contents1
<1>4. Contents2(0, 0)'
    BY <1>2 DEF Contents2, StoredFor
<1> QED BY <1>1, <1>2, <1>3, <1>4 DEF Data

\* The first filter's part of a step.
LEMMA Flow1Moves ==
    ASSUME Inv1, clr_in = 0, NEW N \in Nat, NEW m \in Nat, NEW q \in Nat, Schedule(N, m, q), Data(N, m, q),
           NEW M \in Nat, M = More(N), NEW k \in Nat, k = Sampled(m), NEW edge \in BOOLEAN, Clock(edge)
    PROVE  /\ FIR_REQ' = "RQ_CH_BUSY" => Flow1(Stage1, M - Words, FIR_CH_CNT)'
           /\ FIR_REQ' = "RQ_CH_END" => OFFSET_SUM' = k % Count64
<1>1. Typed /\ Sync /\ Shape1 /\ Hand1 /\ Captured(N) /\ Time1(N, m)
    BY DEF Inv1, Filter1, Running, Schedule
<1>2. PICK r, h, t : r = FIR_REQ' /\ h = FIR_CH_CNT' /\ t = Stage1'
    OBVIOUS
<1>3. /\ r = "RQ_CH_BUSY" => \/ FIR_REQ = "RQ_CH_START"
                             \/ FIR_REQ = "RQ_CH_BUSY" /\ FIR.STS # "SEQ_IDLE"
      /\ r = "RQ_CH_END" => FIR_REQ = "RQ_CH_BUSY" /\ FIR.STS = "SEQ_IDLE"
      /\ FIR_REQ \in {"RQ_CH_START", "RQ_CH_BUSY"} => h = FIR_CH_CNT
    <2>1. r = CASE FIR_REQ = "RQ_IDLE" ->
                       IF BUFFER_FILL = 1 /\ PDM_BYTE_CNT % Step = 0 THEN "RQ_START" ELSE "RQ_IDLE"
                [] FIR_REQ = "RQ_START" -> "RQ_CH_START"
                [] FIR_REQ = "RQ_CH_START" -> "RQ_CH_BUSY"
                [] FIR_REQ = "RQ_CH_BUSY" -> IF FIR.STS # "SEQ_IDLE" THEN "RQ_CH_BUSY" ELSE "RQ_CH_END"
                [] FIR_REQ = "RQ_CH_END" -> IF FIR_CH_CNT = Channels - 1 THEN "RQ_WAIT" ELSE "RQ_CH_START"
                [] FIR_REQ = "RQ_WAIT" -> IF PDM_BYTE_CNT % Step # 0 THEN "RQ_END" ELSE "RQ_WAIT"
                [] FIR_REQ = "RQ_END" -> "RQ_IDLE"
        BY <1>1, <1>2, FirRequestMoves
    <2>2. h = ChannelCount(FIR_CH_CNT, FIR_REQ) /\ FIR_REQ \in Requests \cup {"RQ_WAIT"}
        BY <1>1, <1>2, FirRequestMoves
    <2>3. /\ r = "RQ_CH_BUSY" => \/ FIR_REQ = "RQ_CH_START"
                                 \/ FIR_REQ = "RQ_CH_BUSY" /\ FIR.STS # "SEQ_IDLE"
          /\ r = "RQ_CH_END" => FIR_REQ = "RQ_CH_BUSY" /\ FIR.STS = "SEQ_IDLE"
        BY ONLY <2>1, <2>2 DEF Requests
    <2> QED BY <2>2, <2>3 DEF ChannelCount
<1>4. FIR_REQ \in {"RQ_CH_START", "RQ_CH_BUSY"} => M = N /\ k = m /\ N = Due(m) /\ N >= Words
    BY <1>1, PassStill DEF Pass, Sampled
<1>5. FIR_CH_CNT \in Chs /\ Words \in Nat
    BY <1>1, Constants DEF Typed, FirTyped
<1>6. ASSUME r = "RQ_CH_BUSY" PROVE Flow1(t, M - Words, h)'
    <2>1. CASE FIR_REQ = "RQ_CH_START"
        <3>1. Flow1(0, N - Words, h)'
            BY <1>1, <2>1, Flow1Start
        <3>2. t = 0
            BY <1>1, <1>2, <2>1, Stage1Step DEF Hand1
        <3> QED BY <1>4, <2>1, <3>1, <3>2
    <2>2. CASE FIR_REQ = "RQ_CH_BUSY" /\ FIR.STS # "SEQ_IDLE"
        <3>1. PICK a \in Nat : a = N - Words /\ N = a + Words
            BY <1>4, <1>5, <2>2
        <3>2. PICK s \in Nat : s = Stage1
            BY <1>1, <1>5, Stage1Step
        <3>3. PICK c \in Chs : c = FIR_CH_CNT
            BY <1>5
        <3>4. Flow1(s, a, c)
            BY <2>2, <3>1, <3>2, <3>3 DEF Data
        <3>5. Contents1(N)
            BY DEF Data
        <3>6. Flow1(s + 1, a, c)'
            BY <1>1, <2>2, <3>1, <3>2, <3>3, <3>4, <3>5, Flow1Step
        <3>7. t = s + 1
            BY <1>1, <1>2, <2>2, <3>2, Stage1Step
        <3>8. h = c /\ M - Words = a
            BY <1>3, <1>4, <2>2, <3>1, <3>3
        <3> QED BY <3>6, <3>7, <3>8
    <2> QED BY <1>3, <1>6, <2>1, <2>2
<1>7. ASSUME r = "RQ_CH_END" PROVE OFFSET_SUM' = k % Count64
    <2>1. FIR_REQ = "RQ_CH_BUSY" /\ FIR.STS = "SEQ_IDLE"
        BY <1>3, <1>7
    <2>2. PICK a \in Nat : a = N - Words /\ N = a + Words
        BY <1>4, <1>5, <2>1
    <2>3. PICK c \in Chs : c = FIR_CH_CNT
        BY <1>5
    <2>4. Stage1 = Words + 3
        BY <1>1, <2>1, SumTime
    <2>5. Flow1(Words + 3, a, c)
        BY <2>1, <2>2, <2>3, <2>4 DEF Data
    <2>6. OFFSET_SUM' = m % Count64
        BY <1>1, <1>4, <2>1, <2>2, <2>3, <2>5, SampleMade
    <2> QED BY <1>4, <2>1, <2>6
<1>8. r = "RQ_CH_BUSY" => Flow1(Stage1, M - Words, FIR_CH_CNT)'
    BY <1>2, <1>6 DEF Flow1, Item
<1> QED BY <1>2, <1>7, <1>8

\* The second filter's part of a step.
LEMMA Flow2Moves ==
    ASSUME Inv1, clr_in = 0, NEW N \in Nat, NEW m \in Nat, NEW q \in Nat, Schedule(N, m, q), Data(N, m, q),
           NEW n \in Nat, n = Handed(q), NEW edge \in BOOLEAN, Clock(edge), FIR2_REQ' = "RQ_CH_BUSY"
    PROVE  Flow2(Stage2, Rate * n, FIR2_CH_CNT)'
<1>1. Typed /\ Shape2 /\ Hand2 /\ Time1(N, m) /\ Time2(N, m, q)
    BY DEF Inv1, Filter2, Running, Schedule
<1>2. PICK r, h, t : r = FIR2_REQ' /\ h = FIR2_CH_CNT' /\ t = Stage2'
    OBVIOUS
<1>3. /\ FIR2_REQ = "RQ_CH_START" \/ (FIR2_REQ = "RQ_CH_BUSY" /\ FIR2.STS # "SEQ_IDLE")
      /\ h = FIR2_CH_CNT /\ n = q
    <2>1. r = CASE FIR2_REQ = "RQ_IDLE" -> IF BUF64_RDY = <<1, 0>> THEN "RQ_START" ELSE "RQ_IDLE"
                [] FIR2_REQ = "RQ_START" -> "RQ_CH_START"
                [] FIR2_REQ = "RQ_CH_START" -> "RQ_CH_BUSY"
                [] FIR2_REQ = "RQ_CH_BUSY" -> IF FIR2.STS # "SEQ_IDLE" THEN "RQ_CH_BUSY" ELSE "RQ_CH_END"
                [] FIR2_REQ = "RQ_CH_END" -> IF FIR2_CH_CNT = Channels - 1 THEN "RQ_END" ELSE "RQ_CH_START"
                [] FIR2_REQ = "RQ_END" -> "RQ_IDLE"
        BY <1>1, <1>2, Fir2RequestMoves
    <2>2. h = ChannelCount(FIR2_CH_CNT, FIR2_REQ) /\ FIR2_REQ \in Requests /\ r = "RQ_CH_BUSY"
        BY <1>1, <1>2, Fir2RequestMoves
    <2>3. FIR2_REQ = "RQ_CH_START" \/ (FIR2_REQ = "RQ_CH_BUSY" /\ FIR2.STS # "SEQ_IDLE")
        BY ONLY <2>1, <2>2 DEF Requests
    <2> QED BY <2>2, <2>3 DEF ChannelCount, Handed
<1>4. PICK b \in Nat : b = Rate * q
    BY <1>1, Span
<1>5. PICK c \in Chs : c = FIR2_CH_CNT
    BY <1>1 DEF Typed, Fir2Typed
<1>6. Flow2(t, b, c)'
    <2>1. CASE FIR2_REQ = "RQ_CH_START"
        <3>1. Flow2(0, b, c)'
            BY <1>1, <1>4, <2>1, Flow2Start
        <3>2. t = 0
            BY <1>1, <1>2, <2>1, Stage2Step DEF Hand2
        <3> QED BY <3>1, <3>2
    <2>2. CASE FIR2_REQ = "RQ_CH_BUSY" /\ FIR2.STS # "SEQ_IDLE"
        <3>1. PICK s \in Nat : s = Stage2
            BY <1>1, Constants, Stage2Step
        <3>2. Flow2(s, b, c)
            BY <1>4, <1>5, <2>2, <3>1 DEF Data
        <3>3. Contents2(m, q)
            BY DEF Data
        <3>4. Flow2(s + 1, b, c)'
            BY <1>1, <1>4, <1>5, <2>2, <3>1, <3>2, <3>3, Flow2Step
        <3>5. t = s + 1
            BY <1>1, <1>2, <2>2, <3>1, Stage2Step
        <3> QED BY <3>4, <3>5
    <2> QED BY <1>3, <2>1, <2>2
<1>7. b = Rate' * n /\ c = FIR2_CH_CNT' /\ t = Stage2'
    <2>1. Rate' = Rate
        BY DEF Clock, Clear, Rate
    <2> QED BY <1>2, <1>3, <1>4, <1>5, <2>1
<1> QED BY <1>6, <1>7 DEF Flow2, Item64

\* A clock keeps rings and filters in order.
LEMMA DataStep ==
    ASSUME Inv1, clr_in = 0, NEW N \in Nat, NEW m \in Nat, NEW q \in Nat, Schedule(N, m, q), Data(N, m, q),
           NEW M \in Nat, M = More(N), NEW k \in Nat, k = Sampled(m), NEW n \in Nat, n = Handed(q),
           NEW edge \in BOOLEAN, Clock(edge)
    PROVE  Data(M, k, n)'
<1>1. Typed /\ Sync /\ Hand1 /\ Captured(N) /\ Time1(N, m) /\ Time2(N, m, q)
    BY DEF Inv1, Filter1, Running, Schedule
<1>2. Contents1(N) /\ Contents2(m, q) /\ (FIR_REQ = "RQ_CH_END" => OFFSET_SUM = m % Count64)
    BY DEF Data
<1>3. Contents1(M)'
    BY <1>1, <1>2, Contents1Step
<1>4. Contents2(k, n)'
    BY <1>1, <1>2, Contents2Step
<1>5. /\ FIR_REQ' = "RQ_CH_BUSY" => Flow1(Stage1, M - Words, FIR_CH_CNT)'
      /\ FIR_REQ' = "RQ_CH_END" => OFFSET_SUM' = k % Count64
    BY Flow1Moves
<1>6. FIR2_REQ' = "RQ_CH_BUSY" => Flow2(Stage2, Rate * n, FIR2_CH_CNT)'
    BY Flow2Moves
<1> QED BY <1>3, <1>4, <1>5, <1>6 DEF Data

\* So does stuttering.
LEMMA DataSame ==
    ASSUME NEW N \in Nat, NEW m \in Nat, NEW q \in Nat, Data(N, m, q), UNCHANGED vars
    PROVE  Data(N, m, q)'
<1>1. UNCHANGED ifVars /\ UNCHANGED firVars /\ UNCHANGED bufVars /\ UNCHANGED fir2Vars
    BY DEF vars
<1>2. Contents1(N)' /\ Contents2(m, q)'
    BY <1>1 DEF Data, Contents1, Contents2, StoredFor, Rate, ifVars, firVars, bufVars
<1>3. Stage1' = Stage1 /\ Stage2' = Stage2
    BY <1>1 DEF Stage1, Stage2, firVars, fir2Vars
<1>4. FIR_REQ' = "RQ_CH_BUSY" => Flow1(Stage1, N - Words, FIR_CH_CNT)'
    BY <1>1, <1>3 DEF Data, Flow1, Item, firVars
<1>5. FIR2_REQ' = "RQ_CH_BUSY" => Flow2(Stage2, Rate * q, FIR2_CH_CNT)'
    BY <1>1, <1>3 DEF Data, Flow2, Item64, Rate, ifVars, bufVars, fir2Vars
<1> QED BY <1>1, <1>2, <1>4, <1>5 DEF Data, firVars, bufVars

\* The inductive invariant of the data.
Complete == Inv1 /\ \E N, m, q \in Nat : Schedule(N, m, q) /\ Data(N, m, q)

\* A step keeps it.
LEMMA CompleteStep == ASSUME Complete, [Next]_vars PROVE Complete'
<1>1. PICK N \in Nat, m \in Nat, q \in Nat : Schedule(N, m, q) /\ Data(N, m, q)
    BY DEF Complete
<1>2. ASSUME NEW edge \in BOOLEAN, Clock(edge) PROVE Complete'
    <2>1. CASE clr_in = 1
        <3>1. Schedule(0, 0, 0)' /\ Data(0, 0, 0)'
            BY <1>2, <2>1, ScheduleReset, DataReset
        <3> QED BY <1>2, <3>1, Inv1Step DEF Complete
    <2>2. CASE clr_in = 0
        <3>1. PICK M \in Nat, k \in Nat, n \in Nat : M = More(N) /\ k = Sampled(m) /\ n = Handed(q)
            BY DEF More, Sampled, Handed
        <3>2. Schedule(M, k, n)'
            BY <1>1, <1>2, <2>2, <3>1, ScheduleStep DEF Complete
        <3>3. Data(M, k, n)'
            BY <1>1, <1>2, <2>2, <3>1, DataStep DEF Complete
        <3> QED BY <1>2, <3>2, <3>3, Inv1Step DEF Complete
    <2> QED BY <2>1, <2>2 DEF Complete, Inv1, Typed, IfTyped
<1>3. ASSUME UNCHANGED vars PROVE Complete'
    <2>1. Schedule(N, m, q)' /\ Data(N, m, q)'
        BY <1>1, <1>3, ScheduleSame, DataSame
    <2> QED BY <1>3, <2>1, Inv1Same DEF Complete
<1> QED BY <1>2, <1>3 DEF Next

\* A core in time whose rings are in order stores and hands on what it should.
LEMMA IntactThen == ASSUME Complete PROVE SamplesIntact
<1>1. PICK N \in Nat, m \in Nat, q \in Nat : Schedule(N, m, q) /\ Data(N, m, q)
    BY DEF Complete
<1>2. SUFFICES ASSUME clr_in = 0
               PROVE  /\ BUF64k_WR = 1 => OFFSET_SUM = SMPLCNT_64k
                      /\ valid => FIR2.data_out =
                              [i \in 1..(TAP_NUM - 1) |->
                                  <<i - 1, <<valid_ch, (Rate * valid_sample + i - 1) % Count64>>>>]
    BY DEF SamplesIntact
<1>3. Typed /\ Hand1 /\ Shape2 /\ Hand2 /\ Time1(N, m) /\ Time2(N, m, q)
    BY <1>1, <1>2 DEF Complete, Inv1, Filter1, Filter2, Running, Schedule
<1>4. ASSUME BUF64k_WR = 1 PROVE OFFSET_SUM = SMPLCNT_64k
    <2>1. FIR_REQ = "RQ_CH_END"
        BY <1>3, <1>4 DEF Hand1
    <2> QED BY <1>1, <1>3, <2>1 DEF Data, Time1
<1>5. ASSUME valid
      PROVE  FIR2.data_out = [i \in 1..(TAP_NUM - 1) |->
                                 <<i - 1, <<valid_ch, (Rate * valid_sample + i - 1) % Count64>>>>]
    <2>1. FIR2_REQ = "RQ_CH_BUSY" /\ FIR2.STS = "SEQ_IDLE" /\ valid_ch = FIR2_CH_CNT
        BY <1>3, <1>5 DEF Hand2, Shape2, valid, valid_ch
    <2>2. PICK b \in Nat : b = Rate * q
        BY <1>3, Span
    <2>3. PICK n \in Nat \ {0} : n = Count64
        BY Constants
    <2>4. PICK v \in Nat : v = Rate * valid_sample /\ v % n = b % n
        <3>1. n % n = 0
            <4>1. 1 \in Nat /\ 0 \in Nat /\ 0 < n
                OBVIOUS
            <4>2. (1 * n) % n = 0
                BY ONLY <4>1, n \in Nat \ {0}, ModMultiple
            <4> QED BY <4>2
        <3>2. (Rate * (q % Count32)) % n = (Rate * q) % n /\ Rate * (q % Count32) \in Nat
            BY <1>3, <2>3, <3>1, RoundsOfOutputs
        <3>3. valid_sample = q % Count32
            BY <1>3 DEF valid_sample, Time2
        <3> QED BY <2>2, <3>2, <3>3
    <2>5. ASSUME NEW i \in 1..(TAP_NUM - 1) PROVE (v + i - 1) % n = (b + i - 1) % n
        <3>1. PICK j \in Nat : j = i - 1 /\ v + i - 1 = v + j /\ b + i - 1 = b + j
            OBVIOUS
        <3>2. ((v % n) + j) % n = (v + j) % n
            BY ONLY <3>1, v \in Nat, n \in Nat \ {0}, ModPlus
        <3>3. ((b % n) + j) % n = (b + j) % n
            BY ONLY <3>1, b \in Nat, n \in Nat \ {0}, ModPlus
        <3> QED BY <2>4, <3>1, <3>2, <3>3
    <2>6. FIR2.data_out = [i \in 1..(TAP_NUM - 1) |-> Item64(valid_ch, b, i)]
        <3>1. Stage2 = TAP_NUM + 3
            BY <1>3, <2>1, SumTime2
        <3>2. PICK s : s = Stage2
            OBVIOUS
        <3>3. Flow2(s, b, valid_ch)
            BY <1>1, <2>1, <2>2, <3>2 DEF Data
        <3> QED BY <3>1, <3>2, <3>3 DEF Flow2
    <2>7. \A i \in 1..(TAP_NUM - 1) :
             Item64(valid_ch, b, i) = <<i - 1, <<valid_ch, (Rate * valid_sample + i - 1) % Count64>>>>
        BY <2>3, <2>4, <2>5 DEF Item64
    <2> QED BY <2>6, <2>7
<1> QED BY <1>4, <1>5

\* Every 64 kHz sample is the sum over exactly its own bytes and every sample handed
\* on the sum over its own 64 kHz samples, although both rings are written on while
\* the filters read them: SamplesIntact.
THEOREM Intact == Spec => []SamplesIntact
<1>1. Init => Complete
    BY Inv1Init, ScheduleInit, DataInit DEF Complete
<1> QED BY <1>1, CompleteStep, IntactThen, PTL DEF Spec

=============================================================================
