-------------------------- MODULE BurstWrite_proofs --------------------------
(***************************************************************************)
(* The burst writer is correct for every line length, burst length and     *)
(* pattern of wait states: the inductive invariant IInv, the safety        *)
(* properties of BurstWrite, and the refinement of BlockCopy.              *)
(***************************************************************************)
EXTENDS BurstWrite, TLAPS

---------------------------------------------------------------------------
(* Word counts that are a whole number of bursts. *)

Whole == {q * Burst : q \in Nat}

\* Whole bursts start at nothing and grow by one burst.
LEMMA WholeGrows ==
    /\ 0 \in Whole
    /\ \A w \in Whole : w \in Nat /\ w + Burst \in Whole
<1>0. Burst \in Nat BY WriteAssumption
<1>1. 0 \in Whole
  <2>1. 0 = 0 * Burst BY <1>0
  <2> QED BY <2>1 DEF Whole
<1>2. ASSUME NEW w \in Whole PROVE w \in Nat /\ w + Burst \in Whole
  <2>1. PICK q \in Nat : w = q * Burst BY DEF Whole
  <2>2. w \in Nat BY <2>1, <1>0
  <2>3. w + Burst = (q + 1) * Burst BY <2>1, <1>0
  <2>4. w + Burst \in Whole BY <2>3 DEF Whole
  <2> QED BY <2>2, <2>4
<1> QED BY <1>1, <1>2

\* A line that is not finished after whole bursts has room for another one.
LEMMA RoomForBurst ==
    ASSUME NEW w \in Whole, w < NWords
    PROVE  w + Burst <= NWords
<1>0. Burst \in Nat /\ NWords \in Nat BY WriteAssumption
<1>1. PICK q \in Nat : w = q * Burst BY DEF Whole
<1>2. PICK r \in Nat : NWords = r * Burst BY WriteAssumption
<1>3. ASSUME r <= q PROVE FALSE
  <2>1. PICK d \in Nat : q = r + d
    <3>1. q - r \in Nat /\ q = r + (q - r) BY <1>3
    <3> QED BY <3>1
  <2>2. w = NWords + d * Burst BY <1>0, <1>1, <1>2, <2>1
  <2>3. d * Burst >= 0 BY <1>0, <2>1
  <2>4. d * Burst \in Int BY <1>0, <2>1
  <2>5. w >= NWords BY ONLY <2>2, <2>3, <2>4, <1>0
  <2> QED BY <2>5, <1>0, <1>1
<1>4. PICK d \in Nat : r = (q + 1) + d
  <2>1. r - (q + 1) \in Nat /\ r = (q + 1) + (r - (q + 1)) BY <1>3
  <2> QED BY <2>1
<1>5. NWords = (w + Burst) + d * Burst BY <1>0, <1>1, <1>2, <1>4
<1>6. d * Burst >= 0 /\ d * Burst \in Int BY <1>0, <1>4
<1>7. w \in Int BY <1>0, <1>1
<1> QED BY ONLY <1>5, <1>6, <1>7, <1>0

---------------------------------------------------------------------------
(* The inductive invariant. *)

\* Requester, start delay, buffer and master move in lock step.
Delay(a, b, c) == START_DLY[1] = a /\ START_DLY[2] = b /\ START_DLY[3] = c

Phases ==
    \/ /\ MWSTS \in {"MW_IDLE", "MW_WAIT", "MW_START"}
       /\ Delay(0, 0, 0) /\ BSTS = "B_IDLE" /\ WR_STS = "WR_IDLE"
    \/ /\ MWSTS = "MW_WAIT_END" /\ WR_STS = "WR_IDLE"
       /\ \/ Delay(1, 0, 0) /\ BSTS = "B_START"
          \/ Delay(0, 1, 0) /\ BSTS = "B_START0"
          \/ Delay(0, 0, 1) /\ BSTS = "B_START1"
    \/ /\ MWSTS = "MW_WAIT_END" /\ WR_STS \in WrStates \ {"WR_IDLE"}
       /\ Delay(0, 0, 0) /\ BSTS = "B_WAIT_END"
    \/ /\ MWSTS = "MW_END" /\ WR_STS = "WR_IDLE"
       /\ Delay(0, 0, 0) /\ BSTS = "B_END"

Cap(n) == IF n <= MaxRead THEN n ELSE MaxRead
Pending == IF REG_WR THEN 1 ELSE 0

\* The four registers never overflow, and from the second word on the fetch
\* side keeps up: a buffer about to run dry has a word in flight.
Occupancy ==
    /\ REG_DATA_COUNT <= 4 /\ (REG_WR => REG_DATA_COUNT <= 3)
    /\ BSTS \in {"B_START0", "B_START1"} => REG_DATA_COUNT = 0 /\ ~REG_WR
    /\ BSTS = "B_WAIT_END" /\ REG_DATA_COUNT = 1 => REG_WR
    /\ WR_STS \in {"WR_REQ", "WR_BURST"} => REG_DATA_COUNT >= 1

\* Fetched words: what was asked for, what is in flight, what is stored.
Window ==
    BSTS \in {"B_START0", "B_START1", "B_WAIT_END"} =>
      /\ REG_RD_COUNT = WR_CNT % 4
      /\ DATA_COUNT = Cap(WR_CNT + REG_DATA_COUNT + Pending)
      /\ REG_WR => /\ buf_data = Cap(WR_CNT + REG_DATA_COUNT)
                   /\ REG_WR_ADDR = buf_data % 4
      /\ \A w \in 0..MaxRead :
            WR_CNT <= w /\ w < WR_CNT + REG_DATA_COUNT => DATAREG[w % 4] = w

\* How far the line has come.
Progress ==
    /\ BSTS \in {"B_START", "B_START0", "B_START1"} => WR_CNT = 0
    /\ WR_STS \in {"WR_REQ_WAIT", "WR_REQ"} => WR_CNT < NWords /\ WR_CNT \in Whole
    /\ WR_STS = "WR_BURST" => BRSTCOUNT < Burst /\ WR_CNT < NWords
    /\ WR_STS \in {"WR_BURST_END", "WR_LINE_END"} => BRSTCOUNT = Burst
    /\ WR_STS \in {"WR_BURST", "WR_BURST_END", "WR_LINE_END"} =>
          WR_CNT - BRSTCOUNT \in Whole
    /\ WR_STS = "WR_LINE_END" => WR_CNT = NWords

\* Exactly the words the master has counted are on the bus, in order.
Delivered == /\ WR_CNT <= NWords
             /\ Len(written) = WR_CNT
             /\ \A i \in 1..Len(written) : written[i] = i - 1

IInv == TypeOK /\ Phases /\ Occupancy /\ Window /\ Progress /\ Delivered

---------------------------------------------------------------------------
(* Lemmas: what one clock edge does. *)

\* A beat is counted only inside a burst, and every step is a clock edge.
LEMMA ClockEdge ==
    ASSUME Next
    PROVE  \E valid \in BOOLEAN : Clock(valid) /\ (valid => WR_STS = "WR_BURST")
BY DEF Next, Idle, RequestWait, Request, BurstStall, BurstBeat, BurstEnd, LineEnd

\* Inside a burst the buffer offers the word of the master's address.
LEMMA RightWordInBurst ==
    ASSUME IInv, WR_STS = "WR_BURST"
    PROVE  READY /\ WR_CNT < NWords /\ mwrdata = WR_CNT
<1>1. BSTS = "B_WAIT_END" BY DEF IInv, Phases
<1>2. REG_DATA_COUNT >= 1 /\ REG_DATA_COUNT \in Nat BY DEF IInv, Occupancy, TypeOK
<1>3. WR_CNT < NWords /\ WR_CNT \in Nat BY DEF IInv, Progress, TypeOK
<1>4. WR_CNT \in 0..MaxRead BY <1>3, WriteAssumption
<1>5. WR_CNT < WR_CNT + REG_DATA_COUNT BY <1>2, <1>3
<1>6. DATAREG[WR_CNT % 4] = WR_CNT BY <1>1, <1>3, <1>4, <1>5 DEF IInv, Window
<1>7. REG_RD_COUNT = WR_CNT % 4 BY <1>1 DEF IInv, Window
<1> QED BY <1>1, <1>2, <1>3, <1>6, <1>7 DEF READY, mwrdata

\* The requester, the delay line, the buffer and the master stay in step.
LEMMA PhasesStep ==
    ASSUME IInv, Next
    PROVE  Phases' /\ MWSTS' \in MwStates /\ WR_STS' \in WrStates /\ BSTS' \in BStates
<1> USE DEF IInv, Phases, Requester, StartDelay, Buffer, BufferSequence, Clock,
            Delay, start_in, clr_in, WRITE_END, MasterGoto, MwStates, WrStates, BStates
<1>1. CASE Idle BY <1>1 DEF Idle
<1>2. CASE RequestWait BY <1>2 DEF RequestWait
<1>3. CASE Request BY <1>3 DEF Request
<1>4. CASE BurstStall BY <1>4 DEF BurstStall
<1>5. CASE BurstBeat BY <1>5 DEF BurstBeat
<1>6. CASE BurstEnd BY <1>6 DEF BurstEnd
<1>7. CASE LineEnd BY <1>7 DEF LineEnd
<1> QED BY <1>1, <1>2, <1>3, <1>4, <1>5, <1>6, <1>7 DEF Next

\* The number of stored words stays within the four registers and never runs
\* dry inside a burst.
LEMMA OccupancyStep ==
    ASSUME IInv, Next
    PROVE  Occupancy' /\ REG_DATA_COUNT' \in 0..7 /\ REG_WR' \in BOOLEAN
<1>1. PICK valid \in BOOLEAN : Clock(valid) /\ (valid => WR_STS = "WR_BURST")
  BY ClockEdge
<1>2. REG_DATA_COUNT \in 0..4 /\ REG_WR \in BOOLEAN /\ (REG_WR => REG_DATA_COUNT <= 3)
  BY DEF IInv, TypeOK, Occupancy
<1>3. WR_STS = "WR_BURST" => BSTS = "B_WAIT_END" /\ REG_DATA_COUNT >= 1
  BY DEF IInv, Phases, Occupancy
<1>4. REG_WR' = (REG_DATA_COUNT < 3 /\ BSTS = "B_WAIT_END")
  BY <1>1, <1>2 DEF Clock, Buffer, Fetch, RDREQ, FULL
<1>5. REG_DATA_COUNT' = IF BSTS = "B_START" THEN 0
                        ELSE IF REG_WR /\ ~valid THEN REG_DATA_COUNT + 1
                        ELSE IF ~REG_WR /\ valid THEN REG_DATA_COUNT - 1
                        ELSE REG_DATA_COUNT
  BY <1>1 DEF Clock, Buffer, CountWords
<1>6. REG_DATA_COUNT' \in 0..4 BY <1>1, <1>2, <1>3, <1>5
<1>7. REG_WR' => REG_DATA_COUNT' <= 3 BY <1>1, <1>2, <1>3, <1>4, <1>5
<1>8. BSTS' \in {"B_START0", "B_START1"} => REG_DATA_COUNT' = 0 /\ ~REG_WR'
  <2>1. BSTS' = "B_START0" => BSTS = "B_START"
    BY <1>1 DEF Clock, Buffer, BufferSequence
  <2>2. BSTS' = "B_START1" => BSTS = "B_START0"
    BY <1>1 DEF Clock, Buffer, BufferSequence
  <2>3. BSTS = "B_START0" => REG_DATA_COUNT = 0 /\ ~REG_WR /\ ~valid
    BY <1>1, <1>3 DEF IInv, Occupancy
  <2> QED BY <1>4, <1>5, <2>1, <2>2, <2>3
<1>9. BSTS' = "B_WAIT_END" /\ REG_DATA_COUNT' = 1 => REG_WR'
  <2>1. BSTS' = "B_WAIT_END" => BSTS \in {"B_START1", "B_WAIT_END"}
    BY <1>1 DEF Clock, Buffer, BufferSequence
  <2>2. BSTS = "B_START1" => REG_DATA_COUNT' = 0
    BY <1>1, <1>3, <1>5 DEF IInv, Occupancy
  <2>3. BSTS = "B_WAIT_END" /\ REG_DATA_COUNT' = 1 => REG_DATA_COUNT < 3
    BY <1>2, <1>5
  <2>4. CASE BSTS = "B_WAIT_END" BY <1>2, <1>4, <2>3, <2>4
  <2>5. CASE BSTS = "B_START1" BY <2>2, <2>5
  <2> QED BY <2>1, <2>4, <2>5
<1>10. WR_STS' \in {"WR_REQ", "WR_BURST"} => REG_DATA_COUNT' >= 1
  <2>1. WR_STS' = "WR_REQ" => READY /\ WR_STS = "WR_REQ_WAIT"
    BY DEF Next, Idle, RequestWait, Request, BurstStall, BurstBeat, BurstEnd,
           LineEnd, MasterGoto
  <2>2. WR_STS' = "WR_BURST" => WR_STS \in {"WR_REQ", "WR_BURST"}
    BY DEF Next, Idle, RequestWait, Request, BurstStall, BurstBeat, BurstEnd,
           LineEnd, MasterGoto
  <2>3. WR_STS = "WR_REQ" => BSTS = "B_WAIT_END" /\ REG_DATA_COUNT >= 1
    BY DEF IInv, Phases, Occupancy
  <2>4. WR_STS = "WR_BURST" /\ REG_DATA_COUNT = 1 => REG_WR
    BY <1>3 DEF IInv, Occupancy
  <2>5. READY => REG_DATA_COUNT >= 1 /\ BSTS = "B_WAIT_END" BY <1>2 DEF READY
  <2> QED BY <1>1, <1>2, <1>3, <1>5, <2>1, <2>2, <2>3, <2>4, <2>5
<1>11. REG_WR' \in BOOLEAN BY <1>4
<1> QED BY <1>6, <1>7, <1>8, <1>9, <1>10, <1>11 DEF Occupancy

\* The word count stands still outside bursts and requests.
LEMMA WordCount ==
    ASSUME IInv, NEW valid \in BOOLEAN, Clock(valid), valid => WR_STS = "WR_BURST"
    PROVE  /\ WR_CNT' \in 0..NWords
           /\ start_in => WR_CNT' = 0 /\ ~valid
           /\ ~start_in => WR_CNT' = IF valid THEN WR_CNT + 1 ELSE WR_CNT
<1>1. start_in => WR_STS = "WR_IDLE" BY DEF IInv, Phases, start_in
<1>2. WR_CNT \in 0..NWords /\ NWords \in Nat
  BY WriteAssumption DEF IInv, TypeOK, Delivered
<1>3. valid => WR_CNT < NWords BY DEF IInv, Progress
<1>4. WR_CNT' = IF start_in THEN 0
                ELSE IF valid /\ WR_CNT < 4 * NWords THEN WR_CNT + 1 ELSE WR_CNT
  BY DEF Clock, CountTransfers
<1> QED BY <1>1, <1>2, <1>3, <1>4

\* Every fetched word is stored where the master will look for it.
LEMMA WindowStep ==
    ASSUME IInv, Next
    PROVE  Window' /\ TypeOK'
<1>1. PICK valid \in BOOLEAN : Clock(valid) /\ (valid => WR_STS = "WR_BURST")
  BY ClockEdge
<1>2. /\ WR_CNT \in Nat /\ MaxRead \in Nat /\ NWords \in Nat /\ Burst \in Nat
      /\ REG_DATA_COUNT \in 0..4 /\ REG_WR \in BOOLEAN
      /\ (REG_WR => REG_DATA_COUNT <= 3)
      /\ DATA_COUNT \in 0..MaxRead /\ REG_WR_ADDR \in 0..3
      /\ buf_data \in CpuWord..MaxRead /\ REG_RD_COUNT \in 0..3
  BY WriteAssumption DEF IInv, TypeOK, Occupancy
<1>3. DATAREG \in [0..3 -> CpuWord..MaxRead] BY DEF IInv, TypeOK
<1>4. DATAREG' = IF REG_WR THEN [DATAREG EXCEPT ![REG_WR_ADDR] = buf_data] ELSE DATAREG
  BY <1>1 DEF Clock, Buffer, StoreWord
<1>5. DATA_COUNT' = IF BSTS = "B_START" THEN 0
                    ELSE IF REG_DATA_COUNT < 3 /\ BSTS = "B_WAIT_END" /\ DATA_COUNT < MaxRead
                         THEN DATA_COUNT + 1 ELSE DATA_COUNT
  BY <1>1, <1>2 DEF Clock, Buffer, Fetch, RDREQ, FULL
<1>6. /\ REG_WR' = (REG_DATA_COUNT < 3 /\ BSTS = "B_WAIT_END")
      /\ REG_WR_ADDR' = DATA_COUNT % 4
      /\ buf_data' = IF WR_STS # "WR_IDLE" THEN DATA_COUNT ELSE CpuWord
  BY <1>1, <1>2 DEF Clock, Buffer, Fetch, RDREQ, FULL, busy_out
<1>7. /\ REG_DATA_COUNT' = IF BSTS = "B_START" THEN 0
                           ELSE IF REG_WR /\ ~valid THEN REG_DATA_COUNT + 1
                           ELSE IF ~REG_WR /\ valid THEN REG_DATA_COUNT - 1
                           ELSE REG_DATA_COUNT
      /\ REG_RD_COUNT' = IF BSTS = "B_START" THEN 0
                         ELSE IF valid THEN (REG_RD_COUNT + 1) % 4 ELSE REG_RD_COUNT
  BY <1>1 DEF Clock, Buffer, CountWords
<1>8. /\ WR_CNT' \in 0..NWords
      /\ ~start_in => WR_CNT' = IF valid THEN WR_CNT + 1 ELSE WR_CNT
  BY <1>1, WordCount
<1>9. /\ BSTS' \in {"B_START0", "B_START1", "B_WAIT_END"} =>
            BSTS \in {"B_START", "B_START0", "B_START1", "B_WAIT_END"} /\ ~start_in
      /\ BSTS' \in {"B_START1", "B_WAIT_END"} => BSTS # "B_START"
      /\ BSTS \in {"B_START", "B_START0", "B_START1"} => ~valid /\ WR_CNT = 0
      /\ BSTS = "B_WAIT_END" => WR_STS # "WR_IDLE"
      /\ BSTS \in {"B_START0", "B_START1"} => REG_DATA_COUNT = 0 /\ ~REG_WR
  BY <1>1 DEF IInv, Phases, Occupancy, Progress, Clock, Buffer, BufferSequence, start_in
<1>10. TypeOK'
  <2>1. DATAREG' \in [0..3 -> CpuWord..MaxRead] BY <1>2, <1>3, <1>4
  <2>2. DATA_COUNT' \in 0..MaxRead /\ REG_WR_ADDR' \in 0..3 /\ REG_RD_COUNT' \in 0..3
    BY <1>2, <1>5, <1>6, <1>7
  <2>3. buf_data' \in CpuWord..MaxRead BY <1>2, <1>6 DEF CpuWord
  <2>4. REG_DATA_COUNT' \in 0..7 /\ REG_WR' \in BOOLEAN BY OccupancyStep
  <2>5. MWSTS' \in MwStates /\ WR_STS' \in WrStates /\ BSTS' \in BStates BY PhasesStep
  <2>6. WR_CNT' \in 0..(4 * NWords) BY <1>2, <1>8
  <2>7. BRSTCOUNT' \in 0..Burst
    BY <1>1, <1>2 DEF IInv, TypeOK, Clock, CountTransfers
  <2>8. START_DLY' \in {0, 1} \X {0, 1} \X {0, 1}
    BY <1>1 DEF IInv, TypeOK, Clock, StartDelay
  <2>9. written' \in Seq(CpuWord..MaxRead)
    <3>1. written \in Seq(CpuWord..MaxRead) BY DEF IInv, TypeOK
    <3>2. mwrdata \in CpuWord..MaxRead BY <1>2, <1>3 DEF mwrdata
    <3>3. Append(written, mwrdata) \in Seq(CpuWord..MaxRead) BY <3>1, <3>2
    <3>4. << >> \in Seq(CpuWord..MaxRead) OBVIOUS
    <3>5. written' \in {<< >>, Append(written, mwrdata), written}
      BY <1>1 DEF Clock, BusAccepts
    <3> QED BY <3>1, <3>3, <3>4, <3>5
  <2> QED BY <2>1, <2>2, <2>3, <2>4, <2>5, <2>6, <2>7, <2>8, <2>9 DEF TypeOK
<1>11. ASSUME BSTS' \in {"B_START0", "B_START1", "B_WAIT_END"}, BSTS # "B_WAIT_END"
       PROVE  Window'
  <2>1. WR_CNT' = 0 /\ REG_DATA_COUNT' = 0 /\ ~REG_WR' /\ DATA_COUNT' = 0
        /\ REG_RD_COUNT' = 0
    BY <1>2, <1>5, <1>6, <1>7, <1>8, <1>9, <1>11 DEF IInv, Window, Cap, Pending
  <2> QED BY <1>2, <2>1 DEF Window, Cap, Pending
<1>12. ASSUME BSTS' = "B_WAIT_END", BSTS = "B_WAIT_END"
       PROVE  Window'
  <2>1. /\ REG_RD_COUNT = WR_CNT % 4
        /\ DATA_COUNT = Cap(WR_CNT + REG_DATA_COUNT + Pending)
        /\ REG_WR => /\ buf_data = Cap(WR_CNT + REG_DATA_COUNT)
                     /\ REG_WR_ADDR = buf_data % 4
        /\ \A w \in 0..MaxRead :
              WR_CNT <= w /\ w < WR_CNT + REG_DATA_COUNT => DATAREG[w % 4] = w
    BY <1>12 DEF IInv, Window
  <2>2. WR_CNT' = IF valid THEN WR_CNT + 1 ELSE WR_CNT BY <1>8, <1>9, <1>12
  <2>3. WR_CNT' + REG_DATA_COUNT' = WR_CNT + REG_DATA_COUNT + Pending
    BY <1>2, <1>7, <1>12, <2>2 DEF Pending
  <2>4. REG_RD_COUNT' = WR_CNT' % 4 BY <1>2, <1>7, <1>12, <2>1, <2>2
  <2>5. DATA_COUNT' = Cap(WR_CNT' + REG_DATA_COUNT' + Pending')
    <3>1. Pending' = IF REG_DATA_COUNT < 3 THEN 1 ELSE 0
      BY <1>6, <1>12 DEF Pending
    <3>2. DATA_COUNT' = IF REG_DATA_COUNT < 3 /\ DATA_COUNT < MaxRead
                        THEN DATA_COUNT + 1 ELSE DATA_COUNT
      BY <1>5, <1>12
    <3>3. Pending \in 0..1 BY DEF Pending
    <3> QED BY <1>2, <2>1, <2>3, <3>1, <3>2, <3>3 DEF Cap
  <2>6. REG_WR' => /\ buf_data' = Cap(WR_CNT' + REG_DATA_COUNT')
                   /\ REG_WR_ADDR' = buf_data' % 4
    BY <1>6, <1>9, <1>12, <2>1, <2>3
  <2>7. ASSUME NEW w \in 0..MaxRead, WR_CNT' <= w, w < WR_CNT' + REG_DATA_COUNT'
        PROVE  DATAREG'[w % 4] = w
    <3>1. WR_CNT <= w /\ w < WR_CNT + REG_DATA_COUNT + Pending
      BY <1>2, <2>2, <2>3, <2>7
    <3>2. CASE w < WR_CNT + REG_DATA_COUNT
      <4>1. DATAREG[w % 4] = w /\ w % 4 \in 0..3 BY <2>1, <3>1, <3>2
      <4>2. REG_WR /\ REG_WR_ADDR = w % 4 => buf_data = w
        BY <1>2, <2>1, <3>1, <3>2 DEF Cap
      <4> QED BY <1>3, <1>4, <4>1, <4>2
    <3>3. CASE w = WR_CNT + REG_DATA_COUNT /\ REG_WR
      <4>1. buf_data = w /\ REG_WR_ADDR = w % 4 /\ w % 4 \in 0..3
        BY <1>2, <2>1, <3>3 DEF Cap
      <4> QED BY <1>3, <1>4, <3>3, <4>1
    <3> QED BY <1>2, <3>1, <3>2, <3>3 DEF Pending
  <2> QED BY <2>4, <2>5, <2>6, <2>7 DEF Window
<1>13. BSTS' \notin {"B_START0", "B_START1", "B_WAIT_END"} => Window' BY DEF Window
<1>14. BSTS' \in {"B_START0", "B_START1"} => BSTS # "B_WAIT_END"
  BY <1>1 DEF Clock, Buffer, BufferSequence
<1> QED BY <1>10, <1>11, <1>12, <1>13, <1>14

\* The line advances by whole bursts and ends exactly full.
LEMMA ProgressStep ==
    ASSUME IInv, Next
    PROVE  Progress'
<1>1. /\ WR_CNT \in 0..NWords /\ NWords \in Nat \ {0} /\ Burst \in Nat \ {0}
      /\ BRSTCOUNT \in 0..Burst
  BY WriteAssumption DEF IInv, TypeOK, Delivered
<1>2. ASSUME WR_STS # "WR_BURST", Clock(FALSE)
      PROVE  /\ BRSTCOUNT' = IF WR_STS = "WR_REQ" THEN 0 ELSE BRSTCOUNT
             /\ WR_CNT' = IF start_in THEN 0 ELSE WR_CNT
  BY <1>2, WordCount DEF Clock, CountTransfers
<1>3. /\ WR_STS # "WR_IDLE" => BSTS = "B_WAIT_END" /\ ~start_in /\ ~clr_in
      /\ START_DLY[3] = 1 => BSTS = "B_START1"
      /\ BSTS \in {"B_START", "B_START0", "B_START1"} => ~start_in
      /\ BSTS = "B_WAIT_END" => WR_STS # "WR_IDLE"
  BY DEF IInv, Phases, Delay, start_in, clr_in
<1>13. /\ BSTS' = "B_START" => start_in
       /\ BSTS' \in {"B_START0", "B_START1"} => BSTS \in {"B_START", "B_START0"}
  BY ClockEdge DEF Clock, Buffer, BufferSequence
<1>14. BSTS' \in {"B_START", "B_START0", "B_START1"} => WR_STS = "WR_IDLE"
  BY <1>3, <1>13
<1>4. CASE Idle
  <2>1. Clock(FALSE) /\ WR_STS = "WR_IDLE" /\ WR_STS' \in {"WR_IDLE", "WR_REQ_WAIT"}
        /\ (WR_STS' = "WR_REQ_WAIT" => START_DLY[3] = 1)
    BY <1>4 DEF Idle, MasterGoto
  <2>2. WR_CNT' = IF start_in THEN 0 ELSE WR_CNT BY <1>2, <2>1
  <2>3. BSTS \in {"B_START", "B_START0", "B_START1"} => WR_CNT = 0
    BY DEF IInv, Progress
  <2>4. BSTS' \in {"B_START", "B_START0", "B_START1"} => WR_CNT' = 0
    BY <1>3, <1>13, <1>14, <2>1, <2>2, <2>3
  <2>5. WR_STS' = "WR_REQ_WAIT" => WR_CNT' = 0
    BY <1>3, <1>13, <1>14, <2>1, <2>2, <2>3
  <2> QED BY <1>1, <2>1, <2>4, <2>5, WholeGrows DEF Progress
<1>5. CASE RequestWait
  <2>1. Clock(FALSE) /\ WR_STS = "WR_REQ_WAIT" /\ WR_STS' \in {"WR_REQ_WAIT", "WR_REQ"}
    BY <1>3, <1>13, <1>14, <1>5 DEF RequestWait, MasterGoto
  <2> QED BY <1>2, <1>3, <1>13, <1>14, <2>1 DEF IInv, Progress
<1>6. CASE Request
  <2>1. Clock(FALSE) /\ WR_STS = "WR_REQ" /\ WR_STS' = "WR_BURST"
    BY <1>3, <1>13, <1>14, <1>6 DEF Request, MasterGoto
  <2>2. WR_CNT' = WR_CNT /\ BRSTCOUNT' = 0 BY <1>2, <1>3, <1>13, <1>14, <2>1
  <2>3. WR_CNT < NWords /\ WR_CNT \in Whole BY <2>1 DEF IInv, Progress
  <2> QED BY <1>1, <1>3, <1>13, <1>14, <2>1, <2>2, <2>3 DEF Progress
<1>7. CASE BurstStall
  <2>1. Clock(FALSE) /\ WR_STS = "WR_BURST" /\ WR_STS' = "WR_BURST"
    BY <1>3, <1>13, <1>14, <1>7 DEF BurstStall, MasterGoto
  <2>2. WR_CNT' = WR_CNT /\ BRSTCOUNT' = BRSTCOUNT
    BY <1>3, <1>13, <1>14, <2>1 DEF Clock, CountTransfers
  <2> QED BY <1>3, <1>13, <1>14, <2>1, <2>2 DEF IInv, Progress
<1>8. CASE BurstBeat
  <2>1. /\ Clock(TRUE) /\ WR_STS = "WR_BURST"
        /\ WR_STS' = IF BRSTCOUNT >= Burst - 1 THEN "WR_BURST_END" ELSE "WR_BURST"
    BY <1>3, <1>13, <1>14, <1>8 DEF BurstBeat, MasterGoto
  <2>2. BRSTCOUNT < Burst /\ WR_CNT < NWords /\ WR_CNT - BRSTCOUNT \in Whole
    BY <2>1 DEF IInv, Progress
  <2>3. WR_CNT' = WR_CNT + 1 /\ BRSTCOUNT' = BRSTCOUNT + 1
    BY <1>1, <1>3, <1>13, <1>14, <2>1, <2>2 DEF Clock, CountTransfers
  <2>4. (WR_CNT - BRSTCOUNT) + Burst <= NWords
    BY <1>1, <2>2, RoomForBurst
  <2>5. WR_STS' = "WR_BURST" => WR_CNT' < NWords /\ BRSTCOUNT' < Burst
    BY <1>1, <2>1, <2>2, <2>3, <2>4
  <2>6. WR_STS' = "WR_BURST_END" => BRSTCOUNT' = Burst
    BY <1>1, <2>1, <2>2, <2>3
  <2>7. WR_CNT' - BRSTCOUNT' \in Whole
    <3>1. WR_CNT' - BRSTCOUNT' = WR_CNT - BRSTCOUNT BY <1>1, <2>3
    <3> QED BY <2>2, <3>1
  <2> QED BY <1>3, <1>13, <1>14, <2>1, <2>5, <2>6, <2>7 DEF Progress
<1>9. CASE BurstEnd
  <2>1. /\ Clock(FALSE) /\ WR_STS = "WR_BURST_END"
        /\ WR_STS' = IF WR_CNT >= NWords THEN "WR_LINE_END" ELSE "WR_REQ_WAIT"
    BY <1>3, <1>13, <1>14, <1>9 DEF BurstEnd, MasterGoto
  <2>2. WR_CNT' = WR_CNT /\ BRSTCOUNT' = BRSTCOUNT BY <1>2, <1>3, <1>13, <1>14, <2>1
  <2>3. BRSTCOUNT = Burst /\ WR_CNT - BRSTCOUNT \in Whole
    BY <2>1 DEF IInv, Progress
  <2>4. WR_CNT \in Whole
    <3>1. (WR_CNT - BRSTCOUNT) + Burst = WR_CNT BY <1>1, <2>3
    <3> QED BY <2>3, <3>1, WholeGrows
  <2> QED BY <1>1, <1>3, <1>13, <1>14, <2>1, <2>2, <2>3, <2>4 DEF Progress
<1>10. CASE LineEnd
  <2>1. WR_STS' = "WR_IDLE" /\ BSTS' \notin {"B_START", "B_START0", "B_START1"}
    BY <1>3, <1>13, <1>14, <1>10 DEF LineEnd, MasterGoto
  <2> QED BY <2>1 DEF Progress
<1> QED BY <1>4, <1>5, <1>6, <1>7, <1>8, <1>9, <1>10 DEF Next

\* What the bus accepted is the beginning of the line.
LEMMA DeliveredStep ==
    ASSUME IInv, Next
    PROVE  Delivered'
<1>1. PICK valid \in BOOLEAN : Clock(valid) /\ (valid => WR_STS = "WR_BURST")
  BY ClockEdge
<1>2. /\ WR_CNT' \in 0..NWords /\ (start_in => WR_CNT' = 0 /\ ~valid)
      /\ (~start_in => WR_CNT' = IF valid THEN WR_CNT + 1 ELSE WR_CNT)
  BY <1>1, WordCount
<1>3. /\ Len(written) = WR_CNT /\ written \in Seq(CpuWord..MaxRead)
      /\ \A i \in 1..Len(written) : written[i] = i - 1
  BY DEF IInv, TypeOK, Delivered
<1>4. NWords \in Nat BY WriteAssumption
<1>5. CASE start_in
  <2>1. written' = << >> BY <1>1, <1>5 DEF Clock, BusAccepts
  <2>2. WR_CNT' = 0 BY <1>2, <1>5
  <2> QED BY <1>2, <1>4, <2>1, <2>2 DEF Delivered
<1>6. CASE ~start_in /\ ~valid
  <2>1. written' = written BY <1>1, <1>6 DEF Clock, BusAccepts
  <2>2. WR_CNT' = WR_CNT BY <1>2, <1>6
  <2> QED BY <1>2, <1>3, <1>4, <2>1, <2>2 DEF Delivered
<1>7. CASE ~start_in /\ valid
  <2>1. READY /\ mwrdata = WR_CNT BY <1>1, <1>7, RightWordInBurst
  <2>2. written' = Append(written, WR_CNT)
    BY <1>1, <1>7, <2>1 DEF Clock, BusAccepts, mwr
  <2>3. WR_CNT' = WR_CNT + 1 BY <1>2, <1>7
  <2>4. WR_CNT \in CpuWord..MaxRead /\ WR_CNT \in Nat
    <3>1. mwrdata \in CpuWord..MaxRead BY DEF IInv, TypeOK, mwrdata
    <3> QED BY <2>1, <3>1 DEF IInv, TypeOK
  <2>5. /\ Len(written') = WR_CNT'
        /\ \A i \in 1..Len(written') : written'[i] = i - 1
    BY <1>3, <2>2, <2>3, <2>4
  <2> QED BY <1>2, <1>4, <2>5 DEF Delivered
<1> QED BY <1>5, <1>6, <1>7

---------------------------------------------------------------------------
(* The theorems. *)

LEMMA InitIInv == Init => IInv
<1> SUFFICES ASSUME Init PROVE IInv OBVIOUS
<1>0. /\ NWords \in Nat \ {0} /\ Burst \in Nat \ {0} /\ MaxRead \in Nat
  BY WriteAssumption
<1>1. TypeOK
  <2>1. << >> \in Seq(CpuWord..MaxRead) OBVIOUS
  <2>3. [r \in 0..3 |-> CpuWord] \in [0..3 -> CpuWord..MaxRead]
    BY <1>0 DEF CpuWord
  <2>4. CpuWord \in CpuWord..MaxRead BY <1>0 DEF CpuWord
  <2>5. 0 \in 0..Burst /\ 0 \in 0..(4 * NWords) /\ 0 \in 0..MaxRead BY <1>0
  <2>6. MWSTS \in MwStates /\ WR_STS \in WrStates /\ BSTS \in BStates
    BY DEF Init, MwStates, WrStates, BStates
  <2>2. REG_WR \in BOOLEAN BY Zenon DEF Init
  <2>7. REG_WR_ADDR \in 0..3 /\ REG_DATA_COUNT \in 0..7 /\ REG_RD_COUNT \in 0..3
    BY DEF Init
  <2>8. START_DLY \in {0, 1} \X {0, 1} \X {0, 1} BY DEF Init
  <2>9. DATAREG \in [0..3 -> CpuWord..MaxRead] /\ buf_data \in CpuWord..MaxRead
    BY <2>3, <2>4 DEF Init
  <2>10. written \in Seq(CpuWord..MaxRead) BY <2>1 DEF Init
  <2> QED BY <2>2, <2>5, <2>6, <2>7, <2>8, <2>9, <2>10 DEF Init, TypeOK
<1>2. Phases BY DEF Init, Phases, Delay
<1>3. Occupancy BY DEF Init, Occupancy
<1>4. Window BY DEF Init, Window
<1>5. Progress BY DEF Init, Progress
<1>6. Delivered BY <1>0 DEF Init, Delivered
<1> QED BY <1>1, <1>2, <1>3, <1>4, <1>5, <1>6 DEF IInv

LEMMA StepIInv == IInv /\ [Next]_vars => IInv'
<1> SUFFICES ASSUME IInv, [Next]_vars PROVE IInv' OBVIOUS
<1>1. CASE Next
  BY <1>1, PhasesStep, OccupancyStep, WindowStep, ProgressStep, DeliveredStep DEF IInv
<1>2. CASE UNCHANGED vars
  BY <1>2 DEF IInv, TypeOK, Phases, Delay, Occupancy, Window, Cap, Pending, Progress,
     Delivered, vars, reqVars, masterVars, bufferVars
<1> QED BY <1>1, <1>2

\* The invariant holds in every reachable state.
THEOREM Invariance == Spec => []IInv
BY InitIInv, StepIInv, PTL DEF Spec

\* Every register stays in its declared range, for every line and burst length.
THEOREM TypeCorrect == Spec => []TypeOK
<1>1. IInv => TypeOK BY DEF IInv
<1> QED BY <1>1, Invariance, PTL

\* The buffer never runs dry inside a burst, so that mwr is never withdrawn and
\* the master never counts a word the bus did not take; and the word in flight
\* always finds a free register.
THEOREM BufferSound == Spec => []BufferHolds
<1>1. IInv => BurstNeverStarves BY RightWordInBurst DEF BurstNeverStarves
<1>2. IInv => FetchFindsRoom BY DEF IInv, Occupancy, FetchFindsRoom
<1> QED BY <1>1, <1>2, Invariance, PTL DEF BufferHolds

\* Each word goes to the address it belongs to.
THEOREM WordsInPlace == Spec => []RightWord
<1>1. IInv => RightWord BY RightWordInBurst DEF RightWord
<1> QED BY <1>1, Invariance, PTL

\* A transfer is never requested of a busy master or a closing buffer.
THEOREM StartsFindIdle == Spec => []StartFindsIdle
<1>1. IInv => StartFindsIdle BY DEF IInv, Phases, StartFindsIdle, start_in
<1> QED BY <1>1, Invariance, PTL

\* Bursts are never cut short or overrun.
THEOREM BurstsWhole == Spec => []WholeBursts
<1>1. ASSUME IInv PROVE WholeBursts
  <2>1. /\ WR_STS = "WR_BURST" => BRSTCOUNT < Burst
        /\ WR_STS \in {"WR_BURST_END", "WR_LINE_END"} => BRSTCOUNT = Burst
    BY <1>1 DEF IInv, Progress
  <2>2. ASSUME WR_STS \in {"WR_BURST", "WR_BURST_END", "WR_LINE_END"}
        PROVE  \E q \in 0..NWords : WR_CNT = q * Burst + BRSTCOUNT
    <3>1. /\ WR_CNT \in 0..NWords /\ BRSTCOUNT \in Nat /\ Burst \in Nat \ {0}
          /\ NWords \in Nat
      BY <1>1, WriteAssumption DEF IInv, TypeOK, Delivered
    <3>2. WR_CNT - BRSTCOUNT \in Whole BY <1>1, <2>2 DEF IInv, Progress
    <3>3. PICK q \in Nat : WR_CNT - BRSTCOUNT = q * Burst BY <3>2 DEF Whole
    <3>4. q <= q * Burst
      <4>1. q * Burst = q + q * (Burst - 1) BY <3>1
      <4>2. q * (Burst - 1) >= 0 /\ q * (Burst - 1) \in Int BY <3>1
      <4> QED BY <4>1, <4>2
    <3>5. q * Burst \in Int BY <3>1
    <3>6. q \in 0..NWords BY <3>1, <3>3, <3>4, <3>5
    <3>7. WR_CNT = q * Burst + BRSTCOUNT BY <3>1, <3>3, <3>5
    <3> QED BY <3>6, <3>7
  <2> QED BY <2>1, <2>2 DEF WholeBursts
<1> QED BY <1>1, Invariance, PTL

\* A request is being served exactly while the requester waits for its end.
LEMMA CopyingPhase == Phases => (Copying <=> MWSTS = "MW_WAIT_END")
BY DEF Phases, Delay, Copying, WrStates

\* The burst writer implements the ordered copy of a line.
THEOREM Refinement == Spec => ImplementsCopy
<1>1. Init => Copy!Init
  BY DEF Init, Copy!Init, Copying
<1>2. IInv /\ [Next]_vars => [Copy!Next]_Copy!vars
  <2> SUFFICES ASSUME IInv, [Next]_vars PROVE [Copy!Next]_Copy!vars OBVIOUS
  <2>1. CASE UNCHANGED vars
    BY <2>1 DEF vars, reqVars, masterVars, bufferVars, Copy!vars, Copying
  <2>2. CASE Next
    <3>1. PICK valid \in BOOLEAN : Clock(valid) /\ (valid => WR_STS = "WR_BURST")
      BY <2>2, ClockEdge
    <3>2. Phases /\ Phases' BY <2>2, PhasesStep DEF IInv
    <3>3. Len(written) = WR_CNT BY DEF IInv, Delivered
    <3>4. CASE start_in
      <4>1. ~Copying /\ Copying' /\ written' = << >>
        BY <3>1, <3>2, <3>4 DEF Phases, Delay, start_in, Copying, Clock, StartDelay,
           BusAccepts
      <4> QED BY <4>1 DEF Copy!Next, Copy!Begin
    <3>5. CASE valid
      <4>1. READY /\ WR_CNT < NWords /\ mwrdata = WR_CNT
        BY <3>1, <3>5, RightWordInBurst
      <4>2. Copying /\ ~start_in
        BY <3>1, <3>2, <3>5 DEF Phases, Copying, start_in
      <4>3. Copying'
        BY <2>2, <3>1, <3>5 DEF Next, Idle, RequestWait, Request, BurstStall,
           BurstBeat, BurstEnd, LineEnd, MasterGoto, Copying, IInv, Phases, clr_in
      <4>4. written' = Append(written, Len(written))
        BY <3>1, <3>3, <3>5, <4>1, <4>2 DEF Clock, BusAccepts, mwr
      <4> QED BY <3>3, <4>1, <4>2, <4>3, <4>4 DEF Copy!Next, Copy!Put
    <3>6. CASE ~start_in /\ ~valid /\ WRITE_END
      <4>1. Copying /\ ~Copying'
        BY <2>2, <3>2, <3>6 DEF Phases, Delay, Copying, WRITE_END, Next, Idle,
           RequestWait, Request, BurstStall, BurstBeat, BurstEnd, LineEnd, MasterGoto,
           Clock, StartDelay, start_in
      <4>2. written' = written BY <3>1, <3>6 DEF Clock, BusAccepts
      <4>3. Len(written) = NWords BY <3>3, <3>6 DEF IInv, Progress, WRITE_END
      <4> QED BY <4>1, <4>2, <4>3 DEF Copy!Next, Copy!Finish
    <3>7. CASE ~start_in /\ ~valid /\ ~WRITE_END
      <4>1. written' = written BY <3>1, <3>7 DEF Clock, BusAccepts
      <4>2. Copying' = Copying
        <5>1. (MWSTS' = "MW_WAIT_END") <=> (MWSTS = "MW_WAIT_END")
          BY <3>1, <3>7 DEF Clock, Requester, start_in
        <5>2. Copying <=> MWSTS = "MW_WAIT_END" BY <3>2, CopyingPhase
        <5>3. Copying' <=> MWSTS' = "MW_WAIT_END"
          BY <3>2 DEF Phases, Delay, Copying, WrStates
        <5>4. Copying \in BOOLEAN /\ Copying' \in BOOLEAN BY DEF Copying
        <5> QED BY <5>1, <5>2, <5>3, <5>4
      <4> QED BY <4>1, <4>2 DEF Copy!vars
    <3> QED BY <3>4, <3>5, <3>6, <3>7
  <2> QED BY <2>1, <2>2
<1> QED BY <1>1, <1>2, Invariance, PTL DEF Spec, ImplementsCopy, Copy!Spec
=============================================================================
