------------------------------ MODULE BurstWrite -----------------------------
(***************************************************************************)
(* src/ip/avalon_master: the Avalon-MM burst writer that moves one line of *)
(* samples from the wave buffer to SDRAM (avalon_master_write_mod) and the *)
(* four word buffer it reads through (burst_buf4), clock by clock, driven  *)
(* by the part of pdm_amseq that requests the transfers.                   *)
(*                                                                         *)
(* Every step is one rising clock edge: each process of the three entities *)
(* is one operator that gives its register's next value, and the master's  *)
(* state chooses the disjunct of Next.  A word of the line buffer is       *)
(* identified by the address it was read from; pdm_mod gives the buffer's  *)
(* read address to the CPU whenever the master is idle, and what is read   *)
(* then is CpuWord.                                                        *)
(***************************************************************************)
EXTENDS Integers, Sequences

CONSTANTS NWords,    \* length_in in words (64 bytes = 16 words in pdm_amseq)
          Burst,     \* BURST_LNGTH (8 in pdm_mod)
          MaxRead    \* where DATA_COUNT saturates (1023)

\* "write length max 4 kbyte": the read counter reaches the last word; the
\* length is a whole number of bursts, as pdm_amseq and pdm_mod wire it.
ASSUME WriteAssumption ==
    /\ NWords \in Nat \ {0} /\ Burst \in Nat \ {0} /\ MaxRead \in Nat
    /\ \E q \in 1..NWords : NWords = q * Burst
    /\ NWords - 1 <= MaxRead

VARIABLES
    MWSTS,           \* pdm_amseq's state, one half of it
    START_DLY,       \* start_in delayed by 1, 2 and 3 clocks
    WR_STS, BRSTCOUNT, WR_CNT,                       \* master
    BSTS, DATA_COUNT, REG_WR, REG_WR_ADDR,           \* buffer, fetch side
    buf_data,        \* the line buffer's output register (latency 1)
    DATAREG, REG_DATA_COUNT, REG_RD_COUNT,           \* buffer, four words
    written          \* history: words the bus accepted in this request

reqVars == <<MWSTS, START_DLY>>
masterVars == <<WR_STS, BRSTCOUNT, WR_CNT>>
bufferVars == <<BSTS, DATA_COUNT, REG_WR, REG_WR_ADDR, buf_data,
                DATAREG, REG_DATA_COUNT, REG_RD_COUNT>>
vars == <<reqVars, masterVars, bufferVars, written>>

MwStates == {"MW_IDLE", "MW_WAIT", "MW_START", "MW_WAIT_END", "MW_END"}
WrStates == {"WR_IDLE", "WR_REQ_WAIT", "WR_REQ", "WR_BURST", "WR_BURST_END",
             "WR_LINE_END"}
BStates  == {"B_IDLE", "B_START", "B_START0", "B_START1", "B_WAIT_END", "B_END"}

---------------------------------------------------------------------------
(* Combinational signals. *)

start_in == MWSTS = "MW_START"               \* amw_start_out
clr_in == MWSTS = "MW_IDLE"                  \* amw_disable_out
FULL_At7 == REG_DATA_COUNT >= 7    \* mutants: the threshold of an 8 word
FULL_At4 == REG_DATA_COUNT >= 4    \* buffer, and one word late or early
FULL_At2 == REG_DATA_COUNT >= 2
FULL == REG_DATA_COUNT >= 3
READY == REG_DATA_COUNT > 0 /\ BSTS = "B_WAIT_END"
RDREQ == ~FULL /\ BSTS = "B_WAIT_END"
WRITE_END == WR_STS = "WR_LINE_END"
busy_out == WR_STS # "WR_IDLE"
mwrdata == DATAREG[REG_RD_COUNT]
CpuWord == -1

\* The bus takes a word only when READY raises mwr; the master counts one
\* (WR_VALID) whenever it is in a burst and the slave does not wait.
mwr == WR_STS = "WR_BURST" /\ READY

Init == /\ MWSTS = "MW_IDLE" /\ START_DLY = <<0, 0, 0>>
        /\ WR_STS = "WR_IDLE" /\ BRSTCOUNT = 0 /\ WR_CNT = 0
        /\ BSTS = "B_IDLE" /\ DATA_COUNT = 0 /\ REG_WR = FALSE /\ REG_WR_ADDR = 0
        /\ buf_data = CpuWord /\ DATAREG = [r \in 0..3 |-> CpuWord]
        /\ REG_DATA_COUNT = 0 /\ REG_RD_COUNT = 0
        /\ written = <<>>

---------------------------------------------------------------------------
(* burst_buf4: valid is next_data_in. *)

BufferSequence ==
    \/ BSTS = "B_IDLE" /\ BSTS' = IF start_in THEN "B_START" ELSE BSTS
    \/ BSTS = "B_START" /\ BSTS' = "B_START0"
    \/ BSTS = "B_START0" /\ BSTS' = "B_START1"
    \/ BSTS = "B_START1" /\ BSTS' = "B_WAIT_END"
    \/ BSTS = "B_WAIT_END" /\ BSTS' = IF start_in THEN "B_START"
                                     ELSE IF WRITE_END THEN "B_END" ELSE BSTS
    \/ BSTS = "B_END" /\ BSTS' = "B_IDLE"

\* The line buffer is read at DATA_COUNT; the word is there one clock later.
Fetch ==
    /\ DATA_COUNT' = IF BSTS = "B_START" THEN 0
                     ELSE IF RDREQ /\ DATA_COUNT < MaxRead THEN DATA_COUNT + 1
                     ELSE DATA_COUNT
    /\ REG_WR' = RDREQ
    /\ REG_WR_ADDR' = DATA_COUNT % 4
    /\ buf_data' = IF busy_out THEN DATA_COUNT ELSE CpuWord

\* Mutant: the word is stored under the next word's address.
StoreWord_Undelayed ==
    DATAREG' = IF REG_WR THEN [DATAREG EXCEPT ![DATA_COUNT % 4] = buf_data]
                         ELSE DATAREG

StoreWord == DATAREG' = IF REG_WR THEN [DATAREG EXCEPT ![REG_WR_ADDR] = buf_data]
                                  ELSE DATAREG

CountWords(valid) ==
    /\ REG_DATA_COUNT' = IF BSTS = "B_START" THEN 0
                         ELSE IF REG_WR /\ ~valid THEN REG_DATA_COUNT + 1
                         ELSE IF ~REG_WR /\ valid THEN REG_DATA_COUNT - 1
                         ELSE REG_DATA_COUNT
    /\ REG_RD_COUNT' = IF BSTS = "B_START" THEN 0
                       ELSE IF valid THEN (REG_RD_COUNT + 1) % 4
                       ELSE REG_RD_COUNT

Buffer(valid) == BufferSequence /\ Fetch /\ StoreWord /\ CountWords(valid)

---------------------------------------------------------------------------
(* avalon_master_write_mod *)

MasterGoto(sts) == WR_STS' = IF clr_in THEN "WR_IDLE" ELSE sts

StartDelay == START_DLY' = <<IF start_in THEN 1 ELSE 0, START_DLY[1], START_DLY[2]>>

CountTransfers(valid) ==
    /\ BRSTCOUNT' = IF WR_STS = "WR_REQ" THEN 0
                    ELSE IF valid /\ BRSTCOUNT < Burst THEN BRSTCOUNT + 1
                    ELSE BRSTCOUNT
    /\ WR_CNT' = IF start_in THEN 0
                 ELSE IF valid /\ WR_CNT < 4 * NWords THEN WR_CNT + 1
                 ELSE WR_CNT

\* A word leaves on the bus when mwr is up and the slave does not wait.
BusAccepts(valid) ==
    written' = IF start_in THEN <<>>
               ELSE IF mwr /\ valid THEN Append(written, mwrdata)
               ELSE written

\* Mutant: the next channel is started right after the end of the last one.
Requester_NoEndState ==
    \/ MWSTS = "MW_IDLE" /\ MWSTS' \in {"MW_IDLE", "MW_WAIT"}
    \/ MWSTS = "MW_WAIT" /\ MWSTS' \in {"MW_IDLE", "MW_WAIT", "MW_START"}
    \/ MWSTS = "MW_START" /\ MWSTS' = "MW_WAIT_END"
    \/ MWSTS = "MW_WAIT_END" /\ MWSTS' = IF WRITE_END THEN "MW_START" ELSE MWSTS

(* pdm_amseq: wait for a filled half, start the master, wait for its end,  *)
(* go on with the next channel or wait for the next half.                  *)
Requester ==
    \/ MWSTS = "MW_IDLE" /\ MWSTS' \in {"MW_IDLE", "MW_WAIT"}
    \/ MWSTS = "MW_WAIT" /\ MWSTS' \in {"MW_IDLE", "MW_WAIT", "MW_START"}
    \/ MWSTS = "MW_START" /\ MWSTS' = "MW_WAIT_END"
    \/ MWSTS = "MW_WAIT_END" /\ MWSTS' = IF WRITE_END THEN "MW_END" ELSE MWSTS
    \/ MWSTS = "MW_END" /\ MWSTS' \in {"MW_START", "MW_WAIT"}

\* What every clock edge does besides the master's state.
Clock(valid) == /\ Requester /\ StartDelay
                /\ Buffer(valid) /\ CountTransfers(valid) /\ BusAccepts(valid)

---------------------------------------------------------------------------
(* One clock edge, by the master's state. *)

Idle == /\ WR_STS = "WR_IDLE"
        /\ MasterGoto(IF START_DLY[3] = 1 THEN "WR_REQ_WAIT" ELSE "WR_IDLE")
        /\ Clock(FALSE)

RequestWait == /\ WR_STS = "WR_REQ_WAIT"
               /\ MasterGoto(IF READY THEN "WR_REQ" ELSE "WR_REQ_WAIT")
               /\ Clock(FALSE)

Request == WR_STS = "WR_REQ" /\ MasterGoto("WR_BURST") /\ Clock(FALSE)

\* Mutant: the end test without WR_VALID (the line the source comments out).
BurstStall_NoValid ==
    /\ WR_STS = "WR_BURST"
    /\ MasterGoto(IF BRSTCOUNT >= Burst - 1 THEN "WR_BURST_END" ELSE "WR_BURST")
    /\ Clock(FALSE)

\* The slave holds mwaitrequest up.
BurstStall == WR_STS = "WR_BURST" /\ MasterGoto("WR_BURST") /\ Clock(FALSE)

BurstBeat == /\ WR_STS = "WR_BURST"
             /\ MasterGoto(IF BRSTCOUNT >= Burst - 1 THEN "WR_BURST_END"
                                                     ELSE "WR_BURST")
             /\ Clock(TRUE)

\* Mutant: the line is taken for finished one burst early.
BurstEnd_Early ==
    /\ WR_STS = "WR_BURST_END"
    /\ MasterGoto(IF WR_CNT + Burst >= NWords THEN "WR_LINE_END" ELSE "WR_REQ_WAIT")
    /\ Clock(FALSE)

BurstEnd == /\ WR_STS = "WR_BURST_END"
            /\ MasterGoto(IF WR_CNT >= NWords THEN "WR_LINE_END" ELSE "WR_REQ_WAIT")
            /\ Clock(FALSE)

LineEnd == WR_STS = "WR_LINE_END" /\ MasterGoto("WR_IDLE") /\ Clock(FALSE)

Next == \/ Idle \/ RequestWait \/ Request \/ BurstStall \/ BurstBeat
        \/ BurstEnd \/ LineEnd

\* The clock never stops, and the slave does not hold a beat back for ever.
Fairness == WF_vars(Next) /\ SF_vars(BurstBeat)

Spec == Init /\ [][Next]_vars
FairSpec == Spec /\ Fairness

---------------------------------------------------------------------------
(* Properties *)

\* Every register stays in the range its declaration gives it.
TypeOK ==
    /\ MWSTS \in MwStates /\ WR_STS \in WrStates /\ BSTS \in BStates
    /\ START_DLY \in {0, 1} \X {0, 1} \X {0, 1}
    /\ BRSTCOUNT \in 0..Burst /\ WR_CNT \in 0..(4 * NWords)
    /\ DATA_COUNT \in 0..MaxRead /\ REG_WR \in BOOLEAN /\ REG_WR_ADDR \in 0..3
    /\ buf_data \in CpuWord..MaxRead /\ DATAREG \in [0..3 -> CpuWord..MaxRead]
    /\ REG_DATA_COUNT \in 0..7 /\ REG_RD_COUNT \in 0..3
    /\ written \in Seq(CpuWord..MaxRead)

\* WR_VALID ignores READY, so the master would count a beat the bus never saw
\* if the buffer ran dry inside a burst.  It never does: mwr stays asserted
\* for the whole burst, whatever the slave's wait states.
BurstNeverStarves == WR_STS = "WR_BURST" => READY

\* FULL is raised at three words because a read is still in flight: the word
\* it brings always finds a free register and overwrites none that is unread.
FetchFindsRoom == REG_DATA_COUNT <= 4 /\ (REG_WR => REG_DATA_COUNT <= 3)

\* The threshold of the four-word buffer is right on both sides.
BufferHolds == BurstNeverStarves /\ FetchFindsRoom

\* The word the buffer offers is the one that belongs at the master's address.
RightWord == WR_STS = "WR_BURST" => mwrdata = WR_CNT

\* A burst announced with mburstcount = Burst carries exactly Burst words: the
\* line is written up to BRSTCOUNT words of its current burst, and a burst ends
\* full.
WholeBursts ==
    /\ WR_STS \in {"WR_BURST", "WR_BURST_END", "WR_LINE_END"} =>
          \E q \in 0..NWords : WR_CNT = q * Burst + BRSTCOUNT
    /\ WR_STS = "WR_BURST" => BRSTCOUNT < Burst
    /\ WR_STS \in {"WR_BURST_END", "WR_LINE_END"} => BRSTCOUNT = Burst

\* A transfer is requested only of an idle master and an idle buffer; a start
\* one clock earlier would find the buffer in B_END, which ignores it.
StartFindsIdle == start_in => WR_STS = "WR_IDLE" /\ BSTS = "B_IDLE"

\* The writer implements the ordered copy of one line.
Copying == \/ WR_STS # "WR_IDLE" \/ \E i \in 1..3 : START_DLY[i] = 1
Copy == INSTANCE BlockCopy WITH copying <- Copying, written <- written
ImplementsCopy == Copy!Spec

\* Every request ends, provided the slave accepts beats.
RequestEnds == start_in ~> WRITE_END
=============================================================================
