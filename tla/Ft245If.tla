------------------------------- MODULE Ft245If -------------------------------
(***************************************************************************)
(* src/ip/ft245_mod/ft245if2.vhd: the interface to the FT245 USB FIFO.     *)
(* Its main sequencer reads a byte from the host, or writes one that the   *)
(* CPU put into TXreg or that the FIFO sequencer takes from the words the  *)
(* DMA wrote.  With it the software that uses it: FT245_SendBlock and      *)
(* FT245_IRQ_SERVICE of ft245_fifo.c.                                      *)
(*                                                                         *)
(* A step is one clock edge with at most one bus access.  The length of a  *)
(* byte's strobe is abstracted to two phases, before and after the byte is *)
(* on the wire; the last clock of the second is SEQ_END.                   *)
(***************************************************************************)
EXTENDS Integers, Sequences, FiniteSets

CONSTANTS
    MaxWords,    \* bound: words the DMA writes
    MaxReply,    \* bound: bytes the CPU sends
    MaxRx,       \* bound: bytes the host sends
    FifoDepth,   \* words in TxFIFO
    Overlap      \* what may go on at the same time

\* "rx/fifo": the host sends while FIFO words go out; "tx/fifo": the CPU sends
\* while they do; "rx/tx": the host sends while the CPU does.
ASSUME Ft245Assumption ==
    /\ MaxWords \in Nat /\ MaxReply \in Nat /\ MaxRx \in Nat
    /\ FifoDepth \in Nat \ {0} /\ Overlap \subseteq {"rx/fifo", "tx/fifo", "rx/tx"}

VARIABLES
    STS, phase, TXBUSY, TXreg,                            \* main sequencer
    FIFOSTS, FIFO_SEND_BUSY, FIFO_BYTE_COUNT, FIFO_Qreg, fifo,
    RXreg, RXIRQ_STS,
    cpu, reply, words,       \* FT245_SendBlock's step, bytes begun, words written
    rx, rxtotal,             \* host: bytes waiting in the FT245, bytes sent
    out, received,           \* history: bytes given to the FT245, to CmndSeq
    mixed                    \* history: the overlaps that happened

seqVars == <<STS, phase, TXBUSY, TXreg>>
fifoVars == <<FIFOSTS, FIFO_SEND_BUSY, FIFO_BYTE_COUNT, FIFO_Qreg, fifo>>
rxVars == <<RXreg, RXIRQ_STS>>
cpuVars == <<cpu, reply, words>>
vars == <<seqVars, fifoVars, rxVars, cpuVars, rx, rxtotal, out, received, mixed>>

NoByte == <<"none", 0>>
FifoByte(word, i) == <<"fifo", 4 * word + i>>

Init == /\ STS = "IDLE" /\ phase = 0 /\ TXBUSY = 0 /\ TXreg = NoByte
        /\ FIFOSTS = "FIFO_IDLE" /\ FIFO_SEND_BUSY = 0 /\ FIFO_BYTE_COUNT = 0
        /\ FIFO_Qreg = 0 /\ fifo = <<>>
        /\ RXreg = 0 /\ RXIRQ_STS = 0
        /\ cpu = "idle" /\ reply = 0 /\ words = 0
        /\ rx = <<>> /\ rxtotal = 0 /\ out = <<>> /\ received = <<>> /\ mixed = {}

FIFO_EMPTY == fifo = <<>>
\* Mutant: waitreq comes one word late.
FIFO_FULL_Late == Len(fifo) > FifoDepth

FIFO_FULL == Len(fifo) = FifoDepth
RX_RDYbit == rx # <<>>
CpuSends == cpu # "idle" \/ TXBUSY = 1
FifoSends == ~FIFO_EMPTY \/ FIFOSTS # "FIFO_IDLE" \/ FIFO_SEND_BUSY = 1
HostSends == rx # <<>> \/ STS \in {"RECV", "WAIT_CPURD"} \/ RXIRQ_STS = 1

\* What the two sequencers put on ft_txdata.
ft_txdata == IF FIFOSTS = "WAIT_FIFO_SEND_END"
             THEN FifoByte(FIFO_Qreg, FIFO_BYTE_COUNT) ELSE TXreg

---------------------------------------------------------------------------
(* One clock of each process; access is the bus access of this clock, end  *)
(* is SEQ_END, ready is TXEDLY(1), latch the byte leaving or arriving.     *)

\* Mutant: the next byte is read before the CPU has taken the last one.
MainSequencer_NoWait(access, end, ready) ==
    \/ /\ STS = "IDLE"
       /\ STS' = IF RX_RDYbit THEN "RECV"
                 ELSE IF ready /\ (TXBUSY = 1 \/ FIFO_SEND_BUSY = 1) THEN "TRNS"
                 ELSE "IDLE"
    \/ STS = "RECV" /\ STS' = IF end THEN "WAIT_CPURD" ELSE "RECV"
    \/ STS = "WAIT_CPURD" /\ STS' = "RECV_END"
    \/ STS = "RECV_END" /\ STS' = "IDLE"
    \/ STS = "TRNS" /\ STS' = IF end THEN "TRNS_END" ELSE "TRNS"
    \/ STS = "TRNS_END" /\ STS' = "IDLE"

MainSequencer(access, end, ready) ==
    \/ /\ STS = "IDLE"
       /\ STS' = IF RX_RDYbit THEN "RECV"
                 ELSE IF ready /\ (TXBUSY = 1 \/ FIFO_SEND_BUSY = 1) THEN "TRNS"
                 ELSE "IDLE"
    \/ STS = "RECV" /\ STS' = IF end THEN "WAIT_CPURD" ELSE "RECV"
    \/ STS = "WAIT_CPURD" /\ STS' = IF access = "rdRX" THEN "RECV_END" ELSE STS
    \/ STS = "RECV_END" /\ STS' = "IDLE"
    \/ STS = "TRNS" /\ STS' = IF end THEN "TRNS_END" ELSE "TRNS"
    \/ STS = "TRNS_END" /\ STS' = "IDLE"

\* The byte is on the wire with the step into phase 1.
Strobe(end, latch) ==
    /\ phase' = IF STS \in {"RECV", "TRNS"} /\ ~end THEN (IF latch THEN 1 ELSE phase) ELSE 0
    /\ IF STS = "RECV" /\ latch THEN RXreg' = Head(rx) /\ rx' = Tail(rx)
                                ELSE UNCHANGED <<RXreg, rx>>
    /\ out' = IF STS = "TRNS" /\ latch THEN Append(out, ft_txdata) ELSE out

\* TRNS_END ends the CPU's byte and the FIFO's alike.
BusyFlags(access) ==
    /\ TXBUSY' = IF access = "wrTX" THEN 1 ELSE IF STS = "TRNS_END" THEN 0 ELSE TXBUSY
    /\ FIFO_SEND_BUSY' = IF FIFOSTS = "FIFO_SEND_START" THEN 1
                         ELSE IF STS = "TRNS_END" THEN 0 ELSE FIFO_SEND_BUSY

\* Mutant: the word's last byte is not sent.
FifoSequencer_ThreeBytes(end) ==
    \/ FIFOSTS = "FIFO_IDLE" /\ FIFOSTS' = IF FIFO_EMPTY THEN FIFOSTS ELSE "FIFO_RD_WORD"
    \/ FIFOSTS = "FIFO_RD_WORD" /\ FIFOSTS' = "FIFO_SEND_START"
    \/ FIFOSTS = "FIFO_SEND_START" /\ FIFOSTS' = "WAIT_FIFO_SEND_END"
    \/ FIFOSTS = "WAIT_FIFO_SEND_END" /\ FIFOSTS' = IF end THEN "CHK_WORD_END" ELSE FIFOSTS
    \/ FIFOSTS = "CHK_WORD_END" /\ FIFOSTS' = IF FIFO_BYTE_COUNT >= 2 THEN "FIFO_IDLE"
                                               ELSE "FIFO_SEND_START"

\* Mutant: the byte counter is never looked at.
FifoSequencer_NoEnd(end) ==
    \/ FIFOSTS = "FIFO_IDLE" /\ FIFOSTS' = IF FIFO_EMPTY THEN FIFOSTS ELSE "FIFO_RD_WORD"
    \/ FIFOSTS = "FIFO_RD_WORD" /\ FIFOSTS' = "FIFO_SEND_START"
    \/ FIFOSTS = "FIFO_SEND_START" /\ FIFOSTS' = "WAIT_FIFO_SEND_END"
    \/ FIFOSTS = "WAIT_FIFO_SEND_END" /\ FIFOSTS' = IF end THEN "CHK_WORD_END" ELSE FIFOSTS
    \/ FIFOSTS = "CHK_WORD_END" /\ FIFOSTS' = "FIFO_SEND_START"

\* SEQ_END is that of whatever byte is under way, also of a received one.
FifoSequencer(end) ==
    \/ FIFOSTS = "FIFO_IDLE" /\ FIFOSTS' = IF FIFO_EMPTY THEN FIFOSTS ELSE "FIFO_RD_WORD"
    \/ FIFOSTS = "FIFO_RD_WORD" /\ FIFOSTS' = "FIFO_SEND_START"
    \/ FIFOSTS = "FIFO_SEND_START" /\ FIFOSTS' = "WAIT_FIFO_SEND_END"
    \/ FIFOSTS = "WAIT_FIFO_SEND_END" /\ FIFOSTS' = IF end THEN "CHK_WORD_END" ELSE FIFOSTS
    \/ FIFOSTS = "CHK_WORD_END" /\ FIFOSTS' = IF FIFO_BYTE_COUNT >= 3 THEN "FIFO_IDLE"
                                               ELSE "FIFO_SEND_START"

\* The count is two bits wide.
FifoData(access) ==
    /\ FIFO_BYTE_COUNT' = IF FIFOSTS = "FIFO_RD_WORD" THEN 0
                          ELSE IF FIFOSTS = "CHK_WORD_END" THEN (FIFO_BYTE_COUNT + 1) % 4
                          ELSE FIFO_BYTE_COUNT
    /\ FIFO_Qreg' = IF FIFOSTS = "FIFO_RD_WORD" THEN Head(fifo) ELSE FIFO_Qreg
    /\ fifo' = (IF FIFOSTS = "FIFO_RD_WORD" THEN Tail(fifo) ELSE fifo)
               \o (IF access = "wrFIFO" THEN <<words>> ELSE <<>>)

RxInterrupt(access) ==
    RXIRQ_STS' = IF access = "rdRX" THEN 0 ELSE IF STS = "WAIT_CPURD" THEN 1 ELSE RXIRQ_STS

Edge(access, end, ready, latch) ==
    /\ end => STS \in {"RECV", "TRNS"} /\ phase = 1
    /\ latch => STS \in {"RECV", "TRNS"} /\ phase = 0
    /\ MainSequencer(access, end, ready) /\ Strobe(end, latch)
    /\ BusyFlags(access) /\ FifoSequencer(end) /\ FifoData(access)
    /\ RxInterrupt(access)

Clock(access) == \E end, ready, latch \in BOOLEAN : Edge(access, end, ready, latch)

---------------------------------------------------------------------------
(* The environment, within what Overlap allows. *)

With(overlap, others) == IF others THEN {overlap} ELSE {}
Overlapping(S) == S \subseteq Overlap /\ mixed' = mixed \cup S

Quiet == Clock("none") /\ UNCHANGED <<TXreg, cpuVars, rxtotal, received, mixed>>

HostByte == /\ rxtotal < MaxRx
            /\ Overlapping(With("rx/fifo", FifoSends) \cup With("rx/tx", CpuSends))
            /\ rxtotal' = rxtotal + 1 /\ rx' = Append(rx, rxtotal')
            /\ UNCHANGED <<seqVars, fifoVars, rxVars, cpuVars, out, received>>

\* The DMA writes a word; waitreq holds it back while the FIFO is full.
DmaWord == /\ words < MaxWords /\ ~FIFO_FULL
           /\ Overlapping(With("tx/fifo", CpuSends) \cup With("rx/fifo", HostSends))
           /\ Clock("wrFIFO") /\ words' = words + 1
           /\ UNCHANGED <<TXreg, cpu, reply, rxtotal, received>>

\* FT245_IRQ_SERVICE
Isr == /\ RXIRQ_STS = 1 /\ Clock("rdRX") /\ received' = Append(received, RXreg)
       /\ UNCHANGED <<TXreg, cpuVars, rxtotal, mixed>>

\* FT245_SendBlock takes the next byte of its block.
NextChar == /\ cpu = "idle" /\ reply < MaxReply
            /\ Overlapping(With("tx/fifo", FifoSends) \cup With("rx/tx", HostSends))
            /\ cpu' = "wait_tx" /\ reply' = reply + 1
            /\ UNCHANGED <<seqVars, fifoVars, rxVars, words, rx, rxtotal, out, received>>

CpuReads(from, to) == /\ cpu = from /\ cpu' = to /\ Clock("none")
                      /\ UNCHANGED <<TXreg, reply, words, rxtotal, received, mixed>>

\* Mutant: SendBlock does not wait for the byte before.
WaitTx_Not == CpuReads("wait_tx", "wait_rx")

\* It waits until TXBUSY is down, then until no received byte is waiting.
WaitTx == CpuReads("wait_tx", IF TXBUSY = 1 THEN "wait_tx" ELSE "wait_rx")
WaitRx == CpuReads("wait_rx", IF RX_RDYbit THEN "wait_rx" ELSE "chk_tx")

\* FT245_SendChar asks both again; the byte it refuses is gone, SendBlock does
\* not look at what it returns.
ChkTx == CpuReads("chk_tx", IF TXBUSY = 1 THEN "idle" ELSE "chk_rx")
ChkRx == CpuReads("chk_rx", IF RX_RDYbit THEN "idle" ELSE "write")

WriteTx == /\ cpu = "write" /\ cpu' = "idle" /\ TXreg' = <<"cpu", reply>>
           /\ Clock("wrTX") /\ UNCHANGED <<reply, words, rxtotal, received, mixed>>

SendBlock == WaitTx \/ WaitRx \/ ChkTx \/ ChkRx \/ WriteTx

Next == Quiet \/ HostByte \/ DmaWord \/ Isr \/ NextChar \/ SendBlock

\* The clock runs, a byte takes a bounded number of clocks, the host drains
\* the FT245, and the CPU serves the interrupt and goes on with its block.
Progress == /\ Edge("none", STS \in {"RECV", "TRNS"} /\ phase = 1, TRUE,
                    STS \in {"RECV", "TRNS"} /\ phase = 0)
            /\ UNCHANGED <<TXreg, cpuVars, rxtotal, received, mixed>>
Fairness == WF_vars(Progress) /\ WF_vars(Isr) /\ WF_vars(SendBlock)

Spec == Init /\ [][Next]_vars
FairSpec == Spec /\ Fairness

---------------------------------------------------------------------------
(* Properties *)

\* Where the words' bytes are in what was sent, and where the CPU's.
FifoAt == {i \in DOMAIN out : out[i][1] = "fifo"}
CpuAt == {i \in DOMAIN out : out[i][1] # "fifo"}
Before(S, i) == Cardinality({j \in S : j < i})

\* Every register stays in its range.
TypeOK ==
    /\ STS \in {"IDLE", "RECV", "WAIT_CPURD", "RECV_END", "TRNS", "TRNS_END"}
    /\ phase \in {0, 1} /\ TXBUSY \in {0, 1} /\ FIFO_SEND_BUSY \in {0, 1}
    /\ FIFOSTS \in {"FIFO_IDLE", "FIFO_RD_WORD", "FIFO_SEND_START",
                    "WAIT_FIFO_SEND_END", "CHK_WORD_END"}
    /\ FIFO_BYTE_COUNT \in 0..3 /\ Len(fifo) <= FifoDepth /\ FIFO_Qreg \in 0..MaxWords
    /\ RXIRQ_STS \in {0, 1} /\ RXreg \in 0..MaxRx /\ words \in 0..MaxWords
    /\ cpu \in {"idle", "wait_tx", "wait_rx", "chk_tx", "chk_rx", "write"}
    /\ mixed \subseteq Overlap

\* What arrived in the FT245 reaches CmndSeq byte for byte, once and in order,
\* whatever is sent meanwhile.
ReceivedInOrder ==
    LET latched == (STS = "RECV" /\ phase = 1) \/ STS = "WAIT_CPURD"
        stream == received \o (IF latched THEN <<RXreg>> ELSE <<>>) \o rx
    IN stream = [i \in 1..rxtotal |-> i]

\* The bytes of the words leave in order, none lost and none repeated, until
\* something overlaps with them; those of the replies until anything overlaps.
FifoAlone == mixed \cap {"rx/fifo", "tx/fifo"} = {}
SentInOrder ==
    /\ FifoAlone => \A i \in FifoAt : out[i] = <<"fifo", Before(FifoAt, i)>>
    /\ mixed = {} => \A i \in CpuAt : out[i] = <<"cpu", Before(CpuAt, i) + 1>>

\* Everything written is sent, unless something overlaps with it.
EverythingSent ==
    <>[](/\ FifoAlone => Cardinality(FifoAt) = 4 * words
         /\ mixed = {} => Cardinality(CpuAt) = reply)

\* Whatever overlaps, the bytes of the words are never repeated or reordered.
FifoNeverRepeats ==
    \A i, j \in FifoAt : i < j => out[i][2] < out[j][2]

\* The comment on WAIT_FIFO_SEND_END: "wait 1byte send end".
WaitsForItsByte ==
    [][FIFOSTS = "WAIT_FIFO_SEND_END" /\ FIFOSTS' = "CHK_WORD_END" =>
         out # <<>> /\ out[Len(out)] = FifoByte(FIFO_Qreg, FIFO_BYTE_COUNT)]_vars
=============================================================================
