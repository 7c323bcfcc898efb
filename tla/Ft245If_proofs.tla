--------------------------- MODULE Ft245If_proofs ----------------------------
(***************************************************************************)
(* Proofs about Ft245If, for any number of words, answer bytes and         *)
(* received bytes, any depth of the FIFO and whatever overlaps: type       *)
(* correctness, that no received byte is lost, repeated or reordered, and  *)
(* what is sent, in which order.                                           *)
(***************************************************************************)
EXTENDS Ft245If, SequenceTheorems, FiniteSetTheorems, TLAPS

\* Every byte of the FIFO has a value, and a sequencer in the state that reads
\* finds something to read.
Contents ==
    /\ fifo \in Seq(0..MaxWords) /\ rx \in Seq(0..MaxRx) /\ received \in Seq(0..MaxRx)
    /\ rxtotal \in 0..MaxRx
    /\ FIFOSTS = "FIFO_RD_WORD" => fifo # <<>>
    /\ STS = "RECV" /\ phase = 0 => rx # <<>>

\* The interrupt stands for the byte in RXreg, and a strobe for a byte under way.
Signals ==
    /\ RXIRQ_STS = 1 => STS = "WAIT_CPURD"
    /\ phase = 1 => STS \in {"RECV", "TRNS"}

\* ReceivedInOrder byte by byte: those the CPU has, the one in RXreg, those that
\* still wait in the FT245.
Latched == (STS = "RECV" /\ phase = 1) \/ STS = "WAIT_CPURD"
Here == Len(received) + (IF Latched THEN 1 ELSE 0)
Numbered ==
    /\ Here + Len(rx) = rxtotal
    /\ \A i \in 1..Len(received) : received[i] = i
    /\ Latched => RXreg = Len(received) + 1
    /\ \A i \in 1..Len(rx) : rx[i] = Here + i

IInv == TypeOK /\ Contents /\ Signals /\ Numbered

---------------------------------------------------------------------------
(* Sequences. *)

LEMMA TailOf ==
    ASSUME NEW C, NEW s \in Seq(C), s # <<>>
    PROVE  /\ Tail(s) \in Seq(C) /\ Head(s) \in C /\ Head(s) = s[1]
           /\ Len(s) \in Nat \ {0} /\ Len(Tail(s)) = Len(s) - 1
           /\ \A i \in 1..(Len(s) - 1) : Tail(s)[i] = s[i + 1]
OBVIOUS

LEMMA AppendTo ==
    ASSUME NEW C, NEW s \in Seq(C), NEW x \in C
    PROVE  /\ Append(s, x) \in Seq(C) /\ Len(s) \in Nat /\ Len(Append(s, x)) = Len(s) + 1
           /\ Append(s, x) # <<>> /\ Append(s, x)[Len(s) + 1] = x
           /\ \A i \in 1..Len(s) : Append(s, x)[i] = s[i]
OBVIOUS

LEMMA ConcatOne ==
    ASSUME NEW C, NEW s \in Seq(C), NEW x \in C
    PROVE  s \o <<x>> = Append(s, x) /\ s \o <<>> = s
OBVIOUS

\* The numbers from 1 on, one behind the other.
LEMMA Joined ==
    ASSUME NEW C, NEW s \in Seq(C), NEW t \in Seq(C),
           \A i \in 1..Len(s) : s[i] = i, \A i \in 1..Len(t) : t[i] = Len(s) + i
    PROVE  /\ s \o t \in Seq(C) /\ Len(s \o t) = Len(s) + Len(t)
           /\ \A i \in 1..Len(s) + Len(t) : (s \o t)[i] = i
<1>1. /\ s \o t \in Seq(C) /\ Len(s \o t) = Len(s) + Len(t)
    OBVIOUS
<1>2. ASSUME NEW i \in 1..Len(s) + Len(t) PROVE (s \o t)[i] = i
    <2>1. CASE i <= Len(s)
        BY <2>1
    <2>2. CASE i > Len(s)
        <3>1. i - Len(s) \in 1..Len(t) /\ (s \o t)[i] = t[i - Len(s)]
            BY <2>2
        <3> QED BY <3>1
    <2> QED BY <2>1, <2>2
<1> QED BY <1>1, <1>2

LEMMA Counted ==
    ASSUME NEW C, NEW u \in Seq(C), NEW n, Len(u) = n, \A i \in 1..n : u[i] = i
    PROVE  u = [i \in 1..n |-> i]
<1>1. u \in [1..n -> C]
    BY LenProperties
<1> QED BY <1>1

---------------------------------------------------------------------------
(* One clock edge, with the bus access of each action. *)

Accesses == {"none", "wrFIFO", "wrTX", "rdRX"}

LEMMA EdgeTypes ==
    ASSUME IInv, NEW a \in Accesses, Clock(a),
           a = "wrFIFO" => words \in 0..MaxWords /\ Len(fifo) < FifoDepth
    PROVE  /\ STS' \in {"IDLE", "RECV", "WAIT_CPURD", "RECV_END", "TRNS", "TRNS_END"}
           /\ phase' \in {0, 1} /\ TXBUSY' \in {0, 1} /\ FIFO_SEND_BUSY' \in {0, 1}
           /\ FIFOSTS' \in {"FIFO_IDLE", "FIFO_RD_WORD", "FIFO_SEND_START",
                            "WAIT_FIFO_SEND_END", "CHK_WORD_END"}
           /\ FIFO_BYTE_COUNT' \in 0..3 /\ FIFO_Qreg' \in 0..MaxWords
           /\ fifo' \in Seq(0..MaxWords) /\ Len(fifo') <= FifoDepth
           /\ FIFOSTS' = "FIFO_RD_WORD" => fifo' # <<>>
           /\ RXIRQ_STS' \in {0, 1} /\ RXreg' \in 0..MaxRx /\ rx' \in Seq(0..MaxRx)
<1>1. PICK end, ready, latch \in BOOLEAN : Edge(a, end, ready, latch)
    BY DEF Clock
<1>2. /\ STS' \in {"IDLE", "RECV", "WAIT_CPURD", "RECV_END", "TRNS", "TRNS_END"}
      /\ phase' \in {0, 1}
    BY <1>1 DEF Edge, MainSequencer, Strobe, IInv, TypeOK
<1>3. TXBUSY' \in {0, 1} /\ FIFO_SEND_BUSY' \in {0, 1} /\ RXIRQ_STS' \in {0, 1}
    BY <1>1 DEF Edge, BusyFlags, RxInterrupt, IInv, TypeOK
<1>4. FIFOSTS' \in {"FIFO_IDLE", "FIFO_RD_WORD", "FIFO_SEND_START", "WAIT_FIFO_SEND_END",
                    "CHK_WORD_END"}
    BY <1>1 DEF Edge, FifoSequencer
<1>5. FIFO_BYTE_COUNT' \in 0..3
    BY <1>1 DEF Edge, FifoData, IInv, TypeOK
<1>6. /\ fifo \in Seq(0..MaxWords) /\ Len(fifo) <= FifoDepth /\ FifoDepth \in Nat
      /\ FIFO_Qreg \in 0..MaxWords /\ (FIFOSTS = "FIFO_RD_WORD" => fifo # <<>>)
    BY Ft245Assumption DEF IInv, TypeOK, Contents
<1> DEFINE rest == IF FIFOSTS = "FIFO_RD_WORD" THEN Tail(fifo) ELSE fifo
<1>7. rest \in Seq(0..MaxWords) /\ Len(rest) <= Len(fifo) /\ FIFO_Qreg' \in 0..MaxWords
    <2> DEFINE C == 0..MaxWords
    <2>0. fifo \in Seq(C) /\ FIFO_Qreg \in C /\ Len(fifo) \in Nat
        BY <1>6
    <2>3. FIFO_Qreg' = IF FIFOSTS = "FIFO_RD_WORD" THEN Head(fifo) ELSE FIFO_Qreg
        BY <1>1 DEF Edge, FifoData
    <2> HIDE DEF C
    <2>1. CASE FIFOSTS = "FIFO_RD_WORD"
        <3>1. rest = Tail(fifo) /\ FIFO_Qreg' = Head(fifo) /\ fifo # <<>>
            BY <1>6, <2>3, <2>1
        <3>2. /\ Tail(fifo) \in Seq(C) /\ Head(fifo) \in C
              /\ Len(fifo) \in Nat /\ Len(Tail(fifo)) = Len(fifo) - 1
            BY <2>0, <3>1, TailOf
        <3>3. Len(Tail(fifo)) <= Len(fifo)
            BY <3>2
        <3> HIDE DEF rest
        <3> QED BY <3>1, <3>2, <3>3 DEF C
    <2>2. CASE FIFOSTS # "FIFO_RD_WORD"
        <3>1. rest = fifo /\ FIFO_Qreg' = FIFO_Qreg
            BY <2>3, <2>2
        <3> HIDE DEF rest
        <3> QED BY <2>0, <3>1 DEF C
    <2> QED BY <2>1, <2>2
<1>8. fifo' = rest \o (IF a = "wrFIFO" THEN <<words>> ELSE <<>>)
    BY <1>1 DEF Edge, FifoData
<1>9. fifo' \in Seq(0..MaxWords) /\ Len(fifo') <= FifoDepth
    <2> HIDE DEF rest
    <2>1. CASE a = "wrFIFO"
        BY <1>6, <1>7, <1>8, <2>1, ConcatOne, AppendTo
    <2>2. CASE a # "wrFIFO"
        <3>1. fifo' = rest
            BY <1>7, <1>8, <2>2
        <3> QED BY <1>6, <1>7, <3>1
    <2> QED BY <2>1, <2>2
<1>10. FIFOSTS' = "FIFO_RD_WORD" => fifo' # <<>>
    <2> SUFFICES ASSUME FIFOSTS' = "FIFO_RD_WORD" PROVE fifo' # <<>>
        OBVIOUS
    <2>1. FIFOSTS = "FIFO_IDLE" /\ fifo # <<>>
        BY <1>1 DEF Edge, FifoSequencer, FIFO_EMPTY
    <2>2. rest = fifo
        BY <2>1
    <2> HIDE DEF rest
    <2>3. CASE a = "wrFIFO"
        BY <1>7, <1>8, <2>3, ConcatOne, AppendTo
    <2>4. CASE a # "wrFIFO"
        <3>1. fifo' = rest
            BY <1>7, <1>8, <2>4
        <3> QED BY <2>1, <2>2, <3>1
    <2> QED BY <2>3, <2>4
<1>11. RXreg' \in 0..MaxRx /\ rx' \in Seq(0..MaxRx)
    <2>1. rx \in Seq(0..MaxRx) /\ RXreg \in 0..MaxRx /\ (STS = "RECV" /\ phase = 0 => rx # <<>>)
        BY DEF IInv, TypeOK, Contents
    <2>2. CASE STS = "RECV" /\ latch
        <3>1. rx # <<>> /\ RXreg' = Head(rx) /\ rx' = Tail(rx)
            BY <1>1, <2>1, <2>2 DEF Edge, Strobe
        <3> QED BY <2>1, <3>1, TailOf
    <2>3. CASE ~(STS = "RECV" /\ latch)
        BY <1>1, <2>1, <2>3 DEF Edge, Strobe
    <2> QED BY <2>2, <2>3
<1> QED BY <1>2, <1>3, <1>4, <1>5, <1>7, <1>9, <1>10, <1>11

\* A byte moves from the FT245 to RXreg, or from RXreg to the CPU, or neither.
LEMMA EdgeNumbers ==
    ASSUME IInv, NEW a \in Accesses, Clock(a), rxtotal' = rxtotal,
           received' = IF a = "rdRX" THEN Append(received, RXreg) ELSE received,
           a = "rdRX" => RXIRQ_STS = 1
    PROVE  /\ Numbered' /\ Signals' /\ (STS' = "RECV" /\ phase' = 0 => rx' # <<>>)
           /\ received' \in Seq(0..MaxRx)
<1>1. PICK end, ready, latch \in BOOLEAN : Edge(a, end, ready, latch)
    BY DEF Clock
<1>2. /\ received \in Seq(0..MaxRx) /\ rx \in Seq(0..MaxRx) /\ RXreg \in 0..MaxRx
      /\ rxtotal \in Nat /\ Len(rx) \in Nat /\ Len(received) \in Nat
      /\ phase \in {0, 1} /\ RXIRQ_STS \in {0, 1}
      /\ STS \in {"IDLE", "RECV", "WAIT_CPURD", "RECV_END", "TRNS", "TRNS_END"}
      /\ (STS = "RECV" /\ phase = 0 => rx # <<>>)
    BY DEF IInv, TypeOK, Contents
<1>3. Numbered /\ Signals
    BY DEF IInv
<1>4. Signals'
    <2>1. RXIRQ_STS' = 1 => STS' = "WAIT_CPURD"
        BY <1>1, <1>2, <1>3 DEF Signals, Edge, RxInterrupt, MainSequencer
    <2>2. phase' = 1 => STS' \in {"RECV", "TRNS"}
        BY <1>1, <1>2, <1>3 DEF Signals, Edge, Strobe, MainSequencer
    <2> QED BY <2>1, <2>2 DEF Signals
<1>5. CASE STS = "RECV" /\ latch
    <2>1. /\ STS' = "RECV" /\ phase = 0 /\ phase' = 1 /\ rx # <<>> /\ a # "rdRX"
          /\ RXreg' = Head(rx) /\ rx' = Tail(rx) /\ received' = received
        BY <1>1, <1>2, <1>3, <1>5 DEF Edge, Strobe, MainSequencer, Signals
    <2>2. ~Latched /\ Latched'
        BY <1>5, <2>1 DEF Latched
    <2>3. /\ Head(rx) = rx[1] /\ Len(rx) \in Nat \ {0} /\ Len(Tail(rx)) = Len(rx) - 1
          /\ \A i \in 1..(Len(rx) - 1) : Tail(rx)[i] = rx[i + 1]
        BY <1>2, <2>1, TailOf
    <2>4. Here = Len(received) /\ Here' = Len(received) + 1
        BY <1>2, <2>1, <2>2 DEF Here
    <2>9. /\ Len(received) + Len(rx) = rxtotal
          /\ \A i \in 1..Len(rx) : rx[i] = Len(received) + i
        BY <1>3, <2>4 DEF Numbered
    <2>5. RXreg' = Len(received) + 1
        BY <2>1, <2>3, <2>9
    <2>6. \A i \in 1..Len(rx') : rx'[i] = Here' + i
        <3> SUFFICES ASSUME NEW i \in 1..(Len(rx) - 1) PROVE Tail(rx)[i] = Len(received) + 1 + i
            BY <2>1, <2>3, <2>4
        <3>1. i + 1 \in 1..Len(rx) /\ Tail(rx)[i] = rx[i + 1]
            BY <2>3
        <3>2. rx[i + 1] = Len(received) + (i + 1)
            BY <2>9, <3>1
        <3> QED BY <1>2, <3>1, <3>2
    <2>7. Here' + Len(rx') = rxtotal'
        <3>1. Len(rx') = Len(rx) - 1
            BY <2>1, <2>3
        <3>2. Len(received) \in Nat /\ rxtotal' = rxtotal
            BY <1>2
        <3> QED BY ONLY <2>3, <2>4, <2>9, <3>1, <3>2
    <2>8. \A i \in 1..Len(received') : received'[i] = i
        <3>1. \A i \in 1..Len(received) : received[i] = i
            BY <1>3 DEF Numbered
        <3> QED BY ONLY <2>1, <3>1
    <2>10. RXreg' = Len(received') + 1
        BY <2>1, <2>5
    <2>11. Numbered'
        BY ONLY <2>6, <2>7, <2>8, <2>10 DEF Numbered
    <2> QED BY <1>2, <1>4, <2>1, <2>11
<1>6. CASE ~(STS = "RECV" /\ latch) /\ a # "rdRX"
    <2>1. rx' = rx /\ RXreg' = RXreg /\ received' = received
        BY <1>1, <1>6 DEF Edge, Strobe
    <2>2. Latched' = Latched
        <3>1. CASE STS = "RECV"
            BY <1>1, <1>2, <1>6, <3>1 DEF Latched, Edge, Strobe, MainSequencer
        <3>2. CASE STS = "WAIT_CPURD"
            BY <1>1, <1>6, <3>2 DEF Latched, Edge, Strobe, MainSequencer
        <3>3. CASE STS \notin {"RECV", "WAIT_CPURD"}
            BY <1>1, <1>2, <3>3 DEF Latched, Edge, Strobe, MainSequencer
        <3> QED BY <3>1, <3>2, <3>3
    <2>3. Here' = Here
        BY <2>1, <2>2 DEF Here
    <2>4. Numbered'
        BY <1>3, <2>1, <2>2, <2>3 DEF Numbered
    <2>5. STS' = "RECV" /\ phase' = 0 => rx' # <<>>
        BY <1>1, <1>2, <1>3, <1>6, <2>1
        DEF Edge, Strobe, MainSequencer, RX_RDYbit, Signals
    <2> QED BY <1>2, <1>4, <2>1, <2>4, <2>5
<1>7. CASE a = "rdRX"
    <2>1. STS = "WAIT_CPURD" /\ STS' = "RECV_END" /\ rx' = rx
        BY <1>1, <1>3, <1>7 DEF Edge, Strobe, MainSequencer, Signals
    <2>2. Latched /\ ~Latched'
        BY <2>1 DEF Latched
    <2>3. received' = Append(received, RXreg) /\ RXreg = Len(received) + 1
        BY <1>3, <1>7, <2>2 DEF Numbered
    <2>4. /\ received' \in Seq(0..MaxRx) /\ Len(received') = Len(received) + 1
          /\ received'[Len(received) + 1] = RXreg
          /\ \A i \in 1..Len(received) : received'[i] = received[i]
        <3> DEFINE C == 0..MaxRx
        <3>1. received \in Seq(C) /\ RXreg \in C
            BY <1>2
        <3> HIDE DEF C
        <3>2. received' \in Seq(C)
            BY <2>3, <3>1, AppendTo
        <3>3. /\ Len(received') = Len(received) + 1 /\ received'[Len(received) + 1] = RXreg
              /\ \A i \in 1..Len(received) : received'[i] = received[i]
            BY <2>3, <3>1, AppendTo
        <3> QED BY <3>2, <3>3 DEF C
    <2>5. Here' = Here
        BY <1>2, <2>2, <2>4 DEF Here
    <2>6. \A i \in 1..Len(received') : received'[i] = i
        BY <1>2, <1>3, <2>3, <2>4 DEF Numbered
    <2>7. Numbered'
        BY <1>3, <2>1, <2>2, <2>5, <2>6 DEF Numbered
    <2> QED BY <1>4, <2>1, <2>4, <2>7
<1> QED BY <1>5, <1>6, <1>7

---------------------------------------------------------------------------
LEMMA InitIInv == Init => IInv
<1> SUFFICES ASSUME Init PROVE IInv
    OBVIOUS
<1>1. TypeOK
    BY Ft245Assumption DEF Init, TypeOK
<1>2. Contents
    BY Ft245Assumption DEF Init, Contents
<1>3. Signals /\ ~Latched
    BY DEF Init, Signals, Latched
<1>4. Numbered
    BY <1>3 DEF Init, Numbered, Here
<1> QED BY <1>1, <1>2, <1>3, <1>4 DEF IInv

\* The actions with a clock edge.
LEMMA ClockStep ==
    ASSUME IInv, NEW a \in Accesses, Clock(a),
           a = "wrFIFO" => words \in 0..MaxWords /\ Len(fifo) < FifoDepth,
           rxtotal' = rxtotal,
           received' = IF a = "rdRX" THEN Append(received, RXreg) ELSE received,
           a = "rdRX" => RXIRQ_STS = 1,
           words' \in 0..MaxWords, mixed' \subseteq Overlap,
           cpu' \in {"idle", "wait_tx", "wait_rx", "chk_tx", "chk_rx", "write"}
    PROVE  IInv'
<1>1. TypeOK'
    BY EdgeTypes DEF TypeOK
<1>2. Contents'
    <2>1. rxtotal \in 0..MaxRx
        BY DEF IInv, Contents
    <2> QED BY <2>1, EdgeTypes, EdgeNumbers DEF Contents
<1> QED BY <1>1, <1>2, EdgeNumbers DEF IInv

LEMMA Step == IInv /\ [Next]_vars => IInv'
<1> SUFFICES ASSUME IInv, [Next]_vars PROVE IInv'
    OBVIOUS
<1>0. /\ words \in 0..MaxWords /\ mixed \subseteq Overlap
      /\ cpu \in {"idle", "wait_tx", "wait_rx", "chk_tx", "chk_rx", "write"}
    BY DEF IInv, TypeOK
<1>1. CASE Quiet
    BY <1>0, <1>1, ClockStep DEF Quiet, cpuVars, Accesses
<1>2. CASE HostByte
    <2>1. UNCHANGED <<seqVars, fifoVars, rxVars, cpuVars, received>>
        BY <1>2 DEF HostByte
    <2>2. /\ rxtotal' = rxtotal + 1 /\ rxtotal' \in 0..MaxRx /\ rxtotal \in Nat
          /\ rx' = Append(rx, rxtotal') /\ rx \in Seq(0..MaxRx) /\ Len(received) \in Nat
          /\ mixed' \subseteq Overlap
        <3>1. rxtotal \in 0..MaxRx /\ rx \in Seq(0..MaxRx) /\ Len(received) \in Nat
            BY DEF IInv, Contents
        <3>2. rxtotal < MaxRx /\ rxtotal' = rxtotal + 1 /\ rx' = Append(rx, rxtotal')
            BY <1>2 DEF HostByte
        <3>3. mixed' \subseteq Overlap
            BY <1>0, <1>2 DEF HostByte, Overlapping
        <3>4. MaxRx \in Nat
            BY Ft245Assumption
        <3>5. rxtotal' \in 0..MaxRx /\ rxtotal \in Nat
            BY <3>1, <3>2, <3>4
        <3> QED BY <3>1, <3>2, <3>3, <3>5
    <2>3. /\ rx' \in Seq(0..MaxRx) /\ Len(rx) \in Nat /\ Len(rx') = Len(rx) + 1 /\ rx' # <<>>
          /\ rx'[Len(rx) + 1] = rxtotal' /\ \A i \in 1..Len(rx) : rx'[i] = rx[i]
        BY <2>2, AppendTo
    <2>4. TypeOK' /\ Signals'
        BY <2>1, <2>2 DEF IInv, TypeOK, Signals, seqVars, fifoVars, rxVars, cpuVars
    <2>5. Contents'
        BY <2>1, <2>2, <2>3 DEF IInv, Contents, seqVars, fifoVars
    <2>6. Here' = Here /\ Latched' = Latched /\ Here \in Nat
        BY <2>1, <2>2 DEF Here, Latched, seqVars
    <2>7. Here + Len(rx) = rxtotal /\ \A i \in 1..Len(rx) : rx[i] = Here + i
        BY DEF IInv, Numbered
    <2>8. Here' + Len(rx') = rxtotal'
        BY <2>2, <2>3, <2>6, <2>7
    <2>9. \A i \in 1..Len(rx') : rx'[i] = Here' + i
        <3> SUFFICES ASSUME NEW i \in 1..(Len(rx) + 1) PROVE rx'[i] = Here + i
            BY <2>3, <2>6
        <3>1. CASE i = Len(rx) + 1
            <4>1. rxtotal' = rxtotal + 1 /\ rxtotal = Here + Len(rx)
                BY <2>2, <2>7
            <4>2. rx'[i] = rxtotal'
                BY <2>3, <3>1
            <4>3. Here \in Nat /\ Len(rx) \in Nat
                BY <2>3, <2>6
            <4> QED BY ONLY <3>1, <4>1, <4>2, <4>3
        <3>2. CASE i # Len(rx) + 1
            <4>1. i \in 1..Len(rx)
                BY <2>3, <3>2
            <4> QED BY ONLY <2>3, <2>7, <4>1
        <3> QED BY <3>1, <3>2
    <2>10. Numbered'
        BY <2>1, <2>6, <2>8, <2>9 DEF IInv, Numbered, rxVars
    <2> QED BY <2>4, <2>5, <2>10 DEF IInv
<1>3. CASE DmaWord
    <2>1. /\ Clock("wrFIFO") /\ rxtotal' = rxtotal /\ received' = received /\ cpu' = cpu
          /\ mixed' \subseteq Overlap
        BY <1>0, <1>3 DEF DmaWord, Overlapping
    <2>2. words' \in 0..MaxWords
        BY <1>0, <1>3, Ft245Assumption DEF DmaWord
    <2>3. Len(fifo) < FifoDepth
        BY <1>3, Ft245Assumption DEF DmaWord, FIFO_FULL, IInv, TypeOK, Contents
    <2> QED BY <1>0, <2>1, <2>2, <2>3, ClockStep DEF Accesses
<1>4. CASE Isr
    BY <1>0, <1>4, ClockStep DEF Isr, cpuVars, Accesses
<1>5. CASE NextChar
    <2>1. /\ UNCHANGED <<seqVars, fifoVars, rxVars, words, rx, rxtotal, received>>
          /\ cpu' = "wait_tx" /\ mixed' \subseteq Overlap
        BY <1>0, <1>5 DEF NextChar, Overlapping
    <2> QED BY <2>1 DEF IInv, TypeOK, Contents, Signals, Numbered, Here, Latched, seqVars,
                        fifoVars, rxVars
<1>6. CASE SendBlock
    <2>1. CASE WriteTx
        BY <1>0, <2>1, ClockStep DEF WriteTx, Accesses
    <2>2. ASSUME NEW from, NEW to \in {"idle", "wait_tx", "wait_rx", "chk_tx", "chk_rx", "write"},
                 CpuReads(from, to)
          PROVE  IInv'
        BY <1>0, <2>2, ClockStep DEF CpuReads, Accesses
    <2> QED BY <1>6, <2>1, <2>2 DEF SendBlock, WaitTx, WaitRx, ChkTx, ChkRx
<1>7. CASE UNCHANGED vars
    BY <1>7 DEF vars, IInv, TypeOK, Contents, Signals, Numbered, Here, Latched, seqVars,
                fifoVars, rxVars, cpuVars
<1> QED BY <1>1, <1>2, <1>3, <1>4, <1>5, <1>6, <1>7 DEF Next

\* The inductive invariant: where each received byte is.
THEOREM Invariance == Spec => []IInv
<1> QED BY InitIInv, Step, PTL DEF Spec

\* The registers of both sequencers stay in their ranges, and no word is
\* written to a full FIFO.
THEOREM TypeCorrect == Spec => []TypeOK
<1>1. IInv => TypeOK
    BY DEF IInv
<1> QED BY <1>1, Invariance, PTL

LEMMA NumberedInOrder == IInv => ReceivedInOrder
<1> SUFFICES ASSUME IInv PROVE ReceivedInOrder
    OBVIOUS
<1> DEFINE C == 0..MaxRx
           one == IF Latched THEN <<RXreg>> ELSE <<>>
<1>1. /\ received \in Seq(C) /\ rx \in Seq(C) /\ RXreg \in C /\ rxtotal \in Nat
      /\ Len(received) \in Nat
    BY DEF IInv, TypeOK, Contents
<1>2. Numbered
    BY DEF IInv
<1> HIDE DEF C
<1>3. /\ received \o one \in Seq(C) /\ Len(received \o one) = Here
      /\ \A i \in 1..Here : (received \o one)[i] = i
    <2>1. CASE Latched
        <3>1. received \o one = Append(received, RXreg) /\ Here = Len(received) + 1
            BY <1>1, <2>1, ConcatOne DEF Here
        <3> QED BY <1>1, <1>2, <2>1, <3>1, AppendTo DEF Numbered
    <2>2. CASE ~Latched
        <3>1. received \o one = received /\ Here = Len(received)
            BY <1>1, <2>2, ConcatOne DEF Here
        <3> QED BY <1>1, <1>2, <3>1 DEF Numbered
    <2> QED BY <2>1, <2>2
<1>4. Here + Len(rx) = rxtotal /\ \A i \in 1..Len(rx) : rx[i] = Here + i
    BY <1>2 DEF Numbered
<1> HIDE DEF one
<1>5. (received \o one) \o rx = [i \in 1..rxtotal |-> i]
    <2> DEFINE s == received \o one
    <2>1. s \in Seq(C) /\ Len(s) = Here /\ \A i \in 1..Len(s) : s[i] = i
        BY <1>3
    <2>2. Len(s) + Len(rx) = rxtotal /\ \A i \in 1..Len(rx) : rx[i] = Len(s) + i
        BY <1>4, <2>1
    <2> HIDE DEF s
    <2>3. rx \in Seq(C)
        BY <1>1
    <2>4. /\ s \o rx \in Seq(C) /\ Len(s \o rx) = rxtotal
          /\ \A i \in 1..rxtotal : (s \o rx)[i] = i
        BY <2>1, <2>2, <2>3, Joined
    <2> DEFINE u == s \o rx
    <2>5. u \in Seq(C) /\ Len(u) = rxtotal /\ \A i \in 1..rxtotal : u[i] = i
        BY <2>4
    <2> HIDE DEF u
    <2>6. u = [i \in 1..rxtotal |-> i]
        BY <2>5, Counted
    <2> QED BY <2>6 DEF s, u
<1> QED BY <1>5 DEF ReceivedInOrder, one, Latched

\* No byte from the host is lost, doubled or reordered between the FT245 and
\* the interrupt handler, whatever is sent at the same time (STS, RXreg).
THEOREM InOrder == Spec => []ReceivedInOrder
<1> QED BY NumberedInOrder, Invariance, PTL
---------------------------------------------------------------------------
(* What is sent.  Due is the number of the next byte of the words, counted *)
(* over all words; it passes a byte when that byte is on the wire, or when *)
(* the SEQ_END of another byte ends the wait for it.                       *)

Bytes == {"fifo", "cpu", "none"} \X Nat
Popped == words - Len(fifo)
OnWire == STS = "TRNS" /\ phase = 1
Due == IF FIFOSTS \in {"FIFO_IDLE", "FIFO_RD_WORD"} THEN 4 * Popped
       ELSE 4 * FIFO_Qreg + FIFO_BYTE_COUNT
            + (IF \/ FIFOSTS = "CHK_WORD_END"
                  \/ FIFOSTS = "WAIT_FIFO_SEND_END" /\ OnWire
               THEN 1 ELSE 0)

\* The FIFO holds the last words written; the one before them is in FIFO_Qreg.
Words ==
    /\ Popped \in Nat
    /\ \A k \in 1..Len(fifo) : fifo[k] = Popped + k - 1
    /\ FIFOSTS \notin {"FIFO_IDLE", "FIFO_RD_WORD"} => FIFO_Qreg = Popped - 1

\* Only bytes are sent, and a strobe is for somebody's byte.
Senders ==
    /\ out \in Seq(Bytes) /\ TXreg \in {"none", "cpu"} \X Nat /\ reply \in Nat
    /\ STS \in {"TRNS", "TRNS_END"} => TXBUSY = 1 \/ FIFO_SEND_BUSY = 1

Ordered == FifoNeverRepeats /\ \A i \in FifoAt : out[i][2] < Due

\* Until something overlaps with the words, the main sequencer is theirs.
Exclusive ==
    FifoAlone =>
        /\ FifoSends => ~HostSends /\ ~CpuSends /\ STS \in {"IDLE", "TRNS", "TRNS_END"}
        /\ FIFOSTS = "FIFO_IDLE" => FIFO_SEND_BUSY = 0
        /\ FIFOSTS \in {"FIFO_RD_WORD", "FIFO_SEND_START"} => FIFO_SEND_BUSY = 0 /\ STS = "IDLE"
        /\ FIFOSTS = "WAIT_FIFO_SEND_END" => FIFO_SEND_BUSY = 1 /\ STS \in {"IDLE", "TRNS"}
        /\ FIFOSTS = "CHK_WORD_END" => STS = "TRNS_END"

FifoCounted ==
    FifoAlone => /\ Cardinality(FifoAt) = Due
                 /\ \A i \in FifoAt : out[i] = <<"fifo", Before(FifoAt, i)>>

\* The bytes SendBlock has begun before the one it waits with.
Begun == IF cpu = "idle" THEN reply ELSE reply - 1
Given == TXBUSY = 0 \/ OnWire \/ STS = "TRNS_END"

\* Until anything overlaps, the main sequencer has the CPU's byte to itself.
Answering ==
    mixed = {} =>
        /\ CpuSends => ~HostSends /\ STS \in {"IDLE", "RECV_END", "TRNS", "TRNS_END"}
        /\ cpu \in {"wait_rx", "chk_tx", "chk_rx", "write"} => TXBUSY = 0
        /\ TXBUSY = 1 => TXreg = <<"cpu", Begun>>

CpuCounted ==
    mixed = {} => /\ Cardinality(CpuAt) = IF Given THEN Begun ELSE Begun - 1
                  /\ \A i \in CpuAt : out[i] = <<"cpu", Before(CpuAt, i) + 1>>

SInv == /\ IInv /\ Words /\ Senders /\ Ordered
        /\ Exclusive /\ FifoCounted /\ Answering /\ CpuCounted

\* What one more byte changes in the places and their number.
LEMMA Counting ==
    ASSUME NEW S, NEW n \in Nat, S \subseteq 1..n
    PROVE  /\ IsFiniteSet(S) /\ Cardinality(S) \in Nat
           /\ Cardinality(S \cup {n + 1}) = Cardinality(S) + 1
           /\ \A i \in S : Before(S \cup {n + 1}, i) = Before(S, i)
           /\ Before(S \cup {n + 1}, n + 1) = Cardinality(S)
<1>1. IsFiniteSet(1..n)
    BY FS_Interval
<1>2. IsFiniteSet(S) /\ Cardinality(S) \in Nat
    BY <1>1, FS_Subset, FS_CardinalityType
<1>3. n + 1 \notin S
    OBVIOUS
<1>4. Cardinality(S \cup {n + 1}) = Cardinality(S) + 1
    BY <1>2, <1>3, FS_AddElement
<1>5. ASSUME NEW i \in S PROVE Before(S \cup {n + 1}, i) = Before(S, i)
    <2>1. {j \in S \cup {n + 1} : j < i} = {j \in S : j < i}
        OBVIOUS
    <2> QED BY <2>1 DEF Before
<1>6. Before(S \cup {n + 1}, n + 1) = Cardinality(S)
    <2>1. \A j \in S : j < n + 1
        OBVIOUS
    <2>2. ~(n + 1 < n + 1)
        OBVIOUS
    <2>3. {j \in S \cup {n + 1} : j < n + 1} = S
        BY ONLY <2>1, <2>2
    <2> QED BY <2>3 DEF Before
<1> QED BY <1>2, <1>4, <1>5, <1>6

LEMMA Places ==
    ASSUME out \in Seq(Bytes)
    PROVE  /\ FifoAt \subseteq 1..Len(out) /\ CpuAt \subseteq 1..Len(out) /\ Len(out) \in Nat
           /\ DOMAIN out = 1..Len(out)
           /\ \A i \in 1..Len(out) : out[i] \in Bytes /\ out[i][2] \in Nat
BY DEF FifoAt, CpuAt, Bytes

LEMMA PlacesAdded ==
    ASSUME out \in Seq(Bytes), NEW x \in Bytes, out' = Append(out, x)
    PROVE  /\ out' \in Seq(Bytes) /\ out'[Len(out) + 1] = x
           /\ \A i \in 1..Len(out) : out'[i] = out[i]
           /\ FifoAt' = IF x[1] = "fifo" THEN FifoAt \cup {Len(out) + 1} ELSE FifoAt
           /\ CpuAt' = IF x[1] # "fifo" THEN CpuAt \cup {Len(out) + 1} ELSE CpuAt
<1>1. /\ out' \in Seq(Bytes) /\ out'[Len(out) + 1] = x /\ Len(out') = Len(out) + 1
      /\ \A i \in 1..Len(out) : out'[i] = out[i]
    BY AppendTo
<1>2. /\ DOMAIN out = 1..Len(out) /\ DOMAIN out' = 1..(Len(out) + 1) /\ Len(out) \in Nat
    BY <1>1
<1>3. DOMAIN out' = DOMAIN out \cup {Len(out) + 1}
    BY <1>2
<1>4. \A i \in DOMAIN out : out'[i] = out[i]
    BY <1>1, <1>2
<1>5. FifoAt' = IF x[1] = "fifo" THEN FifoAt \cup {Len(out) + 1} ELSE FifoAt
    BY <1>1, <1>3, <1>4 DEF FifoAt
<1>6. CpuAt' = IF x[1] # "fifo" THEN CpuAt \cup {Len(out) + 1} ELSE CpuAt
    BY <1>1, <1>3, <1>4 DEF CpuAt
<1> QED BY <1>1, <1>5, <1>6

\* The registers' ranges, as the steps below need them.
LEMMA Ranges ==
    ASSUME SInv
    PROVE  /\ STS \in {"IDLE", "RECV", "WAIT_CPURD", "RECV_END", "TRNS", "TRNS_END"}
           /\ FIFOSTS \in {"FIFO_IDLE", "FIFO_RD_WORD", "FIFO_SEND_START",
                           "WAIT_FIFO_SEND_END", "CHK_WORD_END"}
           /\ phase \in {0, 1} /\ TXBUSY \in {0, 1} /\ FIFO_SEND_BUSY \in {0, 1}
           /\ FIFO_BYTE_COUNT \in 0..3 /\ FIFO_Qreg \in Nat /\ words \in Nat /\ RXIRQ_STS \in {0, 1}
           /\ fifo \in Seq(0..MaxWords) /\ Len(fifo) \in Nat /\ Popped \in Nat
           /\ Due \in Nat /\ reply \in Nat
           /\ FIFOSTS = "FIFO_RD_WORD" => fifo # <<>>
           /\ phase = 1 => STS \in {"RECV", "TRNS"}
           /\ cpu \in {"idle", "wait_tx", "wait_rx", "chk_tx", "chk_rx", "write"}
<1>1. /\ STS \in {"IDLE", "RECV", "WAIT_CPURD", "RECV_END", "TRNS", "TRNS_END"}
      /\ FIFOSTS \in {"FIFO_IDLE", "FIFO_RD_WORD", "FIFO_SEND_START",
                      "WAIT_FIFO_SEND_END", "CHK_WORD_END"}
      /\ phase \in {0, 1} /\ TXBUSY \in {0, 1} /\ FIFO_SEND_BUSY \in {0, 1} /\ RXIRQ_STS \in {0, 1}
      /\ cpu \in {"idle", "wait_tx", "wait_rx", "chk_tx", "chk_rx", "write"}
    BY DEF SInv, IInv, TypeOK
<1>2. FIFO_BYTE_COUNT \in 0..3 /\ FIFO_Qreg \in 0..MaxWords /\ words \in 0..MaxWords
    BY DEF SInv, IInv, TypeOK
<1>3. FIFO_Qreg \in Nat /\ words \in Nat
    BY <1>2, Ft245Assumption
<1>4. /\ fifo \in Seq(0..MaxWords) /\ (FIFOSTS = "FIFO_RD_WORD" => fifo # <<>>)
      /\ (phase = 1 => STS \in {"RECV", "TRNS"}) /\ Popped \in Nat /\ reply \in Nat
    BY DEF SInv, IInv, Contents, Signals, Words, Senders
<1>5. Due \in Nat
    BY <1>2, <1>3, <1>4 DEF Due
<1> QED BY <1>1, <1>2, <1>3, <1>4, <1>5

---------------------------------------------------------------------------
(* The words through the FIFO. *)

\* A clock edge's share of a step, with a word written or not.
Edging(a, end, ready, latch) ==
    /\ Edge(a, end, ready, latch) /\ mixed \subseteq mixed'
    /\ words' = words + (IF a = "wrFIFO" THEN 1 ELSE 0)

LEMMA WordsEdge ==
    ASSUME SInv, NEW a \in Accesses, NEW end \in BOOLEAN, NEW ready \in BOOLEAN,
           NEW latch \in BOOLEAN, Edging(a, end, ready, latch), words \in 0..MaxWords
    PROVE  /\ Words'
           /\ Popped' = IF FIFOSTS = "FIFO_RD_WORD" THEN Popped + 1 ELSE Popped
           /\ FIFO_Qreg' = IF FIFOSTS = "FIFO_RD_WORD" THEN Popped ELSE FIFO_Qreg
<1> DEFINE rest == IF FIFOSTS = "FIFO_RD_WORD" THEN Tail(fifo) ELSE fifo
           more == IF a = "wrFIFO" THEN <<words>> ELSE <<>>
           C == 0..MaxWords
<1>0. PICK gone \in Nat : gone = IF FIFOSTS = "FIFO_RD_WORD" THEN Popped + 1 ELSE Popped
    BY Ranges
<1>1. fifo' = rest \o more
    BY DEF Edging, Edge, FifoData
<1>2. /\ fifo \in Seq(C) /\ Len(fifo) \in Nat /\ words \in Nat /\ Popped = words - Len(fifo)
      /\ (FIFOSTS = "FIFO_RD_WORD" => fifo # <<>>) /\ words \in C
      /\ \A k \in 1..Len(fifo) : fifo[k] = Popped + k - 1
    BY Ranges DEF Popped, SInv, Words
<1>3. words' = words + (IF a = "wrFIFO" THEN 1 ELSE 0)
    BY DEF Edging
<1>4. FIFO_Qreg' = IF FIFOSTS = "FIFO_RD_WORD" THEN Head(fifo) ELSE FIFO_Qreg
    BY DEF Edging, Edge, FifoData
<1> HIDE DEF C
<1>5. /\ rest \in Seq(C) /\ Len(rest) = words - gone /\ gone \in Nat
      /\ \A k \in 1..Len(rest) : rest[k] = gone + k - 1
      /\ FIFO_Qreg' = IF FIFOSTS = "FIFO_RD_WORD" THEN Popped ELSE FIFO_Qreg
    <2>1. CASE FIFOSTS = "FIFO_RD_WORD"
        <3>1. /\ Tail(fifo) \in Seq(C) /\ Head(fifo) = fifo[1]
              /\ Len(fifo) \in Nat \ {0} /\ Len(Tail(fifo)) = Len(fifo) - 1
              /\ \A k \in 1..(Len(fifo) - 1) : Tail(fifo)[k] = fifo[k + 1]
            BY <1>2, <2>1, TailOf
        <3>2. rest = Tail(fifo) /\ gone = Popped + 1 /\ FIFO_Qreg' = fifo[1]
            BY <1>0, <1>4, <2>1, <3>1
        <3> HIDE DEF rest
        <3>3. fifo[1] = Popped
            BY <1>2, <3>1
        <3>4. \A k \in 1..(Len(fifo) - 1) : Tail(fifo)[k] = Popped + 1 + k - 1
            <4> SUFFICES ASSUME NEW k \in 1..(Len(fifo) - 1) PROVE Tail(fifo)[k] = Popped + 1 + k - 1
                OBVIOUS
            <4>1. k + 1 \in 1..Len(fifo) /\ Tail(fifo)[k] = fifo[k + 1]
                BY <3>1
            <4>2. fifo[k + 1] = Popped + (k + 1) - 1
                BY <1>2, <4>1
            <4> QED BY <1>2, <4>1, <4>2
        <3>8. Popped \in Nat
            BY Ranges
        <3>9. rest \in Seq(C) /\ Len(rest) = Len(fifo) - 1 /\ gone = Popped + 1
            BY <3>1, <3>2
        <3>5. Len(rest) = words - gone /\ gone \in Nat /\ rest \in Seq(C)
            BY <1>2, <3>8, <3>9
        <3>6. \A k \in 1..Len(rest) : rest[k] = gone + k - 1
            BY <3>1, <3>2, <3>4
        <3>7. FIFO_Qreg' = Popped
            BY <3>2, <3>3
        <3> QED BY <2>1, <3>5, <3>6, <3>7
    <2>2. CASE FIFOSTS # "FIFO_RD_WORD"
        <3>1. rest = fifo /\ gone = Popped /\ FIFO_Qreg' = FIFO_Qreg
            BY <1>0, <1>4, <2>2
        <3>2. Popped \in Nat
            BY Ranges
        <3> HIDE DEF rest
        <3> QED BY <1>2, <2>2, <3>1, <3>2
    <2> QED BY <2>1, <2>2
<1> HIDE DEF rest
<1>6. /\ Len(fifo') = words' - gone /\ \A k \in 1..Len(fifo') : fifo'[k] = gone + k - 1
    <2>1. CASE a = "wrFIFO"
        <3>1. fifo' = Append(rest, words) /\ words' = words + 1
            BY <1>1, <1>2, <1>3, <1>5, <2>1, ConcatOne
        <3>2. /\ Len(fifo') = Len(rest) + 1 /\ fifo'[Len(rest) + 1] = words /\ Len(rest) \in Nat
              /\ \A k \in 1..Len(rest) : fifo'[k] = rest[k]
            <4>1. rest \in Seq(C) /\ words \in C
                BY <1>2, <1>5
            <4>2. /\ Len(Append(rest, words)) = Len(rest) + 1 /\ Len(rest) \in Nat
                  /\ Append(rest, words)[Len(rest) + 1] = words
                  /\ \A k \in 1..Len(rest) : Append(rest, words)[k] = rest[k]
                BY ONLY <4>1, AppendTo
            <4> QED BY ONLY <3>1, <4>2
        <3>3. Len(fifo') = words' - gone
            BY <1>2, <1>5, <3>1, <3>2
        <3>4. ASSUME NEW k \in 1..(Len(rest) + 1) PROVE fifo'[k] = gone + k - 1
            <4>1. CASE k = Len(rest) + 1
                BY <1>2, <1>5, <3>2, <4>1
            <4>2. CASE k \in 1..Len(rest)
                BY <1>5, <3>2, <4>2
            <4> QED BY <3>2, <4>1, <4>2
        <3> QED BY <3>2, <3>3, <3>4
    <2>2. CASE a # "wrFIFO"
        <3>1. fifo' = rest /\ words' = words
            BY <1>1, <1>2, <1>3, <1>5, <2>2, ConcatOne
        <3> QED BY <1>5, <3>1
    <2> QED BY <2>1, <2>2
<1>7. Popped' = gone
    <2>1. PICK w \in Nat : w = words'
        BY <1>2, <1>3
    <2>2. Popped' = w - (w - gone)
        BY <1>6, <2>1 DEF Popped
    <2> QED BY ONLY <2>2, gone \in Nat
<1>8. FIFOSTS' \notin {"FIFO_IDLE", "FIFO_RD_WORD"} => FIFO_Qreg' = Popped' - 1
    <2> SUFFICES ASSUME FIFOSTS' \notin {"FIFO_IDLE", "FIFO_RD_WORD"}
                 PROVE  FIFO_Qreg' = Popped' - 1
        OBVIOUS
    <2>1. CASE FIFOSTS = "FIFO_RD_WORD"
        <3>1. FIFO_Qreg' = Popped
            BY <1>5, <2>1
        <3>2. Popped' = Popped + 1
            BY <1>0, <1>7, <2>1
        <3>3. Popped \in Nat
            BY Ranges
        <3> QED BY ONLY <3>1, <3>2, <3>3
    <2>2. CASE FIFOSTS # "FIFO_RD_WORD"
        <3>1. FIFOSTS # "FIFO_IDLE"
            BY DEF Edging, Edge, FifoSequencer
        <3>2. FIFO_Qreg = Popped - 1
            BY <2>2, <3>1 DEF SInv, Words
        <3> QED BY <1>5, <1>7, <2>2, <3>2, <1>0
    <2> QED BY <2>1, <2>2
<1>9. Words'
    BY <1>5, <1>6, <1>7, <1>8 DEF Words
<1> QED BY <1>5, <1>7, <1>9, <1>0

\* The next byte of the words goes on the wire.
Sends(latch) == STS = "TRNS" /\ latch /\ FIFOSTS = "WAIT_FIFO_SEND_END"

\* Due passes the byte sent; it passes one not sent only if something overlaps.
LEMMA DueEdge ==
    ASSUME SInv, NEW a \in Accesses, NEW end \in BOOLEAN, NEW ready \in BOOLEAN,
           NEW latch \in BOOLEAN, Edging(a, end, ready, latch), words \in 0..MaxWords
    PROVE  /\ Due' \in Nat
           /\ Sends(latch) => Due = 4 * FIFO_Qreg + FIFO_BYTE_COUNT /\ Due' = Due + 1
           /\ ~Sends(latch) => Due' >= Due
           /\ ~Sends(latch) /\ FifoAlone => Due' = Due
<1>1. /\ STS \in {"IDLE", "RECV", "WAIT_CPURD", "RECV_END", "TRNS", "TRNS_END"}
      /\ phase \in {0, 1} /\ FIFO_BYTE_COUNT \in 0..3 /\ FIFO_Qreg \in Nat /\ Popped \in Nat
      /\ (phase = 1 => STS \in {"RECV", "TRNS"})
      /\ FIFOSTS \in {"FIFO_IDLE", "FIFO_RD_WORD", "FIFO_SEND_START", "WAIT_FIFO_SEND_END",
                      "CHK_WORD_END"}
    BY Ranges
<1>2. /\ Popped' = IF FIFOSTS = "FIFO_RD_WORD" THEN Popped + 1 ELSE Popped
      /\ FIFO_Qreg' = IF FIFOSTS = "FIFO_RD_WORD" THEN Popped ELSE FIFO_Qreg
      /\ Words'
    BY WordsEdge
<1>3. FIFOSTS \notin {"FIFO_IDLE", "FIFO_RD_WORD"} => FIFO_Qreg = Popped - 1
    BY DEF SInv, Words
<1>4. FIFO_BYTE_COUNT' = IF FIFOSTS = "FIFO_RD_WORD" THEN 0
                         ELSE IF FIFOSTS = "CHK_WORD_END" THEN (FIFO_BYTE_COUNT + 1) % 4
                         ELSE FIFO_BYTE_COUNT
    BY DEF Edging, Edge, FifoData
<1>5. /\ phase' = IF STS \in {"RECV", "TRNS"} /\ ~end THEN (IF latch THEN 1 ELSE phase) ELSE 0
      /\ (end => STS \in {"RECV", "TRNS"} /\ phase = 1)
      /\ (latch => STS \in {"RECV", "TRNS"} /\ phase = 0)
    BY DEF Edging, Edge, Strobe
<1>6. /\ (STS = "TRNS" => STS' = IF end THEN "TRNS_END" ELSE "TRNS")
      /\ (STS = "RECV" => STS' = IF end THEN "WAIT_CPURD" ELSE "RECV")
    BY DEF Edging, Edge, MainSequencer
<1>7. CASE FIFOSTS = "FIFO_IDLE"
    <2>1. FIFOSTS' \in {"FIFO_IDLE", "FIFO_RD_WORD"}
        BY <1>7 DEF Edging, Edge, FifoSequencer
    <2>2. Due' = 4 * Popped' /\ Due = 4 * Popped /\ Popped' = Popped
        BY <1>2, <1>7, <2>1 DEF Due
    <2> QED BY <1>1, <1>7, <2>2 DEF Sends
<1>8. CASE FIFOSTS = "FIFO_RD_WORD"
    <2>1. FIFOSTS' = "FIFO_SEND_START" /\ FIFO_Qreg' = Popped /\ FIFO_BYTE_COUNT' = 0
        BY <1>2, <1>4, <1>8 DEF Edging, Edge, FifoSequencer
    <2>2. Due' = 4 * Popped + 0 + 0 /\ Due = 4 * Popped
        BY <1>8, <2>1 DEF Due
    <2> QED BY <1>1, <1>8, <2>2 DEF Sends
<1>9. CASE FIFOSTS = "FIFO_SEND_START"
    <2>1. /\ FIFOSTS' = "WAIT_FIFO_SEND_END" /\ FIFO_Qreg' = FIFO_Qreg
          /\ FIFO_BYTE_COUNT' = FIFO_BYTE_COUNT
        BY <1>2, <1>4, <1>9 DEF Edging, Edge, FifoSequencer
    <2>2. /\ Due' = 4 * FIFO_Qreg + FIFO_BYTE_COUNT + (IF OnWire' THEN 1 ELSE 0)
          /\ Due = 4 * FIFO_Qreg + FIFO_BYTE_COUNT + 0
        BY <1>9, <2>1 DEF Due
    <2>3. FifoAlone => ~OnWire'
        <3>1. FifoAlone => STS = "IDLE"
            BY <1>9 DEF SInv, Exclusive
        <3> QED BY <1>5, <3>1 DEF OnWire
    <2> QED BY <1>1, <1>9, <2>2, <2>3 DEF Sends
<1>10. CASE FIFOSTS = "WAIT_FIFO_SEND_END" /\ ~end
    <2>1. /\ FIFOSTS' = "WAIT_FIFO_SEND_END" /\ FIFO_Qreg' = FIFO_Qreg
          /\ FIFO_BYTE_COUNT' = FIFO_BYTE_COUNT
        BY <1>2, <1>4, <1>10 DEF Edging, Edge, FifoSequencer
    <2>2. /\ Due' = 4 * FIFO_Qreg + FIFO_BYTE_COUNT + (IF OnWire' THEN 1 ELSE 0)
          /\ Due = 4 * FIFO_Qreg + FIFO_BYTE_COUNT + (IF OnWire THEN 1 ELSE 0)
        BY <1>10, <2>1 DEF Due
    <2>3. CASE Sends(latch)
        <3>1. ~OnWire /\ OnWire'
            BY <1>5, <1>6, <1>10, <2>3 DEF Sends, OnWire
        <3> QED BY <1>1, <2>2, <2>3, <3>1
    <2>4. CASE ~Sends(latch)
        <3>1. OnWire' = OnWire
            <4>1. CASE STS = "TRNS"
                BY <1>1, <1>5, <1>6, <1>10, <2>4, <4>1 DEF Sends, OnWire
            <4>2. CASE STS = "RECV"
                BY <1>6, <1>10, <4>2 DEF OnWire
            <4>3. CASE STS \notin {"TRNS", "RECV"}
                BY <1>5, <4>3 DEF OnWire
            <4> QED BY <4>1, <4>2, <4>3
        <3> QED BY <1>1, <2>2, <2>4, <3>1
    <2> QED BY <2>3, <2>4
<1>11. CASE FIFOSTS = "WAIT_FIFO_SEND_END" /\ end
    <2>1. /\ FIFOSTS' = "CHK_WORD_END" /\ FIFO_Qreg' = FIFO_Qreg
          /\ FIFO_BYTE_COUNT' = FIFO_BYTE_COUNT
        BY <1>2, <1>4, <1>11 DEF Edging, Edge, FifoSequencer
    <2>2. /\ Due' = 4 * FIFO_Qreg + FIFO_BYTE_COUNT + 1
          /\ Due = 4 * FIFO_Qreg + FIFO_BYTE_COUNT + (IF OnWire THEN 1 ELSE 0)
        BY <1>11, <2>1 DEF Due
    <2>3. FifoAlone => OnWire
        <3>1. FifoAlone => STS \in {"IDLE", "TRNS"}
            BY <1>11 DEF SInv, Exclusive
        <3> QED BY <1>5, <1>11, <3>1 DEF OnWire
    <2>4. ~Sends(latch)
        BY <1>5, <1>11 DEF Sends
    <2> QED BY <1>1, <2>2, <2>3, <2>4
<1>12. CASE FIFOSTS = "CHK_WORD_END"
    <2>1. /\ FIFOSTS' = (IF FIFO_BYTE_COUNT >= 3 THEN "FIFO_IDLE" ELSE "FIFO_SEND_START")
          /\ FIFO_Qreg' = FIFO_Qreg /\ Popped' = Popped
          /\ FIFO_BYTE_COUNT' = (FIFO_BYTE_COUNT + 1) % 4
        BY <1>2, <1>4, <1>12 DEF Edging, Edge, FifoSequencer
    <2>2. Due = 4 * FIFO_Qreg + FIFO_BYTE_COUNT + 1 /\ FIFO_Qreg = Popped - 1
        BY <1>3, <1>12 DEF Due
    <2>3. CASE FIFO_BYTE_COUNT = 3
        <3>1. Due' = 4 * Popped
            BY <2>1, <2>3 DEF Due
        <3> QED BY <1>1, <1>12, <2>2, <2>3, <3>1 DEF Sends
    <2>4. CASE FIFO_BYTE_COUNT \in 0..2
        <3>1. FIFOSTS' = "FIFO_SEND_START" /\ FIFO_BYTE_COUNT' = FIFO_BYTE_COUNT + 1
            BY <2>1, <2>4
        <3>2. Due' = 4 * FIFO_Qreg + (FIFO_BYTE_COUNT + 1) + 0
            BY <2>1, <3>1 DEF Due
        <3> QED BY <1>1, <1>12, <2>2, <3>2 DEF Sends
    <2> QED BY <1>1, <2>3, <2>4
<1> QED BY <1>1, <1>7, <1>8, <1>9, <1>10, <1>11, <1>12

LEMMA FifoEdge ==
    ASSUME SInv, NEW a \in Accesses, NEW end \in BOOLEAN, NEW ready \in BOOLEAN,
           NEW latch \in BOOLEAN, Edging(a, end, ready, latch), words \in 0..MaxWords
    PROVE  out' \in Seq(Bytes) /\ Ordered' /\ FifoCounted'
<1>1. /\ out \in Seq(Bytes) /\ TXreg \in {"none", "cpu"} \X Nat
      /\ \A i, j \in FifoAt : i < j => out[i][2] < out[j][2]
      /\ \A i \in FifoAt : out[i][2] < Due
      /\ FifoAlone => /\ Cardinality(FifoAt) = Due
                      /\ \A i \in FifoAt : out[i] = <<"fifo", Before(FifoAt, i)>>
    BY DEF SInv, Senders, Ordered, FifoNeverRepeats, FifoCounted
<1>2. FifoAlone' => FifoAlone
    BY DEF Edging, FifoAlone
<1>3. Due \in Nat /\ FIFO_BYTE_COUNT \in 0..3 /\ FIFO_Qreg \in Nat
    BY Ranges
<1>4. out' = IF STS = "TRNS" /\ latch THEN Append(out, ft_txdata) ELSE out
    BY DEF Edging, Edge, Strobe
<1>5. /\ FifoAt \subseteq 1..Len(out) /\ Len(out) \in Nat
      /\ \A i \in 1..Len(out) : out[i][2] \in Nat
    BY <1>1, Places
<1>6. CASE Sends(latch)
    <2>1. Due = 4 * FIFO_Qreg + FIFO_BYTE_COUNT /\ Due' = Due + 1
        BY <1>6, DueEdge
    <2> DEFINE x == <<"fifo", Due>>
    <2>2. out' = Append(out, x) /\ x \in Bytes
        BY <1>3, <1>4, <1>6, <2>1 DEF Sends, ft_txdata, FifoByte, Bytes
    <2>3. /\ out' \in Seq(Bytes) /\ out'[Len(out) + 1] = x
          /\ \A i \in 1..Len(out) : out'[i] = out[i]
          /\ FifoAt' = FifoAt \cup {Len(out) + 1}
        BY <1>1, <2>2, PlacesAdded
    <2>4. \A i \in FifoAt : out'[i] = out[i]
        BY <1>5, <2>3
    <2>5. out'[Len(out) + 1][2] = Due
        BY <2>3
    <2> HIDE DEF x
    <2>6. FifoNeverRepeats'
        <3> SUFFICES ASSUME NEW i \in FifoAt', NEW j \in FifoAt', i < j
                     PROVE  out'[i][2] < out'[j][2]
            BY DEF FifoNeverRepeats
        <3>1. i \in FifoAt
            BY <1>5, <2>3
        <3>2. CASE j \in FifoAt
            BY <1>1, <2>4, <3>1, <3>2
        <3>3. CASE j = Len(out) + 1
            BY <1>1, <2>4, <2>5, <3>1, <3>3
        <3> QED BY <2>3, <3>2, <3>3
    <2>7. \A i \in FifoAt' : out'[i][2] < Due'
        <3>1. ASSUME NEW i \in FifoAt PROVE out'[i][2] < Due'
            <4>1. out'[i][2] = out[i][2] /\ out[i][2] \in Nat /\ out[i][2] < Due
                BY <1>1, <1>5, <2>4
            <4> QED BY <1>3, <2>1, <4>1
        <3>2. out'[Len(out) + 1][2] < Due'
            BY <1>3, <2>1, <2>5
        <3> QED BY <2>3, <3>1, <3>2
    <2>8. FifoCounted'
        <3> SUFFICES ASSUME FifoAlone'
                     PROVE  /\ Cardinality(FifoAt') = Due'
                            /\ \A i \in FifoAt' : out'[i] = <<"fifo", Before(FifoAt', i)>>
            BY DEF FifoCounted, Before
        <3>1. /\ Cardinality(FifoAt') = Cardinality(FifoAt) + 1
              /\ \A i \in FifoAt : Before(FifoAt', i) = Before(FifoAt, i)
              /\ Before(FifoAt', Len(out) + 1) = Cardinality(FifoAt)
            BY <1>5, <2>3, Counting
        <3>2. Cardinality(FifoAt) = Due /\ \A i \in FifoAt : out[i] = <<"fifo", Before(FifoAt, i)>>
            BY <1>1, <1>2
        <3>3. Cardinality(FifoAt') = Due'
            BY <2>1, <3>1, <3>2
        <3>4. \A i \in FifoAt : out'[i] = <<"fifo", Before(FifoAt', i)>>
            BY <2>4, <3>1, <3>2
        <3>5. out'[Len(out) + 1] = <<"fifo", Before(FifoAt', Len(out) + 1)>>
            BY <2>3, <3>1, <3>2 DEF x
        <3> QED BY <2>3, <3>3, <3>4, <3>5
    <2> QED BY <2>3, <2>6, <2>7, <2>8 DEF Ordered
<1>7. CASE ~Sends(latch)
    <2>1. Due' \in Nat /\ Due' >= Due /\ (FifoAlone => Due' = Due)
        BY <1>7, DueEdge
    <2>2. out' \in Seq(Bytes) /\ FifoAt' = FifoAt /\ \A i \in FifoAt : out'[i] = out[i]
        <3>1. CASE STS = "TRNS" /\ latch
            <4>1. out' = Append(out, TXreg)
                BY <1>4, <1>7, <3>1 DEF Sends, ft_txdata
            <4>2. TXreg \in Bytes /\ TXreg[1] # "fifo"
                BY <1>1 DEF Bytes
            <4>3. /\ out' \in Seq(Bytes) /\ FifoAt' = FifoAt
                  /\ \A i \in 1..Len(out) : out'[i] = out[i]
                BY <1>1, <4>1, <4>2, PlacesAdded
            <4> QED BY <1>5, <4>3
        <3>2. CASE ~(STS = "TRNS" /\ latch)
            BY <1>1, <1>4, <3>2 DEF FifoAt
        <3> QED BY <3>1, <3>2
    <2>3. FifoNeverRepeats'
        BY <1>1, <2>2 DEF FifoNeverRepeats
    <2>4. \A i \in FifoAt' : out'[i][2] < Due'
        <3> SUFFICES ASSUME NEW i \in FifoAt PROVE out'[i][2] < Due'
            BY <2>2
        <3>1. out'[i][2] = out[i][2] /\ out[i][2] \in Nat /\ out[i][2] < Due
            BY <1>1, <1>5, <2>2
        <3> QED BY <1>3, <2>1, <3>1
    <2>5. FifoCounted'
        BY <1>1, <1>2, <2>1, <2>2 DEF FifoCounted, Before
    <2> QED BY <2>2, <2>3, <2>4, <2>5 DEF Ordered
<1> QED BY <1>6, <1>7

---------------------------------------------------------------------------
(* Who has the main sequencer. *)

\* The CPU's share of a step with a clock edge.
CpuMoves(a) ==
    /\ reply' = reply
    /\ IF a = "wrTX" THEN cpu = "write" /\ cpu' = "idle" /\ TXreg' = <<"cpu", reply>>
       ELSE /\ TXreg' = TXreg
            /\ \/ cpu' = cpu
               \/ cpu = "wait_tx" /\ cpu' = IF TXBUSY = 1 THEN "wait_tx" ELSE "wait_rx"
               \/ cpu = "wait_rx" /\ cpu' = IF RX_RDYbit THEN "wait_rx" ELSE "chk_tx"
               \/ cpu = "chk_tx" /\ cpu' = IF TXBUSY = 1 THEN "idle" ELSE "chk_rx"
               \/ cpu = "chk_rx" /\ cpu' = IF RX_RDYbit THEN "idle" ELSE "write"

\* The overlap a word written on this edge leaves behind.
Recorded(a) ==
    a = "wrFIFO" => /\ CpuSends => "tx/fifo" \in mixed'
                    /\ HostSends => "rx/fifo" \in mixed'

LEMMA BusyEdge ==
    ASSUME SInv, NEW a \in Accesses, NEW end \in BOOLEAN, NEW ready \in BOOLEAN,
           NEW latch \in BOOLEAN, Edging(a, end, ready, latch)
    PROVE  STS' \in {"TRNS", "TRNS_END"} => TXBUSY' = 1 \/ FIFO_SEND_BUSY' = 1
BY Ranges DEF SInv, Senders, Edging, Edge, MainSequencer, BusyFlags

LEMMA ExclusiveEdge ==
    ASSUME SInv, NEW a \in Accesses, NEW end \in BOOLEAN, NEW ready \in BOOLEAN,
           NEW latch \in BOOLEAN, Edging(a, end, ready, latch), CpuMoves(a), Recorded(a)
    PROVE  Exclusive'
<1> SUFFICES ASSUME FifoAlone' PROVE Exclusive'
    BY DEF Exclusive
<1>1. FifoAlone
    BY DEF Edging, FifoAlone
<1>2. Exclusive /\ (STS \in {"TRNS", "TRNS_END"} => TXBUSY = 1 \/ FIFO_SEND_BUSY = 1)
    BY DEF SInv, Senders
<1>3. /\ STS \in {"IDLE", "RECV", "WAIT_CPURD", "RECV_END", "TRNS", "TRNS_END"}
      /\ FIFOSTS \in {"FIFO_IDLE", "FIFO_RD_WORD", "FIFO_SEND_START",
                      "WAIT_FIFO_SEND_END", "CHK_WORD_END"}
      /\ TXBUSY \in {0, 1} /\ FIFO_SEND_BUSY \in {0, 1} /\ RXIRQ_STS \in {0, 1}
    BY Ranges
<1>4. CASE FifoSends
    <2>1. /\ rx = <<>> /\ STS \in {"IDLE", "TRNS", "TRNS_END"} /\ RXIRQ_STS = 0
          /\ cpu = "idle" /\ TXBUSY = 0
        BY <1>1, <1>2, <1>3, <1>4 DEF Exclusive, HostSends, CpuSends
    <2>2. a # "wrTX" /\ cpu' = "idle"
        BY <2>1 DEF CpuMoves
    <2>3. TXBUSY' = 0
        BY <2>1, <2>2 DEF Edging, Edge, BusyFlags
    <2>4. rx' = <<>> /\ RXIRQ_STS' = 0
        BY <2>1 DEF Edging, Edge, Strobe, RxInterrupt
    <2>5. STS' = IF STS = "IDLE" THEN (IF ready /\ FIFO_SEND_BUSY = 1 THEN "TRNS" ELSE "IDLE")
                 ELSE IF STS = "TRNS" THEN (IF end THEN "TRNS_END" ELSE "TRNS") ELSE "IDLE"
        BY <2>1 DEF Edging, Edge, MainSequencer, RX_RDYbit
    <2>6. ~HostSends' /\ ~CpuSends' /\ STS' \in {"IDLE", "TRNS", "TRNS_END"}
        BY <2>1, <2>2, <2>3, <2>4, <2>5 DEF HostSends, CpuSends
    <2>7. FIFO_SEND_BUSY' = IF FIFOSTS = "FIFO_SEND_START" THEN 1
                            ELSE IF STS = "TRNS_END" THEN 0 ELSE FIFO_SEND_BUSY
        BY DEF Edging, Edge, BusyFlags
    <2>8. end => STS = "TRNS"
        BY <2>1 DEF Edging, Edge
    <2>9. CASE FIFOSTS = "FIFO_IDLE"
        <3>1. FIFO_SEND_BUSY = 0 /\ STS = "IDLE"
            BY <1>1, <1>2, <2>1, <2>9 DEF Exclusive
        <3>2. FIFOSTS' \in {"FIFO_IDLE", "FIFO_RD_WORD"}
            BY <2>9 DEF Edging, Edge, FifoSequencer
        <3> QED BY <2>5, <2>6, <2>7, <2>9, <3>1, <3>2 DEF Exclusive
    <2>10. CASE FIFOSTS = "FIFO_RD_WORD"
        <3>1. FIFO_SEND_BUSY = 0 /\ STS = "IDLE"
            BY <1>1, <1>2, <2>10 DEF Exclusive
        <3>2. FIFOSTS' = "FIFO_SEND_START"
            BY <2>10 DEF Edging, Edge, FifoSequencer
        <3> QED BY <2>5, <2>6, <2>7, <2>10, <3>1, <3>2 DEF Exclusive
    <2>11. CASE FIFOSTS = "FIFO_SEND_START"
        <3>1. FIFO_SEND_BUSY = 0 /\ STS = "IDLE"
            BY <1>1, <1>2, <2>11 DEF Exclusive
        <3>2. FIFOSTS' = "WAIT_FIFO_SEND_END"
            BY <2>11 DEF Edging, Edge, FifoSequencer
        <3> QED BY <2>5, <2>6, <2>7, <2>11, <3>1, <3>2 DEF Exclusive
    <2>12. CASE FIFOSTS = "WAIT_FIFO_SEND_END"
        <3>1. FIFO_SEND_BUSY = 1 /\ STS \in {"IDLE", "TRNS"}
            BY <1>1, <1>2, <2>12 DEF Exclusive
        <3>2. FIFOSTS' = IF end THEN "CHK_WORD_END" ELSE "WAIT_FIFO_SEND_END"
            BY <2>12 DEF Edging, Edge, FifoSequencer
        <3> QED BY <2>5, <2>6, <2>7, <2>8, <2>12, <3>1, <3>2 DEF Exclusive
    <2>13. CASE FIFOSTS = "CHK_WORD_END"
        <3>1. STS = "TRNS_END"
            BY <1>1, <1>2, <2>13 DEF Exclusive
        <3>2. FIFOSTS' \in {"FIFO_IDLE", "FIFO_SEND_START"}
            BY <2>13 DEF Edging, Edge, FifoSequencer
        <3> QED BY <2>5, <2>6, <2>7, <2>13, <3>1, <3>2 DEF Exclusive
    <2> QED BY <1>3, <2>9, <2>10, <2>11, <2>12, <2>13
<1>5. CASE ~FifoSends
    <2>1. fifo = <<>> /\ FIFOSTS = "FIFO_IDLE" /\ FIFO_SEND_BUSY = 0
        BY <1>3, <1>5 DEF FifoSends, FIFO_EMPTY
    <2>2. FIFOSTS' = "FIFO_IDLE" /\ FIFO_SEND_BUSY' = 0
        BY <2>1 DEF Edging, Edge, FifoSequencer, BusyFlags, FIFO_EMPTY
    <2>3. CASE a = "wrFIFO"
        <3>1. ~CpuSends /\ ~HostSends
            BY <2>3 DEF Recorded, FifoAlone
        <3>2. STS \in {"IDLE", "RECV_END"} /\ TXBUSY = 0 /\ cpu = "idle" /\ rx = <<>> /\ RXIRQ_STS = 0
            BY <1>2, <1>3, <2>1, <3>1 DEF CpuSends, HostSends
        <3>3. STS' = "IDLE" /\ TXBUSY' = 0 /\ cpu' = "idle" /\ rx' = <<>> /\ RXIRQ_STS' = 0
            BY <2>1, <2>3, <3>2
            DEF Edging, Edge, MainSequencer, BusyFlags, Strobe, RxInterrupt, CpuMoves, RX_RDYbit
        <3>4. ~HostSends' /\ ~CpuSends'
            BY <3>3 DEF HostSends, CpuSends
        <3> QED BY <2>2, <3>3, <3>4 DEF Exclusive
    <2>4. CASE a # "wrFIFO"
        <3>1. fifo' = <<>> \o <<>>
            BY <2>1, <2>4 DEF Edging, Edge, FifoData
        <3>2. <<>> \o <<>> = <<>>
            <4>1. <<>> \in Seq({})
                OBVIOUS
            <4> QED BY <4>1, ConcatEmptySeq
        <3>3. ~FifoSends'
            BY <2>2, <3>1, <3>2 DEF FifoSends, FIFO_EMPTY
        <3> QED BY <2>2, <3>3 DEF Exclusive
    <2> QED BY <2>3, <2>4
<1> QED BY <1>4, <1>5

\* Without any overlap the CPU's byte meets nobody else.
LEMMA AnsweringAlone ==
    ASSUME SInv, mixed = {}
    PROVE  /\ CpuSends => /\ ~FifoSends /\ ~HostSends /\ FIFO_SEND_BUSY = 0
                          /\ FIFOSTS = "FIFO_IDLE"
                          /\ STS \in {"IDLE", "RECV_END", "TRNS", "TRNS_END"}
           /\ STS = "TRNS" /\ FIFOSTS # "WAIT_FIFO_SEND_END" => TXBUSY = 1
           /\ FIFOSTS = "WAIT_FIFO_SEND_END" => ~CpuSends
           /\ STS \in {"TRNS", "TRNS_END"} /\ TXBUSY = 0 => FifoSends
<1>1. FifoAlone
    BY DEF FifoAlone
<1>2. /\ TXBUSY \in {0, 1} /\ FIFO_SEND_BUSY \in {0, 1}
      /\ FIFOSTS \in {"FIFO_IDLE", "FIFO_RD_WORD", "FIFO_SEND_START",
                      "WAIT_FIFO_SEND_END", "CHK_WORD_END"}
    BY Ranges
<1>3. Exclusive /\ Answering /\ (STS \in {"TRNS", "TRNS_END"} => TXBUSY = 1 \/ FIFO_SEND_BUSY = 1)
    BY DEF SInv, Senders
<1>4. CpuSends => /\ ~FifoSends /\ ~HostSends
                  /\ STS \in {"IDLE", "RECV_END", "TRNS", "TRNS_END"}
    BY <1>1, <1>3 DEF Exclusive, Answering
<1>5. ~FifoSends => FIFO_SEND_BUSY = 0 /\ FIFOSTS = "FIFO_IDLE"
    BY <1>2 DEF FifoSends
<1>6. FIFOSTS = "WAIT_FIFO_SEND_END" => FifoSends
    BY DEF FifoSends
<1>7. STS = "TRNS" /\ FIFOSTS # "WAIT_FIFO_SEND_END" => FIFO_SEND_BUSY = 0
    BY <1>1, <1>2, <1>3 DEF Exclusive
<1>8. STS \in {"TRNS", "TRNS_END"} /\ TXBUSY = 0 => FifoSends
    BY <1>2, <1>3 DEF FifoSends
<1> QED BY <1>3, <1>4, <1>5, <1>6, <1>7, <1>8

LEMMA AnsweringEdge ==
    ASSUME SInv, NEW a \in Accesses, NEW end \in BOOLEAN, NEW ready \in BOOLEAN,
           NEW latch \in BOOLEAN, Edging(a, end, ready, latch), CpuMoves(a), Recorded(a)
    PROVE  /\ TXreg' \in {"none", "cpu"} \X Nat /\ reply' \in Nat
           /\ Answering' /\ CpuCounted'
<1>1. TXreg' \in {"none", "cpu"} \X Nat /\ reply' \in Nat
    BY DEF SInv, Senders, CpuMoves
<1> SUFFICES ASSUME mixed' = {} PROVE Answering' /\ CpuCounted'
    BY <1>1 DEF Answering, CpuCounted
<1>2. mixed = {}
    BY DEF Edging
<1>3. /\ STS \in {"IDLE", "RECV", "WAIT_CPURD", "RECV_END", "TRNS", "TRNS_END"}
      /\ TXBUSY \in {0, 1} /\ RXIRQ_STS \in {0, 1} /\ phase \in {0, 1} /\ reply \in Nat
      /\ cpu \in {"idle", "wait_tx", "wait_rx", "chk_tx", "chk_rx", "write"}
      /\ (phase = 1 => STS \in {"RECV", "TRNS"})
    BY Ranges
<1>4. /\ cpu \in {"wait_rx", "chk_tx", "chk_rx", "write"} => TXBUSY = 0
      /\ TXBUSY = 1 => TXreg = <<"cpu", Begun>>
      /\ Cardinality(CpuAt) = IF Given THEN Begun ELSE Begun - 1
      /\ \A i \in CpuAt : out[i] = <<"cpu", Before(CpuAt, i) + 1>>
    BY <1>2 DEF SInv, Answering, CpuCounted
<1>5. out \in Seq(Bytes) /\ Begun \in Int
    BY <1>3 DEF SInv, Senders, Begun
<1>6. TXBUSY' = IF a = "wrTX" THEN 1 ELSE IF STS = "TRNS_END" THEN 0 ELSE TXBUSY
    BY DEF Edging, Edge, BusyFlags
<1>7. /\ phase' = IF STS \in {"RECV", "TRNS"} /\ ~end THEN (IF latch THEN 1 ELSE phase) ELSE 0
      /\ (end => STS \in {"RECV", "TRNS"} /\ phase = 1)
      /\ (latch => STS \in {"RECV", "TRNS"} /\ phase = 0)
      /\ out' = IF STS = "TRNS" /\ latch THEN Append(out, ft_txdata) ELSE out
    BY DEF Edging, Edge, Strobe
<1>8. CpuSends => /\ rx = <<>> /\ RXIRQ_STS = 0 /\ FIFO_SEND_BUSY = 0 /\ ~FifoSends
                  /\ FIFOSTS = "FIFO_IDLE" /\ STS \in {"IDLE", "RECV_END", "TRNS", "TRNS_END"}
    BY <1>2, <1>3, AnsweringAlone DEF HostSends
<1>9. STS' = IF STS = "IDLE" THEN (IF RX_RDYbit THEN "RECV"
                                   ELSE IF ready /\ (TXBUSY = 1 \/ FIFO_SEND_BUSY = 1) THEN "TRNS"
                                   ELSE "IDLE")
             ELSE IF STS = "RECV" THEN (IF end THEN "WAIT_CPURD" ELSE "RECV")
             ELSE IF STS = "WAIT_CPURD" THEN (IF a = "rdRX" THEN "RECV_END" ELSE STS)
             ELSE IF STS = "RECV_END" THEN "IDLE"
             ELSE IF STS = "TRNS" THEN (IF end THEN "TRNS_END" ELSE "TRNS") ELSE "IDLE"
    BY DEF Edging, Edge, MainSequencer
<1>10. CASE ~CpuSends
    <2>1. cpu = "idle" /\ TXBUSY = 0
        BY <1>3, <1>10 DEF CpuSends
    <2>2. a # "wrTX" /\ cpu' = "idle" /\ TXBUSY' = 0
        BY <1>6, <2>1 DEF CpuMoves
    <2>3. ~CpuSends' /\ Answering'
        BY <2>2 DEF Answering, CpuSends
    <2>4. Given /\ Given' /\ Begun' = Begun
        BY <2>1, <2>2 DEF Given, Begun, CpuMoves
    <2>5. CpuAt' = CpuAt /\ \A i \in CpuAt : out'[i] = out[i]
        <3>1. CASE STS = "TRNS" /\ latch
            <4>1. FIFOSTS = "WAIT_FIFO_SEND_END"
                BY <1>2, <2>1, <3>1, AnsweringAlone
            <4> DEFINE x == FifoByte(FIFO_Qreg, FIFO_BYTE_COUNT)
            <4>2. out' = Append(out, x) /\ x \in Bytes /\ x[1] = "fifo"
                BY <1>7, <3>1, <4>1, Ranges DEF ft_txdata, FifoByte, Bytes
            <4> HIDE DEF x
            <4> QED BY <1>5, <4>2, PlacesAdded, Places
        <3>2. CASE ~(STS = "TRNS" /\ latch)
            BY <1>7, <3>2 DEF CpuAt
        <3> QED BY <3>1, <3>2
    <2>6. CpuCounted'
        BY <1>4, <2>4, <2>5 DEF CpuCounted, Before
    <2> QED BY <2>3, <2>6
<1>11. CASE CpuSends
    <2>1. /\ rx = <<>> /\ RXIRQ_STS = 0 /\ FIFO_SEND_BUSY = 0 /\ FIFOSTS = "FIFO_IDLE"
          /\ STS \in {"IDLE", "RECV_END", "TRNS", "TRNS_END"} /\ ~RX_RDYbit
        BY <1>8, <1>11 DEF RX_RDYbit
    <2>2. a # "wrFIFO"
        BY <1>11 DEF Recorded
    <2>3. rx' = <<>> /\ RXIRQ_STS' = 0 /\ STS' \in {"IDLE", "TRNS", "TRNS_END"}
        BY <1>9, <2>1 DEF Edging, Edge, Strobe, RxInterrupt
    <2>4. ~HostSends' /\ STS' \in {"IDLE", "RECV_END", "TRNS", "TRNS_END"}
        BY <2>3 DEF HostSends
    <2>5. CASE a = "wrTX"
        <3>1. cpu = "write" /\ cpu' = "idle" /\ TXreg' = <<"cpu", reply>> /\ reply' = reply
            BY <2>5 DEF CpuMoves
        <3>2. TXBUSY = 0 /\ STS \notin {"TRNS", "TRNS_END"}
            BY <1>2, <1>4, <1>8, <1>11, <3>1, AnsweringAlone
        <3>3. TXBUSY' = 1 /\ STS' = "IDLE" /\ out' = out
            BY <1>6, <1>7, <1>9, <2>1, <2>5, <3>2
        <3>4. Begun = reply - 1 /\ Begun' = reply /\ Given /\ ~Given'
            BY <3>1, <3>2, <3>3 DEF Begun, Given, OnWire
        <3>5. Answering'
            BY <2>4, <3>1, <3>4 DEF Answering
        <3>6. CpuAt' = CpuAt /\ Cardinality(CpuAt) = Begun' - 1
            BY <1>3, <1>4, <3>3, <3>4 DEF CpuAt
        <3>7. CpuCounted'
            BY <1>4, <3>3, <3>4, <3>6 DEF CpuCounted, Before
        <3> QED BY <3>5, <3>7
    <2>6. CASE a # "wrTX"
        <3>1. TXreg' = TXreg /\ reply' = reply /\ TXBUSY' = IF STS = "TRNS_END" THEN 0 ELSE TXBUSY
            BY <1>6, <2>6 DEF CpuMoves
        <3>2. /\ Begun' = Begun
              /\ cpu' \in {"wait_rx", "chk_tx", "chk_rx", "write"} => TXBUSY = 0
            BY <1>3, <1>4, <2>1, <2>6, <3>1 DEF Begun, CpuMoves
        <3>3. Answering'
            BY <1>3, <1>4, <2>4, <3>1, <3>2 DEF Answering
        <3>4. CASE STS = "TRNS" /\ latch
            <4>1. TXBUSY = 1 /\ TXreg = <<"cpu", Begun>> /\ ~Given
                BY <1>2, <1>4, <1>7, <2>1, <3>4, AnsweringAlone DEF Given, OnWire
            <4>2. STS' = "TRNS" /\ phase' = 1 /\ Given'
                BY <1>7, <1>9, <3>4 DEF Given, OnWire
            <4>3. out' = Append(out, TXreg) /\ TXreg \in Bytes /\ TXreg[1] # "fifo"
                BY <1>7, <2>1, <3>4 DEF ft_txdata, SInv, Senders, Bytes
            <4>4. /\ out'[Len(out) + 1] = TXreg /\ CpuAt' = CpuAt \cup {Len(out) + 1}
                  /\ \A i \in 1..Len(out) : out'[i] = out[i]
                BY <1>5, <4>3, PlacesAdded
            <4>5. CpuAt \subseteq 1..Len(out) /\ Len(out) \in Nat
                BY <1>5, Places
            <4>6. /\ Cardinality(CpuAt') = Cardinality(CpuAt) + 1
                  /\ \A i \in CpuAt : Before(CpuAt', i) = Before(CpuAt, i)
                  /\ Before(CpuAt', Len(out) + 1) = Cardinality(CpuAt)
                BY <4>4, <4>5, Counting
            <4>7. Cardinality(CpuAt) + 1 = Begun
                BY <1>4, <1>5, <4>1
            <4>8. Cardinality(CpuAt') = IF Given' THEN Begun' ELSE Begun' - 1
                BY <3>2, <4>2, <4>6, <4>7
            <4>9. \A i \in CpuAt : out'[i] = <<"cpu", Before(CpuAt', i) + 1>>
                BY <1>4, <4>4, <4>5, <4>6
            <4>10. out'[Len(out) + 1] = <<"cpu", Before(CpuAt', Len(out) + 1) + 1>>
                BY <4>1, <4>4, <4>6, <4>7
            <4>11. CpuCounted'
                BY <4>4, <4>8, <4>9, <4>10 DEF CpuCounted, Before
            <4> QED BY <3>3, <4>11
        <3>5. CASE ~(STS = "TRNS" /\ latch)
            <4>1. out' = out /\ CpuAt' = CpuAt
                BY <1>7, <3>5 DEF CpuAt
            <4>2. Given' = Given
                <5>1. CASE TXBUSY = 0
                    BY <3>1, <5>1 DEF Given
                <5>2. CASE TXBUSY = 1 /\ STS = "TRNS_END"
                    BY <3>1, <5>2 DEF Given
                <5>3. CASE TXBUSY = 1 /\ STS = "TRNS" /\ end
                    BY <1>7, <1>9, <5>3 DEF Given, OnWire
                <5>4. CASE TXBUSY = 1 /\ STS = "TRNS" /\ ~end
                    BY <1>7, <1>9, <3>1, <3>5, <5>4 DEF Given, OnWire
                <5>5. CASE TXBUSY = 1 /\ STS \notin {"TRNS", "TRNS_END"}
                    BY <1>7, <1>9, <2>1, <3>1, <5>5 DEF Given, OnWire
                <5> QED BY <1>3, <5>1, <5>2, <5>3, <5>4, <5>5
            <4>3. CpuCounted'
                BY <1>4, <3>2, <4>1, <4>2 DEF CpuCounted, Before
            <4> QED BY <3>3, <4>3
        <3> QED BY <3>4, <3>5
    <2> QED BY <2>5, <2>6
<1> QED BY <1>1, <1>10, <1>11

---------------------------------------------------------------------------
LEMMA SentEdge ==
    ASSUME SInv, IInv', NEW a \in Accesses, NEW end \in BOOLEAN, NEW ready \in BOOLEAN,
           NEW latch \in BOOLEAN, Edging(a, end, ready, latch), CpuMoves(a), Recorded(a)
    PROVE  SInv'
<1>1. words \in 0..MaxWords
    BY DEF SInv, IInv, TypeOK
<1>2. Words' /\ Exclusive' /\ Answering' /\ CpuCounted'
    BY <1>1, WordsEdge, ExclusiveEdge, AnsweringEdge
<1>3. Ordered' /\ FifoCounted' /\ out' \in Seq(Bytes)
    BY <1>1, FifoEdge
<1>4. Senders'
    BY <1>3, BusyEdge, AnsweringEdge DEF Senders
<1> QED BY <1>2, <1>3, <1>4 DEF SInv

LEMMA SentClock ==
    ASSUME SInv, IInv', NEW a \in Accesses, Clock(a), mixed \subseteq mixed',
           words' = words + (IF a = "wrFIFO" THEN 1 ELSE 0), CpuMoves(a), Recorded(a)
    PROVE  SInv'
<1>1. PICK end, ready, latch \in BOOLEAN : Edge(a, end, ready, latch)
    BY DEF Clock
<1>2. Edging(a, end, ready, latch)
    BY <1>1 DEF Edging
<1> QED BY <1>2, SentEdge

LEMMA SentInit == Init => SInv
<1> SUFFICES ASSUME Init PROVE SInv
    OBVIOUS
<1>1. IInv
    BY InitIInv
<1>2. Len(fifo) = 0 /\ words = 0 /\ Popped = 0
    <2>1. fifo = <<>> /\ words = 0
        BY DEF Init
    <2>2. Len(fifo) = 0
        BY <2>1
    <2>3. Popped = 0 - 0
        BY ONLY <2>1, <2>2 DEF Popped
    <2> QED BY <2>1, <2>2, <2>3
<1>3. Words
    BY <1>2 DEF Init, Words
<1>4. out = <<>> /\ out \in Seq(Bytes) /\ FifoAt = {} /\ CpuAt = {}
    BY DEF Init, FifoAt, CpuAt
<1>5. Cardinality({}) = 0
    BY FS_EmptySet
<1>6. Due = 0 /\ Begun = 0 /\ Given
    BY <1>2 DEF Init, Due, Begun, Given
<1>7. Senders
    BY <1>4 DEF Init, Senders, NoByte
<1>8. Ordered /\ FifoCounted /\ CpuCounted
    BY <1>4, <1>5, <1>6 DEF Ordered, FifoNeverRepeats, FifoCounted, CpuCounted
<1>9. ~FifoSends /\ ~CpuSends
    BY DEF Init, FifoSends, CpuSends, FIFO_EMPTY
<1>10. Exclusive /\ Answering
    BY <1>9 DEF Init, Exclusive, Answering
<1> QED BY <1>1, <1>3, <1>7, <1>8, <1>10 DEF SInv

\* Nothing but the host's or the CPU's part of the state changes.
LEMMA SentStill ==
    ASSUME SInv, UNCHANGED <<seqVars, fifoVars, words, out>>
    PROVE  /\ Words' /\ Ordered' /\ Due' = Due /\ FifoAt' = FifoAt /\ CpuAt' = CpuAt
           /\ FifoSends' = FifoSends /\ Given' = Given
<1>1. /\ STS' = STS /\ phase' = phase /\ TXBUSY' = TXBUSY /\ FIFOSTS' = FIFOSTS
      /\ FIFO_SEND_BUSY' = FIFO_SEND_BUSY /\ FIFO_BYTE_COUNT' = FIFO_BYTE_COUNT
      /\ FIFO_Qreg' = FIFO_Qreg /\ fifo' = fifo /\ words' = words /\ out' = out
    BY DEF seqVars, fifoVars
<1>2. Popped' = Popped /\ OnWire' = OnWire /\ FifoAt' = FifoAt /\ CpuAt' = CpuAt
    BY <1>1 DEF Popped, OnWire, FifoAt, CpuAt
<1>3. Due' = Due /\ Given' = Given /\ FifoSends' = FifoSends
    BY <1>1, <1>2 DEF Due, Given, FifoSends, FIFO_EMPTY
<1>4. Words' /\ Ordered'
    BY <1>1, <1>2, <1>3 DEF SInv, Words, Ordered, FifoNeverRepeats
<1> QED BY <1>2, <1>3, <1>4

LEMMA SentStep == SInv /\ [Next]_vars => SInv'
<1> SUFFICES ASSUME SInv, [Next]_vars PROVE SInv'
    OBVIOUS
<1>0. IInv'
    BY Step DEF SInv
<1>1. CASE Quiet
    <2>1. CpuMoves("none") /\ Recorded("none") /\ Clock("none") /\ mixed' = mixed /\ words' = words
        BY <1>1 DEF Quiet, cpuVars, CpuMoves, Recorded
    <2>2. words' = words + 0
        BY <2>1, Ranges
    <2> QED BY <1>0, <2>1, <2>2, SentClock DEF Accesses
<1>2. CASE HostByte
    <2>1. /\ UNCHANGED <<seqVars, fifoVars, cpuVars, rxVars, words, out>> /\ mixed \subseteq mixed'
          /\ FifoSends => "rx/fifo" \in mixed'
          /\ CpuSends => "rx/tx" \in mixed'
        BY <1>2 DEF HostByte, Overlapping, With, cpuVars
    <2>2. FifoAlone' => FifoAlone /\ ~FifoSends
        BY <2>1 DEF FifoAlone
    <2>3. /\ Words' /\ Ordered' /\ Due' = Due /\ FifoAt' = FifoAt /\ CpuAt' = CpuAt
          /\ FifoSends' = FifoSends /\ Given' = Given
        BY <2>1, SentStill
    <2>4. Senders'
        BY <2>1 DEF SInv, Senders, seqVars, fifoVars, cpuVars
    <2>5. Exclusive'
        BY <2>1, <2>2, <2>3 DEF SInv, Exclusive, seqVars, fifoVars
    <2>6. FifoCounted'
        BY <2>1, <2>2, <2>3 DEF SInv, FifoCounted, Before
    <2>7. mixed' = {} => mixed = {} /\ ~CpuSends
        BY <2>1
    <2>8. CpuSends' = CpuSends /\ Begun' = Begun
        BY <2>1 DEF CpuSends, Begun, cpuVars, seqVars
    <2>9. Answering'
        BY <2>1, <2>7, <2>8 DEF SInv, Answering, seqVars, cpuVars
    <2>10. CpuCounted'
        BY <2>1, <2>3, <2>7, <2>8 DEF SInv, CpuCounted, Before
    <2> QED BY <1>0, <2>3, <2>4, <2>5, <2>6, <2>9, <2>10 DEF SInv
<1>3. CASE DmaWord
    <2>1. /\ CpuMoves("wrFIFO") /\ Recorded("wrFIFO") /\ Clock("wrFIFO")
          /\ mixed \subseteq mixed' /\ words' = words + 1
        BY <1>3 DEF DmaWord, Overlapping, With, CpuMoves, Recorded
    <2> QED BY <1>0, <2>1, SentClock DEF Accesses
<1>4. CASE Isr
    <2>1. CpuMoves("rdRX") /\ Recorded("rdRX") /\ Clock("rdRX") /\ mixed' = mixed /\ words' = words
        BY <1>4 DEF Isr, cpuVars, CpuMoves, Recorded
    <2>2. words' = words + 0
        BY <2>1, Ranges
    <2> QED BY <1>0, <2>1, <2>2, SentClock DEF Accesses
<1>5. CASE NextChar
    <2>1. /\ UNCHANGED <<seqVars, fifoVars, rxVars, words, rx, out>> /\ mixed \subseteq mixed'
          /\ FifoSends => "tx/fifo" \in mixed'
          /\ HostSends => "rx/tx" \in mixed'
          /\ cpu = "idle" /\ cpu' = "wait_tx" /\ reply' = reply + 1
        BY <1>5 DEF NextChar, Overlapping, With
    <2>2. FifoAlone' => FifoAlone /\ ~FifoSends
        BY <2>1 DEF FifoAlone
    <2>3. /\ Words' /\ Ordered' /\ Due' = Due /\ FifoAt' = FifoAt /\ CpuAt' = CpuAt
          /\ FifoSends' = FifoSends /\ Given' = Given
        BY <2>1, SentStill
    <2>4. Senders'
        BY <2>1 DEF SInv, Senders, seqVars, fifoVars
    <2>5. Exclusive'
        BY <2>1, <2>2, <2>3 DEF SInv, Exclusive, seqVars, fifoVars
    <2>6. FifoCounted'
        BY <2>1, <2>2, <2>3 DEF SInv, FifoCounted, Before
    <2>7. mixed' = {} => mixed = {} /\ ~HostSends
        BY <2>1
    <2>8. Begun = reply /\ Begun' = reply /\ HostSends' = HostSends
        BY <2>1, Ranges DEF Begun, HostSends, seqVars, rxVars
    <2>9. Answering'
        <3>1. ~HostSends => STS \in {"IDLE", "RECV_END", "TRNS", "TRNS_END"}
            BY Ranges DEF HostSends
        <3> QED BY <2>1, <2>7, <2>8, <3>1 DEF SInv, Answering, seqVars
    <2>10. CpuCounted'
        BY <2>1, <2>3, <2>7, <2>8 DEF SInv, CpuCounted, Before
    <2> QED BY <1>0, <2>3, <2>4, <2>5, <2>6, <2>9, <2>10 DEF SInv
<1>6. CASE SendBlock
    <2>1. CASE WriteTx
        <3>1. /\ CpuMoves("wrTX") /\ Recorded("wrTX") /\ Clock("wrTX") /\ mixed' = mixed
              /\ words' = words
            BY <2>1 DEF WriteTx, CpuMoves, Recorded
        <3>2. words' = words + 0
            BY <3>1, Ranges
        <3> QED BY <1>0, <3>1, <3>2, SentClock DEF Accesses
    <2>2. CASE WaitTx \/ WaitRx \/ ChkTx \/ ChkRx
        <3>1. CpuMoves("none") /\ Recorded("none") /\ Clock("none") /\ mixed' = mixed /\ words' = words
            BY <2>2 DEF WaitTx, WaitRx, ChkTx, ChkRx, CpuReads, CpuMoves, Recorded
        <3>2. words' = words + 0
            BY <3>1, Ranges
        <3> QED BY <1>0, <3>1, <3>2, SentClock DEF Accesses
    <2> QED BY <1>6, <2>1, <2>2 DEF SendBlock
<1>7. CASE UNCHANGED vars
    <2>1. UNCHANGED <<seqVars, fifoVars, rxVars, cpuVars, rx, out, mixed, words>>
        BY <1>7 DEF vars, cpuVars
    <2>2. /\ Words' /\ Ordered' /\ Due' = Due /\ FifoAt' = FifoAt /\ CpuAt' = CpuAt
          /\ FifoSends' = FifoSends /\ Given' = Given
        BY <2>1, SentStill
    <2>3. CpuSends' = CpuSends /\ HostSends' = HostSends /\ Begun' = Begun /\ FifoAlone' = FifoAlone
        BY <2>1 DEF CpuSends, HostSends, Begun, FifoAlone, seqVars, rxVars, cpuVars
    <2>4. Senders' /\ Exclusive' /\ Answering'
        BY <2>1, <2>2, <2>3 DEF SInv, Senders, Exclusive, Answering, seqVars, fifoVars, cpuVars
    <2>5. FifoCounted' /\ CpuCounted'
        BY <2>1, <2>2, <2>3 DEF SInv, FifoCounted, CpuCounted, Before
    <2> QED BY <1>0, <2>2, <2>4, <2>5 DEF SInv
<1> QED BY <1>1, <1>2, <1>3, <1>4, <1>5, <1>6, <1>7 DEF Next

\* The inductive invariant of the sending half: which byte is due, and who has
\* the main sequencer.
THEOREM SendingInvariance == Spec => []SInv
<1> QED BY SentInit, SentStep, PTL DEF Spec

\* As long as nothing overlaps with them, the bytes of the DMA's words leave in
\* order, none lost and none repeated, and the same of the CPU's bytes until
\* anything overlaps (FIFO_BYTE_COUNT, TXBUSY, FIFO_SEND_BUSY).
THEOREM InOrderOut == Spec => []SentInOrder
<1>1. SInv => SentInOrder
    BY DEF SInv, FifoCounted, CpuCounted, SentInOrder
<1> QED BY <1>1, SendingInvariance, PTL

\* Whatever overlaps, no byte of a word is repeated and none overtakes another.
THEOREM NeverRepeats == Spec => []FifoNeverRepeats
<1>1. SInv => FifoNeverRepeats
    BY DEF SInv, Ordered
<1> QED BY <1>1, SendingInvariance, PTL
=============================================================================
