-------------------------- MODULE HostCommand_proofs -------------------------
(***************************************************************************)
(* Proofs about HostCommand, for any set of frames and any noise: type     *)
(* correctness and the ranges of what is executed, whether the host waits  *)
(* or not; and, with a host that waits for its answers, that the frame is  *)
(* executed as it was sent and the exchange is implemented.                *)
(***************************************************************************)
EXTENDS HostCommand, SequenceTheorems, TLAPS

---------------------------------------------------------------------------
(* The conversions. *)

\* Four digits make at most sixteen bits.
LEMMA FourDigits ==
    ASSUME NEW a \in Int, NEW b \in Int, NEW c \in Int, NEW d \in Int,
           0 <= a, a <= 15, 0 <= b, b <= 15, 0 <= c, c <= 15, 0 <= d, d <= 15,
           NEW x, x = (4096 * a) + (256 * b) + (16 * c) + d
    PROVE  x \in Int /\ 0 <= x /\ x < 65536
BY SMT

LEMMA HexDigit == \A c : IsHex(c) => c \in Int /\ 0 <= c /\ c <= 15
BY DEF IsHex

LEMMA ParameterRange ==
    ASSUME NEW f, NEW name, Parameter(name, f) # -1
    PROVE  Parameter(name, f) \in Nat /\ Parameter(name, f) < 65536
<1>1. ASSUME AsciiHex2char(f) # -1
      PROVE  AsciiHex2char(f) \in Nat /\ AsciiHex2char(f) < 65536
    <2>1. IsHex(Param(f, 0)) /\ IsHex(Param(f, 1))
        BY <1>1 DEF AsciiHex2char
    <2> DEFINE x == Param(f, 0)
               y == Param(f, 1)
    <2>2. x \in Int /\ 0 <= x /\ x <= 15 /\ y \in Int /\ 0 <= y /\ y <= 15
        BY <2>1, HexDigit
    <2>3. AsciiHex2char(f) = 16 * x + y
        BY <2>1 DEF AsciiHex2char
    <2> HIDE DEF x, y
    <2> QED BY <2>2, <2>3
<1>2. ASSUME AsciiHex2uint16(f) # -1
      PROVE  AsciiHex2uint16(f) \in Nat /\ AsciiHex2uint16(f) < 65536
    <2>1. \A i \in 0..3 : IsHex(Param(f, i))
        BY <1>2 DEF AsciiHex2uint16
    <2> DEFINE P(i) == Param(f, i)
    <2>2. \A i \in 0..3 : P(i) \in Int /\ 0 <= P(i) /\ P(i) <= 15
        BY <2>1, HexDigit
    <2>3. AsciiHex2uint16(f) = (4096 * P(0)) + (256 * P(1)) + (16 * P(2)) + P(3)
        BY <2>1 DEF AsciiHex2uint16
    <2> HIDE DEF P
    <2>4. AsciiHex2uint16(f) \in Int /\ 0 <= AsciiHex2uint16(f) /\ AsciiHex2uint16(f) < 65536
        BY <2>2, <2>3, FourDigits
    <2> QED BY <2>4
<1> QED BY <1>1, <1>2 DEF Parameter

LEMMA NobodyIsNoFrame == Nobody \notin Frames
<1>1. \A f \in [1..FrameLength -> Chars \ {OPEN, CLOSE}] : f # <<>>
    <2> SUFFICES ASSUME NEW f \in [1..FrameLength -> Chars \ {OPEN, CLOSE}], f = <<>>
                 PROVE  FALSE
        OBVIOUS
    <2>1. DOMAIN f = 1..8
        BY DEF FrameLength
    <2>2. Len(f) = 0
        OBVIOUS
    <2>3. DOMAIN f = 1..0
        OBVIOUS
    <2> QED BY <2>1, <2>3
<1> QED BY <1>1, HostAssumption DEF Nobody

\* What the host puts on the wire for a frame.
Framed(f) == (<<OPEN>> \o f) \o <<CLOSE>>

LEMMA Enclosed ==
    ASSUME NEW f \in Seq(Chars), NEW o \in Chars, NEW c \in Chars
    PROVE  LET w == (<<o>> \o f) \o <<c>> IN
           /\ w \in Seq(Chars) /\ Len(w) = Len(f) + 2 /\ w[1] = o /\ w[Len(f) + 2] = c
           /\ \A i \in 1..Len(f) : w[i + 1] = f[i]
OBVIOUS

LEMMA FunctionIsSeq ==
    ASSUME NEW C, NEW n \in Nat, NEW f \in [1..n -> C] PROVE f \in Seq(C) /\ Len(f) = n
<1>1. f \in Seq(C)
    BY SeqDef
<1> QED BY <1>1

LEMMA FramedBytes ==
    ASSUME NEW f \in Frames
    PROVE  /\ Framed(f) \in Seq(Chars) /\ Len(Framed(f)) = FrameLength + 2
           /\ Framed(f)[1] = OPEN /\ Framed(f)[FrameLength + 2] = CLOSE
           /\ \A i \in 1..FrameLength : Framed(f)[i + 1] = f[i]
           /\ f \in [1..FrameLength -> Chars \ {OPEN, CLOSE}]
<1>1. f \in [1..FrameLength -> Chars \ {OPEN, CLOSE}]
    BY HostAssumption
<1>2. f \in Seq(Chars) /\ Len(f) = FrameLength
    <2>1. FrameLength \in Nat /\ f \in [1..FrameLength -> Chars]
        BY <1>1 DEF FrameLength
    <2> QED BY ONLY <2>1, FunctionIsSeq
<1>3. OPEN \in Chars /\ CLOSE \in Chars
    BY DEF OPEN, CLOSE, Chars
<1> QED BY <1>1, <1>2, <1>3, Enclosed DEF Framed

LEMMA TailOfWire ==
    ASSUME NEW w \in Seq(Chars), w # <<>>
    PROVE  /\ Tail(w) \in Seq(Chars) /\ Head(w) \in Chars /\ Head(w) = w[1]
           /\ Len(w) \in Nat \ {0} /\ Len(Tail(w)) = Len(w) - 1
           /\ \A i \in 1..(Len(w) - 1) : Tail(w)[i] = w[i + 1]
OBVIOUS

---------------------------------------------------------------------------
(* Type correctness, whatever the host does. *)

LEMMA NamesAndCodes ==
    /\ <<>> \in Names /\ <<G, W>> \in Names
    /\ NoResponse \in [cmd : Names, code : Codes] /\ NoOne \in [op : Names, value : Nat] /\ NoOne.value < 65536
    /\ \A f \in [1..FrameLength -> Chars] : Name(f) \in Names
<1>1. /\ <<>> \in Names /\ <<G, W>> \in Names
    BY DEF Names, Chars, G, W
<1>2. ASSUME NEW f \in [1..FrameLength -> Chars] PROVE Name(f) \in Names
    BY DEF Name, Names, FrameLength
<1> QED BY <1>1, <1>2 DEF NoResponse, NoOne, Codes

LEMMA TypeInit == Init => TypeOK
<1> SUFFICES ASSUME Init PROVE TypeOK
    OBVIOUS
<1>1. wire \in Seq(Chars) /\ RcvCnt \in 0..FrameLength /\ noise \in 0..MaxNoise
    BY HostAssumption DEF Init, FrameLength
<1>2. RecvBuf \in [1..FrameLength -> Chars] /\ CmdBuf \in [1..FrameLength -> Chars]
    BY DEF Init, Chars
<1> QED BY <1>1, <1>2, NamesAndCodes DEF Init, TypeOK

LEMMA TypeStep == TypeOK /\ [Next]_vars => TypeOK'
<1> SUFFICES ASSUME TypeOK, [Next]_vars PROVE TypeOK'
    OBVIOUS
<1>1. ASSUME NEW f \in Frames, SendFrame(f) PROVE TypeOK'
    <2>1. wire' \in Seq(Chars)
        BY <1>1, FramedBytes DEF SendFrame, Framed
    <2>2. noise' \in 0..MaxNoise
        BY <1>1, HostAssumption DEF SendFrame
    <2> QED BY <1>1, <2>1, <2>2 DEF SendFrame, isrVars, taskVars, TypeOK
<1>2. ASSUME NEW c \in Noise, MakeNoise(c) PROVE TypeOK'
    <2>1. wire' \in Seq(Chars)
        BY <1>2, HostAssumption DEF MakeNoise
    <2>2. noise' \in 0..MaxNoise
        BY <1>2, HostAssumption DEF MakeNoise, TypeOK
    <2> QED BY <1>2, <2>1, <2>2 DEF MakeNoise, isrVars, taskVars, history, TypeOK
<1>3. CASE Interrupt
    <2>1. wire' \in Seq(Chars) /\ Head(wire) \in Chars
        BY <1>3, TailOfWire DEF Interrupt, TypeOK
    <2>2. RcvCnt \in 0..FrameLength /\ RecvBuf \in [1..FrameLength -> Chars]
          /\ CmdBuf \in [1..FrameLength -> Chars]
        BY DEF TypeOK
    <2>3. /\ RcvCnt' \in 0..FrameLength
          /\ RecvBuf' \in [1..FrameLength -> Chars] /\ CmdBuf' \in [1..FrameLength -> Chars]
        BY <1>3, <2>1, <2>2 DEF Interrupt, CmndSeq, FrameLength
    <2>4. RecvSeq' \in {"IDLE", "CMND", "COMPLETE", "CMDERROR"}
        BY <1>3 DEF Interrupt, CmndSeq, TypeOK
    <2> QED BY <1>3, <2>1, <2>3, <2>4 DEF Interrupt, taskVars, history, TypeOK
<1>4. CASE HostStsChk
    BY <1>4 DEF HostStsChk, Goto, hostVars, isrVars, history, TypeOK
<1>5. CASE ResetCount
    BY <1>5 DEF ResetCount, Goto, hostVars, history, FrameLength, TypeOK
<1>6. CASE ResetSeq
    BY <1>6 DEF ResetSeq, hostVars, history, TypeOK
<1>7. CASE Check
    <2>1. RspBuf' \in [cmd : Names, code : Codes]
        BY <1>7, NamesAndCodes DEF Check, Codes, TypeOK
    <2> QED BY <1>7, <2>1 DEF Check, hostVars, isrVars, history, TypeOK
<1>8. CASE Dispatch
    BY <1>8, NamesAndCodes DEF Dispatch, hostVars, isrVars, history, TypeOK
<1>9. CASE Execute
    <2>1. op \in Names
        BY DEF TypeOK
    <2>2. RspBuf' \in [cmd : Names, code : Codes]
        BY <1>9, <2>1, NamesAndCodes DEF Execute, Codes
    <2>3. executed' \in [op : Names, value : Nat] /\ executed'.value < 65536
        BY <1>9, <2>1, ParameterRange DEF Execute, TypeOK
    <2> QED BY <1>9, <2>2, <2>3 DEF Execute, hostVars, isrVars, TypeOK
<1>10. CASE Reply
    BY <1>10, NamesAndCodes DEF Reply, Goto, isrVars, TypeOK
<1>11. CASE UNCHANGED vars
    BY <1>11 DEF vars, hostVars, isrVars, taskVars, history, TypeOK
<1> QED BY <1>1, <1>2, <1>3, <1>4, <1>5, <1>6, <1>7, <1>8, <1>9, <1>10, <1>11
        DEF Next, task_main

\* Every variable of the interface stays in its range; the receive buffer
\* is never written past its end (CmndSeq).
THEOREM TypeCorrect == Spec => []TypeOK
<1> QED BY TypeInit, TypeStep, PTL DEF Spec

LEMMA RangesStep ==
    TypeOK /\ ParametersInRange /\ [Next]_vars => ParametersInRange'
<1> SUFFICES ASSUME TypeOK, ParametersInRange, [Next]_vars
             PROVE  ParametersInRange'
    OBVIOUS
<1>1. CASE UNCHANGED executed
    BY <1>1 DEF ParametersInRange
<1>2. CASE Execute
    <2>1. CASE executed' = executed
        BY <2>1 DEF ParametersInRange
    <2>2. CASE executed' = [op |-> op, value |-> Parameter(op, CmdBuf)]
               /\ Parameter(op, CmdBuf) # -1
        <3>1. op = <<S, G>> => Parameter(op, CmdBuf) \in 0..7
            BY <2>2 DEF Parameter, S, G, I, W
        <3>2. op = <<S, 15>> => Parameter(op, CmdBuf) \in 0..1
            BY <2>2 DEF Parameter, S, G, I, W
        <3> QED BY <2>2, <3>1, <3>2 DEF ParametersInRange
    <2> QED BY <1>2, <2>1, <2>2 DEF Execute
<1>3. CASE Reply
    BY <1>3 DEF Reply, NoOne, ParametersInRange, S, G
<1> QED
    BY <1>1, <1>2, <1>3
    DEF Next, task_main, SendFrame, MakeNoise, Interrupt, HostStsChk, ResetCount, ResetSeq,
        Check, Dispatch, vars, taskVars, history

\* Whatever frame replaces another between its check and its execution, the
\* recorder never gets a gain above 7 or a third frequency (Execute).
THEOREM Ranges == Spec => []ParametersInRange
<1>1. Init => ParametersInRange
    BY DEF Init, NoOne, ParametersInRange, S, G
<1> QED BY <1>1, RangesStep, TypeCorrect, PTL DEF Spec

---------------------------------------------------------------------------
(* A host that waits for its answers.  Nothing about the exchange is       *)
(* inductive by itself: that a complete frame is the one sent depends on   *)
(* how many of its characters have come, and that no noise is taken for a  *)
(* frame on how few of them there can be.                                  *)

\* No frame is under way; what noise has left behind is short of one.
Between ==
    /\ tpc \in {"check", "taken", "reset"} /\ (tpc # "check" => flag = 0)
    /\ RecvSeq # "COMPLETE" /\ RcvCnt + Len(wire) <= noise

\* The last characters of f are still on the wire, the others in RecvBuf.
Receiving(f) ==
    /\ tpc = "check" /\ wire # <<>> /\ Len(wire) <= FrameLength + 2
    /\ \A j \in 1..Len(wire) : wire[j] = Framed(f)[FrameLength + 2 - Len(wire) + j]
    /\ Len(wire) = FrameLength + 2 => RecvSeq \in {"IDLE", "CMND"}
    /\ Len(wire) < FrameLength + 2 =>
         /\ RecvSeq = "CMND" /\ RcvCnt = FrameLength + 1 - Len(wire)
         /\ \A i \in 1..RcvCnt : RecvBuf[i] = f[i]

\* The frame is complete, and its count and state are being reset.
Complete(f) ==
    /\ wire = <<>> /\ CmdBuf = f
    /\ \/ tpc = "check" /\ RecvSeq = "COMPLETE"
       \/ tpc = "taken" /\ flag = 1
       \/ tpc = "reset" /\ flag = 1 /\ RcvCnt = 0

\* It is checked, executed and answered.
Serving(f) ==
    /\ wire = <<>> /\ CmdBuf = f /\ RecvSeq = "IDLE" /\ RcvCnt = 0
    /\ tpc \in {"command", "execute", "parameter", "reply"}
    /\ tpc \in {"execute", "parameter"} => CommandChk(f) = 0
    /\ tpc = "parameter" => op = Name(f)
    /\ tpc = "reply" => RspBuf \in Answers(f)

Served(f) == Receiving(f) \/ Complete(f) \/ Serving(f)
Waits == IF pending = Nobody THEN Between ELSE Served(pending)
IInv == TypeOK /\ Waits

LEMMA SendStep ==
    ASSUME IInv, ~Pipelined, NEW f \in Frames, SendFrame(f) PROVE Waits'
<1>1. /\ pending' = f /\ f # Nobody /\ tpc' = "check" /\ RecvSeq' \in {"IDLE", "CMND"}
      /\ wire' = Framed(f)
    BY NobodyIsNoFrame DEF SendFrame, Calm, Framed, isrVars, taskVars
<1>2. Framed(f) \in Seq(Chars) /\ Len(Framed(f)) = FrameLength + 2
    BY FramedBytes
<1>3. wire' # <<>>
    <2>1. Len(Framed(f)) # 0 /\ Len(<<>>) = 0
        BY <1>2 DEF FrameLength
    <2> QED BY <1>1, <2>1
<1>4. Receiving(f)'
    BY <1>1, <1>2, <1>3 DEF Receiving, FrameLength
<1> QED BY <1>1, <1>4 DEF Waits, Served, Receiving

LEMMA NoiseStep ==
    ASSUME IInv, ~Pipelined, NEW c \in Noise, MakeNoise(c) PROVE Waits'
<1>1. pending = Nobody /\ pending' = pending /\ wire = <<>> /\ wire' = <<c>> /\ noise' = noise + 1
      /\ UNCHANGED <<tpc, flag, RecvSeq, RcvCnt>>
    BY DEF MakeNoise, isrVars, taskVars
<1>2. Len(wire) = 0 /\ Len(wire') = 1
    BY <1>1
<1>3. RcvCnt \in Nat /\ noise \in Nat
    BY HostAssumption DEF IInv, TypeOK, FrameLength
<1> QED BY <1>1, <1>2, <1>3 DEF IInv, Waits, Between

LEMMA InterruptStep == ASSUME IInv, ~Pipelined, Interrupt PROVE Waits'
<1> DEFINE c == Head(wire)
<1>1. /\ wire # <<>> /\ wire' = Tail(wire) /\ CmndSeq(c)
      /\ UNCHANGED <<pending, noise, tpc, flag, op, RspBuf>>
    BY DEF Interrupt, taskVars
<1>2. /\ wire \in Seq(Chars) /\ RcvCnt \in 0..FrameLength
      /\ RecvBuf \in [1..FrameLength -> Chars]
    BY DEF IInv, TypeOK
<1>3. /\ c = wire[1] /\ Len(wire) \in Nat \ {0} /\ wire' \in Seq(Chars)
      /\ Len(wire') = Len(wire) - 1
      /\ \A i \in 1..(Len(wire) - 1) : wire'[i] = wire[i + 1]
    BY <1>1, <1>2, TailOfWire
<1> HIDE DEF c
<1>4. CASE pending = Nobody
    <2>1. noise \in Nat /\ noise <= FrameLength
        <3>1. noise \in 0..MaxNoise
            BY DEF IInv, TypeOK
        <3> QED BY <3>1, HostAssumption DEF FrameLength
    <2>2. Between
        BY <1>4 DEF IInv, Waits
    <2>3. RecvSeq' # "COMPLETE" /\ RcvCnt' <= RcvCnt + 1 /\ RcvCnt' \in Nat
        BY <1>1, <1>2, <1>3, <2>1, <2>2 DEF CmndSeq, Between, FrameLength
    <2>4. RcvCnt' + Len(wire') <= noise'
        <3>1. noise' = noise /\ RcvCnt + Len(wire) <= noise /\ RcvCnt \in Nat
            BY <1>1, <1>2, <2>2 DEF Between, FrameLength
        <3> QED BY <1>3, <2>1, <2>3, <3>1
    <2>5. Between'
        BY <1>1, <2>2, <2>3, <2>4 DEF Between
    <2> QED BY <1>1, <1>4, <2>5 DEF Waits
<1>5. CASE pending # Nobody
    <2>1. PICK f \in Frames : f = pending /\ Receiving(f)
        BY <1>1, <1>5 DEF IInv, TypeOK, Waits, Served, Complete, Serving
    <2> DEFINE k == Len(wire)
    <2>2. /\ Framed(f)[1] = OPEN /\ Framed(f)[FrameLength + 2] = CLOSE
          /\ \A i \in 1..FrameLength : Framed(f)[i + 1] = f[i]
          /\ f \in [1..FrameLength -> Chars \ {OPEN, CLOSE}]
        BY <2>1, FramedBytes
    <2>3. k \in 1..10 /\ c = Framed(f)[11 - k]
        <3>1. k \in Nat \ {0} /\ k <= 10
            BY <1>3, <2>1 DEF Receiving, FrameLength
        <3>2. wire[1] = Framed(f)[FrameLength + 2 - k + 1]
            BY <2>1, <3>1 DEF Receiving
        <3>3. FrameLength + 2 - k + 1 = 11 - k
            BY <3>1 DEF FrameLength
        <3>4. Framed(f)[FrameLength + 2 - k + 1] = Framed(f)[11 - k]
            BY <3>3
        <3> HIDE DEF k
        <3>5. k \in 1..10
            BY <3>1
        <3> QED BY <1>3, <3>2, <3>4, <3>5
    <2>4. \A j \in 1..(k - 1) : wire'[j] = Framed(f)[FrameLength + 2 - (k - 1) + j]
        <3> SUFFICES ASSUME NEW j \in 1..(k - 1)
                     PROVE  wire'[j] = Framed(f)[FrameLength + 2 - (k - 1) + j]
            OBVIOUS
        <3>1. wire'[j] = wire[j + 1] /\ j + 1 \in 1..k
            BY <1>3
        <3>2. wire[j + 1] = Framed(f)[FrameLength + 2 - k + (j + 1)]
            BY <2>1, <3>1 DEF Receiving
        <3>3. FrameLength + 2 - k + (j + 1) = FrameLength + 2 - (k - 1) + j
            BY <1>3 DEF FrameLength
        <3> QED BY <3>1, <3>2, <3>3
    <2>5. Len(wire') = k - 1
        BY <1>3
    <2>6. k > 1 => wire' # <<>>
        BY <2>3, <2>5
    <2>10. tpc' = "check" /\ pending' = f
        BY <1>1, <2>1 DEF Receiving
    <2> HIDE DEF k
    <2>7. CASE k = 10
        <3>1. c = OPEN
            BY <2>2, <2>3, <2>7
        <3>2. RcvCnt' = 0 /\ RecvSeq' = "CMND"
            BY <1>1, <3>1 DEF CmndSeq, OPEN, CLOSE
        <3>3. Receiving(f)'
            BY <2>4, <2>5, <2>6, <2>7, <2>10, <3>2 DEF Receiving, FrameLength
        <3> QED BY <1>5, <2>1, <2>10, <3>3 DEF Waits, Served, Receiving
    <2>8. CASE k \in 2..9
        <3>1. c = f[10 - k] /\ c \notin {OPEN, CLOSE}
            <4>1. 10 - k \in 1..FrameLength /\ (10 - k) + 1 = 11 - k
                BY <2>8 DEF FrameLength
            <4>2. Framed(f)[(10 - k) + 1] = f[10 - k]
                BY <2>2, <4>1
            <4>3. f[10 - k] \notin {OPEN, CLOSE}
                BY <2>2, <4>1
            <4> QED BY <2>3, <4>1, <4>2, <4>3
        <3>2. /\ RecvSeq = "CMND" /\ RcvCnt = 9 - k
              /\ \A i \in 1..RcvCnt : RecvBuf[i] = f[i]
            BY <2>1, <2>8 DEF Receiving, FrameLength, k
        <3>3. /\ RecvBuf' = [RecvBuf EXCEPT ![10 - k] = c] /\ RcvCnt' = 10 - k
              /\ RecvSeq' = "CMND"
            <4>1. RcvCnt < FrameLength /\ RcvCnt + 1 = 10 - k
                BY <2>8, <3>2 DEF FrameLength
            <4>2. /\ RecvBuf' = [RecvBuf EXCEPT ![RcvCnt + 1] = c] /\ RcvCnt' = RcvCnt + 1
                  /\ RecvSeq' = RecvSeq
                <5>1. c # OPEN /\ c # CLOSE /\ ~(RcvCnt >= FrameLength)
                    BY <3>1, <4>1, <1>2 DEF FrameLength
                <5> QED BY <1>1, <5>1 DEF CmndSeq
            <4> QED BY <3>2, <4>1, <4>2
        <3>4. \A i \in 1..RcvCnt' : RecvBuf'[i] = f[i]
            <4> SUFFICES ASSUME NEW i \in 1..(10 - k) PROVE RecvBuf'[i] = f[i]
                BY <3>3
            <4>1. i \in 1..FrameLength /\ (i = 10 - k \/ i \in 1..(9 - k))
                BY <2>8 DEF FrameLength
            <4> QED BY <1>2, <3>1, <3>2, <3>3, <4>1
        <3>5. Receiving(f)'
            <4>1. k > 1 /\ k - 1 < 10 /\ k - 1 <= 10 /\ 10 - k = 9 - (k - 1)
                BY <2>8
            <4> QED BY <2>4, <2>5, <2>6, <2>10, <3>3, <3>4, <4>1 DEF Receiving, FrameLength
        <3> QED BY <1>5, <2>1, <2>10, <3>5 DEF Waits, Served, Receiving
    <2>9. CASE k = 1
        <3>1. c = CLOSE
            BY <2>2, <2>3, <2>9 DEF FrameLength
        <3>2. RcvCnt = FrameLength /\ \A i \in 1..FrameLength : RecvBuf[i] = f[i]
            BY <2>1, <2>9 DEF Receiving, FrameLength, k
        <3>3. RecvBuf = f
            BY <1>2, <2>2, <3>2
        <3>4. RecvSeq' = "COMPLETE" /\ CmdBuf' = f
            BY <1>1, <3>1, <3>2, <3>3 DEF CmndSeq, OPEN, CLOSE
        <3>5. wire' = <<>>
            <4>1. Len(wire') = 0
                BY <2>5, <2>9
            <4> QED BY <1>3, <4>1
        <3>6. Complete(f)'
            BY <1>1, <2>1, <3>4, <3>5 DEF Complete, Receiving
        <3> QED BY <1>5, <2>1, <2>10, <3>6 DEF Waits, Served, Complete
    <2> QED BY <2>3, <2>7, <2>8, <2>9
<1> QED BY <1>4, <1>5

LEMMA ResetSteps ==
    ASSUME IInv, HostStsChk \/ ResetCount \/ ResetSeq PROVE Waits'
<1>1. UNCHANGED <<pending, wire, noise, RecvBuf, CmdBuf, op, RspBuf>>
    BY DEF HostStsChk, ResetCount, ResetSeq, hostVars, isrVars
<1>2. Len(wire) \in Nat /\ RcvCnt \in Nat /\ noise \in Nat
    BY HostAssumption DEF IInv, TypeOK, FrameLength
<1>3. CASE pending = Nobody
    <2>1. Between
        BY <1>3 DEF IInv, Waits
    <2>2. Between'
        BY <1>1, <1>2, <2>1
        DEF Between, HostStsChk, ResetCount, ResetSeq, Goto, hostVars, isrVars
    <2> QED BY <1>1, <1>3, <2>2 DEF Waits
<1>4. CASE pending # Nobody
    <2>1. Complete(pending)
        <3>1. Served(pending) /\ ~Serving(pending)
            BY <1>4 DEF IInv, Waits, Serving, HostStsChk, ResetCount, ResetSeq, Goto
        <3>2. ~Receiving(pending)
            <4>1. ASSUME Receiving(pending)
                  PROVE  tpc = "check" /\ RecvSeq \in {"IDLE", "CMND"}
                <5> DEFINE n == Len(wire)
                <5>1. n \in Nat /\ n <= FrameLength + 2
                    BY <1>2, <4>1 DEF Receiving
                <5> HIDE DEF n
                <5>2. n = FrameLength + 2 \/ n < FrameLength + 2
                    BY <5>1 DEF FrameLength
                <5> QED BY <4>1, <5>2 DEF Receiving, n
            <4> QED BY <4>1 DEF HostStsChk, ResetCount, ResetSeq, Goto
        <3> QED BY <3>1, <3>2 DEF Served
    <2>2. CASE HostStsChk
        <3>1. Complete(pending)'
            BY <1>1, <2>1, <2>2 DEF Complete, HostStsChk, Goto, isrVars
        <3> QED BY <1>1, <1>4, <3>1 DEF Waits, Served, Complete
    <2>3. CASE ResetCount
        <3>1. Complete(pending)'
            BY <1>1, <2>1, <2>3 DEF Complete, ResetCount, Goto
        <3> QED BY <1>1, <1>4, <3>1 DEF Waits, Served, Complete
    <2>4. CASE ResetSeq
        <3>1. Serving(pending)'
            BY <1>1, <2>1, <2>4 DEF Complete, Serving, ResetSeq
        <3> QED BY <1>1, <1>4, <3>1 DEF Waits, Served, Serving
    <2> QED BY <2>2, <2>3, <2>4
<1> QED BY <1>3, <1>4

\* Check, Dispatch and Execute work on the frame that was sent.
LEMMA InService ==
    ASSUME IInv, tpc \in {"command", "execute", "parameter", "reply"}
    PROVE  pending # Nobody /\ pending \in Frames /\ Serving(pending)
BY DEF IInv, TypeOK, Waits, Between, Served, Receiving, Complete

LEMMA ExecuteAnswers ==
    ASSUME IInv, Execute
    PROVE  /\ op = Name(pending) /\ CmdBuf = pending
           /\ RspBuf' \in Answers(pending)
<1>1. /\ op = Name(pending) /\ CmdBuf = pending /\ CommandChk(pending) = 0
    BY InService DEF Execute, Serving
<1> DEFINE f == pending
<1>2. CASE Parameter(op, CmdBuf) = -1
    <2>1. op # <<S, G>>
        BY <1>1, <1>2 DEF CommandChk, Parameter, G, I, S, W
    <2>2. RspBuf' = [cmd |-> Name(f), code |-> "pe"]
        BY <1>1, <1>2, <2>1 DEF Execute
    <2> QED BY <1>1, <1>2, <2>2 DEF Answers
<1>3. CASE Parameter(op, CmdBuf) # -1
    <2>1. \E code \in {"00", "ERR"} :
            (code = "ERR" => op # <<S, 15>>) /\ RspBuf' = [cmd |-> op, code |-> code]
        BY <1>3 DEF Execute
    <2> QED BY <1>1, <1>3, <2>1 DEF Answers
<1> QED BY <1>1, <1>2, <1>3

LEMMA ServiceSteps ==
    ASSUME IInv, Check \/ Dispatch \/ Execute \/ Reply PROVE Waits'
<1>1. pending # Nobody /\ pending \in Frames /\ Serving(pending)
    BY InService DEF Check, Dispatch, Execute, Reply, Goto
<1> DEFINE f == pending
<1>2. CASE Check
    <2>1. CASE CommandChk(f) = 0
        <3>1. Serving(f)'
            BY <1>1, <1>2, <2>1 DEF Check, Serving, hostVars, isrVars
        <3> QED BY <1>1, <1>2, <3>1 DEF Check, Waits, Served, Serving, hostVars
    <2>2. CASE CommandChk(f) # 0
        <3>1. RspBuf' = [cmd |-> Name(f), code |-> IF CommandChk(f) = -1 THEN "ce" ELSE "pe"]
            BY <1>1, <1>2, <2>2 DEF Check, Serving
        <3>2. CommandChk(f) \in {-1, -2}
            BY <2>2 DEF CommandChk
        <3>3. RspBuf' \in Answers(f)
            BY <3>1, <3>2 DEF Answers
        <3>4. Serving(f)'
            BY <1>1, <1>2, <2>2, <3>3 DEF Check, Serving, hostVars, isrVars
        <3> QED BY <1>1, <1>2, <3>4 DEF Check, Waits, Served, Serving, hostVars
    <2> QED BY <2>1, <2>2
<1>3. CASE Dispatch
    <2>1. tpc' = "parameter" /\ op' = Name(f)
        BY <1>1, <1>3 DEF Dispatch, Serving
    <2>2. Serving(f)'
        BY <1>1, <1>3, <2>1 DEF Dispatch, Serving, hostVars, isrVars
    <2> QED BY <1>1, <1>3, <2>2 DEF Dispatch, Waits, Served, Serving, hostVars
<1>4. CASE Execute
    <2>1. RspBuf' \in Answers(f)
        BY <1>4, ExecuteAnswers
    <2>2. Serving(f)'
        BY <1>1, <1>4, <2>1 DEF Execute, Serving, hostVars, isrVars
    <2> QED BY <1>1, <1>4, <2>2 DEF Execute, Waits, Served, Serving, hostVars
<1>5. CASE Reply
    <2>1. noise \in Nat /\ Len(wire) = 0
        BY <1>1, HostAssumption DEF Serving, IInv, TypeOK
    <2>2. Between'
        BY <1>1, <1>5, <2>1 DEF Reply, Goto, Serving, Between, isrVars
    <2>3. pending' = Nobody
        BY <1>5 DEF Reply
    <2> QED BY <2>2, <2>3 DEF Waits
<1> QED BY <1>2, <1>3, <1>4, <1>5

\* The inductive invariant of an exchange with a host that waits.
THEOREM Invariance == ASSUME ~Pipelined PROVE Spec => []IInv
<1>1. Init => IInv
    <2> SUFFICES ASSUME Init PROVE Waits
        BY TypeInit DEF IInv
    <2>1. Len(wire) = 0 /\ pending = Nobody
        BY DEF Init
    <2> QED BY <2>1 DEF Init, Waits, Between
<1>2. IInv /\ [Next]_vars => IInv'
    <2> SUFFICES ASSUME IInv, [Next]_vars PROVE Waits'
        BY TypeStep DEF IInv
    <2>1. CASE UNCHANGED vars
        BY <2>1 DEF vars, hostVars, isrVars, taskVars, history, IInv, Waits, Between, Served,
                    Receiving, Complete, Serving
    <2> QED BY <2>1, SendStep, NoiseStep, InterruptStep, ResetSteps, ServiceSteps
            DEF Next, task_main
<1> QED BY <1>1, <1>2, PTL DEF Spec

\* With a host that waits, a frame is executed with the operation and the
\* parameter it was sent with, and nothing else is (HostStsChk to Execute).
THEOREM FrameExecuted == ASSUME ~Pipelined PROVE Spec => ExecutesTheFrame
<1>1. IInv /\ [Next]_vars =>
        [executed' # executed /\ executed' # NoOne =>
            /\ pending # Nobody /\ executed'.op = Name(pending)
            /\ executed'.value = Parameter(Name(pending), pending)]_vars
    <2> SUFFICES ASSUME IInv, [Next]_vars, executed' # executed, executed' # NoOne
                 PROVE  /\ pending # Nobody /\ executed'.op = Name(pending)
                        /\ executed'.value = Parameter(Name(pending), pending)
        OBVIOUS
    <2>1. Execute
        BY DEF Next, task_main, SendFrame, MakeNoise, Interrupt, HostStsChk, ResetCount,
               ResetSeq, Check, Dispatch, Reply, vars, taskVars, history
    <2>2. executed' = [op |-> op, value |-> Parameter(op, CmdBuf)]
        BY <2>1 DEF Execute
    <2> QED BY <2>1, <2>2, ExecuteAnswers, InService DEF Execute
<1> QED BY <1>1, Invariance, PTL DEF Spec, ExecutesTheFrame

\* With a host that waits, the interface implements the exchange: every
\* command is answered at most once, and with an answer to itself.  That it
\* is answered in the end is for TLC.
THEOREM OneAnswer ==
    ASSUME ~Pipelined PROVE Spec => Exchange!Init /\ [][Exchange!Next]_(Exchange!vars)
<1>1. Init => Exchange!Init
    BY DEF Init, Exchange!Init
<1>2. IInv /\ [Next]_vars => [Exchange!Next]_(Exchange!vars)
    <2> SUFFICES ASSUME IInv, [Next]_vars PROVE [Exchange!Next]_(Exchange!vars)
        OBVIOUS
    <2>1. ASSUME NEW f \in Frames, SendFrame(f) PROVE Exchange!Next
        BY <2>1 DEF SendFrame, Exchange!Next, Exchange!Send
    <2>2. CASE Reply
        <3>1. pending # Nobody /\ RspBuf \in Answers(pending)
            BY <2>2, InService DEF Reply, Goto, Serving
        <3> QED BY <2>2, <3>1 DEF Reply, Exchange!Next, Exchange!Reply
    <2>3. CASE UNCHANGED <<pending, answer>>
        BY <2>3 DEF Exchange!vars
    <2> QED BY <2>1, <2>2, <2>3
            DEF Next, task_main, MakeNoise, Interrupt, HostStsChk, ResetCount, ResetSeq, Check,
                Dispatch, Execute, vars, hostVars, taskVars, history
<1> QED BY <1>1, <1>2, Invariance, PTL DEF Spec
=============================================================================
