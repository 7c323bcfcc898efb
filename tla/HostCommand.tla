----------------------------- MODULE HostCommand -----------------------------
(***************************************************************************)
(* The host command interface: the receive interrupt assembles a frame     *)
(* "(" command sub_command param[0..5] ")" character by character          *)
(* (CmndSeq), while task_main polls for a complete one (HostStsChk),       *)
(* checks it (CommandChk), executes it (Execute) and answers.  The         *)
(* interrupt can come between any two steps of the task.                   *)
(*                                                                         *)
(* A character is a number: a hexadecimal digit is its value, the others   *)
(* are named below.  What a command then does to the recorder is Recorder; *)
(* here it is only what was executed and how it was answered.              *)
(***************************************************************************)
EXTENDS Integers, Sequences

CONSTANTS
    Frames,      \* the frames a host sends, without the brackets
    Noise,       \* characters that reach the board outside of a frame
    MaxNoise,    \* bound: so many of them between two frames
    Pipelined    \* the host sends frames without waiting for answers

OPEN == 30
CLOSE == 31
G == 16
I == 17
S == 18
W == 19
Chars == 0..31
FrameLength == 8

\* Brackets only enclose frames, and noise cannot make up a whole frame.
ASSUME HostAssumption ==
    /\ Frames \subseteq [1..FrameLength -> Chars \ {OPEN, CLOSE}]
    /\ Noise \subseteq Chars /\ MaxNoise \in 0..FrameLength
    /\ Pipelined \in BOOLEAN

VARIABLES
    pending, wire, noise,              \* host: frame unanswered, what is under way
    RcvCnt, RecvSeq, RecvBuf, CmdBuf,  \* interrupt handler
    tpc, flag, op, RspBuf,             \* task_main; flag as HostStsChk returns it
    answer, executed                   \* history: last answer; what is being answered

hostVars == <<pending, wire, noise>>
isrVars == <<RcvCnt, RecvSeq, RecvBuf, CmdBuf>>
taskVars == <<tpc, flag, op, RspBuf>>
history == <<answer, executed>>
vars == <<hostVars, isrVars, taskVars, history>>

Nobody == <<>>
NoOne == [op |-> <<>>, value |-> 0]
NoResponse == [cmd |-> <<>>, code |-> "none"]

Init == /\ pending = Nobody /\ wire = <<>> /\ noise = 0
        /\ RcvCnt = 0 /\ RecvSeq = "IDLE"
        /\ RecvBuf = [i \in 1..FrameLength |-> 0]
        /\ CmdBuf = [i \in 1..FrameLength |-> 0]
        /\ tpc = "check" /\ flag = 0 /\ op = <<>> /\ RspBuf = NoResponse
        /\ answer = NoResponse /\ executed = NoOne

---------------------------------------------------------------------------
(* The conversions. *)

IsHex(c) == c \in 0..15
Name(f) == <<f[1], f[2]>>
Param(f, i) == f[3 + i]

\* AsciiHex2char: two digits, or -1.
AsciiHex2char(f) ==
    IF IsHex(Param(f, 0)) /\ IsHex(Param(f, 1)) THEN 16 * Param(f, 0) + Param(f, 1)
    ELSE -1

\* AsciiHex2uint16: four digits, or -1.
AsciiHex2uint16(f) ==
    IF \A i \in 0..3 : IsHex(Param(f, i))
    THEN (4096 * Param(f, 0)) + (256 * Param(f, 1)) + (16 * Param(f, 2)) + Param(f, 3)
    ELSE -1

---------------------------------------------------------------------------
(* The host. *)

\* Noise is followed by a pause: the task has seen what the noise left behind.
Calm == tpc = "check" /\ RecvSeq \in {"IDLE", "CMND"}

SendFrame(f) ==
    /\ wire = <<>> /\ (Pipelined \/ (pending = Nobody /\ Calm))
    /\ pending' = f /\ wire' = (<<OPEN>> \o f) \o <<CLOSE>> /\ noise' = 0
    /\ answer' = NoResponse
    /\ UNCHANGED <<isrVars, taskVars, executed>>

MakeNoise(c) ==
    /\ wire = <<>> /\ (pending = Nobody \/ Pipelined) /\ noise < MaxNoise
    /\ wire' = <<c>> /\ noise' = noise + 1
    /\ UNCHANGED <<pending, isrVars, taskVars, history>>

---------------------------------------------------------------------------
(* FT245_IRQ_SERVICE: the next character goes through CmndSeq. *)

\* Mutant: a bracket does not rewind the count.
CmndSeq_NoRewind(c) ==
    \/ /\ c = OPEN /\ RecvSeq' = "CMND" /\ UNCHANGED <<RcvCnt, RecvBuf, CmdBuf>>
    \/ /\ c = CLOSE /\ RcvCnt = FrameLength
       /\ RecvSeq' = "COMPLETE" /\ CmdBuf' = RecvBuf /\ UNCHANGED <<RcvCnt, RecvBuf>>
    \/ /\ c = CLOSE /\ RcvCnt # FrameLength
       /\ RecvSeq' = "CMDERROR" /\ UNCHANGED <<RcvCnt, RecvBuf, CmdBuf>>
    \/ /\ c \notin {OPEN, CLOSE} /\ RcvCnt >= FrameLength
       /\ RecvSeq' = "CMDERROR" /\ UNCHANGED <<RcvCnt, RecvBuf, CmdBuf>>
    \/ /\ c \notin {OPEN, CLOSE} /\ RcvCnt < FrameLength
       /\ RecvBuf' = [RecvBuf EXCEPT ![RcvCnt + 1] = c] /\ RcvCnt' = RcvCnt + 1
       /\ UNCHANGED <<RecvSeq, CmdBuf>>

\* Mutant: a ninth character is still stored.
CmndSeq_NoLimit(c) ==
    \/ /\ c = OPEN /\ RcvCnt' = 0 /\ RecvSeq' = "CMND" /\ UNCHANGED <<RecvBuf, CmdBuf>>
    \/ /\ c = CLOSE /\ RcvCnt = FrameLength
       /\ RecvSeq' = "COMPLETE" /\ CmdBuf' = RecvBuf /\ UNCHANGED <<RcvCnt, RecvBuf>>
    \/ /\ c = CLOSE /\ RcvCnt # FrameLength
       /\ RecvSeq' = "CMDERROR" /\ UNCHANGED <<RcvCnt, RecvBuf, CmdBuf>>
    \/ /\ c \notin {OPEN, CLOSE}
       /\ RecvBuf' = [RecvBuf EXCEPT ![RcvCnt + 1] = c] /\ RcvCnt' = RcvCnt + 1
       /\ UNCHANGED <<RecvSeq, CmdBuf>>

CmndSeq(c) ==
    \/ /\ c = OPEN /\ RcvCnt' = 0 /\ RecvSeq' = "CMND" /\ UNCHANGED <<RecvBuf, CmdBuf>>
    \/ /\ c = CLOSE /\ RcvCnt = FrameLength
       /\ RecvSeq' = "COMPLETE" /\ CmdBuf' = RecvBuf /\ UNCHANGED <<RcvCnt, RecvBuf>>
    \/ /\ c = CLOSE /\ RcvCnt # FrameLength
       /\ RecvSeq' = "CMDERROR" /\ UNCHANGED <<RcvCnt, RecvBuf, CmdBuf>>
    \/ /\ c \notin {OPEN, CLOSE} /\ RcvCnt >= FrameLength
       /\ RecvSeq' = "CMDERROR" /\ UNCHANGED <<RcvCnt, RecvBuf, CmdBuf>>
    \/ /\ c \notin {OPEN, CLOSE} /\ RcvCnt < FrameLength
       /\ RecvBuf' = [RecvBuf EXCEPT ![RcvCnt + 1] = c] /\ RcvCnt' = RcvCnt + 1
       /\ UNCHANGED <<RecvSeq, CmdBuf>>

Interrupt == /\ wire # <<>> /\ wire' = Tail(wire) /\ CmndSeq(Head(wire))
             /\ UNCHANGED <<pending, noise, taskVars, history>>

---------------------------------------------------------------------------
(* task_main *)

Goto(from, to) == tpc = from /\ tpc' = to

\* Mutant: a damaged frame is taken for a complete one.
HostStsChk_Damaged ==
    /\ RecvSeq \in {"COMPLETE", "CMDERROR"} /\ Goto("check", "taken") /\ flag' = 1
    /\ UNCHANGED <<hostVars, isrVars, op, RspBuf, history>>

\* HostStsChk reads RecvSeq; the resets that follow are steps of their own.
HostStsChk ==
    /\ \/ RecvSeq = "COMPLETE" /\ Goto("check", "taken") /\ flag' = 1
       \/ RecvSeq = "CMDERROR" /\ Goto("check", "taken") /\ flag' = 0
    /\ UNCHANGED <<hostVars, isrVars, op, RspBuf, history>>

ResetCount == /\ Goto("taken", "reset") /\ RcvCnt' = 0
              /\ UNCHANGED <<hostVars, RecvSeq, RecvBuf, CmdBuf, flag, op, RspBuf, history>>

\* Mutant: a complete frame stays complete.
ResetSeq_None == /\ tpc = "reset" /\ tpc' = IF flag = 1 THEN "command" ELSE "check"
                 /\ UNCHANGED <<hostVars, isrVars, flag, op, RspBuf, history>>

ResetSeq == /\ tpc = "reset" /\ tpc' = IF flag = 1 THEN "command" ELSE "check"
            /\ RecvSeq' = "IDLE"
            /\ UNCHANGED <<hostVars, RcvCnt, RecvBuf, CmdBuf, flag, op, RspBuf, history>>

\* CommandChk: -1 unknown command, -2 bad parameter, 0 valid.  IFSTS is never
\* anything but 0, so no command is refused as busy.
CommandChk(f) ==
    IF Name(f) \notin {<<I, S>>, <<G, W>>, <<S, G>>, <<S, 15>>} THEN -1
    ELSE IF \/ Name(f) = <<I, S>>
            \/ Name(f) = <<G, W>> /\ AsciiHex2char(f) # -1
            \/ Name(f) = <<S, G>> /\ AsciiHex2char(f) \in 0..7
            \/ Name(f) = <<S, 15>> /\ AsciiHex2char(f) \in 0..1
         THEN 0 ELSE -2

Check ==
    /\ tpc = "command"
    /\ \/ CommandChk(CmdBuf) = 0 /\ tpc' = "execute" /\ UNCHANGED RspBuf
       \/ /\ CommandChk(CmdBuf) # 0 /\ tpc' = "reply"
          /\ RspBuf' = [cmd |-> Name(CmdBuf),
                        code |-> IF CommandChk(CmdBuf) = -1 THEN "ce" ELSE "pe"]
    /\ UNCHANGED <<hostVars, isrVars, flag, op, history>>

\* Execute finds its branch by the command's two letters, and no branch for
\* any others; then it reads the parameter, possibly of a newer frame.
Dispatch ==
    /\ tpc = "execute" /\ op' = Name(CmdBuf)
    /\ tpc' = IF CommandChk(CmdBuf) = -1 THEN "check" ELSE "parameter"
    /\ UNCHANGED <<hostVars, isrVars, flag, RspBuf, history>>

\* Mutant: Execute relies on the ranges CommandChk has checked.
Parameter_Unchecked(name, f) ==
    IF name = <<I, S>> THEN 0
    ELSE IF name = <<G, W>> THEN AsciiHex2uint16(f)
    ELSE AsciiHex2char(f)

\* The parameter a branch works with, or -1 where it answers 'pe'.
Parameter(name, f) ==
    IF name = <<I, S>> THEN 0
    ELSE IF name = <<G, W>> THEN AsciiHex2uint16(f)
    ELSE IF name = <<S, G>> THEN IF AsciiHex2char(f) \in 0..7 THEN AsciiHex2char(f) ELSE -1
    ELSE IF AsciiHex2char(f) \in 0..1 THEN AsciiHex2char(f) ELSE -1

\* 'pe' under the branch's own name, except that SG answers as GW; else the
\* command is carried out, and its calibration may fail.
Execute ==
    /\ tpc = "parameter" /\ tpc' = "reply"
    /\ LET value == Parameter(op, CmdBuf) IN
       \/ /\ value = -1 /\ UNCHANGED executed
          /\ RspBuf' = [cmd |-> IF op = <<S, G>> THEN <<G, W>> ELSE op, code |-> "pe"]
       \/ /\ value # -1 /\ executed' = [op |-> op, value |-> value]
          /\ \E code \in {"00", "ERR"} :
               /\ code = "ERR" => op # <<S, 15>>
               /\ RspBuf' = [cmd |-> op, code |-> code]
    /\ UNCHANGED <<hostVars, isrVars, flag, op, answer>>

Reply == /\ Goto("reply", "check") /\ answer' = RspBuf /\ pending' = Nobody
         /\ op' = <<>> /\ RspBuf' = NoResponse /\ executed' = NoOne
         /\ UNCHANGED <<wire, noise, isrVars, flag>>

task_main == HostStsChk \/ ResetCount \/ ResetSeq \/ Check \/ Dispatch \/ Execute \/ Reply

---------------------------------------------------------------------------
Next == \/ \E f \in Frames : SendFrame(f)
        \/ \E c \in Noise : MakeNoise(c)
        \/ Interrupt \/ task_main

\* Characters that were sent arrive, and the scheduler runs task_main.
Fairness == WF_vars(Interrupt) /\ WF_vars(task_main)

Spec == Init /\ [][Next]_vars
FairSpec == Spec /\ Fairness

---------------------------------------------------------------------------
(* Properties *)

Names == {<<>>} \cup (Chars \X Chars)
Codes == {"none", "00", "ce", "pe", "ERR"}

\* Every variable stays in its range; RcvCnt never runs past the frame.
TypeOK ==
    /\ pending \in Frames \cup {Nobody} /\ wire \in Seq(Chars) /\ noise \in 0..MaxNoise
    /\ RcvCnt \in 0..FrameLength
    /\ RecvSeq \in {"IDLE", "CMND", "COMPLETE", "CMDERROR"}
    /\ RecvBuf \in [1..FrameLength -> Chars] /\ CmdBuf \in [1..FrameLength -> Chars]
    /\ tpc \in {"check", "taken", "reset", "command", "execute", "parameter", "reply"}
    /\ flag \in {0, 1} /\ op \in Names /\ RspBuf \in [cmd : Names, code : Codes]
    /\ executed \in [op : Names, value : Nat] /\ executed.value < 65536

\* What a command may be answered, by the command alone.
Answers(f) ==
    [cmd : {Name(f)},
     code : IF CommandChk(f) = -1 THEN {"ce"}
            ELSE IF CommandChk(f) = -2 \/ Parameter(Name(f), f) = -1 THEN {"pe"}
            ELSE IF Name(f) = <<S, 15>> THEN {"00"} ELSE {"00", "ERR"}]

\* With a host that waits for its answers, and whatever noise it made before,
\* every command is answered exactly once and with an answer to itself.
Exchange == INSTANCE CommandExchange WITH NoAnswer <- NoResponse
ImplementsExchange == Exchange!Spec

\* Every frame is answered.
FramesAnswered == pending # Nobody ~> pending = Nobody

\* A frame is executed as it was sent, and only then.
ExecutesTheFrame ==
    [][executed' # executed /\ executed' # NoOne =>
         /\ pending # Nobody /\ executed'.op = Name(pending)
         /\ executed'.value = Parameter(Name(pending), pending)]_vars

\* Even if a new frame replaces the command between its check and its
\* execution, the recorder never gets a gain above 7 or a third frequency.
ParametersInRange ==
    /\ executed.op = <<S, G>> => executed.value \in 0..7
    /\ executed.op = <<S, 15>> => executed.value \in 0..1

\* The comment on GW: "ab0000", ab is the number of blocks.
BlockCountIsAb ==
    [][executed' # executed /\ executed'.op = <<G, W>> =>
         executed'.value = AsciiHex2char(pending)]_vars
=============================================================================
