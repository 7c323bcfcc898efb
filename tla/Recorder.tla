------------------------------- MODULE Recorder ------------------------------
(***************************************************************************)
(* The firmware's recording path: task_main executes one host command at a *)
(* time, task_com sends the recorded blocks by DMA, task_sns switches the  *)
(* microphones and publishes how far the recording is; SendReqQue and      *)
(* SnsorQue connect them, and SnsCtrlSTS, sample_block and the CLR bit of  *)
(* the PDM core are shared without a lock.  The core writes the samples    *)
(* into a ring in SDRAM that the DMA reads back.                           *)
(*                                                                         *)
(* Samples are counted in blocks of COM_BLK_SIZE, and a block is counted   *)
(* before it is in SDRAM: its last 32 samples, a half of the wave buffer,  *)
(* are moved only when the next sample is there.  A slot of the ring holds *)
(* the number of the block of the running capture that its first samples,  *)
(* and that its last half, belong to, or Stale.                            *)
(***************************************************************************)
EXTENDS Integers, Sequences

CONSTANTS
    Channels,    \* channels sent per block (4)
    Ring,        \* blocks of one channel's ring (128)
    Wrap,        \* blocks after which SmpleCountReg wraps (2^24 / 2048)
    QueueLength, \* of SnsorQue and SendReqQue (4)
    CalBlocks,   \* CaribSmplCount in blocks (4096 / 2048)
    MaxTry,      \* calibration attempts (20)
    Counts,      \* the block counts a host asks for
    Patient      \* the host sends nothing until the boot calibration is over

\* The count wraps where the ring does, and no request comes so close to the
\* wrap that the count can pass it while the last block is still to be sent.
ASSUME RecorderAssumption ==
    /\ Channels \in Nat \ {0} /\ MaxTry \in Nat \ {0} /\ QueueLength \in Nat \ {0}
    /\ Ring \in Nat \ {0} /\ Wrap \in Nat \ {0}
    /\ \E q \in 1..Wrap : Wrap = q * Ring
    /\ CalBlocks \in 1..(Ring - 1)
    /\ Counts \subseteq Nat /\ \A n \in Counts : n + Ring <= Wrap
    /\ Patient \in BOOLEAN

VARIABLES
    mpc, cmd, rsp,                            \* task_main: Execute
    cpc, send_block, send_block_max, DataTxEn, ch,                \* task_com
    spc, sample_block, acq_flag, SnsCtrlSTS,                      \* task_sns
    SnsorQue, SendReqQue,
    cal,         \* MicCarivration, which task_main and task_sns both call
    clr, hw,     \* PDM core: CLR, blocks counted
    ring, last,  \* SDRAM: the blocks in the slots but for, and of, the last halves
    landing,     \* the block counted whose last half is still on its way
    sent, outcome         \* history: DMAs, last INIT calibration, of this command

mainVars == <<mpc, cmd, rsp>>
comVars == <<cpc, send_block, send_block_max, DataTxEn, ch>>
snsVars == <<spc, sample_block, acq_flag, SnsCtrlSTS>>
queues == <<SnsorQue, SendReqQue>>
core == <<clr, hw, ring, last, landing>>
history == <<sent, outcome>>
vars == <<mainVars, comVars, snsVars, queues, cal, core, history>>

Stale == -1
None == -1
Tasks == {"main", "sns"}
Commands == [op : {"IS", "SG"}, n : {0}] \cup [op : {"GW"}, n : Counts]
Messages == {"SnsQue_INIT", "SnsQue_START", "SnsQue_STOP"}
Empty == [i \in 0..(Ring - 1) |-> Stale]
CalIdle == [pc |-> "off", TryCount |-> 0, whole |-> FALSE]

Init ==
    /\ mpc = "check" /\ cmd = [op |-> "IS", n |-> 0] /\ rsp = "none"
    /\ cpc = "receive" /\ send_block = 0 /\ send_block_max = 0 /\ DataTxEn = 0
    /\ ch = 0
    /\ spc = "boot" /\ sample_block = 0 /\ acq_flag = 0 /\ SnsCtrlSTS = "IDLE"
    /\ SnsorQue = <<>> /\ SendReqQue = <<>>
    /\ cal = [w \in Tasks |-> CalIdle]
    /\ clr = 0 /\ hw = 0 /\ ring = Empty /\ last = Empty /\ landing = None
    /\ sent = <<>> /\ outcome = "none"

---------------------------------------------------------------------------
(* The PDM core and its CLR bit. *)

Lag == (hw - send_block + Wrap) % Wrap

coreRest == <<mainVars, comVars, snsVars, queues, cal, clr, history>>

\* disable_PDM: CLR holds the sample count at zero.  A half that waits for the
\* next sample is never moved, one that is being moved only in some channels.
disable_PDM == clr' = 1 /\ hw' = 0 /\ landing' = None /\ UNCHANGED <<ring, last>>

\* enable_PDM only clears CLR: a capture that runs already goes on.
enable_PDM == /\ clr' = 0 /\ UNCHANGED <<hw, landing>>
              /\ ring' = IF clr = 1 THEN Empty ELSE ring
              /\ last' = IF clr = 1 THEN Empty ELSE last

\* One more block is counted, the half before its last one long moved.  No code
\* bounds how far the core gets ahead of the sender; that the host drains the
\* FIFO fast enough is an assumption.
HwBlock == /\ clr = 0 /\ landing = None /\ Lag < Ring - 1
           /\ ring' = [ring EXCEPT ![hw % Ring] = hw]
           /\ landing' = hw /\ hw' = (hw + 1) % Wrap
           /\ UNCHANGED <<coreRest, last>>

\* START_SH with the next sample, and the pass over the channels.
HwLast == /\ landing # None
          /\ last' = [last EXCEPT ![landing % Ring] = landing]
          /\ landing' = None
          /\ UNCHANGED <<coreRest, hw, ring>>

pdm_core == HwBlock \/ HwLast

\* The last half of block b is not on its way (any more).
Landed(b) == landing # b

\* What a reader of a whole slot gets.
Block(slot) == IF last[slot] = ring[slot] THEN ring[slot] ELSE Stale

\* The slot the core is filling changes under a reader.
Complete(slot) == ~(clr = 0 /\ hw % Ring = slot)

---------------------------------------------------------------------------
(* MicCarivration, called by task w. *)

CalGoto(w, pc) == cal' = [cal EXCEPT ![w].pc = pc]
CalFirst == [pc |-> "clear", TryCount |-> 0, whole |-> FALSE]
BeginCal(w) == cal' = [cal EXCEPT ![w] = CalFirst]
calRest == <<mainVars, comVars, snsVars, queues, history>>

CalClear(w) == /\ cal[w].pc = "clear" /\ CalGoto(w, "enable")
               /\ disable_PDM /\ UNCHANGED calRest

CalEnable(w) == /\ cal[w].pc = "enable" /\ CalGoto(w, "wait")
                /\ enable_PDM /\ UNCHANGED calRest

\* Mutant: the loop ends one block early.
CalWait_Early(w) == /\ cal[w].pc = "wait" /\ hw >= CalBlocks - 1
                    /\ \E whole \in BOOLEAN :
                         cal' = [cal EXCEPT ![w].pc = "delay", ![w].whole = whole]
                    /\ UNCHANGED <<calRest, core>>

\* The read of the count that ends the loop.  The delay that follows it lasts
\* to the next tick: whole, unless the read comes so late in its tick that less
\* than a sample and a pass are left.
CalWait(w) == /\ cal[w].pc = "wait" /\ hw >= CalBlocks
              /\ \E whole \in BOOLEAN :
                   cal' = [cal EXCEPT ![w].pc = "delay", ![w].whole = whole]
              /\ UNCHANGED <<calRest, core>>

\* Mutant: CLR is set right after the read.
CalEnd_NoDelay(w) == /\ cal[w].pc = "delay" /\ CalGoto(w, "average")
                     /\ disable_PDM /\ UNCHANGED calRest

\* The end of that delay, and CLR.
CalEnd(w) == /\ cal[w].pc = "delay" /\ (cal[w].whole => Landed(CalBlocks - 1))
             /\ CalGoto(w, "average") /\ disable_PDM /\ UNCHANGED calRest

\* Mutant: one try more than the loop allows.
CalAverage_OneMore(w) ==
    /\ cal[w].pc = "average"
    /\ \/ CalGoto(w, "ok")
       \/ LET tries == cal[w].TryCount + 1 IN
          cal' = [cal EXCEPT ![w] =
                    [pc |-> IF tries <= MaxTry THEN "clear" ELSE "error",
                     TryCount |-> tries, whole |-> FALSE]]
    /\ UNCHANGED <<calRest, core>>

\* All channels within the margin, or offsets adjusted and one try more, or
\* the tries are used up.
CalAverage(w) ==
    /\ cal[w].pc = "average"
    /\ \/ CalGoto(w, "ok")
       \/ LET tries == cal[w].TryCount + 1 IN
          cal' = [cal EXCEPT ![w] =
                    [pc |-> IF tries < MaxTry THEN "clear" ELSE "error",
                     TryCount |-> tries, whole |-> FALSE]]
    /\ UNCHANGED <<calRest, core>>

Calibration(w) == \/ CalClear(w) \/ CalEnable(w) \/ CalWait(w) \/ CalEnd(w)
                  \/ CalAverage(w)
CalDone(w) == cal[w].pc \in {"ok", "error"}

---------------------------------------------------------------------------
(* task_main: HostStsChk has returned 1 and CommandChk 0. *)

Booting == spc \in {"boot", "bootcal"}
ComBlocked == cpc \in {"start", "stop"} /\ Len(SnsorQue) = QueueLength

\* A task that can run finishes the handler it is in before a host has seen
\* an answer and its next command has come in.
HostReady == (spc \in {"receive", "cal"} \/ Booting) /\ (Patient => ~Booting)

Command(c) ==
    /\ mpc = "check" /\ HostReady
    /\ cmd' = c /\ rsp' = "none" /\ sent' = <<>> /\ outcome' = "none"
    /\ \/ c.op \in {"IS", "GW"} /\ mpc' = "post" /\ UNCHANGED cal
       \/ c.op = "SG" /\ mpc' = "calibrate" /\ BeginCal("main")
    /\ UNCHANGED <<comVars, snsVars, queues, core>>

Post ==
    /\ mpc = "post" /\ mpc' = "delay"
    /\ \/ /\ cmd.op = "IS" /\ Len(SnsorQue) < QueueLength
          /\ SnsorQue' = Append(SnsorQue, "SnsQue_INIT") /\ UNCHANGED SendReqQue
       \/ /\ cmd.op = "GW" /\ Len(SendReqQue) < QueueLength
          /\ SendReqQue' = Append(SendReqQue, cmd.n) /\ UNCHANGED SnsorQue
    /\ UNCHANGED <<cmd, rsp, comVars, snsVars, cal, core, history>>

\* vTaskDelay(100 ms): long enough for task_com and task_sns to act on what
\* is posted, unless they are blocked, calibrating or still booting.
Settled ==
    /\ (SendReqQue # <<>> \/ cpc = "start") => ComBlocked
    /\ \/ spc \in {"boot", "bootcal", "cal"}
       \/ spc \in {"receive", "sample"} /\ SnsorQue = <<>>

\* Mutant: the status is polled at once.
Delay_None == mpc = "delay" /\ mpc' = "poll"
              /\ UNCHANGED <<cmd, rsp, comVars, snsVars, queues, cal, core, history>>

Delay == /\ mpc = "delay" /\ Settled /\ mpc' = "poll"
         /\ UNCHANGED <<cmd, rsp, comVars, snsVars, queues, cal, core, history>>

Poll == /\ mpc = "poll" /\ SnsCtrlSTS # "BUSY" /\ mpc' = "check"
        /\ rsp' = IF SnsCtrlSTS = "ERROR" THEN "ERR" ELSE "ok"
        /\ UNCHANGED <<cmd, comVars, snsVars, queues, cal, core, history>>

GainSet == /\ mpc = "calibrate" /\ CalDone("main") /\ mpc' = "check"
           /\ rsp' = IF cal["main"].pc = "error" THEN "ERR" ELSE "ok"
           /\ cal' = [cal EXCEPT !["main"] = CalIdle]
           /\ UNCHANGED <<cmd, comVars, snsVars, queues, core, history>>

task_main == \/ \E c \in Commands : Command(c)
             \/ Post \/ Delay \/ Poll \/ GainSet

---------------------------------------------------------------------------
(* task_com: one pass of its loop. *)

comRest == <<mainVars, snsVars, cal, core, outcome>>

ComReceive ==
    /\ cpc = "receive"
    /\ \/ /\ SendReqQue # <<>> /\ SendReqQue' = Tail(SendReqQue)
          /\ send_block_max' = Head(SendReqQue) /\ send_block' = 0 /\ DataTxEn' = 1
          /\ cpc' = "start"
       \/ /\ SendReqQue = <<>> /\ cpc' = IF DataTxEn = 1 THEN "test" ELSE "receive"
          /\ UNCHANGED <<SendReqQue, send_block, send_block_max, DataTxEn>>
    /\ UNCHANGED <<comRest, SnsorQue, ch, sent>>

ComPost(pc, message, next) ==
    /\ cpc = pc /\ Len(SnsorQue) < QueueLength
    /\ SnsorQue' = Append(SnsorQue, message) /\ cpc' = next
    /\ UNCHANGED <<comRest, SendReqQue, send_block, send_block_max, DataTxEn, ch, sent>>

ComStart == ComPost("start", "SnsQue_START", "test")

\* Mutant: the block that is being recorded is sent too.
ComTest_Unfinished ==
    /\ cpc = "test" /\ ch' = 0
    /\ cpc' = IF sample_block >= send_block /\ send_block < send_block_max
              THEN "dma" ELSE "end"
    /\ UNCHANGED <<comRest, queues, send_block, send_block_max, DataTxEn, sent>>

ComTest ==
    /\ cpc = "test" /\ ch' = 0
    /\ cpc' = IF sample_block > send_block /\ send_block < send_block_max
              THEN "dma" ELSE "end"
    /\ UNCHANGED <<comRest, queues, send_block, send_block_max, DataTxEn, sent>>

\* The end of one channel's DMA, from its slot of the ring; after the last
\* channel the block counts as sent.  The DMA reads 4 KB through a FIFO of 1 KB:
\* by the time it comes to the last half, that has landed.
ComDma ==
    /\ cpc = "dma" /\ Landed(send_block)
    /\ sent' = Append(sent, <<ch, Block(send_block % Ring)>>)
    /\ \/ /\ ch < Channels - 1 /\ ch' = ch + 1
          /\ UNCHANGED <<cpc, send_block>>
       \/ /\ ch = Channels - 1 /\ send_block' = send_block + 1 /\ cpc' = "end"
          /\ UNCHANGED ch
    /\ UNCHANGED <<comRest, queues, send_block_max, DataTxEn>>

\* Mutant: the end is found one block late.
ComEnd_Late ==
    /\ cpc = "end"
    /\ \/ /\ send_block > send_block_max
          /\ send_block' = 0 /\ DataTxEn' = 0 /\ cpc' = "stop"
       \/ /\ send_block <= send_block_max /\ cpc' = "receive"
          /\ UNCHANGED <<send_block, DataTxEn>>
    /\ UNCHANGED <<comRest, queues, send_block_max, ch, sent>>

\* Mutant: the microphones are left on.
ComEnd_NoStop ==
    /\ cpc = "end" /\ cpc' = "receive"
    /\ \/ send_block >= send_block_max /\ send_block' = 0 /\ DataTxEn' = 0
       \/ send_block < send_block_max /\ UNCHANGED <<send_block, DataTxEn>>
    /\ UNCHANGED <<comRest, queues, send_block_max, ch, sent>>

ComEnd ==
    /\ cpc = "end"
    /\ \/ /\ send_block >= send_block_max
          /\ send_block' = 0 /\ DataTxEn' = 0 /\ cpc' = "stop"
       \/ /\ send_block < send_block_max /\ cpc' = "receive"
          /\ UNCHANGED <<send_block, DataTxEn>>
    /\ UNCHANGED <<comRest, queues, send_block_max, ch, sent>>

ComStop == ComPost("stop", "SnsQue_STOP", "receive")

task_com == ComReceive \/ ComStart \/ ComTest \/ ComDma \/ ComEnd \/ ComStop

---------------------------------------------------------------------------
(* task_sns: its boot, then one pass of its loop. *)

snsRest == <<mainVars, comVars, SendReqQue, sent>>
Take(message, pc) == /\ spc = "receive" /\ SnsorQue # <<>> /\ Head(SnsorQue) = message
                     /\ SnsorQue' = Tail(SnsorQue) /\ spc' = pc

SnsBoot == /\ spc = "boot" /\ spc' = "bootcal"
           /\ disable_PDM /\ BeginCal("sns")
           /\ UNCHANGED <<snsRest, sample_block, acq_flag, SnsCtrlSTS, SnsorQue, outcome>>

SnsBootEnd == /\ spc = "bootcal" /\ CalDone("sns") /\ spc' = "receive"
              /\ sample_block' = 0 /\ acq_flag' = 0
              /\ cal' = [cal EXCEPT !["sns"] = CalIdle]
              /\ UNCHANGED <<snsRest, SnsCtrlSTS, SnsorQue, core, outcome>>

SnsInit == /\ Take("SnsQue_INIT", "cal")
           /\ sample_block' = 0 /\ acq_flag' = 0 /\ SnsCtrlSTS' = "BUSY"
           /\ disable_PDM /\ BeginCal("sns")
           /\ UNCHANGED <<snsRest, outcome>>

\* Mutant: a failed calibration is not reported.
SnsInitEnd_NoError ==
    /\ spc = "cal" /\ CalDone("sns") /\ spc' = "sample"
    /\ SnsCtrlSTS' = "IDLE" /\ outcome' = cal["sns"].pc
    /\ cal' = [cal EXCEPT !["sns"] = CalIdle]
    /\ UNCHANGED <<snsRest, sample_block, acq_flag, SnsorQue, core>>

SnsInitEnd == /\ spc = "cal" /\ CalDone("sns") /\ spc' = "sample"
              /\ SnsCtrlSTS' = IF cal["sns"].pc = "ok" THEN "IDLE" ELSE "ERROR"
              /\ outcome' = cal["sns"].pc
              /\ cal' = [cal EXCEPT !["sns"] = CalIdle]
              /\ UNCHANGED <<snsRest, sample_block, acq_flag, SnsorQue, core>>

\* Mutant: START does not raise the status task_main waits on.
SnsStart_NotBusy ==
    /\ Take("SnsQue_START", "starting")
    /\ sample_block' = 0 /\ acq_flag' = 1
    /\ UNCHANGED <<snsRest, SnsCtrlSTS, cal, core, outcome>>

SnsStart == /\ Take("SnsQue_START", "starting")
            /\ sample_block' = 0 /\ acq_flag' = 1 /\ SnsCtrlSTS' = "BUSY"
            /\ UNCHANGED <<snsRest, cal, core, outcome>>

SnsStarted == /\ spc = "starting" /\ spc' = "sample" /\ enable_PDM
              /\ UNCHANGED <<snsRest, sample_block, acq_flag, SnsCtrlSTS, SnsorQue,
                             cal, outcome>>

\* STOP is not atomic: the status is IDLE while the counters are still those
\* of the recording.
SnsStop == /\ Take("SnsQue_STOP", "stopping")
           /\ disable_PDM /\ SnsCtrlSTS' = "IDLE"
           /\ UNCHANGED <<snsRest, sample_block, acq_flag, cal, outcome>>

\* Mutant: the published block count outlives its recording.
SnsStopped_NoReset ==
    /\ spc = "stopping" /\ spc' = "sample"
    /\ acq_flag' = 0 /\ UNCHANGED sample_block
    /\ UNCHANGED <<snsRest, SnsCtrlSTS, SnsorQue, cal, core, outcome>>

SnsStopped == /\ spc = "stopping" /\ spc' = "sample"
              /\ sample_block' = 0 /\ acq_flag' = 0
              /\ UNCHANGED <<snsRest, SnsCtrlSTS, SnsorQue, cal, core, outcome>>

SnsTimeout == /\ spc = "receive" /\ SnsorQue = <<>> /\ spc' = "sample"
              /\ UNCHANGED <<snsRest, sample_block, acq_flag, SnsCtrlSTS, SnsorQue,
                             cal, core, outcome>>

SnsSample == /\ spc = "sample" /\ spc' = "receive"
             /\ sample_block' = IF acq_flag = 1 THEN hw ELSE sample_block
             /\ UNCHANGED <<snsRest, acq_flag, SnsCtrlSTS, SnsorQue, cal, core, outcome>>

task_sns == \/ SnsBoot \/ SnsBootEnd \/ SnsInit \/ SnsInitEnd \/ SnsStart
            \/ SnsStarted \/ SnsStop \/ SnsStopped \/ SnsTimeout \/ SnsSample

---------------------------------------------------------------------------
Next == \/ pdm_core \/ task_main \/ task_com \/ task_sns
        \/ \E w \in Tasks : Calibration(w)

\* The scheduler slices time between tasks of one priority, the core's clock
\* runs; a calibration that can fail for ever is cut off by MaxTry.  The host
\* need not send anything.
Fairness ==
    /\ WF_vars(pdm_core) /\ WF_vars(Post) /\ WF_vars(Delay) /\ WF_vars(Poll)
    /\ WF_vars(GainSet) /\ WF_vars(task_com) /\ WF_vars(task_sns)
    /\ \A w \in Tasks : WF_vars(Calibration(w))

Spec == Init /\ [][Next]_vars
FairSpec == Spec /\ Fairness

---------------------------------------------------------------------------
(* Properties *)

\* Every variable stays in its range.
TypeOK ==
    /\ mpc \in {"check", "post", "delay", "poll", "calibrate"} /\ cmd \in Commands
    /\ rsp \in {"none", "ok", "ERR"}
    /\ cpc \in {"receive", "start", "test", "dma", "end", "stop"}
    /\ send_block \in Nat /\ send_block_max \in Nat /\ DataTxEn \in {0, 1}
    /\ ch \in 0..(Channels - 1)
    /\ spc \in {"boot", "bootcal", "receive", "cal", "starting", "stopping", "sample"}
    /\ sample_block \in 0..(Wrap - 1) /\ acq_flag \in {0, 1}
    /\ SnsCtrlSTS \in {"IDLE", "BUSY", "ERROR"}
    /\ SnsorQue \in Seq(Messages) /\ Len(SnsorQue) <= QueueLength
    /\ SendReqQue \in Seq(Nat) /\ Len(SendReqQue) <= QueueLength
    /\ cal \in [Tasks -> [pc : {"off", "clear", "enable", "wait", "delay", "average",
                                "ok", "error"},
                          TryCount : 0..MaxTry, whole : BOOLEAN]]
    /\ clr \in {0, 1} /\ hw \in 0..(Wrap - 1) /\ landing \in None..(Wrap - 1)
    /\ ring \in [0..(Ring - 1) -> Stale..(Wrap - 1)]
    /\ last \in [0..(Ring - 1) -> Stale..(Wrap - 1)]
    /\ sent \in Seq((0..(Channels - 1)) \X (Stale..(Wrap - 1)))
    /\ outcome \in {"none", "ok", "error"}

\* While a block goes out, channel after channel, its slot holds that block of
\* the running capture, or its last half is the one on its way, and the core is
\* not filling the slot again; and a calibration averages samples of its own
\* attempt, all of them, but for the last half when its delay was cut short.
NoStaleBlock ==
    /\ cpc = "dma" => LET slot == send_block % Ring IN
         /\ ring[slot] = send_block /\ Complete(slot)
         /\ last[slot] = send_block \/ landing = send_block
    /\ \A w \in Tasks : cal[w].pc = "average" =>
         \A b \in 0..(CalBlocks - 1) :
           /\ ring[b] = b /\ Complete(b)
           /\ last[b] = b \/ (b = CalBlocks - 1 /\ ~cal[w].whole)

\* Two tasks never calibrate, and none calibrates while blocks are recorded:
\* CLR and the sample count have one user at a time.
OneUserOfTheCore ==
    LET users == {w \in Tasks : cal[w].pc # "off"} IN
    \/ users = {}
    \/ \E w \in Tasks : users = {w} /\ acq_flag = 0 /\ DataTxEn = 0

\* Once a command is answered the core is held in CLR and nothing is being
\* sent or about to be started.
QuietBetweenCommands ==
    mpc = "check" /\ ~Booting =>
        clr = 1 /\ DataTxEn = 0 /\ cpc # "start" /\ SendReqQue = <<>>

\* Whatever the host does, also during the boot: when the sender is idle and
\* all messages are handled the microphones are off.
NothingLeftRunning ==
    /\ DataTxEn = 0 /\ cpc \notin {"start", "stop"} /\ SnsorQue = <<>>
    /\ spc \in {"receive", "sample"} /\ cal["main"].pc = "off"
    => acq_flag = 0 /\ clr = 1

\* IS is answered only after the calibration it asked for and with its outcome,
\* and the error of an earlier one is not reported for a recording.
HonestAnswers ==
    [][mpc = "poll" /\ mpc' = "check" =>
         /\ cmd.op = "IS" => outcome # "none"
         /\ rsp' = IF cmd.op = "IS" /\ outcome = "error" THEN "ERR" ELSE "ok"]_vars

\* The recorder implements the ordered delivery of one capture.
Wanted == IF mpc \in {"post", "delay", "poll"} /\ cmd.op = "GW" THEN cmd.n ELSE -1
Promise == INSTANCE Recording WITH wanted <- Wanted, sent <- sent
ImplementsRecording == Promise!Spec

\* Every command is answered.
CommandsAnswered == mpc # "check" ~> mpc = "check"
=============================================================================
