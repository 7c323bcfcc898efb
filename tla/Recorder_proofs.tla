---------------------------- MODULE Recorder_proofs --------------------------
(***************************************************************************)
(* Proofs about Recorder, for any number of channels, any ring, queue      *)
(* length and number of attempts.  First, whether or not the host is       *)
(* patient: type correctness, and that nothing is left running.  Then for  *)
(* a patient host: the core has one user at a time, answers tell the       *)
(* outcome of their own command, and what is sent is what was asked for:   *)
(* Spec implements Recording.                                              *)
(***************************************************************************)
EXTENDS Recorder, Division, TLAPS

\* An attempt that is under way is not the last one counted.
Attempts ==
    \A w \in Tasks :
        cal[w].pc \in {"clear", "enable", "wait", "delay", "average"} =>
            cal[w].TryCount < MaxTry

\* What the position of a task says about its flags.
Positions ==
    /\ cpc \in {"start", "test", "dma", "end"} => DataTxEn = 1
    /\ cpc = "stop" => DataTxEn = 0
    /\ spc \in {"boot", "bootcal", "cal"} => acq_flag = 0
    /\ spc = "starting" => acq_flag = 1
    /\ cal["sns"].pc # "off" => spc \in {"bootcal", "cal"}
    /\ cal["main"].pc # "off" => mpc = "calibrate"

\* A START in the queue is followed by the STOP that belongs to it, once
\* task_com has posted that.
Ended == DataTxEn = 0 /\ cpc # "stop"
StopFollows ==
    Ended => \A i \in 1..Len(SnsorQue) : SnsorQue[i] = "SnsQue_START" =>
                \E j \in 1..Len(SnsorQue) : i < j /\ SnsorQue[j] = "SnsQue_STOP"

\* A recording that task_com has ended is being stopped or will be.
StopComing ==
    Ended /\ acq_flag = 1 =>
        \/ spc = "stopping"
        \/ \E j \in 1..Len(SnsorQue) : SnsorQue[j] = "SnsQue_STOP"

\* The core runs only for a recording, for a calibration that waits for its
\* samples, or because nobody has touched it since the reset.
Waiting == \E w \in Tasks : cal[w].pc \in {"wait", "delay"}
RunsForSomeone ==
    /\ clr = 0 => acq_flag = 1 \/ Waiting \/ spc = "boot"
    /\ clr = 0 /\ spc = "stopping" => Waiting

IInv == TypeOK /\ Attempts /\ Positions /\ StopFollows /\ StopComing /\ RunsForSomeone

---------------------------------------------------------------------------
(* Queues and calibrations. *)

LEMMA AppendMessage ==
    ASSUME NEW q \in Seq(Messages), NEW m \in Messages
    PROVE  /\ Append(q, m) \in Seq(Messages)
           /\ Len(Append(q, m)) = Len(q) + 1
           /\ \A i \in 1..Len(q) : Append(q, m)[i] = q[i]
           /\ Append(q, m)[Len(q) + 1] = m
OBVIOUS

LEMMA TailRequests ==
    ASSUME NEW q \in Seq(Nat), q # <<>>
    PROVE  /\ Tail(q) \in Seq(Nat) /\ Head(q) \in Nat
           /\ Len(q) \in Nat \ {0} /\ Len(Tail(q)) = Len(q) - 1
OBVIOUS

LEMMA AppendRequest ==
    ASSUME NEW q \in Seq(Nat), NEW n \in Nat
    PROVE  Append(q, n) \in Seq(Nat) /\ Len(Append(q, n)) = Len(q) + 1
OBVIOUS

LEMMA TailMessages ==
    ASSUME NEW q \in Seq(Messages), q # <<>>
    PROVE  /\ Tail(q) \in Seq(Messages)
           /\ Len(q) \in Nat \ {0} /\ Len(Tail(q)) = Len(q) - 1
           /\ Head(q) = q[1]
           /\ \A i \in 1..(Len(q) - 1) : Tail(q)[i] = q[i + 1]
OBVIOUS

CalPcs == {"off", "clear", "enable", "wait", "delay", "average", "ok", "error"}
CalStates == [pc : CalPcs, TryCount : 0..MaxTry, whole : BOOLEAN]

\* A task that calibrates changes its own entry of cal and no other.
LEMMA CalGotoKeeps ==
    ASSUME cal \in [Tasks -> CalStates], NEW w \in Tasks, NEW p \in CalPcs, CalGoto(w, p)
    PROVE  /\ cal' \in [Tasks -> CalStates]
           /\ cal'[w].pc = p /\ cal'[w].TryCount = cal[w].TryCount
           /\ cal'[w].whole = cal[w].whole
           /\ \A u \in Tasks \ {w} : cal'[u] = cal[u]
BY DEF CalGoto, CalStates

LEMMA CalWaitKeeps ==
    ASSUME cal \in [Tasks -> CalStates], NEW w \in Tasks, CalWait(w)
    PROVE  /\ cal' \in [Tasks -> CalStates]
           /\ cal'[w].pc = "delay" /\ cal'[w].TryCount = cal[w].TryCount
           /\ \A u \in Tasks \ {w} : cal'[u] = cal[u]
<1>1. PICK whole \in BOOLEAN : cal' = [cal EXCEPT ![w].pc = "delay", ![w].whole = whole]
  BY DEF CalWait
<1>2. "delay" \in CalPcs BY DEF CalPcs
<1> QED BY <1>1, <1>2 DEF CalStates

LEMMA CalSetKeeps ==
    ASSUME cal \in [Tasks -> CalStates], NEW w \in Tasks, NEW r \in CalStates,
           cal' = [cal EXCEPT ![w] = r]
    PROVE  /\ cal' \in [Tasks -> CalStates] /\ cal'[w] = r
           /\ \A u \in Tasks \ {w} : cal'[u] = cal[u]
OBVIOUS

LEMMA CalRecords ==
    /\ CalIdle \in CalStates /\ CalIdle.pc = "off"
    /\ CalFirst \in CalStates /\ CalFirst.pc = "clear" /\ CalFirst.TryCount = 0
    /\ 0 < MaxTry
BY RecorderAssumption DEF CalIdle, CalFirst, CalStates, CalPcs

\* What an attempt that is judged leads to.
LEMMA AverageKeeps ==
    ASSUME cal \in [Tasks -> CalStates], Attempts, NEW w \in Tasks, CalAverage(w)
    PROVE  /\ cal' \in [Tasks -> CalStates]
           /\ cal'[w].pc \in {"ok", "error", "clear"}
           /\ cal'[w].pc = "clear" => cal'[w].TryCount < MaxTry
           /\ \A u \in Tasks \ {w} : cal'[u] = cal[u]
<1>1. cal[w] \in CalStates /\ cal[w].TryCount \in 0..MaxTry /\ cal[w].TryCount < MaxTry
  BY DEF CalStates, Attempts, CalAverage
<1>2. CASE CalGoto(w, "ok")
  <2>1. "ok" \in CalPcs BY DEF CalPcs
  <2> QED BY <1>2, <2>1, CalGotoKeeps
<1>3. CASE LET tries == cal[w].TryCount + 1 IN
           cal' = [cal EXCEPT ![w] = [pc |-> IF tries < MaxTry THEN "clear" ELSE "error",
                                      TryCount |-> tries, whole |-> FALSE]]
  <2> DEFINE r == [pc |-> IF cal[w].TryCount + 1 < MaxTry THEN "clear" ELSE "error",
                   TryCount |-> cal[w].TryCount + 1, whole |-> FALSE]
  <2>1. r \in CalStates /\ r.pc \in {"clear", "error"}
        /\ (r.pc = "clear" => r.TryCount < MaxTry)
    BY <1>1, RecorderAssumption DEF CalStates, CalPcs
  <2>2. cal' = [cal EXCEPT ![w] = r] BY <1>3
  <2> HIDE DEF r
  <2> QED BY <2>1, <2>2, CalSetKeeps
<1> QED BY <1>2, <1>3 DEF CalAverage

---------------------------------------------------------------------------
(* The core. *)

CoreType == /\ clr \in {0, 1} /\ hw \in 0..(Wrap - 1) /\ landing \in None..(Wrap - 1)
            /\ ring \in [0..(Ring - 1) -> Stale..(Wrap - 1)]
            /\ last \in [0..(Ring - 1) -> Stale..(Wrap - 1)]

LEMMA CoreTyped == IInv => CoreType
BY DEF IInv, TypeOK, CoreType

LEMMA Emptied == Empty \in [0..(Ring - 1) -> Stale..(Wrap - 1)]
<1>1. Stale \in Stale..(Wrap - 1) BY RecorderAssumption DEF Stale
<1> QED BY <1>1 DEF Empty

\* CLR and its release keep the types, and so does a step of the core.
LEMMA DisableKeeps ==
    ASSUME CoreType, disable_PDM
    PROVE  CoreType' /\ clr' = 1 /\ hw' = 0 /\ landing' = None /\ UNCHANGED <<ring, last>>
BY RecorderAssumption DEF CoreType, disable_PDM, None

LEMMA EnableKeeps ==
    ASSUME CoreType, enable_PDM
    PROVE  CoreType' /\ clr' = 0 /\ UNCHANGED <<hw, landing>>
           /\ (clr = 0 => UNCHANGED <<ring, last>>)
<1>1. /\ clr' = 0 /\ UNCHANGED <<hw, landing>>
      /\ ring' = IF clr = 1 THEN Empty ELSE ring
      /\ last' = IF clr = 1 THEN Empty ELSE last
  BY DEF enable_PDM
<1>2. /\ ring' \in [0..(Ring - 1) -> Stale..(Wrap - 1)]
      /\ last' \in [0..(Ring - 1) -> Stale..(Wrap - 1)]
  BY <1>1, Emptied DEF CoreType
<1> QED BY <1>1, <1>2 DEF CoreType

LEMMA CoreStep ==
    ASSUME CoreType, pdm_core
    PROVE  CoreType' /\ UNCHANGED <<mainVars, comVars, snsVars, queues, cal, clr, history>>
<1>1. Wrap \in Nat \ {0} BY RecorderAssumption
<1>2. UNCHANGED <<mainVars, comVars, snsVars, queues, cal, clr, history>>
  BY DEF pdm_core, HwBlock, HwLast, coreRest
<1>3. CASE HwBlock
  <2>1. /\ ring' = [ring EXCEPT ![hw % Ring] = hw] /\ landing' = hw
        /\ hw' = (hw + 1) % Wrap /\ last' = last
    BY <1>3 DEF HwBlock
  <2>2. hw \in Stale..(Wrap - 1) /\ hw \in None..(Wrap - 1)
    BY <1>1 DEF CoreType, Stale, None
  <2>3. hw' \in 0..(Wrap - 1)
    BY <1>1, <2>1, DivMod DEF CoreType
  <2>4. ring' \in [0..(Ring - 1) -> Stale..(Wrap - 1)]
    BY <2>1, <2>2 DEF CoreType
  <2> QED BY <1>2, <2>1, <2>2, <2>3, <2>4 DEF CoreType
<1>4. CASE HwLast
  <2>1. /\ last' = [last EXCEPT ![landing % Ring] = landing] /\ landing # None
        /\ landing' = None /\ hw' = hw /\ ring' = ring
    BY <1>4 DEF HwLast
  <2>2. landing \in Stale..(Wrap - 1)
    BY DEF CoreType, Stale, None
  <2>3. None \in None..(Wrap - 1)
    BY <1>1 DEF None
  <2>4. last' \in [0..(Ring - 1) -> Stale..(Wrap - 1)]
    BY <2>1, <2>2 DEF CoreType
  <2> QED BY <1>2, <2>1, <2>3, <2>4 DEF CoreType
<1> QED BY <1>2, <1>3, <1>4 DEF pdm_core

---------------------------------------------------------------------------
(* The initial states. *)

LEMMA InitIInv == Init => IInv
<1> SUFFICES ASSUME Init PROVE IInv
  OBVIOUS
<1>1. cal \in [Tasks -> CalStates] /\ \A w \in Tasks : cal[w].pc = "off"
  BY CalRecords DEF Init
<1>2. TypeOK
  <2>1. cmd \in Commands BY DEF Init, Commands
  <2>2. CoreType
    BY RecorderAssumption, Emptied DEF Init, CoreType, None
  <2> QED BY <1>1, <2>1, <2>2, RecorderAssumption DEF Init, TypeOK, CalStates, CalPcs, CoreType
<1>3. Attempts /\ Positions BY <1>1 DEF Attempts, Positions, Init, Tasks
<1>4. StopFollows /\ StopComing BY DEF StopFollows, StopComing, Init
<1>5. RunsForSomeone BY DEF RunsForSomeone, Init
<1> QED BY <1>2, <1>3, <1>4, <1>5 DEF IInv

---------------------------------------------------------------------------
(* The steps of the core and of task_com leave cal and the status alone. *)

LEMMA HwStep == ASSUME IInv, pdm_core PROVE IInv'
<1>1. /\ UNCHANGED <<mainVars, comVars, snsVars, queues, cal, clr, history>>
      /\ CoreType'
  BY CoreTyped, CoreStep
<1>2. TypeOK'
  BY <1>1 DEF IInv, TypeOK, CoreType, mainVars, comVars, snsVars, queues, history
<1>3. Attempts' /\ Positions' /\ StopFollows' /\ StopComing' /\ RunsForSomeone'
  BY <1>1 DEF IInv, Attempts, Positions, StopFollows, StopComing, Ended,
              RunsForSomeone, Waiting, mainVars, comVars, snsVars, queues
<1> QED BY <1>2, <1>3 DEF IInv

\* A message of task_com goes to the end of the queue.
LEMMA PostKeeps ==
    ASSUME IInv, NEW pc, NEW m \in Messages, NEW next, ComPost(pc, m, next)
    PROVE  /\ SnsorQue' \in Seq(Messages) /\ Len(SnsorQue') = Len(SnsorQue) + 1
           /\ Len(SnsorQue') <= QueueLength
           /\ \A i \in 1..Len(SnsorQue) : SnsorQue'[i] = SnsorQue[i]
           /\ SnsorQue'[Len(SnsorQue) + 1] = m
<1>1. SnsorQue \in Seq(Messages) /\ Len(SnsorQue) < QueueLength
      /\ SnsorQue' = Append(SnsorQue, m)
  BY DEF ComPost, IInv, TypeOK
<1>2. Len(SnsorQue) \in Nat BY <1>1
<1> QED BY <1>1, <1>2, AppendMessage, RecorderAssumption

LEMMA ComStep == ASSUME IInv, task_com PROVE IInv'
<1> USE DEF Ended
<1>1. CASE ComReceive
  <2>1. /\ UNCHANGED <<mainVars, snsVars, cal, core, outcome, SnsorQue, ch, sent>>
        /\ cpc = "receive"
        /\ \/ /\ SendReqQue # <<>> /\ SendReqQue' = Tail(SendReqQue)
              /\ send_block_max' = Head(SendReqQue) /\ send_block' = 0
              /\ DataTxEn' = 1 /\ cpc' = "start"
           \/ /\ cpc' = IF DataTxEn = 1 THEN "test" ELSE "receive"
              /\ UNCHANGED <<SendReqQue, send_block, send_block_max, DataTxEn>>
    BY <1>1 DEF ComReceive, comRest
  <2>2. TypeOK'
    <3>1. SendReqQue \in Seq(Nat) /\ Len(SendReqQue) <= QueueLength
      BY DEF IInv, TypeOK
    <3>2. SendReqQue' \in Seq(Nat) /\ Len(SendReqQue') <= QueueLength
          /\ send_block' \in Nat /\ send_block_max' \in Nat
      <4>1. CASE SendReqQue' = SendReqQue
        BY <4>1, <2>1, <3>1 DEF IInv, TypeOK
      <4>2. CASE SendReqQue # <<>> /\ SendReqQue' = Tail(SendReqQue)
                 /\ send_block_max' = Head(SendReqQue) /\ send_block' = 0
        BY <4>2, <3>1, TailRequests, RecorderAssumption
      <4> QED BY <2>1, <4>1, <4>2 DEF IInv, TypeOK
    <3> QED BY <2>1, <3>2 DEF IInv, TypeOK, mainVars, snsVars, core
  <2>3. Attempts' /\ Positions' /\ StopFollows' /\ StopComing' /\ RunsForSomeone'
    BY <2>1 DEF IInv, TypeOK, Attempts, Positions, StopFollows, StopComing, RunsForSomeone,
                Waiting, mainVars, snsVars, core
  <2> QED BY <2>2, <2>3 DEF IInv
<1>2. CASE ComStart
  <2>1. /\ ComPost("start", "SnsQue_START", "test") /\ cpc = "start" /\ cpc' = "test"
        /\ UNCHANGED <<mainVars, snsVars, cal, core, outcome, SendReqQue, send_block,
                       send_block_max, DataTxEn, ch, sent>>
    BY <1>2 DEF ComStart, ComPost, comRest
  <2>2. SnsorQue' \in Seq(Messages) /\ Len(SnsorQue') <= QueueLength
    BY <2>1, PostKeeps DEF Messages
  <2>3. TypeOK' BY <2>1, <2>2 DEF IInv, TypeOK, mainVars, snsVars, core
  <2>4. Attempts' /\ Positions' /\ StopFollows' /\ StopComing' /\ RunsForSomeone'
    BY <2>1 DEF IInv, TypeOK, Attempts, Positions, StopFollows, StopComing, RunsForSomeone,
                Waiting, mainVars, snsVars, core
  <2> QED BY <2>3, <2>4 DEF IInv
<1>3. CASE ComTest \/ ComDma \/ ComEnd
  <2>1. /\ UNCHANGED <<mainVars, snsVars, queues, cal, core, outcome, send_block_max>>
        /\ cpc \in {"test", "dma", "end"}
    BY <1>3 DEF ComTest, ComDma, ComEnd, comRest
  <2>2. /\ cpc' \in {"receive", "dma", "end", "stop"} /\ DataTxEn' \in {0, 1}
        /\ cpc' \in {"dma", "end"} => DataTxEn' = DataTxEn
        /\ cpc' = "stop" => DataTxEn' = 0
        /\ cpc' = "receive" => DataTxEn' = 1
        /\ send_block' \in Nat /\ ch' \in 0..(Channels - 1)
    <3>1. /\ DataTxEn \in {0, 1} /\ send_block \in Nat /\ send_block_max \in Nat
          /\ ch \in 0..(Channels - 1) /\ DataTxEn = 1 /\ Channels \in Nat \ {0}
      BY <2>1, RecorderAssumption DEF IInv, TypeOK, Positions
    <3>2. CASE ComTest
      <4>1. /\ cpc' \in {"dma", "end"} /\ ch' = 0 /\ UNCHANGED <<send_block, DataTxEn>>
        BY <3>2 DEF ComTest
      <4> QED BY <3>1, <4>1
    <3>3. CASE ComDma
      <4>1. /\ cpc = "dma" /\ UNCHANGED DataTxEn
            /\ \/ ch < Channels - 1 /\ ch' = ch + 1 /\ UNCHANGED <<cpc, send_block>>
               \/ send_block' = send_block + 1 /\ cpc' = "end" /\ UNCHANGED ch
        BY <3>3 DEF ComDma
      <4> QED BY <3>1, <4>1
    <3>4. CASE ComEnd
      <4>1. /\ UNCHANGED ch
            /\ \/ send_block' = 0 /\ DataTxEn' = 0 /\ cpc' = "stop"
               \/ cpc' = "receive" /\ UNCHANGED <<send_block, DataTxEn>>
        BY <3>4 DEF ComEnd
      <4> QED BY <3>1, <4>1
    <3> QED BY <1>3, <3>2, <3>3, <3>4
  <2>3. sent' \in Seq((0..(Channels - 1)) \X (Stale..(Wrap - 1)))
    <3>1. CASE ComDma
      <4>1. sent' = Append(sent, <<ch, Block(send_block % Ring)>>) BY <3>1 DEF ComDma
      <4>2. send_block % Ring \in 0..(Ring - 1)
        BY RecorderAssumption DEF IInv, TypeOK
      <4>3. Block(send_block % Ring) \in Stale..(Wrap - 1)
        <5>1. Stale \in Stale..(Wrap - 1) BY RecorderAssumption DEF Stale
        <5> QED BY <4>2, <5>1, CoreTyped DEF CoreType, Block
      <4>4. <<ch, Block(send_block % Ring)>> \in (0..(Channels - 1)) \X (Stale..(Wrap - 1))
        BY <4>3 DEF IInv, TypeOK
      <4> HIDE DEF Stale
      <4> QED BY <4>1, <4>4 DEF IInv, TypeOK
    <3>2. CASE ComTest \/ ComEnd
      BY <3>2 DEF ComTest, ComEnd, IInv, TypeOK
    <3> QED BY <1>3, <3>1, <3>2
  <2>4. TypeOK'
    BY <2>1, <2>2, <2>3 DEF IInv, TypeOK, mainVars, snsVars, queues, core
  <2>5. Attempts' /\ Positions' /\ StopFollows' /\ StopComing' /\ RunsForSomeone'
    BY <2>1, <2>2 DEF IInv, TypeOK, Attempts, Positions, StopFollows, StopComing,
                      RunsForSomeone, Waiting, mainVars, snsVars, queues, core
  <2> QED BY <2>4, <2>5 DEF IInv
<1>4. CASE ComStop
  <2>1. /\ ComPost("stop", "SnsQue_STOP", "receive") /\ cpc' = "receive"
        /\ UNCHANGED <<mainVars, snsVars, cal, core, outcome, SendReqQue, send_block,
                       send_block_max, DataTxEn, ch, sent>>
    BY <1>4 DEF ComStop, ComPost, comRest
  <2>2. /\ SnsorQue' \in Seq(Messages) /\ Len(SnsorQue') = Len(SnsorQue) + 1
        /\ Len(SnsorQue') <= QueueLength
        /\ SnsorQue'[Len(SnsorQue) + 1] = "SnsQue_STOP"
    BY <2>1, PostKeeps DEF Messages
  <2>3. TypeOK' BY <2>1, <2>2 DEF IInv, TypeOK, mainVars, snsVars, core
  <2>4. Attempts' /\ Positions' /\ RunsForSomeone'
    BY <2>1 DEF IInv, TypeOK, Attempts, Positions, RunsForSomeone, Waiting,
                mainVars, snsVars, core
  <2>5. Len(SnsorQue) \in Nat BY DEF IInv, TypeOK
  <2>6. Len(SnsorQue') \in 1..Len(SnsorQue') /\ SnsorQue'[Len(SnsorQue')] = "SnsQue_STOP"
    BY <2>2, <2>5
  <2>7. StopComing' BY <2>6 DEF StopComing
  <2>8. StopFollows'
    <3> SUFFICES ASSUME NEW i \in 1..Len(SnsorQue'), SnsorQue'[i] = "SnsQue_START"
                 PROVE  \E j \in 1..Len(SnsorQue') : i < j /\ SnsorQue'[j] = "SnsQue_STOP"
      BY DEF StopFollows
    <3>1. i < Len(SnsorQue')
      <4>1. i # Len(SnsorQue') BY <2>6
      <4> QED BY <4>1, <2>2, <2>5
    <3> QED BY <2>6, <3>1
  <2> QED BY <2>3, <2>4, <2>7, <2>8 DEF IInv
<1> QED BY <1>1, <1>2, <1>3, <1>4 DEF task_com

---------------------------------------------------------------------------
(* The steps of a calibration. *)

LEMMA CalStep == ASSUME IInv, NEW w \in Tasks, Calibration(w) PROVE IInv'
<1>1. cal \in [Tasks -> CalStates] /\ Attempts /\ CoreType
  BY CoreTyped DEF IInv, TypeOK, CalStates, CalPcs
<1>2. /\ UNCHANGED <<mainVars, comVars, snsVars, queues, history>>
      /\ cal[w].pc # "off"
  BY DEF Calibration, CalClear, CalEnable, CalWait, CalEnd, CalAverage, calRest
<1>3. /\ cal' \in [Tasks -> CalStates]
      /\ cal'[w].pc \in {"clear", "enable", "wait", "delay", "average"} =>
            cal'[w].TryCount < MaxTry
      /\ \A u \in Tasks \ {w} : cal'[u] = cal[u]
  <2>1. CASE CalAverage(w) BY <1>1, <2>1, AverageKeeps
  <2>2. CASE CalClear(w) \/ CalEnable(w) \/ CalEnd(w)
    <3>1. PICK p \in {"enable", "wait", "average"} : CalGoto(w, p)
      BY <2>2 DEF CalClear, CalEnable, CalEnd
    <3>2. cal[w].TryCount < MaxTry
      BY <1>1, <2>2 DEF Attempts, CalClear, CalEnable, CalEnd
    <3>3. p \in CalPcs BY DEF CalPcs
    <3> QED BY <1>1, <3>1, <3>2, <3>3, CalGotoKeeps
  <2>3. CASE CalWait(w)
    <3>1. cal[w].TryCount < MaxTry BY <1>1, <2>3 DEF Attempts, CalWait
    <3> QED BY <1>1, <2>3, <3>1, CalWaitKeeps
  <2> QED BY <2>1, <2>2, <2>3 DEF Calibration
<1>4. CoreType'
  <2>1. CASE CalClear(w) \/ CalEnd(w)
    BY <1>1, <2>1, DisableKeeps DEF CalClear, CalEnd
  <2>2. CASE CalEnable(w)
    BY <1>1, <2>2, EnableKeeps DEF CalEnable
  <2>3. CASE CalWait(w) \/ CalAverage(w)
    BY <1>1, <2>3 DEF CalWait, CalAverage, core, CoreType
  <2> QED BY <2>1, <2>2, <2>3 DEF Calibration
<1>5. TypeOK'
  BY <1>2, <1>3, <1>4 DEF IInv, TypeOK, CoreType, CalStates, CalPcs, mainVars, comVars,
                          snsVars, queues, history
<1>6. Attempts' BY <1>1, <1>3 DEF Attempts
<1>7. Positions'
  BY <1>2, <1>3 DEF IInv, Positions, Tasks, mainVars, comVars, snsVars
<1>8. StopFollows' /\ StopComing'
  BY <1>2 DEF IInv, StopFollows, StopComing, Ended, comVars, snsVars, queues
<1>9. RunsForSomeone'
  <2>1. CASE CalClear(w) \/ CalEnd(w)
    <3>1. clr' = 1 BY <2>1 DEF CalClear, CalEnd, disable_PDM
    <3> QED BY <3>1 DEF RunsForSomeone
  <2>2. CASE CalEnable(w)
    <3>1. CalGoto(w, "wait") /\ "wait" \in CalPcs BY <2>2 DEF CalEnable, CalPcs
    <3>2. cal'[w].pc = "wait" BY <1>1, <3>1, CalGotoKeeps
    <3> QED BY <3>2 DEF RunsForSomeone, Waiting
  <2>3. CASE CalWait(w)
    <3>1. cal'[w].pc = "delay" BY <1>1, <2>3, CalWaitKeeps
    <3> QED BY <3>1 DEF RunsForSomeone, Waiting
  <2>4. CASE CalAverage(w)
    <3>1. UNCHANGED clr /\ cal[w].pc \notin {"wait", "delay"}
      BY <2>4 DEF CalAverage, core
    <3>2. Waiting => Waiting' BY <1>3, <3>1 DEF Waiting
    <3> QED BY <1>2, <3>1, <3>2 DEF IInv, RunsForSomeone, snsVars
  <2> QED BY <2>1, <2>2, <2>3, <2>4 DEF Calibration
<1> QED BY <1>5, <1>6, <1>7, <1>8, <1>9 DEF IInv

---------------------------------------------------------------------------
(* The steps of task_main. *)

LEMMA MainStep == ASSUME IInv, task_main PROVE IInv'
<1>1. /\ UNCHANGED <<comVars, snsVars, core>>
      /\ cal \in [Tasks -> CalStates] /\ "main" \in Tasks
  BY DEF task_main, Command, Post, Delay, Poll, GainSet, IInv, TypeOK, CalStates, CalPcs,
         Tasks
<1>2. ASSUME NEW c \in Commands, Command(c) PROVE IInv'
  <2>1. /\ mpc = "check" /\ cmd' = c /\ rsp' = "none" /\ sent' = <<>>
        /\ outcome' = "none" /\ UNCHANGED queues
        /\ \/ mpc' = "post" /\ UNCHANGED cal
           \/ mpc' = "calibrate" /\ BeginCal("main")
    BY <1>2 DEF Command
  <2>2. cal["main"].pc = "off" BY <2>1 DEF IInv, Positions
  <2>3. /\ cal' \in [Tasks -> CalStates] /\ cal'["sns"] = cal["sns"]
        /\ cal'["main"].pc # "off" => mpc' = "calibrate"
        /\ \A u \in Tasks : \/ cal'[u] = cal[u]
                            \/ u = "main" /\ cal'[u] = CalFirst
    <3>1. CASE UNCHANGED cal BY <1>1, <2>2, <3>1
    <3>2. CASE mpc' = "calibrate" /\ BeginCal("main")
      <4>1. cal' = [cal EXCEPT !["main"] = CalFirst]
        BY <3>2 DEF BeginCal
      <4> QED BY <1>1, <3>2, <4>1, CalSetKeeps, CalRecords DEF Tasks
    <3> QED BY <2>1, <3>1, <3>2
  <2>4. TypeOK'
    BY <1>1, <2>1, <2>3 DEF IInv, TypeOK, CalStates, CalPcs, comVars, snsVars, queues, core
  <2>5. Attempts' BY <2>3, CalRecords DEF IInv, Attempts
  <2>6. Positions' BY <1>1, <2>3 DEF IInv, Positions, comVars, snsVars
  <2>7. StopFollows' /\ StopComing'
    BY <1>1, <2>1 DEF IInv, StopFollows, StopComing, Ended, comVars, snsVars, queues
  <2>8. Waiting => Waiting' BY <2>2, <2>3 DEF Waiting
  <2>9. RunsForSomeone' BY <1>1, <2>8 DEF IInv, RunsForSomeone, snsVars, core
  <2> QED BY <2>4, <2>5, <2>6, <2>7, <2>9 DEF IInv
<1>3. CASE Post
  <2>1. /\ mpc = "post" /\ mpc' = "delay" /\ UNCHANGED <<cmd, rsp, cal, history>>
        /\ \/ /\ Len(SnsorQue) < QueueLength /\ UNCHANGED SendReqQue
              /\ SnsorQue' = Append(SnsorQue, "SnsQue_INIT")
           \/ /\ cmd.op = "GW" /\ Len(SendReqQue) < QueueLength /\ UNCHANGED SnsorQue
              /\ SendReqQue' = Append(SendReqQue, cmd.n)
    BY <1>3 DEF Post
  <2>2. /\ SnsorQue \in Seq(Messages) /\ Len(SnsorQue) <= QueueLength
        /\ Len(SnsorQue) \in Nat /\ Len(SendReqQue) \in Nat
        /\ SendReqQue \in Seq(Nat) /\ Len(SendReqQue) <= QueueLength
        /\ QueueLength \in Nat
    BY RecorderAssumption DEF IInv, TypeOK
  <2>3. SendReqQue' \in Seq(Nat) /\ Len(SendReqQue') <= QueueLength
    <3>1. CASE UNCHANGED SendReqQue BY <2>2, <3>1
    <3>2. CASE /\ cmd.op = "GW" /\ Len(SendReqQue) < QueueLength
               /\ SendReqQue' = Append(SendReqQue, cmd.n)
      <4>1. cmd.n \in Nat
        BY <3>2, RecorderAssumption DEF IInv, TypeOK, Commands
      <4> QED BY <2>2, <3>2, <4>1, AppendRequest
    <3> QED BY <2>1, <3>1, <3>2
  <2>4. /\ SnsorQue' \in Seq(Messages) /\ Len(SnsorQue') <= QueueLength
        /\ Len(SnsorQue') \in Nat /\ Len(SnsorQue) <= Len(SnsorQue')
        /\ \A i \in 1..Len(SnsorQue) : SnsorQue'[i] = SnsorQue[i]
        /\ \A i \in 1..Len(SnsorQue') : SnsorQue'[i] = "SnsQue_START" =>
                                           i \in 1..Len(SnsorQue)
    <3>1. CASE UNCHANGED SnsorQue BY <2>2, <3>1
    <3>2. CASE /\ Len(SnsorQue) < QueueLength
               /\ SnsorQue' = Append(SnsorQue, "SnsQue_INIT")
      <4>1. /\ SnsorQue' \in Seq(Messages) /\ Len(SnsorQue') = Len(SnsorQue) + 1
            /\ \A i \in 1..Len(SnsorQue) : SnsorQue'[i] = SnsorQue[i]
            /\ SnsorQue'[Len(SnsorQue) + 1] = "SnsQue_INIT"
        BY <2>2, <3>2, AppendMessage DEF Messages
      <4>2. ASSUME NEW i \in 1..Len(SnsorQue'), SnsorQue'[i] = "SnsQue_START"
            PROVE  i \in 1..Len(SnsorQue)
        <5>1. i # Len(SnsorQue) + 1 BY <4>1, <4>2
        <5> QED BY <2>2, <4>1, <5>1
      <4> QED BY <2>2, <3>2, <4>1, <4>2
    <3> QED BY <2>1, <3>1, <3>2
  <2>5. TypeOK'
    BY <1>1, <2>1, <2>3, <2>4 DEF IInv, TypeOK, comVars, snsVars, core, history
  <2>6. Attempts' BY <2>1 DEF IInv, Attempts
  <2>7. Positions' BY <1>1, <2>1 DEF IInv, Positions, comVars, snsVars
  <2>8. StopFollows'
    <3> SUFFICES ASSUME Ended, NEW i \in 1..Len(SnsorQue'), SnsorQue'[i] = "SnsQue_START"
                 PROVE  \E j \in 1..Len(SnsorQue') : i < j /\ SnsorQue'[j] = "SnsQue_STOP"
      BY <1>1 DEF StopFollows, Ended, comVars
    <3>1. i \in 1..Len(SnsorQue) /\ SnsorQue[i] = "SnsQue_START" BY <2>4
    <3>2. PICK j \in 1..Len(SnsorQue) : i < j /\ SnsorQue[j] = "SnsQue_STOP"
      BY <3>1 DEF IInv, StopFollows
    <3>3. j \in 1..Len(SnsorQue') /\ SnsorQue'[j] = "SnsQue_STOP" BY <2>2, <2>4, <3>2
    <3> QED BY <3>2, <3>3
  <2>9. StopComing'
    <3>1. (\E j \in 1..Len(SnsorQue) : SnsorQue[j] = "SnsQue_STOP") =>
          \E j \in 1..Len(SnsorQue') : SnsorQue'[j] = "SnsQue_STOP"
      <4> SUFFICES ASSUME NEW j \in 1..Len(SnsorQue), SnsorQue[j] = "SnsQue_STOP"
                   PROVE  \E k \in 1..Len(SnsorQue') : SnsorQue'[k] = "SnsQue_STOP"
        OBVIOUS
      <4>1. j \in 1..Len(SnsorQue') /\ SnsorQue'[j] = "SnsQue_STOP" BY <2>2, <2>4
      <4> QED BY <4>1
    <3> QED BY <1>1, <3>1 DEF IInv, StopComing, Ended, comVars, snsVars
  <2>10. RunsForSomeone' BY <1>1, <2>1 DEF IInv, RunsForSomeone, Waiting, snsVars, core
  <2> QED BY <2>5, <2>6, <2>7, <2>8, <2>9, <2>10 DEF IInv
<1>4. CASE Delay \/ Poll
  <2>1. /\ UNCHANGED <<cmd, queues, cal, history>> /\ mpc # "calibrate"
        /\ mpc' \in {"check", "poll"} /\ rsp' \in {"none", "ok", "ERR"}
    BY <1>4 DEF Delay, Poll, IInv, TypeOK
  <2>2. TypeOK'
    BY <1>1, <2>1 DEF IInv, TypeOK, comVars, snsVars, queues, core, history
  <2>3. Attempts' /\ Positions' /\ StopFollows' /\ StopComing' /\ RunsForSomeone'
    BY <1>1, <2>1 DEF IInv, Attempts, Positions, StopFollows, StopComing, Ended,
                      RunsForSomeone, Waiting, comVars, snsVars, queues, core
  <2> QED BY <2>2, <2>3 DEF IInv
<1>5. CASE GainSet
  <2>1. /\ mpc' = "check" /\ rsp' \in {"ok", "ERR"} /\ UNCHANGED <<cmd, queues, history>>
        /\ cal["main"].pc \in {"ok", "error"} /\ cal' = [cal EXCEPT !["main"] = CalIdle]
    BY <1>5 DEF GainSet, CalDone
  <2>2. /\ cal' \in [Tasks -> CalStates] /\ cal'["main"].pc = "off"
        /\ \A u \in Tasks \ {"main"} : cal'[u] = cal[u]
    BY <1>1, <2>1, CalSetKeeps, CalRecords
  <2>3. TypeOK'
    BY <1>1, <2>1, <2>2 DEF IInv, TypeOK, CalStates, CalPcs, comVars, snsVars, queues,
                            core, history
  <2>4. Attempts' /\ Positions'
    BY <1>1, <2>2 DEF IInv, Attempts, Positions, Tasks, comVars, snsVars
  <2>5. StopFollows' /\ StopComing'
    BY <1>1, <2>1 DEF IInv, StopFollows, StopComing, Ended, comVars, snsVars, queues
  <2>6. Waiting => Waiting' BY <2>1, <2>2 DEF Waiting
  <2>7. RunsForSomeone' BY <1>1, <2>6 DEF IInv, RunsForSomeone, snsVars, core
  <2> QED BY <2>3, <2>4, <2>5, <2>7 DEF IInv
<1> QED BY <1>2, <1>3, <1>4, <1>5 DEF task_main

---------------------------------------------------------------------------
(* The steps of task_sns. *)

\* Taking a message keeps a START in front of its STOP.
LEMMA TakeKeeps ==
    ASSUME IInv, NEW m, NEW pc, Take(m, pc)
    PROVE  /\ SnsorQue' \in Seq(Messages) /\ Len(SnsorQue') <= QueueLength
           /\ spc = "receive" /\ spc' = pc
           /\ Ended => \A i \in 1..Len(SnsorQue') : SnsorQue'[i] = "SnsQue_START" =>
                \E j \in 1..Len(SnsorQue') : i < j /\ SnsorQue'[j] = "SnsQue_STOP"
           /\ Ended /\ m = "SnsQue_START" =>
                \E j \in 1..Len(SnsorQue') : SnsorQue'[j] = "SnsQue_STOP"
<1>1. /\ SnsorQue \in Seq(Messages) /\ SnsorQue # <<>> /\ SnsorQue' = Tail(SnsorQue)
      /\ Head(SnsorQue) = m /\ spc = "receive" /\ spc' = pc
      /\ Len(SnsorQue) <= QueueLength /\ QueueLength \in Nat
  BY RecorderAssumption DEF Take, IInv, TypeOK
<1>2. /\ SnsorQue' \in Seq(Messages)
      /\ Len(SnsorQue) \in Nat \ {0} /\ Len(SnsorQue') = Len(SnsorQue) - 1
      /\ SnsorQue[1] = m
      /\ \A i \in 1..(Len(SnsorQue) - 1) : SnsorQue'[i] = SnsorQue[i + 1]
  BY <1>1, TailMessages
<1>3. ASSUME Ended, NEW i \in 0..Len(SnsorQue'), SnsorQue[i + 1] = "SnsQue_START"
      PROVE  \E j \in 1..Len(SnsorQue') : i < j /\ SnsorQue'[j] = "SnsQue_STOP"
  <2>1. i + 1 \in 1..Len(SnsorQue) BY <1>2
  <2>2. PICK k \in 1..Len(SnsorQue) : i + 1 < k /\ SnsorQue[k] = "SnsQue_STOP"
    BY <1>3, <2>1 DEF IInv, StopFollows
  <2>3. k - 1 \in 1..Len(SnsorQue') /\ i < k - 1 /\ (k - 1) + 1 = k BY <1>2, <2>2
  <2>4. SnsorQue'[k - 1] = "SnsQue_STOP" BY <1>2, <2>2, <2>3
  <2> QED BY <2>3, <2>4
<1>4. Ended /\ m = "SnsQue_START" =>
        \E j \in 1..Len(SnsorQue') : SnsorQue'[j] = "SnsQue_STOP"
  BY <1>2, <1>3
<1>5. Ended => \A i \in 1..Len(SnsorQue') : SnsorQue'[i] = "SnsQue_START" =>
                \E j \in 1..Len(SnsorQue') : i < j /\ SnsorQue'[j] = "SnsQue_STOP"
  BY <1>2, <1>3
<1> QED BY <1>1, <1>2, <1>4, <1>5

\* Beginning or ending a calibration of task_sns leaves task_main's alone.
LEMMA SnsCal ==
    ASSUME IInv, NEW r \in {CalIdle, CalFirst},
           cal["sns"].pc \notin {"wait", "delay"}, cal' = [cal EXCEPT !["sns"] = r]
    PROVE  /\ cal' \in [Tasks -> CalStates] /\ cal'["sns"] = r
           /\ cal'["main"] = cal["main"] /\ Attempts' /\ (Waiting => Waiting')
<1>1. cal \in [Tasks -> CalStates] /\ r \in CalStates /\ "sns" \in Tasks
  BY CalRecords DEF IInv, TypeOK, CalStates, CalPcs, Tasks
<1>2. /\ cal' \in [Tasks -> CalStates] /\ cal'["sns"] = r
      /\ \A u \in Tasks \ {"sns"} : cal'[u] = cal[u]
  BY <1>1, CalSetKeeps
<1>3. r.pc \in {"clear", "enable", "wait", "delay", "average"} => r.TryCount < MaxTry
  BY CalRecords
<1>4. Attempts' BY <1>2, <1>3 DEF IInv, Attempts
<1>5. Waiting => Waiting' BY <1>2 DEF Waiting
<1> QED BY <1>2, <1>4, <1>5 DEF Tasks

\* A pass of task_sns clears CLR only for a recording, and clears acq_flag
\* or leaves it to a STOP that is still queued.
LEMMA SnsStep == ASSUME IInv, task_sns PROVE IInv'
<1>1. /\ UNCHANGED <<mainVars, comVars, SendReqQue, sent>>
      /\ cal \in [Tasks -> CalStates] /\ Attempts /\ Positions /\ CoreType
      /\ Wrap \in Nat \ {0}
  BY RecorderAssumption, CoreTyped
     DEF IInv, TypeOK, CalStates, CalPcs, task_sns, SnsBoot, SnsBootEnd, SnsInit,
         SnsInitEnd, SnsStart, SnsStarted, SnsStop, SnsStopped, SnsTimeout, SnsSample,
         snsRest
<1>2. CASE SnsBoot
  <2>1. /\ spc = "boot" /\ spc' = "bootcal" /\ clr' = 1 /\ CoreType'
        /\ cal' = [cal EXCEPT !["sns"] = CalFirst]
        /\ UNCHANGED <<sample_block, acq_flag, SnsCtrlSTS, SnsorQue, outcome>>
    BY <1>1, <1>2, DisableKeeps DEF SnsBoot, BeginCal
  <2>2. /\ cal' \in [Tasks -> CalStates] /\ Attempts' /\ cal'["main"] = cal["main"]
    BY <1>1, <2>1, SnsCal DEF Positions
  <2>3. TypeOK'
    BY <1>1, <2>1, <2>2 DEF IInv, TypeOK, CoreType, core, CalStates, CalPcs, mainVars, comVars
  <2>4. Positions' BY <1>1, <2>1, <2>2 DEF Positions, mainVars, comVars
  <2>5. StopFollows' /\ StopComing' /\ RunsForSomeone'
    BY <1>1, <2>1 DEF IInv, StopFollows, StopComing, Ended, RunsForSomeone, comVars
  <2> QED BY <2>2, <2>3, <2>4, <2>5 DEF IInv
<1>3. CASE SnsBootEnd
  <2>1. /\ spc = "bootcal" /\ spc' = "receive" /\ sample_block' = 0 /\ acq_flag' = 0
        /\ cal["sns"].pc \notin {"wait", "delay"} /\ cal' = [cal EXCEPT !["sns"] = CalIdle]
        /\ UNCHANGED <<SnsCtrlSTS, SnsorQue, core, outcome>>
    BY <1>3 DEF SnsBootEnd, CalDone, core
  <2>2. /\ cal' \in [Tasks -> CalStates] /\ Attempts' /\ cal'["main"] = cal["main"]
        /\ cal'["sns"].pc = "off" /\ (Waiting => Waiting')
    BY <2>1, SnsCal, CalRecords
  <2>3. TypeOK'
    BY <1>1, <2>1, <2>2 DEF IInv, TypeOK, CoreType, core, CalStates, CalPcs, mainVars, comVars
  <2>4. Positions' BY <1>1, <2>1, <2>2 DEF Positions, mainVars, comVars
  <2>5. StopFollows' /\ StopComing'
    BY <1>1, <2>1 DEF IInv, StopFollows, StopComing, Ended, comVars
  <2>6. RunsForSomeone' BY <1>1, <2>1, <2>2 DEF IInv, RunsForSomeone, Positions, core
  <2> QED BY <2>2, <2>3, <2>4, <2>5, <2>6 DEF IInv
<1>4. CASE SnsInit
  <2>1. /\ Take("SnsQue_INIT", "cal") /\ clr' = 1 /\ CoreType'
        /\ sample_block' = 0 /\ acq_flag' = 0 /\ SnsCtrlSTS' = "BUSY"
        /\ cal' = [cal EXCEPT !["sns"] = CalFirst]
        /\ UNCHANGED outcome
    BY <1>1, <1>4, DisableKeeps DEF SnsInit, BeginCal
  <2>2. /\ SnsorQue' \in Seq(Messages) /\ Len(SnsorQue') <= QueueLength
        /\ spc = "receive" /\ spc' = "cal"
        /\ Ended => \A i \in 1..Len(SnsorQue') : SnsorQue'[i] = "SnsQue_START" =>
             \E j \in 1..Len(SnsorQue') : i < j /\ SnsorQue'[j] = "SnsQue_STOP"
    BY <2>1, TakeKeeps
  <2>3. /\ cal' \in [Tasks -> CalStates] /\ Attempts' /\ cal'["main"] = cal["main"]
    BY <1>1, <2>1, <2>2, SnsCal DEF Positions
  <2>4. TypeOK'
    BY <1>1, <2>1, <2>2, <2>3 DEF IInv, TypeOK, CoreType, core, CalStates, CalPcs, mainVars, comVars
  <2>5. Positions' BY <1>1, <2>1, <2>2, <2>3 DEF Positions, mainVars, comVars
  <2>6. StopFollows' BY <1>1, <2>2 DEF StopFollows, Ended, comVars
  <2>7. StopComing' /\ RunsForSomeone' BY <2>1 DEF StopComing, RunsForSomeone
  <2> QED BY <2>3, <2>4, <2>5, <2>6, <2>7 DEF IInv
<1>5. CASE SnsInitEnd
  <2>1. /\ spc = "cal" /\ spc' = "sample" /\ outcome' \in {"ok", "error"}
        /\ SnsCtrlSTS' \in {"IDLE", "ERROR"}
        /\ cal["sns"].pc \notin {"wait", "delay"} /\ cal' = [cal EXCEPT !["sns"] = CalIdle]
        /\ UNCHANGED <<sample_block, acq_flag, SnsorQue, core>>
    BY <1>5 DEF SnsInitEnd, CalDone, core
  <2>2. /\ cal' \in [Tasks -> CalStates] /\ Attempts' /\ cal'["main"] = cal["main"]
        /\ cal'["sns"].pc = "off" /\ (Waiting => Waiting')
    BY <2>1, SnsCal, CalRecords
  <2>3. TypeOK'
    BY <1>1, <2>1, <2>2 DEF IInv, TypeOK, CoreType, core, CalStates, CalPcs, mainVars, comVars
  <2>4. Positions' BY <1>1, <2>1, <2>2 DEF Positions, mainVars, comVars
  <2>5. StopFollows' /\ StopComing'
    BY <1>1, <2>1 DEF IInv, StopFollows, StopComing, Ended, comVars
  <2>6. RunsForSomeone' BY <1>1, <2>1, <2>2 DEF IInv, RunsForSomeone, core
  <2> QED BY <2>2, <2>3, <2>4, <2>5, <2>6 DEF IInv
<1>6. CASE SnsStart
  <2>1. /\ Take("SnsQue_START", "starting")
        /\ sample_block' = 0 /\ acq_flag' = 1 /\ SnsCtrlSTS' = "BUSY"
        /\ UNCHANGED <<cal, core, outcome>>
    BY <1>6 DEF SnsStart, core
  <2>2. /\ SnsorQue' \in Seq(Messages) /\ Len(SnsorQue') <= QueueLength
        /\ spc = "receive" /\ spc' = "starting"
        /\ Ended => \A i \in 1..Len(SnsorQue') : SnsorQue'[i] = "SnsQue_START" =>
             \E j \in 1..Len(SnsorQue') : i < j /\ SnsorQue'[j] = "SnsQue_STOP"
        /\ Ended => \E j \in 1..Len(SnsorQue') : SnsorQue'[j] = "SnsQue_STOP"
    BY <2>1, TakeKeeps
  <2>3. TypeOK' BY <1>1, <2>1, <2>2 DEF IInv, TypeOK, CoreType, core, mainVars, comVars
  <2>4. Attempts' /\ Positions'
    BY <1>1, <2>1, <2>2 DEF Attempts, Positions, mainVars, comVars
  <2>5. StopFollows' /\ StopComing'
    BY <1>1, <2>2 DEF StopFollows, StopComing, Ended, comVars
  <2>6. RunsForSomeone' BY <2>1, <2>2 DEF RunsForSomeone
  <2> QED BY <2>3, <2>4, <2>5, <2>6 DEF IInv
<1>7. CASE SnsStop
  <2>1. /\ Take("SnsQue_STOP", "stopping") /\ clr' = 1 /\ CoreType'
        /\ SnsCtrlSTS' = "IDLE" /\ UNCHANGED <<sample_block, acq_flag, cal, outcome>>
    BY <1>1, <1>7, DisableKeeps DEF SnsStop
  <2>2. /\ SnsorQue' \in Seq(Messages) /\ Len(SnsorQue') <= QueueLength
        /\ spc = "receive" /\ spc' = "stopping"
        /\ Ended => \A i \in 1..Len(SnsorQue') : SnsorQue'[i] = "SnsQue_START" =>
             \E j \in 1..Len(SnsorQue') : i < j /\ SnsorQue'[j] = "SnsQue_STOP"
    BY <2>1, TakeKeeps
  <2>3. TypeOK' BY <1>1, <2>1, <2>2 DEF IInv, TypeOK, CoreType, core, mainVars, comVars
  <2>4. Attempts' /\ Positions'
    BY <1>1, <2>1, <2>2 DEF Attempts, Positions, mainVars, comVars
  <2>5. StopFollows' /\ StopComing'
    BY <1>1, <2>2 DEF StopFollows, StopComing, Ended, comVars
  <2>6. RunsForSomeone' BY <2>1 DEF RunsForSomeone
  <2> QED BY <2>3, <2>4, <2>5, <2>6 DEF IInv
<1>8. CASE SnsStarted
  <2>1. /\ spc = "starting" /\ spc' = "sample" /\ enable_PDM
        /\ UNCHANGED <<sample_block, acq_flag, SnsCtrlSTS, SnsorQue, cal, outcome>>
    BY <1>8 DEF SnsStarted
  <2>2. clr' = 0 /\ CoreType' BY <1>1, <2>1, EnableKeeps
  <2>3. TypeOK' BY <1>1, <2>1, <2>2 DEF IInv, TypeOK, CoreType, core, mainVars, comVars
  <2>4. acq_flag' = 1 BY <1>1, <2>1 DEF Positions
  <2>5. Attempts' /\ Positions' /\ StopFollows' /\ StopComing' /\ RunsForSomeone'
    BY <1>1, <2>1, <2>4 DEF IInv, Attempts, Positions, StopFollows, StopComing, Ended,
                            RunsForSomeone, mainVars, comVars
  <2> QED BY <2>3, <2>5 DEF IInv
<1>9. CASE SnsStopped \/ SnsTimeout \/ SnsSample
  <2>1. /\ spc \in {"stopping", "receive", "sample"} /\ spc' \in {"receive", "sample"}
        /\ UNCHANGED <<SnsCtrlSTS, SnsorQue, cal, core, outcome>>
        /\ sample_block' \in {0, sample_block, hw}
        /\ \/ acq_flag' = 0 /\ spc = "stopping"
           \/ acq_flag' = acq_flag /\ spc # "stopping"
    BY <1>9 DEF SnsStopped, SnsTimeout, SnsSample, core
  <2>2. TypeOK' BY <1>1, <2>1 DEF IInv, TypeOK, CoreType, core, mainVars, comVars
  <2>3. Attempts' /\ Positions'
    BY <1>1, <2>1 DEF Attempts, Positions, mainVars, comVars
  <2>4. StopFollows' /\ StopComing'
    BY <1>1, <2>1 DEF IInv, StopFollows, StopComing, Ended, comVars
  <2>5. RunsForSomeone' BY <2>1 DEF IInv, RunsForSomeone, Waiting, core
  <2> QED BY <2>2, <2>3, <2>4, <2>5 DEF IInv
<1> QED BY <1>2, <1>3, <1>4, <1>5, <1>6, <1>7, <1>8, <1>9 DEF task_sns

---------------------------------------------------------------------------
(* The theorems. *)

LEMMA StutterStep == ASSUME IInv, UNCHANGED vars PROVE IInv'
<1>1. /\ UNCHANGED mainVars /\ UNCHANGED comVars /\ UNCHANGED snsVars
      /\ UNCHANGED queues /\ UNCHANGED cal /\ UNCHANGED core /\ UNCHANGED history
  BY DEF vars
<1>2. /\ UNCHANGED mpc /\ UNCHANGED cmd /\ UNCHANGED rsp
      /\ UNCHANGED cpc /\ UNCHANGED send_block /\ UNCHANGED send_block_max
      /\ UNCHANGED DataTxEn /\ UNCHANGED ch
      /\ UNCHANGED spc /\ UNCHANGED sample_block /\ UNCHANGED acq_flag
      /\ UNCHANGED SnsCtrlSTS /\ UNCHANGED SnsorQue /\ UNCHANGED SendReqQue
      /\ UNCHANGED cal /\ UNCHANGED clr /\ UNCHANGED hw
      /\ UNCHANGED ring /\ UNCHANGED last /\ UNCHANGED landing
      /\ UNCHANGED sent /\ UNCHANGED outcome
  BY <1>1 DEF mainVars, comVars, snsVars, queues, core, history
<1>3. TypeOK' BY <1>2 DEF IInv, TypeOK
<1>4. Attempts' /\ Positions' BY <1>2 DEF IInv, Attempts, Positions
<1>5. StopFollows' /\ StopComing' BY <1>2 DEF IInv, StopFollows, StopComing, Ended
<1>6. RunsForSomeone' BY <1>2 DEF IInv, RunsForSomeone, Waiting
<1> QED BY <1>3, <1>4, <1>5, <1>6 DEF IInv

\* The invariant holds whatever the host sends and however the three tasks and
\* the core interleave.
THEOREM Invariance == Spec => []IInv
<1>1. IInv /\ [Next]_vars => IInv'
  BY HwStep, MainStep, ComStep, SnsStep, CalStep, StutterStep DEF Next
<1> QED BY InitIInv, <1>1, PTL DEF Spec

\* Every variable stays in its range: the queues never hold more than they
\* have room for, the published block count is one the core can have, and a
\* calibration never counts more than MaxTry attempts.
THEOREM TypeCorrect == Spec => []TypeOK
<1>1. IInv => TypeOK BY DEF IInv
<1> QED BY Invariance, <1>1, PTL

\* When the sender is idle and every message is handled the microphones are
\* off, also after commands that came in during the boot calibration: each
\* START that task_com posts is followed by the STOP it posts at the end.
THEOREM NothingLeft == Spec => []NothingLeftRunning
<1>1. ASSUME IInv, DataTxEn = 0, cpc \notin {"start", "stop"}, SnsorQue = <<>>,
             spc \in {"receive", "sample"}, cal["main"].pc = "off"
      PROVE  acq_flag = 0 /\ clr = 1
  <2>1. Ended /\ 1..Len(SnsorQue) = {} BY <1>1 DEF Ended
  <2>2. acq_flag = 0 BY <1>1, <2>1 DEF IInv, TypeOK, StopComing
  <2>3. ~Waiting BY <1>1 DEF IInv, Positions, Waiting, Tasks
  <2>4. clr = 1 BY <1>1, <2>2, <2>3 DEF IInv, TypeOK, RunsForSomeone
  <2> QED BY <2>2, <2>4
<1>2. IInv => NothingLeftRunning BY <1>1 DEF NothingLeftRunning
<1> QED BY Invariance, <1>2, PTL


---------------------------------------------------------------------------
(* From here on the host is patient: it sends nothing until the boot       *)
(* calibration is over, and a command finds the handlers of the one before *)
(* it done (HostReady, Settled) and the core less than a ring ahead of the *)
(* sender (Lag).                                                           *)

(* The stages of a command, by where each task is.                         *)

SnsCalm == spc \in {"receive", "sample"} /\ acq_flag = 0
ComCalm == cpc = "receive" /\ DataTxEn = 0 /\ SendReqQue = <<>>
Sending == /\ SendReqQue = <<>>
           /\ \/ cpc \in {"receive", "test", "dma", "end"} /\ DataTxEn = 1
              \/ cpc = "stop"

\* Between commands: before task_sns takes messages, and after the answer, when
\* task_sns may still be in the middle of STOP.
InBoot == Booting /\ mpc = "check" /\ ComCalm /\ SnsorQue = <<>>
Quiet == mpc = "check" /\ ComCalm /\ SnsorQue = <<>> /\ (SnsCalm \/ spc = "stopping")

\* A command is in, or calibrates in task_main itself (SG).
Asked == mpc \in {"post", "calibrate"} /\ ComCalm /\ SnsorQue = <<>> /\ SnsCalm

\* IS: INIT is in the queue, is carried out, is done.
Waits == mpc \in {"delay", "poll"}
InitPosted == mpc = "delay" /\ ComCalm /\ SnsorQue = <<"SnsQue_INIT">> /\ SnsCalm
InitRuns == Waits /\ ComCalm /\ SnsorQue = <<>> /\ spc = "cal" /\ SnsCtrlSTS = "BUSY"
InitDone == /\ Waits /\ ComCalm /\ SnsorQue = <<>> /\ SnsCalm
            /\ outcome \in {"ok", "error"}
            /\ SnsCtrlSTS = IF outcome = "error" THEN "ERROR" ELSE "IDLE"

\* GW: the request is in the queue; task_com has it; START is in the queue, with
\* STOP behind it when nothing had to be sent; task_sns records, until it finds
\* STOP; STOP is taken.
Requested == /\ mpc = "delay" /\ SendReqQue = <<cmd.n>> /\ cpc = "receive" /\ DataTxEn = 0
             /\ SnsorQue = <<>> /\ SnsCalm
Taken == mpc = "delay" /\ SendReqQue = <<>> /\ cpc = "start" /\ SnsorQue = <<>> /\ SnsCalm
StartPosted == /\ mpc = "delay" /\ SnsCalm
               /\ \/ Sending /\ SnsorQue = <<"SnsQue_START">>
                  \/ ComCalm /\ SnsorQue = <<"SnsQue_START", "SnsQue_STOP">>
Records == /\ Waits /\ acq_flag = 1 /\ spc \in {"starting", "receive", "sample"}
           /\ SnsCtrlSTS = "BUSY"
           /\ \/ Sending /\ SnsorQue = <<>>
              \/ ComCalm /\ SnsorQue = <<"SnsQue_STOP">>
Stopped == /\ Waits /\ ComCalm /\ SnsorQue = <<>> /\ (SnsCalm \/ spc = "stopping")
           /\ SnsCtrlSTS = "IDLE"

Stage == \/ InBoot \/ Quiet \/ Asked
         \/ cmd.op = "IS" /\ (InitPosted \/ InitRuns \/ InitDone)
         \/ cmd.op = "GW" /\ (Requested \/ Taken \/ StartPosted \/ Records \/ Stopped)

---------------------------------------------------------------------------
(* Blocks. *)

\* The last blocks of the capture that runs are in the ring, but for the last
\* half of the one counted last, which may be on its way; CLR holds the count at
\* zero; and a sender, a calibration or the boot keeps up with it.
InRing == \A b \in Nat : b < hw /\ hw <= b + Ring => ring[b % Ring] = b
Lasts == /\ landing # None => landing \in Nat /\ hw = landing + 1
         /\ \A b \in Nat : b < hw /\ hw <= b + Ring => last[b % Ring] = b \/ landing = b

\* A calibration that has seen its samples counted, and one that averages them.
Calibrated(w) ==
    /\ cal[w].pc = "delay" => hw >= CalBlocks
    /\ cal[w].pc = "average" =>
         clr = 1 /\ \A b \in 0..(CalBlocks - 1) :
                      /\ ring[b] = b
                      /\ last[b] = b \/ (b = CalBlocks - 1 /\ ~cal[w].whole)

Captured ==
    /\ clr = 1 => hw = 0 /\ landing = None
    /\ clr = 0 => InRing /\ Lasts
    /\ acq_flag = 0 \/ DataTxEn = 1 => hw <= send_block + (Ring - 1)
    /\ \A w \in Tasks : Calibrated(w)

\* What is published has been captured, what is sent has been published.
Published ==
    /\ acq_flag = 0 => sample_block = 0
    /\ spc # "stopping" => sample_block <= hw
    /\ cpc = "dma" => send_block < sample_block /\ send_block < send_block_max

\* The blocks sent so far.
Counted ==
    /\ DataTxEn = 0 => send_block = 0
    /\ DataTxEn = 1 => /\ send_block_max = cmd.n /\ send_block <= send_block_max
                       /\ Len(sent) = send_block * Channels + (IF cpc = "dma" THEN ch ELSE 0)
    /\ mpc = "post" \/ SendReqQue # <<>> => sent = <<>>
    /\ cmd.op = "GW" /\ Waits /\ DataTxEn = 0 /\ SendReqQue = <<>> =>
         Len(sent) = cmd.n * Channels

PInv == IInv /\ Stage /\ Captured /\ Published /\ Counted

---------------------------------------------------------------------------
(* Queues of one or two messages. *)

LEMMA ShortQueues ==
    ASSUME NEW C, NEW a \in C, NEW b \in C
    PROVE  /\ Append(<<>>, a) = <<a>> /\ Append(<<a>>, b) = <<a, b>>
           /\ <<a>> # <<>> /\ <<a, b>> # <<>>
           /\ Head(<<a>>) = a /\ Tail(<<a>>) = <<>>
           /\ Head(<<a, b>>) = a /\ Tail(<<a, b>>) = <<b>>
           /\ Len(<<>>) = 0
<1>1. <<>> \in Seq(C) /\ <<a>> \in Seq(C) /\ <<a, b>> \in Seq(C) OBVIOUS
<1>2. Len(<<>>) = 0 /\ Len(<<a>>) = 1 /\ Len(<<a, b>>) = 2 OBVIOUS
<1>3. <<a>> # <<>> /\ <<a, b>> # <<>> BY <1>2
<1>4. Append(<<>>, a) = <<a>> OBVIOUS
<1>5. Append(<<a>>, b) = <<a, b>>
  <2> DEFINE s == Append(<<a>>, b)
  <2>1. s \in Seq(C) /\ Len(s) = 2 /\ s[1] = a /\ s[2] = b BY <1>1, <1>2
  <2>2. s = [i \in 1..2 |-> s[i]] BY <2>1
  <2>3. <<a, b>> = [i \in 1..2 |-> <<a, b>>[i]] BY <1>1, <1>2
  <2>4. \A i \in 1..2 : s[i] = <<a, b>>[i] BY <2>1
  <2> QED BY <2>2, <2>3, <2>4
<1>6. Head(<<a>>) = a /\ Head(<<a, b>>) = a OBVIOUS
<1>7. Tail(<<a>>) = <<>> OBVIOUS
<1>8. Tail(<<a, b>>) = <<b>> OBVIOUS
<1> QED BY <1>2, <1>3, <1>4, <1>5, <1>6, <1>7, <1>8

---------------------------------------------------------------------------
(* What a stage says of a calibration and of the core. *)

LEMMA WhoCalibrates ==
    ASSUME PInv, NEW w \in Tasks, cal[w].pc # "off"
    PROVE  /\ ComCalm /\ SnsorQue = <<>> /\ acq_flag = 0
           /\ \A u \in Tasks \ {w} : cal[u].pc = "off"
           /\ spc \notin {"starting", "stopping"}
           /\ (w = "main" => mpc = "calibrate" /\ Asked)
           /\ (w = "sns" => spc \in {"bootcal", "cal"} /\ (InBoot \/ InitRuns))
<1>1. CASE w = "main"
  <2>1. mpc = "calibrate" BY <1>1 DEF PInv, IInv, Positions
  <2>2. Asked
    BY <2>1 DEF PInv, Stage, InBoot, Quiet, InitPosted, InitRuns, InitDone, Requested,
                Taken, StartPosted, Records, Stopped, Waits
  <2>3. cal["sns"].pc = "off"
    BY <2>2 DEF PInv, IInv, Positions, Asked, SnsCalm
  <2> QED BY <1>1, <2>1, <2>2, <2>3 DEF Asked, SnsCalm, Tasks
<1>2. CASE w = "sns"
  <2>1. spc \in {"bootcal", "cal"} /\ acq_flag = 0 BY <1>2 DEF PInv, IInv, Positions
  <2>2. InBoot \/ InitRuns
    BY <2>1 DEF PInv, Stage, Quiet, Asked, InitPosted, InitDone, Requested,
                Taken, StartPosted, Records, Stopped, SnsCalm
  <2>3. cal["main"].pc = "off"
    BY <2>2 DEF PInv, IInv, Positions, InBoot, InitRuns, Waits
  <2> QED BY <1>2, <2>1, <2>2, <2>3 DEF InBoot, InitRuns, Tasks
<1> QED BY <1>1, <1>2 DEF Tasks

\* The core is held in CLR when nobody records or calibrates.
LEMMA AtRest ==
    ASSUME PInv, SnsCalm \/ spc = "stopping",
           \A w \in Tasks : cal[w].pc \notin {"wait", "delay"}
    PROVE  clr = 1 /\ hw = 0
<1>1. ~Waiting BY DEF Waiting
<1>2. clr = 1 BY <1>1 DEF PInv, IInv, TypeOK, RunsForSomeone, SnsCalm
<1> QED BY <1>2 DEF PInv, Captured

---------------------------------------------------------------------------
(* The stages follow each other. *)

stageVars == <<mpc, cmd, cpc, DataTxEn, spc, acq_flag, SnsCtrlSTS, SnsorQue, SendReqQue, outcome>>

LEMMA StageKept == ASSUME Stage, UNCHANGED stageVars PROVE Stage'
<1>1. /\ mpc' = mpc /\ cmd' = cmd /\ cpc' = cpc /\ DataTxEn' = DataTxEn /\ spc' = spc
      /\ acq_flag' = acq_flag /\ SnsCtrlSTS' = SnsCtrlSTS /\ SnsorQue' = SnsorQue
      /\ SendReqQue' = SendReqQue /\ outcome' = outcome
  BY DEF stageVars
<1>2. ComCalm' = ComCalm /\ SnsCalm' = SnsCalm /\ Sending' = Sending
  BY <1>1 DEF ComCalm, SnsCalm, Sending
<1> QED BY <1>1, <1>2 DEF Stage, InBoot, Booting, Quiet, Asked, InitPosted, InitRuns,
             InitDone, Requested, Taken, StartPosted, Records, Stopped, Waits

LEMMA CalStage == ASSUME PInv, pdm_core \/ \E w \in Tasks : Calibration(w) PROVE Stage'
<1>1. UNCHANGED <<mainVars, comVars, snsVars, queues, history>>
  BY DEF pdm_core, HwBlock, HwLast, coreRest, Calibration, CalClear, CalEnable, CalWait, CalEnd,
         CalAverage, calRest
<1>2. UNCHANGED stageVars
  BY <1>1 DEF stageVars, mainVars, comVars, snsVars, queues, history
<1> QED BY <1>2, StageKept DEF PInv

LEMMA MainStage == ASSUME PInv, Patient, task_main PROVE Stage'
<1>1. UNCHANGED <<comVars, snsVars>>
  BY DEF task_main, Command, Post, Delay, Poll, GainSet
<1>2. /\ UNCHANGED <<cpc, DataTxEn, spc, acq_flag, SnsCtrlSTS>>
  BY <1>1 DEF comVars, snsVars
<1>3. ASSUME NEW c \in Commands, Command(c) PROVE Stage'
  <2>1. /\ mpc = "check"
        /\ mpc' \in {"post", "calibrate"} /\ UNCHANGED <<SnsorQue, SendReqQue>>
    BY <1>3 DEF Command, HostReady, Booting, queues
  <2>2. Quiet /\ SnsCalm
    BY <1>3 DEF Command, HostReady, PInv, Stage, InBoot, Quiet, Asked, InitPosted, InitRuns,
                InitDone, Requested, Taken, StartPosted, Records, Stopped, Waits, SnsCalm
  <2>3. Asked'
    BY <1>2, <2>1, <2>2 DEF Quiet, Asked, SnsCalm, ComCalm
  <2> QED BY <2>3 DEF Stage
<1>4. CASE Post
  <2>1. Asked
    BY <1>4 DEF Post, PInv, Stage, InBoot, Quiet, InitPosted, InitRuns,
                InitDone, Requested, Taken, StartPosted, Records, Stopped, Waits
  <2>2. CASE cmd.op = "IS"
    <3>1. InitPosted' /\ cmd' = cmd
      BY <1>2, <1>4, <2>1, <2>2, ShortQueues
         DEF Post, Asked, InitPosted, SnsCalm, ComCalm
    <3> QED BY <3>1, <2>2 DEF Stage
  <2>3. CASE cmd.op = "GW"
    <3>1. Requested' /\ cmd' = cmd
      BY <1>2, <1>4, <2>1, <2>3, ShortQueues
         DEF Post, Asked, Requested, SnsCalm, ComCalm
    <3> QED BY <3>1, <2>3 DEF Stage
  <2> QED BY <1>4, <2>2, <2>3 DEF Post
<1>5. CASE Delay
  <2>1. mpc = "delay" /\ mpc' = "poll" /\ Settled /\ UNCHANGED <<cmd, SnsorQue, SendReqQue, outcome>>
    BY <1>5 DEF Delay, queues, history
  <2>2. <<"SnsQue_INIT">> # <<>> /\ <<"SnsQue_START">> # <<>> /\ <<cmd.n>> # <<>>
        /\ <<"SnsQue_START", "SnsQue_STOP">> # <<>> /\ Len(<<>>) # QueueLength
    BY ShortQueues, RecorderAssumption
  <2>3. ~InBoot /\ ~Quiet /\ ~Asked
    BY <2>1 DEF InBoot, Quiet, Asked
  <2>4. ~InitPosted /\ ~StartPosted
    BY <2>1, <2>2 DEF Settled, InitPosted, StartPosted, SnsCalm
  <2>5. ~Requested /\ ~Taken
    BY <2>1, <2>2 DEF Settled, ComBlocked, Requested, Taken
  <2>6. (InitRuns => InitRuns') /\ (InitDone => InitDone')
        /\ (Records => Records') /\ (Stopped => Stopped')
    BY <1>2, <2>1 DEF InitRuns, InitDone, Records, Stopped, Waits, ComCalm, SnsCalm, Sending
  <2> QED BY <2>1, <2>3, <2>4, <2>5, <2>6 DEF PInv, Stage
<1>6. CASE Poll
  <2>1. mpc = "poll" /\ mpc' = "check" /\ SnsCtrlSTS # "BUSY" /\ UNCHANGED <<SnsorQue, SendReqQue>>
    BY <1>6 DEF Poll, queues
  <2>2. InitDone \/ Stopped
    BY <2>1 DEF PInv, Stage, InBoot, Quiet, Asked, InitPosted, InitRuns,
                Requested, Taken, StartPosted, Records
  <2>3. Quiet'
    BY <1>2, <2>1, <2>2 DEF InitDone, Stopped, Quiet, SnsCalm, ComCalm
  <2> QED BY <2>3 DEF Stage
<1>7. CASE GainSet
  <2>1. mpc = "calibrate" /\ mpc' = "check" /\ UNCHANGED <<SnsorQue, SendReqQue>>
    BY <1>7 DEF GainSet, queues
  <2>2. Asked
    BY <2>1 DEF PInv, Stage, InBoot, Quiet, InitPosted, InitRuns, InitDone, Waits,
                Requested, Taken, StartPosted, Records, Stopped
  <2>3. Quiet'
    BY <1>2, <2>1, <2>2 DEF Asked, Quiet, SnsCalm, ComCalm
  <2> QED BY <2>3 DEF Stage
<1> QED BY <1>3, <1>4, <1>5, <1>6, <1>7 DEF task_main

\* Only a recording has task_com out of its first line.
LEMMA SenderStages ==
    ASSUME PInv, cpc # "receive" \/ DataTxEn = 1
    PROVE  cmd.op = "GW" /\ (Taken \/ (StartPosted /\ Sending) \/ (Records /\ Sending))
BY DEF PInv, Stage, InBoot, Quiet, Asked, InitPosted, InitRuns, InitDone, Requested, Stopped,
       StartPosted, Records, ComCalm

LEMMA SenderGoesOn ==
    ASSUME PInv, Sending, cpc \notin {"stop", "start"}, Sending',
           UNCHANGED <<mainVars, snsVars, SnsorQue, outcome>>
    PROVE  Stage'
<1>1. cmd.op = "GW" /\ (StartPosted \/ Records)
  BY SenderStages DEF Sending, Taken
<1>2. /\ UNCHANGED <<mpc, cmd, spc, acq_flag, SnsCtrlSTS, SnsorQue>>
  BY DEF mainVars, snsVars
<1>3. DataTxEn = 1 BY DEF Sending
<1>4. StartPosted => StartPosted'
  BY <1>2, <1>3 DEF StartPosted, SnsCalm, ComCalm
<1>5. Records => Records'
  BY <1>2, <1>3 DEF Records, Waits, ComCalm
<1> QED BY <1>1, <1>2, <1>4, <1>5 DEF Stage

LEMMA ComStage == ASSUME PInv, task_com PROVE Stage'
<1>1. UNCHANGED <<mainVars, snsVars, outcome>>
  BY DEF task_com, ComReceive, ComStart, ComTest, ComDma, ComEnd, ComStop, ComPost, comRest
<1>2. UNCHANGED <<mpc, cmd, spc, acq_flag, SnsCtrlSTS>>
  BY <1>1 DEF mainVars, snsVars
<1>3. CASE ComReceive
  <2>1. cpc = "receive" /\ UNCHANGED SnsorQue
    BY <1>3 DEF ComReceive
  <2>2. CASE SendReqQue # <<>>
    <3>1. Requested /\ cmd.op = "GW"
      BY <2>2 DEF PInv, Stage, InBoot, Quiet, Asked, InitPosted, InitRuns, InitDone,
                  Taken, StartPosted, Records, Stopped, ComCalm, Sending
    <3>2. SendReqQue' = <<>> /\ cpc' = "start"
      BY <1>3, <2>2, <3>1, ShortQueues DEF ComReceive, Requested
    <3>3. Taken' BY <1>2, <2>1, <3>1, <3>2 DEF Requested, Taken, SnsCalm
    <3> QED BY <1>2, <3>1, <3>3 DEF Stage
  <2>3. CASE SendReqQue = <<>> /\ DataTxEn = 1
    <3>1. Sending /\ Sending' BY <1>3, <2>1, <2>3 DEF ComReceive, Sending
    <3> QED BY <1>1, <2>1, <3>1, SenderGoesOn
  <2>4. CASE SendReqQue = <<>> /\ DataTxEn # 1
    <3>1. UNCHANGED <<cpc, DataTxEn, SendReqQue>> BY <1>3, <2>1, <2>4 DEF ComReceive
    <3>2. UNCHANGED stageVars BY <1>1, <1>2, <2>1, <3>1 DEF stageVars
    <3> QED BY <3>2, StageKept DEF PInv
  <2> QED BY <2>2, <2>3, <2>4
<1>4. CASE ComStart
  <2>1. /\ cpc = "start" /\ cpc' = "test" /\ SnsorQue' = Append(SnsorQue, "SnsQue_START")
        /\ UNCHANGED <<SendReqQue, DataTxEn>>
    BY <1>4 DEF ComStart, ComPost
  <2>2. cmd.op = "GW" /\ Taken /\ DataTxEn = 1
    BY <2>1, SenderStages DEF Sending, PInv, IInv, Positions
  <2>3. SnsorQue' = <<"SnsQue_START">> BY <2>1, <2>2, ShortQueues DEF Taken
  <2>4. StartPosted'
    BY <1>2, <2>1, <2>2, <2>3 DEF Taken, StartPosted, Sending, SnsCalm
  <2> QED BY <1>2, <2>2, <2>4 DEF Stage
<1>5. CASE ComTest \/ ComDma \/ ComEnd
  <2>1. /\ cpc \in {"test", "dma", "end"} /\ UNCHANGED <<SendReqQue, SnsorQue>>
        /\ \/ cpc' \in {"dma", "end", "receive"} /\ DataTxEn' = DataTxEn
           \/ cpc' = "stop"
    BY <1>5 DEF ComTest, ComDma, ComEnd, queues
  <2>2. Sending BY <2>1, SenderStages DEF Taken
  <2>3. Sending' BY <2>1, <2>2 DEF Sending
  <2> QED BY <1>1, <2>1, <2>2, <2>3, SenderGoesOn
<1>6. CASE ComStop
  <2>1. /\ cpc = "stop" /\ cpc' = "receive" /\ SnsorQue' = Append(SnsorQue, "SnsQue_STOP")
        /\ UNCHANGED <<SendReqQue, DataTxEn>>
    BY <1>6 DEF ComStop, ComPost
  <2>2. DataTxEn = 0 /\ cmd.op = "GW" /\ ((StartPosted /\ Sending) \/ (Records /\ Sending))
    BY <2>1, SenderStages DEF Taken, PInv, IInv, Positions
  <2>3. ComCalm' /\ ~ComCalm BY <2>1, <2>2 DEF Sending, ComCalm
  <2>4. StartPosted => StartPosted'
    <3>1. ASSUME StartPosted PROVE SnsorQue' = <<"SnsQue_START", "SnsQue_STOP">>
      <4>1. SnsorQue = <<"SnsQue_START">> BY <2>3, <3>1 DEF StartPosted
      <4>2. Append(<<"SnsQue_START">>, "SnsQue_STOP") = <<"SnsQue_START", "SnsQue_STOP">>
        BY ShortQueues, "SnsQue_START" \in Messages, "SnsQue_STOP" \in Messages DEF Messages
      <4> QED BY <2>1, <4>1, <4>2
    <3> QED BY <1>2, <2>3, <3>1 DEF StartPosted, SnsCalm
  <2>5. Records => Records'
    <3>1. Records => SnsorQue' = <<"SnsQue_STOP">>
      <4>1. Append(<<>>, "SnsQue_STOP") = <<"SnsQue_STOP">>
        BY ShortQueues, "SnsQue_STOP" \in Messages DEF Messages
      <4>2. Records => SnsorQue = <<>>
        BY <2>3 DEF Records
      <4> QED BY <2>1, <2>3, <4>1, <4>2
    <3> QED BY <1>2, <2>3, <3>1 DEF Records, Waits
  <2> QED BY <1>2, <2>2, <2>4, <2>5 DEF Stage
<1> QED BY <1>3, <1>4, <1>5, <1>6 DEF task_com

\* What task_sns finds in its queue, and in which stage.
LEMMA SnsFinds ==
    ASSUME PInv, spc = "receive", SnsorQue # <<>>
    PROVE  \/ cmd.op = "IS" /\ InitPosted /\ Head(SnsorQue) = "SnsQue_INIT" /\ Tail(SnsorQue) = <<>>
           \/ /\ cmd.op = "GW" /\ StartPosted /\ Head(SnsorQue) = "SnsQue_START"
              /\ \/ Sending /\ Tail(SnsorQue) = <<>>
                 \/ ComCalm /\ Tail(SnsorQue) = <<"SnsQue_STOP">>
           \/ /\ cmd.op = "GW" /\ Records /\ ComCalm /\ Head(SnsorQue) = "SnsQue_STOP"
              /\ Tail(SnsorQue) = <<>>
<1>1. \/ cmd.op = "IS" /\ InitPosted
      \/ cmd.op = "GW" /\ StartPosted
      \/ cmd.op = "GW" /\ Records /\ SnsorQue = <<"SnsQue_STOP">> /\ ComCalm
  BY DEF PInv, Stage, InBoot, Quiet, Asked, InitRuns, InitDone, Requested, Taken, Records,
         Stopped
<1>2. CASE cmd.op = "IS" /\ InitPosted BY <1>2, ShortQueues DEF InitPosted
<1>3. CASE cmd.op = "GW" /\ StartPosted
  <2>1. CASE Sending /\ SnsorQue = <<"SnsQue_START">> BY <1>3, <2>1, ShortQueues
  <2>2. CASE ComCalm /\ SnsorQue = <<"SnsQue_START", "SnsQue_STOP">>
    <3>1. Head(SnsorQue) = "SnsQue_START" /\ Tail(SnsorQue) = <<"SnsQue_STOP">>
      BY <2>2, ShortQueues
    <3> QED BY <1>3, <2>2, <3>1
  <2> QED BY <1>3, <2>1, <2>2 DEF StartPosted
<1>4. CASE cmd.op = "GW" /\ Records /\ SnsorQue = <<"SnsQue_STOP">> /\ ComCalm
  BY <1>4, ShortQueues
<1> QED BY <1>1, <1>2, <1>3, <1>4

LEMMA SnsStage == ASSUME PInv, task_sns PROVE Stage'
<1>1. UNCHANGED <<mainVars, comVars, SendReqQue, sent>>
  BY DEF task_sns, SnsBoot, SnsBootEnd, SnsInit, SnsInitEnd, SnsStart, SnsStarted, SnsStop,
         SnsStopped, SnsTimeout, SnsSample, snsRest
<1>2. /\ UNCHANGED <<mpc, cmd, cpc, DataTxEn, SendReqQue>>
      /\ ComCalm' = ComCalm /\ Sending' = Sending
  BY <1>1 DEF mainVars, comVars, ComCalm, Sending
<1>3. CASE SnsBoot \/ SnsBootEnd
  <2>1. /\ spc \in {"boot", "bootcal"} /\ UNCHANGED SnsorQue
        /\ (spc' = "bootcal" \/ (spc' = "receive" /\ acq_flag' = 0))
    BY <1>3 DEF SnsBoot, SnsBootEnd
  <2>2. InBoot
    BY <2>1 DEF PInv, Stage, InBoot, Quiet, Asked, InitPosted, InitRuns, InitDone, Requested,
                Taken, StartPosted, Records, Stopped, SnsCalm
  <2>3. InBoot' \/ Quiet'
    BY <1>2, <2>1, <2>2 DEF InBoot, Quiet, Booting, SnsCalm
  <2> QED BY <2>3 DEF Stage
<1>4. CASE SnsInit
  <2>1. /\ spc = "receive" /\ spc' = "cal" /\ SnsorQue # <<>> /\ SnsorQue' = Tail(SnsorQue)
        /\ Head(SnsorQue) = "SnsQue_INIT" /\ SnsCtrlSTS' = "BUSY"
    BY <1>4 DEF SnsInit, Take
  <2>2. cmd.op = "IS" /\ InitPosted /\ Tail(SnsorQue) = <<>>
    BY <2>1, SnsFinds
  <2>3. InitRuns' BY <1>2, <2>1, <2>2 DEF InitPosted, InitRuns, Waits
  <2> QED BY <1>2, <2>2, <2>3 DEF Stage
<1>5. CASE SnsInitEnd
  <2>1. /\ spc = "cal" /\ spc' = "sample" /\ CalDone("sns") /\ outcome' = cal["sns"].pc
        /\ SnsCtrlSTS' = IF cal["sns"].pc = "ok" THEN "IDLE" ELSE "ERROR"
        /\ UNCHANGED <<SnsorQue, acq_flag>>
    BY <1>5 DEF SnsInitEnd
  <2>2. cmd.op = "IS" /\ InitRuns /\ acq_flag = 0
    BY <2>1 DEF PInv, IInv, Positions, Stage, InBoot, Booting, Quiet, Asked, InitPosted,
                InitDone, Requested, Taken, StartPosted, Records, Stopped, SnsCalm
  <2>3. InitDone' BY <1>2, <2>1, <2>2 DEF CalDone, InitRuns, InitDone, Waits, SnsCalm
  <2> QED BY <1>2, <2>2, <2>3 DEF Stage
<1>6. CASE SnsStart
  <2>1. /\ spc = "receive" /\ spc' = "starting" /\ SnsorQue # <<>> /\ SnsorQue' = Tail(SnsorQue)
        /\ Head(SnsorQue) = "SnsQue_START" /\ SnsCtrlSTS' = "BUSY" /\ acq_flag' = 1
    BY <1>6 DEF SnsStart, Take
  <2>2. /\ cmd.op = "GW" /\ StartPosted
        /\ \/ Sending /\ SnsorQue' = <<>>
           \/ ComCalm /\ SnsorQue' = <<"SnsQue_STOP">>
    BY <2>1, SnsFinds
  <2>3. Records' BY <1>2, <2>1, <2>2 DEF StartPosted, Records, Waits
  <2> QED BY <1>2, <2>2, <2>3 DEF Stage
<1>7. CASE SnsStop
  <2>1. /\ spc = "receive" /\ spc' = "stopping" /\ SnsorQue # <<>> /\ SnsorQue' = Tail(SnsorQue)
        /\ Head(SnsorQue) = "SnsQue_STOP" /\ SnsCtrlSTS' = "IDLE"
    BY <1>7 DEF SnsStop, Take
  <2>2. cmd.op = "GW" /\ Records /\ ComCalm /\ SnsorQue' = <<>>
    BY <2>1, SnsFinds
  <2>3. Stopped' BY <1>2, <2>1, <2>2 DEF Records, Stopped, Waits
  <2> QED BY <1>2, <2>2, <2>3 DEF Stage
<1>8. CASE SnsStarted \/ SnsTimeout \/ SnsSample
  <2>1. /\ spc \in {"starting", "receive", "sample"} /\ spc' \in {"receive", "sample"}
        /\ UNCHANGED <<acq_flag, SnsCtrlSTS, SnsorQue, outcome>>
    BY <1>8 DEF SnsStarted, SnsTimeout, SnsSample
  <2>2. ~InBoot /\ ~InitRuns BY <2>1 DEF InBoot, Booting, InitRuns
  <2>3. SnsCalm => SnsCalm' BY <2>1 DEF SnsCalm
  <2>4. spc # "stopping" /\ (spc = "starting" => acq_flag = 1)
    BY <2>1 DEF PInv, IInv, Positions
  <2> QED BY <1>2, <2>1, <2>2, <2>3, <2>4
          DEF PInv, Stage, Quiet, Asked, InitPosted, InitDone, Requested, Taken, StartPosted,
              Records, Stopped, Waits
<1>9. CASE SnsStopped
  <2>1. /\ spc = "stopping" /\ spc' = "sample" /\ acq_flag' = 0
        /\ UNCHANGED <<SnsCtrlSTS, SnsorQue, outcome>>
    BY <1>9 DEF SnsStopped
  <2>2. Quiet \/ (cmd.op = "GW" /\ Stopped)
    BY <2>1 DEF PInv, Stage, InBoot, Booting, Asked, InitPosted, InitRuns, InitDone, Requested,
                Taken, StartPosted, Records, SnsCalm
  <2>3. SnsCalm' BY <2>1 DEF SnsCalm
  <2>4. (Quiet => Quiet') /\ (Stopped => Stopped')
    BY <1>2, <2>1, <2>3 DEF Quiet, Stopped, Waits
  <2> QED BY <1>2, <2>2, <2>4 DEF Stage
<1> QED BY <1>3, <1>4, <1>5, <1>6, <1>7, <1>8, <1>9 DEF task_sns

---------------------------------------------------------------------------
(* Numbers. *)

LEMMA CommandKinds ==
    ASSUME IInv
    PROVE  /\ cmd.op \in {"IS", "SG", "GW"} /\ cmd.n \in Nat
           /\ cmd.op = "GW" => cmd.n + Ring <= Wrap /\ cmd.n \in Counts
<1>1. CASE cmd \in [op : {"IS", "SG"}, n : {0}]
  <2>1. cmd.op \in {"IS", "SG"} /\ cmd.n = 0 BY <1>1
  <2> QED BY <2>1
<1>2. CASE cmd \in [op : {"GW"}, n : Counts]
  <2>1. cmd.op = "GW" /\ cmd.n \in Counts BY <1>2
  <2> QED BY <2>1, RecorderAssumption
<1> QED BY <1>1, <1>2 DEF IInv, TypeOK, Commands

LEMMA SmallMod ==
    ASSUME NEW n \in Nat \ {0}, NEW x \in 0..(n - 1)
    PROVE  x % n = x /\ (x + n) % n = x
OBVIOUS

LEMMA RingFits == Ring \in Nat \ {0} /\ Wrap \in Nat \ {0} /\ Ring <= Wrap
<1>1. PICK q \in 1..Wrap : Wrap = q * Ring BY RecorderAssumption
<1>2. q \in Nat /\ q >= 1 /\ Ring \in Nat \ {0} BY <1>1, RecorderAssumption
<1>3. (q - 1) * Ring >= 0 BY <1>2
<1>4. (q - 1) * Ring = q * Ring - Ring BY <1>2
<1> QED BY <1>1, <1>2, <1>3, <1>4, RecorderAssumption

\* The sender never gets near the wrap of the count.
LEMMA SenderRange ==
    ASSUME PInv
    PROVE  send_block \in Nat /\ send_block + Ring <= Wrap
<1>1. send_block \in Nat /\ DataTxEn \in {0, 1} BY DEF PInv, IInv, TypeOK
<1>2. CASE DataTxEn = 0 BY <1>1, <1>2, RingFits DEF PInv, Counted
<1>3. CASE DataTxEn = 1
  <2>1. cmd.op = "GW" /\ send_block <= cmd.n BY <1>3, SenderStages DEF PInv, Counted
  <2>2. cmd.n \in Nat /\ cmd.n + Ring <= Wrap BY <2>1, CommandKinds DEF PInv
  <2> QED BY <1>1, <2>1, <2>2, RingFits
<1> QED BY <1>1, <1>2, <1>3

\* The core does not come round to the block being sent, nor to the wrap.
LEMMA NextBlock ==
    ASSUME PInv, HwBlock
    PROVE  /\ hw \in Nat /\ hw' = hw + 1 /\ send_block <= hw
           /\ hw + 1 <= send_block + (Ring - 1)
<1>1. /\ hw \in 0..(Wrap - 1) /\ Lag < Ring - 1 /\ hw' = (hw + 1) % Wrap
  BY DEF PInv, IInv, TypeOK, HwBlock
<1>2. send_block \in Nat /\ send_block + Ring <= Wrap BY SenderRange
<1>3. CASE hw < send_block
  <2> DEFINE x == hw - send_block + Wrap
  <2>1. x \in 0..(Wrap - 1) /\ x >= Ring BY <1>1, <1>2, <1>3, RingFits
  <2>2. x % Wrap = x BY <2>1, SmallMod, RingFits
  <2>3. Lag = x % Wrap BY DEF Lag
  <2> HIDE DEF x
  <2> QED BY <1>1, <2>1, <2>2, <2>3, RingFits
<1>4. CASE send_block <= hw
  <2> DEFINE x == hw - send_block
  <2>1. x \in 0..(Wrap - 1) BY <1>1, <1>2, <1>4, RingFits
  <2>2. (x + Wrap) % Wrap = x BY <2>1, SmallMod, RingFits
  <2>3. Lag = x BY <2>2 DEF Lag
  <2>4. hw + 1 <= send_block + (Ring - 1) BY <1>1, <1>2, <2>1, <2>3, RingFits
  <2>5. hw + 1 \in 0..(Wrap - 1) BY <1>1, <1>2, <2>4, RingFits
  <2>6. (hw + 1) % Wrap = hw + 1 BY <2>5, SmallMod, RingFits
  <2> QED BY <1>1, <1>4, <2>4, <2>6
<1> QED BY <1>1, <1>2, <1>3, <1>4

---------------------------------------------------------------------------
(* The blocks of the capture. *)

\* Types that the steps below use.
LEMMA Types ==
    ASSUME PInv
    PROVE  /\ hw \in Nat /\ sample_block \in Nat /\ send_block \in Nat
           /\ send_block_max \in Nat /\ clr \in {0, 1} /\ acq_flag \in {0, 1}
           /\ DataTxEn \in {0, 1} /\ ch \in 0..(Channels - 1)
           /\ CoreType /\ cal \in [Tasks -> CalStates]
BY RingFits DEF PInv, IInv, TypeOK, CoreType, CalStates, CalPcs

\* The slot of the newest block is none of those before it in the ring.
LEMMA NewSlot ==
    ASSUME NEW b \in Nat, NEW new \in Nat, b < new, new < b + Ring
    PROVE  /\ b % Ring # new % Ring
           /\ b % Ring \in 0..(Ring - 1) /\ new % Ring \in 0..(Ring - 1)
BY RingFits, Apart, DivMod

LEMMA HwData == ASSUME PInv, HwBlock PROVE Captured' /\ Published' /\ Counted'
<1>1. /\ UNCHANGED <<mainVars, comVars, snsVars, queues, cal, clr, history>>
      /\ clr = 0 /\ ring' = [ring EXCEPT ![hw % Ring] = hw]
      /\ landing = None /\ landing' = hw /\ UNCHANGED last
  BY DEF HwBlock, coreRest
<1>2. /\ hw \in Nat /\ hw' = hw + 1 /\ hw + 1 <= send_block + (Ring - 1)
  BY NextBlock
<1>3. /\ Ring \in Nat \ {0} /\ hw % Ring \in 0..(Ring - 1)
      /\ ring \in [0..(Ring - 1) -> Stale..(Wrap - 1)]
  BY <1>2, DivMod, RingFits, Types DEF CoreType
<1>4. ASSUME NEW b \in Nat, b < hw + 1, hw + 1 <= b + Ring
      PROVE  ring'[b % Ring] = b /\ (last[b % Ring] = b \/ hw = b)
  <2>1. CASE b = hw BY <1>1, <1>3, <2>1
  <2>2. CASE b # hw
    <3>1. b < hw /\ hw < b + Ring /\ hw <= b + Ring
      BY ONLY <1>2, <1>3, <1>4, <2>2
    <3>2. ring[b % Ring] = b /\ (last[b % Ring] = b \/ landing = b)
      BY <1>1, <3>1 DEF PInv, Captured, InRing, Lasts
    <3>3. landing # b BY <1>1 DEF None
    <3>4. ring'[b % Ring] = ring[b % Ring]
      <4>1. b % Ring # hw % Ring /\ b % Ring \in 0..(Ring - 1) BY <1>2, <3>1, NewSlot
      <4> QED BY ONLY <4>1, <1>3, <1>1
    <3> QED BY <3>2, <3>3, <3>4
  <2> QED BY <2>1, <2>2
<1>5. InRing' BY <1>2, <1>4 DEF InRing
<1>6. Lasts' BY <1>1, <1>2, <1>4 DEF Lasts
<1>7. ASSUME NEW w \in Tasks PROVE Calibrated(w)'
  <2>1. Calibrated(w) /\ cal' = cal /\ CalBlocks \in Nat
    BY <1>1, RecorderAssumption DEF PInv, Captured
  <2>2. cal[w].pc # "average" BY <1>1, <2>1 DEF Calibrated
  <2> QED BY <1>2, <2>1, <2>2 DEF Calibrated
<1>8. Captured'
  BY <1>1, <1>2, <1>5, <1>6, <1>7 DEF Captured, comVars, snsVars
<1>9. Published'
  BY <1>1, <1>2, Types DEF PInv, Published, comVars, snsVars
<1>10. Counted'
  BY <1>1 DEF PInv, Counted, Waits, mainVars, comVars, queues, history
<1> QED BY <1>8, <1>9, <1>10

LEMMA LastData == ASSUME PInv, HwLast PROVE Captured' /\ Published' /\ Counted'
<1>1. /\ UNCHANGED <<mainVars, comVars, snsVars, queues, cal, clr, history>>
      /\ landing # None /\ last' = [last EXCEPT ![landing % Ring] = landing]
      /\ landing' = None /\ UNCHANGED <<hw, ring>>
  BY DEF HwLast, coreRest
<1>2. clr = 0 /\ landing \in Nat /\ hw = landing + 1
  BY <1>1, Types DEF PInv, Captured, Lasts
<1>3. /\ Ring \in Nat \ {0} /\ landing % Ring \in 0..(Ring - 1)
      /\ last \in [0..(Ring - 1) -> Stale..(Wrap - 1)]
  BY <1>2, DivMod, RingFits, Types DEF CoreType
<1>4. ASSUME NEW b \in Nat, b < hw, hw <= b + Ring PROVE last'[b % Ring] = b
  <2>1. CASE b = landing BY <1>1, <1>3, <2>1
  <2>2. CASE b # landing
    <3>1. b < landing /\ landing < b + Ring BY ONLY <1>2, <1>3, <1>4, <2>2
    <3>2. last[b % Ring] = b
      BY <1>2, <1>4, <2>2 DEF PInv, Captured, Lasts
    <3>3. last'[b % Ring] = last[b % Ring]
      <4>1. b % Ring # landing % Ring /\ b % Ring \in 0..(Ring - 1) BY <1>2, <3>1, NewSlot
      <4> QED BY ONLY <4>1, <1>3, <1>1
    <3> QED BY <3>2, <3>3
  <2> QED BY <2>1, <2>2
<1>5. Lasts' BY <1>1, <1>4 DEF Lasts
<1>6. InRing' = InRing BY <1>1 DEF InRing
<1>7. ASSUME NEW w \in Tasks PROVE Calibrated(w)'
  <2>1. Calibrated(w) /\ cal' = cal BY <1>1 DEF PInv, Captured
  <2>2. cal[w].pc # "average" BY <1>2, <2>1 DEF Calibrated
  <2> QED BY <1>1, <2>1, <2>2 DEF Calibrated
<1>8. Captured'
  BY <1>1, <1>2, <1>5, <1>6, <1>7 DEF PInv, Captured, comVars, snsVars
<1>9. Published' BY <1>1 DEF PInv, Published, comVars, snsVars
<1>10. Counted'
  BY <1>1 DEF PInv, Counted, Waits, mainVars, comVars, queues, history
<1> QED BY <1>8, <1>9, <1>10

\* The core at rest, and every calibration that delays or averages unchanged.
LEMMA CapturesKept ==
    ASSUME PInv, UNCHANGED <<clr, hw, ring, last, landing>>,
           \A w \in Tasks : cal'[w].pc \in {"delay", "average"} => cal'[w] = cal[w]
    PROVE  /\ InRing' = InRing /\ Lasts' = Lasts
           /\ \A w \in Tasks : Calibrated(w)'
<1>1. InRing' = InRing /\ Lasts' = Lasts BY DEF InRing, Lasts
<1>2. ASSUME NEW w \in Tasks PROVE Calibrated(w)'
  <2>1. Calibrated(w) BY DEF PInv, Captured
  <2>2. CASE cal'[w] = cal[w] BY <2>1, <2>2 DEF Calibrated
  <2>3. CASE cal'[w].pc \notin {"delay", "average"} BY <2>3 DEF Calibrated
  <2> QED BY <2>2, <2>3
<1> QED BY <1>1, <1>2

\* What enable_PDM does to a capture: it goes on, or it begins.
LEMMA EnableCaptures ==
    ASSUME PInv, enable_PDM
    PROVE  clr' = 0 /\ hw' = hw /\ InRing' /\ Lasts'
<1>1. /\ clr' = 0 /\ UNCHANGED <<hw, landing>>
      /\ (clr = 0 => UNCHANGED <<ring, last>>)
  BY EnableKeeps, Types
<1>2. CASE clr = 1
  <2>1. hw' = 0 /\ landing' = None BY <1>1, <1>2 DEF PInv, Captured
  <2> QED BY <1>1, <2>1 DEF InRing, Lasts
<1>3. CASE clr = 0
  <2>1. InRing' = InRing /\ Lasts' = Lasts BY <1>1, <1>3 DEF InRing, Lasts
  <2> QED BY <1>1, <1>3, <2>1 DEF PInv, Captured
<1> QED BY <1>2, <1>3, Types

LEMMA CalData == ASSUME PInv, NEW w \in Tasks, Calibration(w)
                 PROVE Captured' /\ Published' /\ Counted'
<1>1. /\ UNCHANGED <<mainVars, comVars, snsVars, queues, history>>
      /\ cal[w].pc # "off"
  BY DEF Calibration, CalClear, CalEnable, CalWait, CalEnd, CalAverage, calRest
<1>2. /\ acq_flag = 0 /\ DataTxEn = 0 /\ cpc = "receive"
      /\ \A u \in Tasks \ {w} : cal[u].pc = "off"
  BY <1>1, WhoCalibrates DEF ComCalm
<1>3. send_block = 0 /\ sample_block = 0 BY <1>2 DEF PInv, Counted, Published
<1>4. hw' \in {0, hw} /\ hw \in Nat
  BY Types DEF Calibration, CalClear, CalEnable, CalWait, CalEnd, CalAverage, disable_PDM,
               enable_PDM, core
<1>5. Published'
  BY <1>1, <1>2, <1>3, <1>4 DEF Published, comVars, snsVars
<1>6. Counted'
  BY <1>1 DEF PInv, Counted, Waits, mainVars, comVars, queues, history
<1>7. \A u \in Tasks \ {w} : cal'[u] = cal[u]
  <2>1. CASE CalAverage(w) BY <2>1, AverageKeeps, Types DEF PInv, IInv
  <2>2. CASE CalWait(w) BY <2>2, CalWaitKeeps, Types
  <2>3. CASE CalClear(w) \/ CalEnable(w) \/ CalEnd(w)
    <3>1. PICK q \in {"enable", "wait", "average"} : CalGoto(w, q)
      BY <2>3 DEF CalClear, CalEnable, CalEnd
    <3> QED BY <3>1, CalGotoKeeps, Types DEF CalPcs
  <2> QED BY <2>1, <2>2, <2>3 DEF Calibration
<1>8. \A u \in Tasks \ {w} : Calibrated(u)'
  BY <1>2, <1>7 DEF Calibrated
<1>9. hw' <= send_block' + (Ring - 1)
  <2>1. hw <= send_block + (Ring - 1) /\ send_block' = send_block
    BY <1>1, <1>2 DEF PInv, Captured, comVars
  <2> QED BY <1>3, <1>4, <2>1, RingFits
<1>10. ASSUME clr' = 1 => hw' = 0 /\ landing' = None, clr' = 0 => InRing' /\ Lasts',
              Calibrated(w)'
       PROVE  Captured'
  BY <1>8, <1>9, <1>10 DEF Captured
<1>11. Captured'
  <2>2. CASE CalClear(w)
    <3>1. clr' = 1 /\ hw' = 0 /\ landing' = None /\ CalGoto(w, "enable")
      BY <2>2 DEF CalClear, disable_PDM
    <3>2. cal'[w].pc = "enable" BY <3>1, CalGotoKeeps, Types DEF CalPcs
    <3> QED BY <1>10, <3>1, <3>2 DEF Calibrated
  <2>3. CASE CalEnable(w)
    <3>1. CalGoto(w, "wait") /\ enable_PDM BY <2>3 DEF CalEnable
    <3>2. cal'[w].pc = "wait" BY <3>1, CalGotoKeeps, Types DEF CalPcs
    <3>3. clr' = 0 /\ InRing' /\ Lasts' BY <3>1, EnableCaptures
    <3> QED BY <1>10, <3>2, <3>3 DEF Calibrated
  <2>4. CASE CalWait(w)
    <3>1. hw >= CalBlocks /\ UNCHANGED <<clr, hw, ring, last, landing>>
      BY <2>4 DEF CalWait, core
    <3>2. cal'[w].pc = "delay" BY <2>4, CalWaitKeeps, Types
    <3>3. InRing' = InRing /\ Lasts' = Lasts BY <3>1 DEF InRing, Lasts
    <3>4. Calibrated(w)' BY <3>1, <3>2 DEF Calibrated
    <3> QED BY <1>10, <3>1, <3>3, <3>4 DEF PInv, Captured
  <2>5. CASE CalEnd(w)
    <3>1. /\ clr' = 1 /\ hw' = 0 /\ landing' = None /\ ring' = ring /\ last' = last
          /\ cal[w].pc = "delay" /\ (cal[w].whole => landing # CalBlocks - 1)
          /\ CalGoto(w, "average")
      BY <2>5 DEF CalEnd, disable_PDM, Landed
    <3>2. cal'[w].pc = "average" /\ cal'[w].whole = cal[w].whole
      BY <3>1, CalGotoKeeps, Types DEF CalPcs
    <3>3. /\ hw >= CalBlocks /\ hw <= Ring - 1 /\ CalBlocks \in 1..(Ring - 1)
      BY <1>2, <1>3, <1>4, <3>1, RingFits, RecorderAssumption DEF PInv, Captured, Calibrated
    <3>4. InRing /\ Lasts
      <4>1. hw # 0 BY <3>3
      <4> QED BY <4>1, Types DEF PInv, Captured
    <3>5. ASSUME NEW b \in 0..(CalBlocks - 1)
          PROVE  ring[b] = b /\ (last[b] = b \/ (b = CalBlocks - 1 /\ ~cal[w].whole))
      <4>1. b \in Nat /\ b < hw /\ hw <= b + Ring /\ b \in 0..(Ring - 1)
        <5>1. Ring \in Nat \ {0} BY RingFits
        <5> QED BY ONLY <1>4, <3>3, <5>1, b \in 0..(CalBlocks - 1)
      <4>2. b % Ring = b BY <4>1, SmallMod, RingFits
      <4>3. ring[b] = b /\ (last[b] = b \/ landing = b)
        BY <3>4, <4>1, <4>2 DEF InRing, Lasts
      <4>4. CASE landing = b
        <5>1. hw = b + 1
          <6>1. landing # None BY <4>1, <4>4 DEF None
          <6> QED BY <3>4, <4>4, <6>1 DEF Lasts
        <5>2. b = CalBlocks - 1 BY ONLY <3>3, <5>1, b \in 0..(CalBlocks - 1)
        <5> QED BY <3>1, <4>3, <4>4, <5>2
      <4> QED BY <4>3, <4>4
    <3>6. Calibrated(w)' BY <3>1, <3>2, <3>5 DEF Calibrated
    <3> QED BY <1>10, <3>1, <3>6
  <2>6. CASE CalAverage(w)
    <3>1. cal'[w].pc \in {"ok", "error", "clear"}
      BY <2>6, AverageKeeps, Types DEF PInv, IInv
    <3>2. UNCHANGED <<clr, hw, ring, last, landing>> BY <2>6 DEF CalAverage, core
    <3>3. InRing' = InRing /\ Lasts' = Lasts BY <3>2 DEF InRing, Lasts
    <3>4. Calibrated(w)' BY <3>1 DEF Calibrated
    <3> QED BY <1>10, <3>2, <3>3, <3>4 DEF PInv, Captured
  <2> QED BY <2>2, <2>3, <2>4, <2>5, <2>6 DEF Calibration
<1> QED BY <1>5, <1>6, <1>11

LEMMA MainData == ASSUME PInv, task_main PROVE Captured' /\ Published' /\ Counted'
<1>1. UNCHANGED <<comVars, snsVars, core>>
  BY DEF task_main, Command, Post, Delay, Poll, GainSet
<1>2. UNCHANGED <<cpc, send_block, send_block_max, DataTxEn, ch, spc, sample_block, acq_flag,
                  clr, hw, ring, last, landing>>
  BY <1>1 DEF comVars, snsVars, core
<1>3. \A w \in Tasks : cal'[w].pc \in {"delay", "average"} => cal'[w] = cal[w]
  <2>1. CASE cal' = cal BY <2>1
  <2>2. CASE \E c \in Commands : Command(c) /\ c.op = "SG"
    <3>1. cal' = [cal EXCEPT !["main"] = CalFirst]
      BY <2>2 DEF Command, BeginCal
    <3>2. /\ cal'["main"] = CalFirst
          /\ \A w \in Tasks \ {"main"} : cal'[w] = cal[w]
      BY <3>1, CalSetKeeps, CalRecords, Types DEF Tasks
    <3> QED BY <3>2, CalRecords DEF Tasks
  <2>3. CASE GainSet
    <3>1. cal' = [cal EXCEPT !["main"] = CalIdle] BY <2>3 DEF GainSet
    <3>2. cal'["main"] = CalIdle /\ \A w \in Tasks \ {"main"} : cal'[w] = cal[w]
      BY <3>1, CalSetKeeps, CalRecords, Types DEF Tasks
    <3> QED BY <3>2, CalRecords DEF Tasks
  <2> QED BY <2>1, <2>2, <2>3 DEF task_main, Command, Post, Delay, Poll
<1>4. Captured' BY <1>2, <1>3, CapturesKept DEF PInv, Captured
<1>5. Published' BY <1>2 DEF PInv, Published
<1>6. Counted'
  <2>1. ASSUME NEW c \in Commands, Command(c) PROVE Counted'
    <3>1. /\ mpc = "check" /\ mpc' \in {"post", "calibrate"} /\ sent' = <<>>
          /\ UNCHANGED SendReqQue
      BY <2>1 DEF Command, queues
    <3>2. DataTxEn = 0 /\ SendReqQue = <<>>
      BY <3>1 DEF PInv, Stage, InBoot, Quiet, Asked, InitPosted, InitRuns, InitDone, Requested,
                  Taken, StartPosted, Records, Stopped, Waits, ComCalm
    <3> QED BY <1>2, <3>1, <3>2 DEF PInv, Counted, Waits
  <2>2. CASE Post
    <3>1. /\ mpc = "post" /\ mpc' = "delay" /\ UNCHANGED <<cmd, sent>>
          /\ \/ cmd.op = "IS" /\ UNCHANGED SendReqQue
             \/ cmd.op = "GW" /\ SendReqQue' = Append(SendReqQue, cmd.n)
      BY <2>2 DEF Post, history
    <3>2. DataTxEn = 0 /\ SendReqQue = <<>>
      BY <3>1 DEF PInv, Stage, InBoot, Quiet, Asked, InitPosted, InitRuns, InitDone, Requested,
                  Taken, StartPosted, Records, Stopped, Waits, ComCalm
    <3>3. cmd.op = "GW" => SendReqQue' # <<>> BY <3>1, <3>2, ShortQueues
    <3> QED BY <1>2, <3>1, <3>2, <3>3 DEF PInv, Counted, Waits
  <2>3. CASE Delay
    <3>1. mpc = "delay" /\ mpc' = "poll" /\ UNCHANGED <<cmd, sent, SendReqQue>>
      BY <2>3 DEF Delay, queues, history
    <3> QED BY <1>2, <3>1 DEF PInv, Counted, Waits
  <2>4. CASE Poll \/ GainSet
    <3>1. mpc' = "check" /\ UNCHANGED <<cmd, sent, SendReqQue>>
      BY <2>4 DEF Poll, GainSet, queues, history
    <3> QED BY <1>2, <3>1 DEF PInv, Counted, Waits
  <2> QED BY <2>1, <2>2, <2>3, <2>4 DEF task_main
<1> QED BY <1>4, <1>5, <1>6

LEMMA ComData == ASSUME PInv, task_com PROVE Captured' /\ Published' /\ Counted'
<1>1. UNCHANGED <<mainVars, snsVars, cal, core, outcome>>
  BY DEF task_com, ComReceive, ComStart, ComTest, ComDma, ComEnd, ComStop, ComPost, comRest
<1>2. UNCHANGED <<mpc, cmd, spc, sample_block, acq_flag, cal, clr, hw, ring, last, landing>>
  BY <1>1 DEF mainVars, snsVars, core
<1>3. DataTxEn = 1 => cmd.op = "GW" /\ Waits
  BY SenderStages DEF Taken, StartPosted, Records, Waits
<1>8. InRing' = InRing /\ Lasts' = Lasts /\ \A w \in Tasks : Calibrated(w)'
  BY <1>2, CapturesKept
<1>4. CASE ComReceive /\ SendReqQue # <<>>
  <2>1. Requested /\ cmd.op = "GW"
    BY <1>4 DEF PInv, Stage, InBoot, Quiet, Asked, InitPosted, InitRuns, InitDone,
                Taken, StartPosted, Records, Stopped, ComCalm, Sending
  <2>2. /\ SendReqQue' = <<>> /\ send_block_max' = cmd.n /\ send_block' = 0
        /\ DataTxEn' = 1 /\ cpc' = "start" /\ sent' = sent /\ mpc = "delay"
    BY <1>4, <2>1, ShortQueues DEF ComReceive, Requested
  <2>3. sent = <<>> /\ Len(sent) = 0 BY <1>4, ShortQueues DEF PInv, Counted
  <2>4. hw <= Ring - 1
    BY <2>1, Types, RingFits DEF Requested, SnsCalm, PInv, Captured, Counted
  <2>5. cmd.n \in Nat /\ 0 * Channels = 0 BY CommandKinds, RecorderAssumption DEF PInv
  <2>6. Captured' BY <1>2, <1>8, <2>2, <2>4, RingFits DEF PInv, Captured
  <2>7. Published' BY <1>2, <2>2 DEF PInv, Published
  <2>8. Counted' BY <1>2, <2>2, <2>3, <2>5 DEF Counted
  <2> QED BY <2>6, <2>7, <2>8
<1>5. CASE \/ ComReceive /\ SendReqQue = <<>>
           \/ ComStart \/ ComTest \/ ComStop
  <2>1. /\ UNCHANGED <<send_block, send_block_max, DataTxEn, SendReqQue, sent>>
        /\ cpc # "dma"
        /\ cpc' = "dma" => ch' = 0 /\ sample_block > send_block /\ send_block < send_block_max
    BY <1>5 DEF ComReceive, ComStart, ComTest, ComStop, ComPost, queues
  <2>2. Captured' BY <1>2, <1>8, <2>1 DEF PInv, Captured
  <2>3. Published' BY <1>2, <2>1, Types DEF PInv, Published
  <2>4. Counted'
    <3>1. DataTxEn = 1 => Len(sent) = send_block * Channels + 0
      BY <2>1 DEF PInv, Counted
    <3>2. DataTxEn' = 1 => Len(sent) = send_block * Channels + (IF cpc' = "dma" THEN ch' ELSE 0)
      BY <2>1, <3>1
    <3> QED BY <1>2, <2>1, <3>2 DEF PInv, Counted, Waits
  <2> QED BY <2>2, <2>3, <2>4
<1>6. CASE ComDma
  <2>1. /\ cpc = "dma" /\ sent' = Append(sent, <<ch, Block(send_block % Ring)>>)
        /\ UNCHANGED <<send_block_max, DataTxEn, SendReqQue>>
        /\ \/ ch < Channels - 1 /\ ch' = ch + 1 /\ UNCHANGED <<cpc, send_block>>
           \/ ch = Channels - 1 /\ send_block' = send_block + 1 /\ cpc' = "end" /\ ch' = ch
    BY <1>6 DEF ComDma, queues
  <2>2. /\ DataTxEn = 1 /\ send_block < sample_block /\ send_block < send_block_max
        /\ SendReqQue = <<>> /\ mpc # "post"
    BY <2>1, <1>3, SenderStages DEF PInv, IInv, Positions, Published, Waits, Sending, Taken
  <2>3. Len(sent) \in Nat /\ Len(sent') = Len(sent) + 1
    BY <2>1 DEF PInv, IInv, TypeOK
  <2>4. Len(sent) = send_block * Channels + ch BY <2>1, <2>2 DEF PInv, Counted
  <2>5. Len(sent') = send_block' * Channels + (IF cpc' = "dma" THEN ch' ELSE 0)
    <3>1. PICK p \in Nat, N \in Nat \ {0} :
            /\ p = send_block * Channels /\ N = Channels
            /\ (send_block + 1) * Channels = p + N
      <4>1. send_block \in Nat /\ Channels \in Nat \ {0}
        BY Types, RecorderAssumption
      <4>2. /\ send_block * Channels \in Nat
            /\ (send_block + 1) * Channels = send_block * Channels + Channels
        BY ONLY <4>1, Times
      <4> QED BY ONLY <4>1, <4>2
    <3>4. ch \in Nat /\ Len(sent') = p + (ch + 1)
      <4>1. Len(sent) = p + ch /\ ch \in Nat
        BY <2>4, <3>1, Types
      <4> QED BY ONLY <2>3, <4>1, p \in Nat
    <3>2. CASE ch < Channels - 1 /\ ch' = ch + 1 /\ UNCHANGED <<cpc, send_block>>
      <4>1. cpc' = "dma" /\ send_block' * Channels = p
        BY <2>1, <3>1, <3>2
      <4> QED BY ONLY <3>2, <3>4, <4>1
    <3>3. CASE ch = Channels - 1 /\ send_block' = send_block + 1 /\ cpc' = "end"
      <4>1. send_block' * Channels = p + N /\ cpc' # "dma"
        BY <3>1, <3>3
      <4>2. ch + 1 = N
        BY ONLY <3>1, <3>3, N \in Nat \ {0}
      <4>3. Len(sent') = p + N /\ p + N \in Nat
        BY ONLY <3>4, <4>2, p \in Nat, N \in Nat \ {0}
      <4> QED BY ONLY <4>1, <4>3
    <3> QED BY <2>1, <3>2, <3>3
  <2>6. send_block' \in {send_block, send_block + 1} /\ (cpc' = "dma" => send_block' = send_block)
    BY <2>1
  <2>7. Captured'
    <3>1. send_block <= send_block' /\ Ring - 1 \in Int /\ hw \in Nat /\ send_block \in Nat
      BY <2>6, Types, RingFits
    <3>2. hw <= send_block + (Ring - 1) BY <2>2 DEF PInv, Captured
    <3>3. hw <= send_block' + (Ring - 1)
      <4>1. send_block' \in Nat BY <2>6, <3>1
      <4> QED BY ONLY <3>1, <3>2, <4>1
    <3> QED BY <1>2, <1>8, <2>1, <3>3 DEF PInv, Captured
  <2>8. Published' BY <1>2, <2>1, <2>6 DEF PInv, Published
  <2>9. Counted'
    <3>1. send_block' <= send_block_max BY <2>2, <2>6, Types
    <3> QED BY <1>2, <2>1, <2>2, <2>5, <3>1 DEF PInv, Counted
  <2> QED BY <2>7, <2>8, <2>9
<1>7. CASE ComEnd
  <2>1. /\ cpc = "end" /\ cpc' \in {"stop", "receive"}
        /\ UNCHANGED <<send_block_max, SendReqQue, sent>>
        /\ \/ send_block >= send_block_max /\ send_block' = 0 /\ DataTxEn' = 0
           \/ UNCHANGED <<send_block, DataTxEn>>
    BY <1>7 DEF ComEnd, queues
  <2>2. /\ DataTxEn = 1 /\ SendReqQue = <<>> /\ (StartPosted \/ Records)
    BY <2>1, SenderStages DEF PInv, IInv, Positions, Sending, Taken
  <2>3. /\ Len(sent) = send_block * Channels + 0
        /\ send_block_max = cmd.n /\ send_block <= send_block_max
    BY <2>1, <2>2 DEF PInv, Counted
  <2>4. Published' BY <1>2, <2>1 DEF PInv, Published
  <2>5. CASE send_block >= send_block_max /\ send_block' = 0 /\ DataTxEn' = 0
    <3>1. acq_flag = 0 => hw = 0
      <4>1. ASSUME acq_flag = 0 PROVE hw = 0
        <5>1. StartPosted /\ SnsCalm BY <2>2, <4>1 DEF StartPosted, Records
        <5>2. \A w \in Tasks : cal[w].pc \notin {"wait", "delay"}
          BY <5>1 DEF PInv, IInv, Positions, StartPosted, SnsCalm, Tasks
        <5> QED BY <5>1, <5>2, AtRest
      <4> QED BY <4>1
    <3>2. Captured' BY <1>2, <1>8, <2>5, <3>1, Types, RingFits DEF PInv, Captured
    <3>3. Len(sent) = cmd.n * Channels
      <4>1. send_block = cmd.n BY <2>3, <2>5, Types
      <4> QED BY <2>3, <4>1, CommandKinds, RecorderAssumption DEF PInv
    <3>4. Counted' BY <1>2, <1>3, <2>1, <2>2, <2>5, <3>3 DEF PInv, Counted, Waits
    <3> QED BY <2>4, <3>2, <3>4
  <2>6. CASE UNCHANGED <<send_block, DataTxEn>>
    <3>1. Captured' BY <1>2, <1>8, <2>6 DEF PInv, Captured
    <3>2. Counted' BY <1>2, <2>1, <2>2, <2>3, <2>6 DEF PInv, Counted
    <3> QED BY <2>4, <3>1, <3>2
  <2> QED BY <2>1, <2>5, <2>6
<1> QED BY <1>4, <1>5, <1>6, <1>7 DEF task_com

LEMMA SnsData == ASSUME PInv, task_sns PROVE Captured' /\ Published' /\ Counted'
<1>1. UNCHANGED <<mainVars, comVars, SendReqQue, sent>>
  BY DEF task_sns, SnsBoot, SnsBootEnd, SnsInit, SnsInitEnd, SnsStart, SnsStarted, SnsStop,
         SnsStopped, SnsTimeout, SnsSample, snsRest
<1>2. UNCHANGED <<mpc, cmd, cpc, send_block, send_block_max, DataTxEn, ch, SendReqQue, sent>>
  BY <1>1 DEF mainVars, comVars
<1>3. Counted' BY <1>2 DEF PInv, Counted, Waits
<1>4. \A w \in Tasks : cal'[w].pc \in {"delay", "average"} => cal'[w] = cal[w]
  <2>1. CASE cal' = cal BY <2>1
  <2>2. CASE \E r \in {CalIdle, CalFirst} : cal' = [cal EXCEPT !["sns"] = r]
    <3>1. PICK r \in {CalIdle, CalFirst} : cal' = [cal EXCEPT !["sns"] = r]
      BY <2>2
    <3>2. cal'["sns"] = r /\ r.pc \notin {"delay", "average"}
          /\ \A w \in Tasks \ {"sns"} : cal'[w] = cal[w]
      BY <3>1, CalSetKeeps, CalRecords, Types DEF Tasks
    <3> QED BY <3>2
  <2> QED BY <2>1, <2>2 DEF task_sns, SnsBoot, SnsBootEnd, SnsInit, SnsInitEnd, SnsStart,
             SnsStarted, SnsStop, SnsStopped, SnsTimeout, SnsSample, BeginCal
<1>5. Captured'
  <2>1. CASE SnsBoot \/ SnsInit \/ SnsStop
    <3>1. /\ clr' = 1 /\ hw' = 0 /\ landing' = None /\ send_block' = send_block
          /\ spc = "boot" \/ (spc = "receive" /\ SnsorQue # <<>>)
      BY <1>2, <2>1 DEF SnsBoot, SnsInit, SnsStop, disable_PDM, Take
    <3>2. \A w \in Tasks : cal[w].pc = "off"
      <4> SUFFICES ASSUME NEW w \in Tasks, cal[w].pc # "off" PROVE FALSE
        OBVIOUS
      <4>1. SnsorQue = <<>> /\ (w = "main" => Asked) /\ (w = "sns" => spc # "boot")
        BY WhoCalibrates
      <4> QED BY <3>1, <4>1 DEF Asked, SnsCalm, Tasks
    <3>3. \A w \in Tasks : Calibrated(w)'
      <4>1. \A w \in Tasks : cal'[w].pc \notin {"delay", "average"}
        BY <1>4, <3>2
      <4> QED BY <4>1 DEF Calibrated
    <3> QED BY <3>1, <3>3, Types, RingFits DEF Captured
  <2>2. CASE SnsStarted
    <3>1. enable_PDM /\ acq_flag' = acq_flag /\ cal' = cal /\ spc = "starting"
      BY <2>2 DEF SnsStarted
    <3>2. \A w \in Tasks : cal[w].pc = "off"
      BY <3>1, WhoCalibrates
    <3>3. clr' = 0 /\ hw' = hw /\ InRing' /\ Lasts'
      BY <3>1, EnableCaptures
    <3>4. \A w \in Tasks : Calibrated(w)'
      BY <3>1, <3>2 DEF Calibrated
    <3> QED BY <1>2, <3>1, <3>3, <3>4 DEF PInv, Captured
  <2>3. CASE SnsStopped
    <3>1. spc = "stopping" /\ UNCHANGED <<clr, hw, ring, last, landing>>
      BY <2>3 DEF SnsStopped, core
    <3>2. \A w \in Tasks : cal[w].pc = "off" BY <3>1, WhoCalibrates
    <3>3. hw = 0 BY <3>1, <3>2, AtRest
    <3>4. InRing' = InRing /\ Lasts' = Lasts /\ \A w \in Tasks : Calibrated(w)'
      BY <1>4, <3>1, CapturesKept
    <3>5. hw' <= send_block' + (Ring - 1)
      BY <1>2, <3>1, <3>3, Types, RingFits
    <3> QED BY <3>1, <3>4, <3>5 DEF PInv, Captured
  <2>4. CASE SnsBootEnd \/ SnsInitEnd \/ SnsStart \/ SnsTimeout \/ SnsSample
    <3>1. /\ UNCHANGED <<clr, hw, ring, last, landing>> /\ (acq_flag' = 0 => acq_flag = 0)
      BY <2>4 DEF SnsBootEnd, SnsInitEnd, SnsStart, SnsTimeout, SnsSample, core, PInv, IInv,
                  Positions
    <3>2. InRing' = InRing /\ Lasts' = Lasts /\ \A w \in Tasks : Calibrated(w)'
      BY <1>4, <3>1, CapturesKept
    <3> QED BY <1>2, <3>1, <3>2 DEF PInv, Captured
  <2> QED BY <2>1, <2>2, <2>3, <2>4 DEF task_sns
<1>6. Published'
  <2>1. CASE SnsBoot \/ SnsBootEnd \/ SnsInit
    <3>1. /\ sample_block' = 0 /\ hw' \in {0, hw}
      BY <2>1, Types DEF SnsBoot, SnsBootEnd, SnsInit, disable_PDM, core, PInv, IInv, Positions,
                         Published
    <3>2. cpc # "dma"
      <4>1. CASE SnsBoot \/ SnsBootEnd
        <5>1. spc \in {"boot", "bootcal"} BY <4>1 DEF SnsBoot, SnsBootEnd
        <5> QED BY <5>1 DEF PInv, Stage, InBoot, Quiet, Asked, InitPosted, InitRuns, InitDone,
                            Requested, Taken, StartPosted, Records, Stopped, SnsCalm, ComCalm
      <4>2. CASE SnsInit
        <5>1. SnsorQue # <<>> /\ Head(SnsorQue) = "SnsQue_INIT" /\ spc = "receive"
          BY <4>2 DEF SnsInit, Take
        <5> QED BY <5>1, SnsFinds DEF InitPosted, ComCalm
      <4> QED BY <2>1, <4>1, <4>2
    <3> QED BY <1>2, <3>1, <3>2, Types DEF Published
  <2>2. CASE SnsStart
    <3>1. /\ sample_block' = 0 /\ acq_flag' = 1 /\ hw' = hw /\ spc = "receive"
          /\ SnsorQue # <<>> /\ Head(SnsorQue) = "SnsQue_START"
      BY <2>2 DEF SnsStart, Take, core
    <3>2. acq_flag = 0 BY <3>1, SnsFinds DEF StartPosted, SnsCalm
    <3>3. cpc # "dma" BY <3>2, Types DEF PInv, Published
    <3> QED BY <1>2, <3>1, <3>3, Types DEF Published
  <2>3. CASE SnsStop
    <3>1. /\ sample_block' = sample_block /\ acq_flag' = acq_flag /\ spc' = "stopping"
          /\ spc = "receive" /\ SnsorQue # <<>> /\ Head(SnsorQue) = "SnsQue_STOP"
      BY <2>3 DEF SnsStop, Take
    <3>2. cpc # "dma" BY <3>1, SnsFinds DEF ComCalm
    <3> QED BY <1>2, <3>1, <3>2 DEF PInv, Published
  <2>4. CASE SnsStopped
    <3>1. sample_block' = 0 /\ hw' = hw /\ spc = "stopping" BY <2>4 DEF SnsStopped, core
    <3>2. cpc # "dma"
      BY <3>1, SenderStages DEF Taken, StartPosted, Records, SnsCalm
    <3> QED BY <1>2, <3>1, <3>2, Types DEF Published
  <2>5. CASE SnsInitEnd \/ SnsStarted \/ SnsTimeout \/ SnsSample
    <3>1. /\ spc # "stopping" /\ UNCHANGED <<acq_flag, hw>>
          /\ \/ sample_block' = sample_block
             \/ sample_block' = hw /\ acq_flag = 1
      BY <2>5 DEF SnsInitEnd, SnsStarted, SnsTimeout, SnsSample, core, enable_PDM
    <3> QED BY <1>2, <3>1, Types DEF PInv, Published
  <2> QED BY <2>1, <2>2, <2>3, <2>4, <2>5 DEF task_sns
<1> QED BY <1>3, <1>5, <1>6

---------------------------------------------------------------------------
(* The theorems. *)

LEMMA InitPInv == Init => PInv
<1> SUFFICES ASSUME Init PROVE PInv
  OBVIOUS
<1>1. IInv BY InitIInv
<1>2. Stage BY DEF Init, Stage, InBoot, Booting, ComCalm
<1>3. Captured /\ Published /\ Counted
  <2>1. \A w \in Tasks : cal[w].pc = "off" BY CalRecords DEF Init
  <2>2. Lasts BY DEF Init, Lasts
  <2>3. \A w \in Tasks : Calibrated(w) BY <2>1 DEF Calibrated
  <2> QED BY <2>2, <2>3, RingFits DEF Init, Captured, InRing, Published, Counted, Waits
<1> QED BY <1>1, <1>2, <1>3 DEF PInv

LEMMA StepPInv == ASSUME Patient, PInv, [Next]_vars PROVE PInv'
<1>1. IInv'
  BY HwStep, MainStep, ComStep, SnsStep, CalStep, StutterStep DEF Next, PInv
<1>2. CASE Next
  <2>1. Stage' BY <1>2, CalStage, MainStage, ComStage, SnsStage DEF Next
  <2>2. Captured' /\ Published' /\ Counted'
    BY <1>2, HwData, LastData, CalData, MainData, ComData, SnsData DEF Next, pdm_core
  <2> QED BY <1>1, <2>1, <2>2 DEF PInv
<1>3. CASE UNCHANGED vars
  <2>1. /\ UNCHANGED mainVars /\ UNCHANGED comVars /\ UNCHANGED snsVars
        /\ UNCHANGED queues /\ UNCHANGED cal /\ UNCHANGED core /\ UNCHANGED history
    BY <1>3 DEF vars
  <2>2. UNCHANGED stageVars
    BY <2>1 DEF stageVars, mainVars, comVars, snsVars, queues, history
  <2>3. Captured'
    <3>1. UNCHANGED <<clr, hw, ring, last, landing>> BY <2>1 DEF core
    <3>2. InRing' = InRing /\ Lasts' = Lasts /\ \A w \in Tasks : Calibrated(w)'
      BY <1>3, <2>1, <3>1, CapturesKept
    <3> QED BY <2>1, <3>1, <3>2 DEF PInv, Captured, comVars, snsVars
  <2>4. Published' BY <2>1 DEF PInv, Published, comVars, snsVars, core
  <2>5. Counted' BY <2>1 DEF PInv, Counted, Waits, mainVars, comVars, queues, history
  <2> QED BY <1>1, <2>2, StageKept, <2>3, <2>4, <2>5 DEF PInv
<1> QED BY <1>2, <1>3

\* The stages of a command and what goes with them hold for every patient host.
THEOREM Stages == ASSUME Patient PROVE Spec => []PInv
<1>1. PInv /\ [Next]_vars => PInv' BY StepPInv
<1> QED BY InitPInv, <1>1, PTL DEF Spec

\* No two tasks calibrate at a time, and none while blocks are recorded.
THEOREM OneUser == ASSUME Patient PROVE Spec => []OneUserOfTheCore
<1>1. ASSUME PInv PROVE OneUserOfTheCore
  <2> DEFINE users == {w \in Tasks : cal[w].pc # "off"}
  <2> SUFFICES ASSUME users # {}
               PROVE  \E w \in Tasks : users = {w} /\ acq_flag = 0 /\ DataTxEn = 0
    BY DEF OneUserOfTheCore
  <2>1. PICK w \in Tasks : cal[w].pc # "off" OBVIOUS
  <2>2. ComCalm /\ acq_flag = 0 /\ \A u \in Tasks \ {w} : cal[u].pc = "off"
    BY <1>1, <2>1, WhoCalibrates
  <2>3. users = {w} BY <2>1, <2>2
  <2> QED BY <2>1, <2>2, <2>3 DEF ComCalm
<1>2. PInv => OneUserOfTheCore BY <1>1
<1> QED BY Stages, <1>2, PTL

\* Once a command is answered the core is held in CLR and nothing is being sent
\* or about to be started.
THEOREM Quietness == ASSUME Patient PROVE Spec => []QuietBetweenCommands
<1>1. ASSUME PInv, mpc = "check", ~Booting
      PROVE  clr = 1 /\ DataTxEn = 0 /\ cpc # "start" /\ SendReqQue = <<>>
  <2>1. Quiet
    BY <1>1 DEF PInv, Stage, InBoot, Asked, InitPosted, InitRuns, InitDone, Requested, Taken,
                StartPosted, Records, Stopped, Waits
  <2>2. \A w \in Tasks : cal[w].pc \notin {"wait", "delay"}
    BY <1>1, <2>1 DEF PInv, IInv, Positions, Quiet, SnsCalm, Tasks
  <2>3. clr = 1 BY <1>1, <2>1, <2>2, AtRest DEF Quiet
  <2> QED BY <2>1, <2>3 DEF Quiet, ComCalm
<1>2. PInv => QuietBetweenCommands BY <1>1 DEF QuietBetweenCommands
<1> QED BY Stages, <1>2, PTL

LEMMA NoStaleInv == PInv => NoStaleBlock
<1>1. ASSUME PInv, cpc = "dma"
      PROVE  /\ ring[send_block % Ring] = send_block /\ Complete(send_block % Ring)
             /\ last[send_block % Ring] = send_block \/ landing = send_block
  <2>1. DataTxEn = 1 /\ send_block < sample_block /\ spc # "stopping"
    BY <1>1, SenderStages
       DEF PInv, IInv, Positions, Published, Taken, StartPosted, Records, SnsCalm
  <2>2. send_block < hw /\ send_block \in Nat /\ hw \in Nat
    BY <1>1, <2>1, Types DEF PInv, Published
  <2>3. hw <= send_block + (Ring - 1) BY <1>1, <2>1 DEF PInv, Captured
  <2>4. clr = 0 BY <1>1, <2>2, Types DEF PInv, Captured
  <2>6. hw < send_block + Ring /\ hw <= send_block + Ring BY <2>2, <2>3, RingFits
  <2>5. /\ ring[send_block % Ring] = send_block
        /\ last[send_block % Ring] = send_block \/ landing = send_block
    BY <1>1, <2>2, <2>4, <2>6 DEF PInv, Captured, InRing, Lasts
  <2>7. hw % Ring # send_block % Ring BY <2>2, <2>6, Apart, RingFits
  <2> QED BY <2>5, <2>7 DEF Complete
<1>2. ASSUME PInv, NEW w \in Tasks, cal[w].pc = "average", NEW b \in 0..(CalBlocks - 1)
      PROVE  /\ ring[b] = b /\ Complete(b)
             /\ last[b] = b \/ (b = CalBlocks - 1 /\ ~cal[w].whole)
  BY <1>2 DEF PInv, Captured, Calibrated, Complete
<1> QED BY <1>1, <1>2 DEF NoStaleBlock

\* While a block goes out its slot holds that block, or its last half is on its
\* way, and the core is not filling it again; a calibration averages samples of
\* its own attempt, all of them unless its last delay was cut short: then all but
\* the last half.
THEOREM NothingStale == ASSUME Patient PROVE Spec => []NoStaleBlock
BY Stages, NoStaleInv, PTL

\* The step that answers.
LEMMA Answering ==
    ASSUME PInv, Next, mpc = "poll", mpc' = "check"
    PROVE  Poll /\ ((cmd.op = "IS" /\ InitDone) \/ (cmd.op = "GW" /\ Stopped))
<1>1. Poll
  <2>1. ~(pdm_core \/ task_com \/ task_sns \/ \E w \in Tasks : Calibration(w))
    <3>1. pdm_core \/ task_com \/ task_sns \/ (\E w \in Tasks : Calibration(w)) => UNCHANGED mainVars
      BY DEF pdm_core, HwBlock, HwLast, coreRest, task_com, ComReceive, ComStart, ComTest, ComDma, ComEnd, ComStop, ComPost,
             comRest, task_sns, SnsBoot, SnsBootEnd, SnsInit, SnsInitEnd, SnsStart, SnsStarted,
             SnsStop, SnsStopped, SnsTimeout, SnsSample, snsRest, Calibration, CalClear,
             CalEnable, CalWait, CalEnd, CalAverage, calRest
    <3> QED BY <3>1 DEF mainVars
  <2>2. task_main BY <2>1 DEF Next
  <2> QED BY <2>2 DEF task_main, Command, Post, Delay, GainSet
<1>2. SnsCtrlSTS # "BUSY" BY <1>1 DEF Poll
<1> QED BY <1>1, <1>2 DEF PInv, Stage, InBoot, Quiet, Asked, InitPosted, InitRuns, Requested,
                          Taken, StartPosted, Records

\* An answer tells the outcome of its own command.
THEOREM Honesty == ASSUME Patient PROVE Spec => HonestAnswers
<1> DEFINE Honest == mpc = "poll" /\ mpc' = "check" =>
                       /\ cmd.op = "IS" => outcome # "none"
                       /\ rsp' = IF cmd.op = "IS" /\ outcome = "error" THEN "ERR" ELSE "ok"
<1>1. PInv /\ [Next]_vars => [Honest]_vars
  <2> SUFFICES ASSUME PInv, Next, mpc = "poll", mpc' = "check"
               PROVE  /\ cmd.op = "IS" => outcome # "none"
                      /\ rsp' = IF cmd.op = "IS" /\ outcome = "error" THEN "ERR" ELSE "ok"
    OBVIOUS
  <2>1. /\ rsp' = IF SnsCtrlSTS = "ERROR" THEN "ERR" ELSE "ok"
        /\ (cmd.op = "IS" /\ InitDone) \/ (cmd.op = "GW" /\ Stopped)
    BY Answering DEF Poll
  <2> QED BY <2>1 DEF InitDone, Stopped
<1> QED BY Stages, <1>1, PTL DEF Spec, HonestAnswers

\* A step of the recorder is a step of what it promises, or none.
LEMMA Unseen ==
    ASSUME UNCHANGED mainVars, UNCHANGED sent
    PROVE  UNCHANGED Promise!vars
BY DEF mainVars, Promise!vars, Wanted

LEMMA MainPromise ==
    ASSUME PInv, Next, task_main PROVE [Promise!Next]_Promise!vars
<1>1. ASSUME NEW c \in Commands, Command(c) PROVE [Promise!Next]_Promise!vars
  <2>1. /\ mpc = "check" /\ cmd' = c /\ sent' = <<>>
        /\ \/ c.op \in {"IS", "GW"} /\ mpc' = "post"
           \/ c.op = "SG" /\ mpc' = "calibrate"
    BY <1>1 DEF Command
  <2>2. Wanted = -1 BY <2>1 DEF Wanted
  <2>3. CASE c.op = "GW"
    <3>1. Wanted' = c.n BY <2>1, <2>3 DEF Wanted
    <3>2. c.n \in Counts BY <2>3 DEF Commands
    <3>3. Promise!Ask(c.n) BY <2>1, <2>2, <3>1 DEF Promise!Ask, Promise!Nothing
    <3> QED BY <3>2, <3>3 DEF Promise!Next
  <2>4. CASE c.op # "GW"
    <3>1. Wanted' = -1 BY <2>1, <2>4 DEF Wanted
    <3> QED BY <2>1, <2>2, <3>1 DEF Promise!Next, Promise!Forget, Promise!Nothing
  <2> QED BY <2>3, <2>4
<1>2. CASE Post \/ Delay \/ GainSet
  <2>1. Wanted' = Wanted /\ sent' = sent BY <1>2 DEF Post, Delay, GainSet, history, Wanted
  <2> QED BY <2>1 DEF Promise!vars
<1>3. CASE Poll
  <2>1. mpc = "poll" /\ mpc' = "check" /\ UNCHANGED <<cmd, sent>>
    BY <1>3 DEF Poll, history
  <2>2. Wanted' = -1 BY <2>1 DEF Wanted
  <2>3. CASE cmd.op = "GW"
    <3>1. Stopped BY <2>1, <2>3, Answering
    <3>2. Len(sent) = cmd.n * Channels
      BY <2>3, <3>1 DEF Stopped, ComCalm, PInv, Counted
    <3>3. Wanted = cmd.n /\ cmd.n # -1 BY <2>1, <2>3, CommandKinds DEF Wanted, PInv
    <3> QED BY <2>1, <2>2, <3>2, <3>3 DEF Promise!Next, Promise!Answer, Promise!Nothing
  <2>4. CASE cmd.op # "GW"
    <3>1. Wanted = -1 BY <2>4 DEF Wanted
    <3> QED BY <2>1, <2>2, <3>1 DEF Promise!vars
  <2> QED BY <2>3, <2>4
<1> QED BY <1>1, <1>2, <1>3 DEF task_main

LEMMA DmaPromise == ASSUME PInv, ComDma PROVE Promise!Send
<1>1. /\ cpc = "dma" /\ UNCHANGED mainVars
      /\ sent' = Append(sent, <<ch, Block(send_block % Ring)>>)
      /\ landing # send_block
  BY DEF ComDma, comRest, Landed
<1>2. /\ cmd.op = "GW" /\ Waits /\ DataTxEn = 1
  BY <1>1, SenderStages DEF PInv, IInv, Positions, Taken, StartPosted, Records, Waits
<1>3. Wanted = cmd.n /\ Wanted' = Wanted BY <1>1, <1>2 DEF Wanted, Waits, mainVars
<1>4. /\ send_block < send_block_max /\ send_block_max = cmd.n /\ cmd.n \in Nat
      /\ Len(sent) = send_block * Channels + ch
  BY <1>1, <1>2, CommandKinds DEF PInv, Published, Counted
<1>5. Block(send_block % Ring) = send_block
  <2>1. ring[send_block % Ring] = send_block /\ last[send_block % Ring] = send_block
    BY <1>1, NoStaleInv DEF NoStaleBlock
  <2> QED BY <2>1 DEF Block
<1>6. /\ Channels \in Nat \ {0} /\ send_block \in Nat /\ ch \in 0..(Channels - 1)
  BY Types, RecorderAssumption
<1>7. /\ Len(sent) % Channels = ch /\ Len(sent) \div Channels = send_block
  BY <1>4, <1>6, DivUnique
<1>8. send_block * Channels + Channels <= cmd.n * Channels
  BY <1>4, <1>6, Times
<1>9. send_block * Channels \in Nat /\ cmd.n * Channels \in Nat BY <1>4, <1>6
<1>10. Len(sent) < Wanted * Channels BY <1>3, <1>4, <1>6, <1>8, <1>9
<1>11. cmd.n # -1 BY <1>4
<1> QED BY <1>1, <1>3, <1>5, <1>7, <1>10, <1>11 DEF Promise!Send, Promise!Nothing

\* A GW for n blocks is answered after exactly the blocks 0 .. n-1 of one capture
\* went out, in order, in each channel after channel; nothing is sent otherwise.
THEOREM Refinement == ASSUME Patient PROVE Spec => ImplementsRecording
<1>1. Init => Promise!Init
  BY DEF Init, Promise!Init, Promise!Nothing, Wanted
<1>2. PInv /\ [Next]_vars => [Promise!Next]_Promise!vars
  <2> SUFFICES ASSUME PInv, [Next]_vars PROVE [Promise!Next]_Promise!vars
    OBVIOUS
  <2>1. CASE UNCHANGED vars
    <3>1. UNCHANGED mainVars /\ UNCHANGED history BY <2>1 DEF vars
    <3> QED BY <3>1, Unseen DEF history
  <2>2. CASE pdm_core \/ task_sns \/ \E w \in Tasks : Calibration(w)
    <3>1. UNCHANGED mainVars /\ UNCHANGED sent
      BY <2>2 DEF pdm_core, HwBlock, HwLast, coreRest, task_sns, SnsBoot, SnsBootEnd, SnsInit, SnsInitEnd, SnsStart,
                  SnsStarted, SnsStop, SnsStopped, SnsTimeout, SnsSample, snsRest, Calibration,
                  CalClear, CalEnable, CalWait, CalEnd, CalAverage, calRest, history
    <3> QED BY <3>1, Unseen
  <2>3. CASE ComReceive \/ ComStart \/ ComTest \/ ComEnd \/ ComStop
    <3>1. UNCHANGED mainVars /\ UNCHANGED sent
      BY <2>3 DEF ComReceive, ComStart, ComTest, ComEnd, ComStop, ComPost, comRest
    <3> QED BY <3>1, Unseen
  <2>4. CASE ComDma BY <2>4, DmaPromise DEF Promise!Next
  <2>5. CASE Next /\ task_main BY <2>5, MainPromise
  <2> QED BY <2>1, <2>2, <2>3, <2>4, <2>5 DEF Next, task_com
<1> QED BY <1>1, <1>2, Stages, PTL DEF Spec, ImplementsRecording, Promise!Spec

=============================================================================
