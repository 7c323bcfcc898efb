# BeMicro Max10 PDM recorder: verification project

The board records four PDM microphones. The FPGA filters the one-bit streams,
stores the samples in a ring in SDRAM and shows them to a Nios II; firmware of
five FreeRTOS tasks takes commands from a host over an FT245 USB FIFO and sends
the recorded blocks back by DMA. This directory holds TLA+ models of the parts in
which order and timing matter, the TLC runs that check them, and TLAPS proofs.

Firmware paths below are relative to `src/nios/software/pdm/pdm_4ch/`.

## 1. Inventory

### Firmware

| part | state | operations | talks to |
|---|---|---|---|
| receive interrupt, `CmndSeq` (`src/ft245_fifo.c`, `src/pdm_sub.c`) | `Ft245Data` (`RecvBuf`, `RcvCnt`, `RecvSeq`), `CmdBuf` | one character | shares all of it with task_main, without a lock |
| task_main (`src/task_main.c`, `Execute` in `src/pdm_sub.c`) | `RspBuf`, the command | poll, check, execute IS / GW / SG / SF, answer | SnsorQue, SendReqQue; polls `SnsCtrlSTS`; calls `MicCarivration` |
| task_com (`src/task_com.c`) | `send_block`, `send_block_max`, `DataTxEn` | take a request, START, send a block as four DMAs, STOP | SendReqQue, SnsorQue; polls `sample_block` |
| task_sns (`src/task_sns.c`) | `acq_flag`, `sample_block`, `SnsCtrlSTS` | boot, INIT, START, STOP, publish the block count | SnsorQue, PDM registers |
| calibration (`src/pdmmic.c`) | `TryCount`, offset registers | clear, record 4096 samples, average, adjust, up to 20 times | PDM registers, ring in SDRAM; called from two tasks |
| task_button (`src/task_button.c`) | four deglitch counters | post an event after a release | ButtonQue, which nobody reads |
| task_disp, `debug_print` | GLCD_QUE, current row | draw, scroll | task_main and task_sns post messages |
| FreeRTOS 9 (`FreeRTOS/Source/tasks.c`, `queue.c`, `list.c`) | ready, delayed, suspended and event lists, tick count, queue memory | tick, delay, send and receive with a timeout | under all tasks; one priority, no interrupt handler uses a queue |
| FT245 driver (`src/ft245_fifo.c`) | none | SendChar, SendBlock | FT245 registers |

### FPGA

| part | state | operations |
|---|---|---|
| `ip/PDM/pdm_if.vhd` | bit and byte counters, byte buffer | collect bits, announce a byte |
| `ip/PDM/pdm_core2.vhd` | two request sequencers, sample counts, wave buffers | start the 64 kHz and the 32 kHz filter per channel, offset, gain |
| `ip/PDM/fir_1b128t.vhd`, `fir_16b63t.vhd` | address and tap counters, pipelines | one sum of products per start |
| `ip/PDM/pdm_amseq.vhd` | `MWSTS`, `CH_CNT`, address registers | move a filled half of the wave buffer, channel by channel |
| `ip/avalon_master/*.vhd` | `WR_STS`, burst counters, four-word buffer | write one line of 16 words in two bursts of 8 |
| `ip/ft245_mod/ft245if2.vhd` | main and FIFO sequencer, busy flags | receive a byte, send the CPU's byte, send the FIFO's words |
| `pdm_cpuif`, `pdm_mod` | registers | CLR, offsets, gain, mode; multiplexers |
| monitor DA, LCD SPI | accumulator, shift register | output |

### What is hard here, and what makes each part correct

- *Interrupt against task.* `HostStsChk` resets what the interrupt is writing, in two
  statements. Correct: one command, one answer to that command.
- *Three tasks, two queues, and a status word that is polled.* `SnsCtrlSTS` is read
  100 ms after a message is posted, not after it is taken. Correct: an answer tells
  the outcome of its own command; what is sent is what was recorded for it.
- *One CLR bit, two users.* Calibration and recording both restart the core. Correct:
  one user at a time, and the core at rest when nothing is asked.
- *Hardware that does not wait.* The core fills the other half while one half is
  moved, bursts cannot pause, triggers last one clock. Correct: every sample gets to
  its place once, also when CLR comes in between.
- *Filters that read what is being written.* Both filters read windows of rings that are
  overwritten meanwhile, and a request that comes during a pass is not kept. Correct:
  every sample is made of its own data only, and no request comes too early.
- *Arithmetic that wraps.* The gain cuts 16 bits out of 28, and the calibration corrects
  by averages of what is left. Correct: what a calibration accepts gives true samples.
- *Waiting with a timeout.* A task that waits for a queue is in two lists, and the tick,
  a sender and the task itself may each end the wait. Correct: no wake-up is lost, no
  sleep too long or too short, over the wraps of the tick too.
- *Three directions on one bus.* Received bytes, CPU bytes and FIFO words share one
  sequencer. Correct: no byte lost, repeated or out of order; true only in part (5).

`PROJECT.json` lists each of these hazards at its line with the properties that watch it, or why
none does: some are assumed away by a named guard (section 3).

## 2. Modules

| module | models | state and actions |
|---|---|---|
| `Recording` | abstract: a GW for n blocks is answered after exactly blocks 0..n-1 of one capture went out, channel after channel | `wanted`, `sent` |
| `Recorder` | task_main's `Execute`, task_com, task_sns, `MicCarivration`, both queues, the core's CLR, sample count and ring, a block counted before its last half is there | one action per statement group between two points where another task can see a difference; the program counters are `mpc`, `cpc`, `spc` and `cal[w].pc` |
| `CommandExchange` | abstract: every command gets one answer, to itself | `pending`, `answer` |
| `HostCommand` | `CmndSeq` in the interrupt, `HostStsChk`, `CommandChk`, `Execute`'s own checks, the answer | the C variables by name; `tpc` is task_main's position |
| `AmSeq` | `pdm_amseq` between the core and the burst writer | the VHDL signals by name; a step is a sample written, a sample moved, a line or a pass ended, or a change of CLR |
| `BlockCopy` | abstract: the words of one line, each once, in order | `copying`, `written` |
| `BurstWrite` | `avalon_master_write_mod` and `burst_buf4`, every clock edge; its requester and the bus as their environment | every register of both entities |
| `Ft245If` | `ft245if2`, with `FT245_SendBlock` and the interrupt handler | the VHDL signals; a step is a clock edge with at most one bus access |
| `PdmIf` | `pdm_if`: bits to bytes, one channel per clock | the VHDL signals; a shift register is the number of its newest bit |
| `Fir128`, `Fir63` | the two filters as functions of their registers, one clock each | a record per filter; a product is the pair of its factors' addresses, a sum the sequence of its products |
| `SampleStream` | abstract: the samples come out one by one, channel after channel | `next` |
| `PdmCore` | `pdm_core2` with the three above (INSTANCE): both request sequencers, both rings, both counts, CLR, the mode | every register but the input delays; a step is a system clock |
| `MicCal` | the arithmetic of `MicCarivration`, `setMicGain` and of `pdm_core2` from the first filter's sum to the sample, in the width it has | offsets, gain, tries; a step is one try |
| `MessageQueues` | abstract: bounded first-in first-out buffers | `items`, `received` |
| `Kernel` | `tasks.c`, `list.c`, `queue.c` and the tick of `port.c`, as far as the firmware uses them, under tasks that are loops of calls | `k` is the kernel's own state, `queue` that of the queues; the functions of `tasks.c` are operators from `k` to the next `k`; a step is a critical section or what happens with the scheduler suspended |
| `*_proofs` | the proofs about the module they are named after | |
| `Division` | lemmas about quotients and places in rings that four of them share | |
| `MC*` | instances for TLC | |

How they fit: `HostCommand` ends where a command is executed, `Recorder` begins there
and ends where a block is complete in SDRAM or goes to the DMA; `AmSeq` is how blocks
get into SDRAM, and rests on lines that are copied, which is `BurstWrite` (it
refines `BlockCopy`; `AmSeq`'s `MoveSample` and its fairness are `Put` and
`RequestEnds`). `PdmCore` is where the samples come from: it refines `SampleStream`,
which is what `AmSeq` assumes of its environment (its action `Sample`), and it
contains `PdmIf`, `Fir128` and `Fir63`. `MicCal` is what a calibration attempt of
`Recorder` (`CalAverage`, a choice there) computes. `Ft245If` is what the DMA and the
answers go through. `Kernel` is below all tasks: that it refines `MessageQueues` and that
`LoopsGoOn` are what `Recorder` takes for granted when its queues are sequences and its tasks
are weakly fair; that a delay lasts as long as asked is part of what `Settled` stands for.

Abstractions of data:

- A character is a number, a digit is its value (`HostCommand`). A sample or a word
  is its own index, a block of the ring the number it has in the running capture, so
  that a stale or misplaced one can be told from the right one.
- Samples are counted in blocks in `Recorder`. A block has two parts, its last 32 samples (a
  half of the wave buffer) and those before: the count moves with the last sample (`HwBlock`),
  the half is moved after the next one (`HwLast`), as `AmSeq` has it in detail. `Complete`
  treats the slot being filled as unreadable as a whole.
- Whether a calibration succeeds is a choice at every attempt (`Recorder`); `MicCal`
  computes it, from the mean level of each channel in quarters of a unit of the first filter,
  without the waveform.
- A bit in `PdmCore` is its number in the capture, a 64 kHz sample the number of its
  window. What was written before CLR is `Old`; reading an address in the clock in which it
  is written gives `Undefined`, as the RAMs are declared "DONT_CARE".
- A task in `Kernel` is the list of queue and delay calls its loop makes; an item is the name
  of its sender. What the tasks compute between two calls is left out.
- A byte's strobe in `Ft245If` has two phases instead of 15 or TxRATE clocks.
- Definitions named `X_Something` under the comment "Mutant:" are changed copies of
  the definition `X` that follows; nothing in the models uses them. They show
  that the properties notice such a change.

## 3. Runs

| run | question | states |
|---|---|---|
| `burst_write` | Does a line get to its place whatever the bus does? `TypeOK`, `BufferHolds`, `WholeBursts`, refinement of `BlockCopy`, `RequestEnds` | 131 |
| `recorder` | After the boot, does every command do and answer what it should? `TypeOK`, `NoStaleBlock`, `OneUserOfTheCore`, `QuietBetweenCommands`, `NothingLeftRunning`, `HonestAnswers`, refinement of `Recording`, `CommandsAnswered` | 4 thousand |
| `am_seq` | Is a filled half always moved, to the right place, before it is overwritten, with CLR at any moment? `TypeOK`, `HalvesInPlace`, `TriggerFindsWait`, `PassEnds` | 3 thousand |
| `host_command` | One command, one answer, and that command executed, whatever the interrupt interleaves with? Refinement of `CommandExchange`, `FramesAnswered`, `ExecutesTheFrame` | 7 thousand |
| `host_pipelined` | And when the host does not wait? `TypeOK`, `ParametersInRange` | 0.4 million |
| `ft245_if` | What is kept when all three directions overlap, and is everything sent while they do not? `TypeOK`, `ReceivedInOrder`, `SentInOrder`, `FifoNeverRepeats`, `EverythingSent` | 0.24 million |
| `pdm_core` | Is every sample made of its own window, although both rings are written on while they are read, with CLR and changes of mode at any moment? `TypeOK`, `SamplesIntact`, `NoRequestMissed`, refinement of `SampleStream`, `KeepsDelivering` | 87 thousand |
| `pdm_core_board` | Is a pass over in time with the dimensions of the board, 24 system clocks per PDM clock? `NoRequestMissed` | 0.8 million |
| `kernel` | Do delays, timeouts and wake-ups work when a tick may come between any two critical sections, and over the wrap of the tick? `TypeOK`, `NoLostWakeup`, `SleepsAsLongAsAsked`, refinement of `MessageQueues`, `LoopsGoOn` | 0.14 million |
| `mic_cal` | Does a calibration succeed, and are the samples after it true? `CalibratedSamplesAreTrue`, `CalibrationSucceeds` | 56 thousand |
| `host_comment` | Is the first pair of digits of GW the block count, as the comment says? **No** | violation |
| `ft245_receive` | Does the FIFO sequencer wait for its byte, as the comment says? **No** | violation |

Deadlock is checked in every run. Liveness is checked under the fairness below.

### Bounds

- `BurstWrite`: the design's own values, lines of 16 words, bursts of 8. `MaxRead`
  is an address bound that is never reached in a line.
- `Recorder`: two channels make "the next channel" and "the last channel" differ.
  `Ring = 3`: five blocks go round it; `Wrap = 9` is three rounds, so the count wraps
  while recordings start again. `CalBlocks = 2` lets a calibration be cut
  after its first block; `MaxTry = 2` has a last and a not-last attempt.
- `AmSeq`: three channels, halves of four samples, four halves in the ring, 41
  samples: ten halves, so the ring wraps twice. `MaxLag = 3` is the most that
  is less than a half.
- `HostCommand`: a frame for each way through `CommandChk` and `Execute`, and three
  characters of noise, among them both brackets. Pipelined, one frame for each kind
  of replacement (legal for one command and not for the other).
- `Ft245If`: two words through a FIFO of one (so `waitreq` is raised), two answer
  bytes, two received bytes, all three directions at once: the first byte of the next word is
  where a skipped or repeated byte shows.
- `PdmCore` small: two channels (first and last, rising and falling edge), two bits a byte,
  a ring of eight bytes, two bytes a sample, three taps in a ring of eight, both rates;
  counts of 16 and 8 wrap several times, and the PDM clock wanders between 6 and 7
  system clocks a half. On the board the numbers are 8, 8, 32, 4, 63 and 128.
- `PdmCore` with the board's numbers checks the time that the small instance cannot: there
  is one behaviour, half a million clocks up to its repetition, as CLR and the
  mode are left out and the sample counts wrap at 256 and 128. The PDM clock of the board takes 24
  or 26 system clocks; the run has 24 throughout, which leaves a pass the least time.
- `Kernel`: task_main (as it executes commands), task_sns, task_button and task_disp; a queue of one with a receiver that
  times out, one of one that nobody reads, one of two with senders that time out.
  `TickWrap = 6` lets every delay cross the wrap; no wait may reach `TickWrap`, as none
  reaches 2^32. `left` is history: the ticks until what a task asked for is over, which the
  code has nowhere; it falls below zero while a call goes on after its timeout.
- `MicCal`: two channels at 29 levels up to a tenth off the middle and at two more where a capture
  lies across the wrap of the sample, every gain, a ripple of a quarter of a unit; every sample is
  computed with the real widths. Such a capture averages to anything (`Averages`), for which seven
  numbers from -24576 to 24576 stand.

### Assumptions on timing

They are guards with names, because no code enforces them.

- `Settled` (`Recorder`): 100 ms are enough for task_com and task_sns to act on a
  message. Both loop every tick, and a full GLCD_QUE delays a `debug_print` by ten.
  It does not hold back a task that is blocked, calibrating or booting.
- `HostReady` (`Recorder`): a host takes longer to read an answer and send its next
  command than a runnable task takes to finish its handler. `Patient` adds that
  it does not start before the boot calibration is over. What is left without it is
  proved, not run (`NothingLeft`, section 4). After the poll that sees IDLE, task_main sends ten
  characters over the FT245, reads the next command and polls for it with delays; task_sns, of the
  same priority, has its turn in that time.
- `whole` (`CalEnd`): a calibration reads the count, delays to the next tick, and sets CLR if the
  count was high enough. `CalWait` chooses whether that delay is `whole`: longer than a sample (31
  us at 32 kHz) and a pass over the channels. If it is, the last half has landed when it ends
  (`Landed`). A read comes soon after a tick, as the task wakes with it, unless other tasks go first;
  one that comes so late in its tick that the delay is shorter leaves the last half behind, and
  `NoStaleBlock` claims nothing of those 32 samples of 4096.
- `Landed` (`ComDma`): a DMA reads 4 KB in order through a FIFO of 1 KB that the FT245 empties, so it
  comes to the last 64 bytes of a block long after they have landed.
- `landing = None` (`HwBlock`): the last half of a block has landed before the next block is counted,
  64 ms later.
- `Lag` (`HwBlock`): the core stays less than a ring (128 blocks, 8 s at 32 kHz) ahead
  of the sender. Nothing checks it. Requests stay a ring below the wrap of the
  24-bit count (`RecorderAssumption`): the parameter's 16 bits allow more, and the end
  of such a request is never found.
- `Paced` (`AmSeq`): a pass over the channels, some hundred clocks per line at worst,
  ends within the 1 ms a half lasts; and no first sample comes within the 64 samples
  of 64 kHz that fill the filter.
- `Calm` (`HostCommand`): noise is followed by a pause long enough for task_main to
  poll. Without it noise still pending as an error may be cleared in the middle
  of the next frame and that frame is lost; only `host_pipelined` has that.
- `Overlap` (`Ft245If`) names what may go on at once; the run allows everything. `SentInOrder`
  and `EverythingSent` speak of behaviours up to the first overlap.
- `HoldClocks` (`PdmCore`): CLR lasts longer than a filter needs for one channel; the firmware
  holds it for a millisecond. The filters are not reset by CLR, and a shorter one would
  let an old sum into the next capture.
- `StepsPerTick` (`Kernel`): a tick leaves time for 15 critical sections, unless the idle task
  runs. On the board there is time for hundreds.

### Fairness

- Clocked logic (`BurstWrite`, `AmSeq`, `Ft245If`, `PdmCore`): the clock runs, and the SDRAM
  accepts a beat in the end (the controller refreshes and then serves); the host
  drains the FT245.
- Tasks (`Recorder`, `HostCommand`): all have the same priority and the kernel slices
  time, so a task that stays ready runs. Weak fairness per task, or per step of task_main; no
  fairness for `Command`, the host need not ask for anything. A blocking
  `xQueueSendToBack` is an action that is not enabled.
- Interrupts are served while characters are waiting.
- `Kernel` assumes only that the processor and the timer go on (`WF_vars(Next)`); that every
  task gets its turn is what `LoopsGoOn` shows.

## 4. Proofs

`BurstWrite_proofs` proves, for every line length that is a positive multiple of the
burst and every burst allowed by `WriteAssumption`, what `burst_write` checks for
16 and 8:

- `Invariance`: `Spec => []IInv`. None of the properties is inductive: that the buffer
  does not starve depends on how many words are under way in its three-stage
  pipeline, which depends on where the master is in its line. `IInv` is therefore
  a conjunction of the type invariant and five parts: `Phases` (which states of requester, master and
  buffer go together), `Occupancy` (registers plus words under way against the
  fetch count), `Window` (the words in the registers are the next ones of
  the line), `Progress` (burst and word counters against each other), and
  `Delivered` for what the bus has seen. There is one lemma per part, and in it one step
  per state of the buffer or the master.
- From it `TypeCorrect`, `BufferSound` (`BufferHolds`), `WordsInPlace`, `StartsFindIdle`,
  `BurstsWhole`, and `Refinement`: `Spec => ImplementsCopy`.

`Recorder_proofs` first proves what holds of `Recorder` for every host, patient or not, and for
any number of channels, any ring, queue length and number of attempts:

- `Invariance`: `Spec => []IInv`. `NothingLeftRunning` speaks of an empty queue only,
  and says nothing of how the queue got empty. `IInv` adds: `StopFollows` (once
  task_com has ended a recording, each START still queued has a STOP behind it),
  `StopComing` (and a recording that task_sns has begun is being stopped or has a
  STOP queued), `RunsForSomeone` (CLR is only off for a recording, for a calibration that waits
  for its samples, or before task_sns has started), `Positions` (what each task's
  position says about its flags and its calibration) and `Attempts`, which the type
  invariant needs for `TryCount`. There is one lemma per task and one for the core.
- From it `TypeCorrect` and `NothingLeft`.

The proof uses none of the timing assumptions `Settled`, `HostReady`, `Lag`, `whole` and `Landed`:
these properties hold however slow a task is.

Then it proves the rest of the safety properties of `Recorder` for a
patient host, again for any number of channels, any ring, queue length and number of attempts,
and for every length of recording that `RecorderAssumption` allows. Here `Settled`, `HostReady`,
`Lag` and `Landed` are needed: they are guards of the steps.

- `Stages`: `Spec => []PInv`. Each property relates what one task does to what another has
  done for the same command, and no task knows the command of another. `PInv` adds to
  `IInv`: `Stage` (where all three tasks and both queues are, in one of a dozen stages of a
  command: `Requested`, `Taken`, `StartPosted`, `Records`, `Stopped` for GW), `Captured` (the
  ring holds the last blocks of the capture that runs, the last half of the newest there or on its
  way, which is `InRing` and `Lasts`; the core is less than a ring ahead of the sender; and a
  calibration past its last read has its samples, `Calibrated`), `Published` (what is published has been captured, what is sent has been
  published) and `Counted` (how much has been sent at each stage).
- `Stage` follows from `Settled` and `HostReady`: the end of a command finds both queues
  empty. `Captured` rests on `Lag` and on `Apart`, that numbers less than a ring apart have
  different slots; the sender never gets near the wrap of the count.
- `NothingStale` says of a calibration what `Calibrated` carries over CLR: the ring still holds its
  samples, and the last half as well if the delay after the last read was whole. Of a read late in
  its tick it says that no more than that half is old.
- From `PInv` follow `OneUser` (`OneUserOfTheCore`), `Quietness` (`QuietBetweenCommands`), `NothingStale`
  (`NoStaleBlock`), `Honesty` (`HonestAnswers`) and `Refinement`: `Spec => ImplementsRecording`.

`HostCommand_proofs`, for any frames, any noise shorter than a frame, and a host that waits
or not:

- `TypeCorrect` and `Ranges` (`ParametersInRange`) hold for every host: what `Execute` reads
  may be another frame than the one that was checked, but each part of it that is used is
  checked again where it is used, or is in range in every frame.
- `Invariance` is for a host that waits. Neither property of the exchange is inductive:
  `Between` counts what noise has left behind and shows it too short for a frame,
  `Receiving` gives each character of the frame its place on the wire or in `RecvBuf`,
  `Complete` and `Serving` follow the frame through `HostStsChk` to the answer.
- From it `FrameExecuted` (`ExecutesTheFrame`) and `OneAnswer`, the safety part of
  `ImplementsExchange`: every step maps to a step or a stutter of `CommandExchange`.

`Ft245If_proofs`, for any amounts of data, any FIFO and whatever overlaps:

- `Invariance` of `IInv`, which numbers every received byte wherever it is (`Numbered`: still
  in the FT245, latched in `RXreg`, or taken by the CPU) and ties the interrupt and the strobe
  to the sequencer (`Signals`); from it `TypeCorrect` and `InOrder` (`ReceivedInOrder`).
- `SendingInvariance` of `SInv` for the other direction. What has left is one sequence of two
  kinds of bytes, those of the words and those of the answers. `SInv` says which byte of the
  words is due (`Due`, from the word taken from the FIFO, the byte counter and the state of the
  FIFO sequencer) and that no byte sent is beyond it (`Ordered`), whatever overlaps; until
  something overlaps, that the words (`Exclusive`) or the answer (`Answering`) have the main
  sequencer to themselves and how many bytes of each have left (`FifoCounted`, `CpuCounted`).
  From it `InOrderOut` (`SentInOrder`) and `NeverRepeats` (`FifoNeverRepeats`).

`AmSeq_proofs`, for any number of channels, length of half and size of ring, with CLR at any
moment:

- `HalvesInPlace` speaks of halves that were handed over, and says nothing of the one being
  moved. `IInv` adds `Alternates` (which half the sequencer waits for or moves, from the
  number of halves filled), `Addressed` (the address registers are one trigger behind), `Buffered`
  (the wave buffer has the last two halves of every channel), `Stored` (what has been moved so
  far, sample by sample) and `Cleared` (CLR against the counters).
- The step that matters is a sample that is moved: it is still in the buffer because a pass
  ends before the core fills the next half (`Paced`), and it goes to no place of another
  half because places of halves fewer than a ring apart are disjoint (`NoOverlap`).
- From it `TypeCorrect`, `HalvesStored` (`HalvesInPlace`) and `NoTriggerLost`
  (`TriggerFindsWait`).

`Kernel_proofs`, for any number of tasks, queues and places in them, any loops of calls, any
tick: `Invariance` of `QInv` (count, read and write pointer of a queue agree although each
is moved by itself and put back at the end of the memory) and from it `Refinement`
(`ImplementsQueues`). The step that matters is an item that is written: its place is none of
those still to be read, again by `Apart`.

`KernelInvariance` does the same for the scheduler with `KInv`, five parts of which none is
inductive alone:

- `Lists`: the ready list, the two delayed ones and the suspended one hold every task exactly
  once, the lists of events only tasks that sleep, each of them in one. What makes it provable is
  that every function of `list.c` gets one lemma about `Once(list, C, S)` (the list holds just the
  elements of S, each once) and every function of `tasks.c` one about `Lists`: `SwitchLists`,
  `TickLists`, `ResumeLists`, `SleepLists`, `PlaceLists`, `WakeLists`.
- `Calls`, `Scheduler`: at which step of which call a task can be, that only the task that runs
  has the scheduler suspended, and that at most one tick is owed then.
- `Waiters`: a task in the list of an event is in the call that waits for it.
- `Served`: while tasks wait for an event, what is offered with it (`Offer`) is no more than the
  tasks that were woken or have not slept yet (`Woken`). The step that matters is a send or a
  receive, which takes one from one event's offer, and the caller from its tasks, and adds one to
  the other's offer and the task it wakes to its tasks (`BusyStep`); a task that goes to sleep does so
  when nothing is offered to it (`BlockStep`), as it looks again with the scheduler suspended.

From it `TypeCorrect` (`TypeOK`) and `NothingLost` (`NoLostWakeup`). They need of
`KernelAssumption` that no task is created twice and that a tick leaves time for at least one step
(`StepsPerTick`), without which two ticks would be owed.

`TimeInvariance` is about the times: `TInv` next to `KInv`.

- `AlarmsSet`: the two delayed lists are in the order of their times, those of the first are
  ahead of the tick count and no earlier than `xNextTaskUnblockTime`, those of the second behind
  it. `Due` is what is left until an item's time, over the wrap as well. Each function of
  `tasks.c` has a lemma again: `SleepAlarms` sets one item more (`Winds`), `WakeAlarms` takes one
  back (`TakenBack`), `SwitchAlarms` takes no time (`Stands`), `TickAlarms` and `ResumeAlarms` let a tick
  go by (`Passes`: the items that were due with it are gone, the others are one nearer). The tick
  that wraps is the one where the exchange of the lists matters (`TickOver`).
- `Right`, for each task: the history variable `left` agrees with the item the task has in the
  lists (`AlarmRight`), with the ticks and the time of entry its call has noted (`Asked`,
  `Measured`, `Ago`), and none are left of a delay that has returned or a call that has
  seen its timeout (`OverRight`). The step that matters is the check for a timeout
  (`RightChecked`): from the difference of two tick counts and the two counts of overflows it finds
  how long ago the call began to wait, however often it was woken in between.

From it `NeverTooEarly`: no delay returns and no call gives up before its time. That needs nothing
beyond `KernelAssumption`. And `SleepTimes`: `SleepsAsLongAsAsked` holds as long as no call with a timeout
has gone on for a whole round of the tick count (`InTime`), 49 days on the board. The
condition is needed: of a time further back the check may find the rest modulo a round only, and the
task would sleep once more. TLC finds this with `StepsPerTick = 1`, where the processor is so slow that a call can be overtaken by a round of
six ticks; with the 15 of the run it does not happen. How long a ready task waits for the
processor depends on what all others do, so the condition is on the call itself.

`PdmCore_proofs`, for any number of channels, any rings, rates and lengths of the filters, with
CLR and changes of mode at any moment:

- `Invariance` of `Inv`: the types, the fill of both sums, and the second sequencer in step with
  its filter (`Hand2`; `Cleared2` while CLR is set, when the filter goes on but comes to rest
  before CLR is let go). From it `TypeCorrect` and `Implements` (`ImplementsStream`).
- Nothing else can be said of the counters alone, as each wraps by itself. `OnSchedule`
  (`Spec => []Scheduled`) says that there are numbers N, m and q, of bytes, 64 kHz samples and samples
  handed on since CLR, with `Schedule(N, m, q)`: `Captured` (the bits shifted in are those of
  N bytes and the next one), `Time1` (a pass of the first filter is for byte `Due(m)` and has taken
  no longer than the time since that byte) and `Time2` (the same of the second filter and 64 kHz
  sample `Due2(q)`). That a pass is over in time is arithmetic: `Gone1` and `Gone2` count its
  clocks, `Since` the clocks since the last byte. From it `RequestsMet` (`NoRequestMissed`).
- `Complete` adds `Data(N, m, q)`: the ring of bytes holds the last half ring, the buffer the
  samples from window q on (`Contents1`, `Contents2`), and each filter at stage s of its pass has
  read and added the first items of its window (`Flow1`, `Flow2`). The step that matters is a
  read: what is written in the same clock is less than a ring ahead of it (`Apart`, `Span`).
  From it `Intact` (`SamplesIntact`).

They rest on three assumptions about the constants: `PdmCoreAssumption` (the counters wrap where
the rings do), `HoldAssumption` (CLR lasts longer than a filter needs for one channel: 21 and 67
clocks, where the firmware waits a millisecond) and `PassAssumption` (a pass over the channels takes
less than a byte, and less than Step bytes: 179 clocks of 192 and 558 of 768 on the board, as
`pdm_core_board` finds too).

Only model-checked:

- liveness (`RequestEnds`, `PassEnds`, `CommandsAnswered`, `FramesAnswered`,
  `EverythingSent`, `KeepsDelivering`, `LoopsGoOn`), as the prover has no `ENABLED`;
- that no call of `Kernel` goes on for a whole round of the tick count, the condition of
  `SleepTimes`: the run shows `SleepsAsLongAsAsked` without it, for its tasks;
- `MicCal`, whose properties are facts about particular numbers (gains, widths, the sum of the
  coefficients), which an instance computes and no theorem would generalise.

No module has a RECURSIVE operator.

## 5. What the checks say about the code

- The comment on GW (`src/pdm_sub.c:272`) gives two digits to the block count, `Execute`
  (line 352) reads four. `"010000"` means 256 blocks (`host_comment`).
- A byte from the host that arrives while FIFO words go out costs the stream one
  byte: `WAIT_FIFO_SEND_END` is left on the end of the reception
  (`ft245if2.vhd:404`, `ft245_receive`). `ReceivedInOrder` and `FifoNeverRepeats` hold
  all the same. The firmware is safe as long as the host is silent during a transfer.
- A command during the boot calibration (the first second and after) can be answered
  before it is carried out, and an SG then may leave two calibrations waiting on each
  other's CLR. After the boot neither happens (`recorder`); `NothingLeft` holds all the same.
- The second filter adds 62 of its 63 products: `data_out` is loaded a clock before the last
  one is added (`SamplesIntact` says which). The missing coefficient is 1 of 2553, so that
  the calibration, which divides by 2553, is off by a twenty-fifth of a per cent.
- A sound too loud for its gain wraps instead of being clipped (`pdm_core2.vhd:541`), and so
  does the average a calibration corrects by. It may settle a whole wrap (3286 units of the
  offset at gain 5) from the microphone's level, which modulo 2^16 gives the same samples
  (`CalibratedSamplesAreTrue`). A capture that lies across the wrap may average to zero and
  be accepted; such a channel is `unsure` in the model and nothing is claimed of it. The run has
  two such levels: with any other average the calibration takes one try more.
- The count of samples runs ahead of SDRAM by up to a half of the wave buffer. The `vTaskDelay` after
  the last read of the count in `MicCarivration` (`src/pdmmic.c:130`) looks like part of the polling,
  but is all that lets the last 32 samples land before CLR (`CalEnd_NoDelay`). When the read
  comes less than a sample and a pass before a tick it does not, and the average takes 32 old
  samples of 4096 in. A recording does not depend on it: CLR comes after the last DMA.
- More than about 18 per cent off the middle, or with a channel stuck at one end, the calibration
  oscillates at some gains until it returns -1: one missing microphone makes it fail for all.
- A sender that wakes up after its timeout gives up without looking at the queue again,
  though there may be room by then; a receiver looks once more (`queue.c`). The firmware
  only loses lines of the debug log by that.
- task_button stops for ever at the fifth event, as nobody reads ButtonQue; no other task
  waits for it (`kernel`).
- Three words are under way when `FULL` rises, so the threshold of 3 is right in both
  directions: `FULL_At2` starves a burst, `FULL_At4` overruns the buffer.
- The sequencer survives CLR in the middle of a pass. The pass can end in
  `MW_SH_WAIT` with the next capture already begun; but `START_SH` is also raised
  by sample 0, so that one pass of old data is moved to the start of the ring, the
  sequencer is in `MW_FH_WAIT` again before the first half is full, and the first
  half then overwrites what was moved. Nothing in the source says that this is meant.

## 6. Not modelled, and why

- The filters' coefficient tables and the values of their sums, but for the totals that
  `MicCal` uses: which datum meets which coefficient is in `PdmCore`.
- The waveform of a capture: `MicCal` has its mean. `getMicData`, `CansellOffset` and the list
  of maxima, which nothing reads.
- The deglitch counters of task_button, what task_disp draws, `ili9341_spi16`, the monitor
  DA: output that nothing reads back.
- CLR and the start-up loop of the FT245 interface, its TxRATE.
- Of FreeRTOS: priorities, calls from interrupts, mutexes, queue sets, notifications, software
  timers, deletion of tasks, the heap. The firmware has one priority and uses none of the rest
  once the scheduler runs.
- `FT245_Send_DMA_FIFO`, `pdm_core`, `fir_16b31t`, `wave_img`: unused.
- HAL, BSP, the generated Qsys system, fonts: third-party, generated, or tables.

The larger part of the repository's lines is of that last kind: kernel parts and ports the
firmware does not call, the HAL and the BSP, font tables, the interconnect that Qsys
generates and libraries for drawing. The models stand for the code that is left.

## 7. Plan

Done: all modules above. What would come next:

1. `Kernel` and `Recorder` put together, the tasks of the one running as loops of the other.
2. The composition of `AmSeq` with `BlockCopy` in place of `MoveSample`.
3. The scrolling row of task_disp.
