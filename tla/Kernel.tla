-------------------------------- MODULE Kernel -------------------------------
(***************************************************************************)
(* FreeRTOS 9 as the firmware uses it: its tasks (tasks.c, list.c), its    *)
(* queues (queue.c) and its tick (port.c).  All tasks of the firmware have *)
(* one priority, above the idle task's; they wait in vTaskDelay and in     *)
(* xQueueReceive and xQueueSendToBack only.  No interrupt handler uses a   *)
(* queue, so that the lock counts of a queue and xPendingReadyList, which  *)
(* only such handlers can fill, are never used and are left out.           *)
(*                                                                         *)
(* One step is a critical section, or what a task does while the scheduler *)
(* is suspended: nothing else runs then, and a tick is only counted.  The  *)
(* tick interrupt comes between any two steps, but unless the idle task    *)
(* runs the tasks have got at least StepsPerTick of them done since the    *)
(* last (a tick lasts 1 ms, a critical section some microseconds; what a   *)
(* task computes between two calls is left out).  TickWrap is small, so it *)
(* must still exceed every time a task really waits, as 2^32 does.         *)
(***************************************************************************)
EXTENDS Integers, Sequences, FiniteSets, SequencesExt

CONSTANTS
    Created,       \* the tasks in the order of their creation
    Queues, uxLength,
    Program,       \* for each task the calls its loop makes, in turn: records
                   \* [op, q, ticks, may], may: the call is made or not
    TickWrap,      \* after which xTickCount wraps (2^32)
    OverflowWrap,  \* after which xNumOfOverflows wraps (2^32)
    StepsPerTick   \* steps there is time for in a tick, at least

Tasks == ToSet(Created)
Idle == "idle"
xListEnd == "xListEnd"
portMAX_DELAY == TickWrap - 1

ASSUME KernelAssumption ==
    /\ Created \in Seq(Tasks) \ {<<>>} /\ IsInjective(Created)
    /\ StepsPerTick \in Nat \ {0}
    /\ Idle \notin Tasks /\ xListEnd \notin Tasks
    /\ TickWrap \in Nat \ {0} /\ OverflowWrap \in Nat \ {0, 1}
    /\ \A q \in Queues : uxLength[q] \in Nat \ {0}
    /\ \A t \in Tasks : /\ DOMAIN Program[t] = 1..Len(Program[t])
                         /\ Len(Program[t]) \in Nat \ {0}
    /\ \A t \in Tasks : \A i \in DOMAIN Program[t] :
         LET c == Program[t][i] IN
         /\ c.op \in {"delay", "send", "receive"} /\ c.ticks \in 0..portMAX_DELAY
         /\ c.op = "delay" => c.ticks \in 1..(portMAX_DELAY - 1)
         /\ c.op # "delay" => c.q \in Queues

VARIABLES
    k,          \* the variables of tasks.c and the lists
    queue,      \* the memory of each queue and its pointers
    at, step,   \* of each task: the call it is in, and where in it
    wait,       \* xTicksToWait
    entry,      \* xTimeOut, <<>> before it is set
    received,   \* pvBuffer
    ran,        \* steps since the last tick, up to StepsPerTick
    left        \* history: ticks until the delay or timeout asked for is over,
                \* less than 0 while a call goes on after its timeout

vars == <<k, queue, at, step, wait, entry, received, ran, left>>

MQ == INSTANCE MessageQueues WITH
        items <- [q \in Queues |-> [i \in 1..queue[q].uxMessagesWaiting |->
                     queue[q].mem[(queue[q].pcReadFrom + i) % uxLength[q]]]]

Event == Queues \X {"send", "receive"}   \* xTasksWaitingToSend, ..ToReceive
Call(t) == Program[t][at[t]]

---------------------------------------------------------------------------
(* list.c.  The ready list is the circle of its items and its end marker   *)
(* written down from the item after pxIndex to the one at pxIndex.         *)

\* The items at some places of a list, in their order: SelectSeq without its
\* recursion, so that proofs can reach it.
Kept(list, places) ==
    [n \in 1..Cardinality(places) |->
        list[CHOOSE i \in places : Cardinality(places \cap (1..i)) = n]]

\* uxListRemove, for a list of tasks and for one of items <<task, xItemValue>>.
Removed(list, t) == Kept(list, {i \in DOMAIN list : list[i] # t})
Untimed(list, t) == Kept(list, {i \in DOMAIN list : list[i][1] # t})

\* vListInsertEnd: in front of pxIndex.
InsertEnd(list, ts) == SubSeq(list, 1, Len(list) - 1) \o ts \o <<list[Len(list)]>>

\* listGET_OWNER_OF_NEXT_ENTRY: pxIndex moves on, over the end marker.
Moved(list) ==
    LET once == Tail(list) \o <<Head(list)>>
    IN  IF Head(list) = xListEnd THEN Tail(once) \o <<Head(once)>> ELSE once

\* The first place of an item whose value is above a time; behind the last one
\* if there is none.
Above(list, time) ==
    LET place == SelectInSeq(list, LAMBDA e : time < e[2])
    IN  IF place = 0 THEN Len(list) + 1 ELSE place

\* vListInsert, for an item <<task, xItemValue>>: behind the equal ones.
Insert(list, item) == InsertAt(list, Above(list, item[2]), item)

---------------------------------------------------------------------------
(* tasks.c: functions from the kernel's state to the next. *)

vTaskSwitchContext(s) ==
    IF s.uxSchedulerSuspended = 1 THEN [s EXCEPT !.xYieldPending = TRUE]
    ELSE LET ready == Moved(s.ready) IN
         IF s.ready = <<xListEnd>>
         THEN [s EXCEPT !.xYieldPending = FALSE, !.pxCurrentTCB = Idle]
         ELSE [s EXCEPT !.xYieldPending = FALSE, !.ready = ready,
                        !.pxCurrentTCB = ready[Len(ready)]]

UnblockTime(list) == IF list = <<>> THEN portMAX_DELAY ELSE Head(list)[2]

\* Mutant: the time to wake the next task is not taken from the new list.
taskSWITCH_DELAYED_LISTS_KeepTime(s) ==
    [s EXCEPT !.delayed = s.overflow, !.overflow = s.delayed,
              !.xNumOfOverflows = (@ + 1) % OverflowWrap]

taskSWITCH_DELAYED_LISTS(s) ==
    [s EXCEPT !.delayed = s.overflow, !.overflow = s.delayed,
              !.xNumOfOverflows = (@ + 1) % OverflowWrap,
              !.xNextTaskUnblockTime = UnblockTime(s.overflow)]

\* The tasks at the head of the delayed list whose time has come are ready,
\* and no longer wait for an event either.
Unblock(s) ==
    LET first == Above(s.delayed, s.xTickCount)
        rest == SubSeq(s.delayed, first, Len(s.delayed))
        woken == [i \in 1..(first - 1) |-> s.delayed[i][1]]
    IN  [s EXCEPT !.delayed = rest, !.xNextTaskUnblockTime = UnblockTime(rest),
                  !.ready = InsertEnd(@, woken),
                  !.events = [e \in Event |->
                      Kept(@[e], {i \in DOMAIN @[e] : @[e][i] \notin ToSet(woken)})]]

xTaskIncrementTick(s) ==
    IF s.uxSchedulerSuspended = 1 THEN [s EXCEPT !.uxPendedTicks = @ + 1]
    ELSE LET now == (s.xTickCount + 1) % TickWrap
             u == [s EXCEPT !.xTickCount = now]
             v == IF now = 0 THEN taskSWITCH_DELAYED_LISTS(u) ELSE u
         IN  IF now >= v.xNextTaskUnblockTime THEN Unblock(v) ELSE v

\* vPortSysTickHandler: it asks for a switch with every tick, whatever
\* xTaskIncrementTick says.
vPortSysTickHandler(s) == vTaskSwitchContext(xTaskIncrementTick(s))

\* The ticks that came in the meantime are made up for; whether the function
\* has yielded when it returns (xAlreadyYielded) is xYieldPending before.
xTaskResumeAll(s) ==
    LET after[n \in 0..s.uxPendedTicks] ==
            IF n = 0 THEN [s EXCEPT !.uxSchedulerSuspended = 0]
            ELSE xTaskIncrementTick(after[n - 1])
        made == [after[s.uxPendedTicks] EXCEPT !.uxPendedTicks = 0]
    IN  IF made.xYieldPending THEN vTaskSwitchContext(made) ELSE made

prvAddCurrentTaskToDelayedList(s, ticks, mayBlockIndefinitely) ==
    LET t == s.pxCurrentTCB
        wake == (s.xTickCount + ticks) % TickWrap
        u == [s EXCEPT !.ready = Removed(@, t)]
    IN  IF ticks = portMAX_DELAY /\ mayBlockIndefinitely
        THEN [u EXCEPT !.suspended = @ \cup {t}]
        ELSE IF wake < s.xTickCount THEN [u EXCEPT !.overflow = Insert(@, <<t, wake>>)]
        ELSE [u EXCEPT !.delayed = Insert(@, <<t, wake>>),
                       !.xNextTaskUnblockTime = IF wake < @ THEN wake ELSE @]

vTaskPlaceOnEventList(s, event, ticks) ==
    prvAddCurrentTaskToDelayedList([s EXCEPT !.events[event] = Append(@, s.pxCurrentTCB)],
                                   ticks, TRUE)

\* Mutant: the task stays in the list of those that wait for a time.
xTaskRemoveFromEventList_Delayed(s, event) ==
    IF s.events[event] = <<>> THEN s
    ELSE LET t == Head(s.events[event]) IN
         [s EXCEPT !.events[event] = Tail(@), !.suspended = @ \ {t},
                   !.ready = InsertEnd(@, <<t>>)]

\* Mutant: a task that waits without a timeout is not found.
xTaskRemoveFromEventList_NotSuspended(s, event) ==
    IF s.events[event] = <<>> \/ Head(s.events[event]) \in s.suspended THEN s
    ELSE LET t == Head(s.events[event]) IN
         [s EXCEPT !.events[event] = Tail(@), !.suspended = @ \ {t},
                   !.delayed = Untimed(@, t), !.overflow = Untimed(@, t),
                   !.ready = InsertEnd(@, <<t>>)]

\* All tasks have one priority: the one that is woken does not take over.
xTaskRemoveFromEventList(s, event) ==
    IF s.events[event] = <<>> THEN s
    ELSE LET t == Head(s.events[event]) IN
         [s EXCEPT !.events[event] = Tail(@), !.suspended = @ \ {t},
                   !.delayed = Untimed(@, t), !.overflow = Untimed(@, t),
                   !.ready = InsertEnd(@, <<t>>)]

Now(s) == <<s.xNumOfOverflows, s.xTickCount>>

\* xTimeOut and xTicksToWait as the check leaves them, <<>> on a timeout.
xTaskCheckForTimeOut(s, timeout, ticks) ==
    LET passed == (s.xTickCount - timeout[2]) % TickWrap IN
    IF ticks = portMAX_DELAY THEN <<timeout, ticks>>
    ELSE IF \/ s.xNumOfOverflows # timeout[1] /\ s.xTickCount >= timeout[2]
            \/ passed >= ticks
    THEN <<>> ELSE <<Now(s), ticks - passed>>

---------------------------------------------------------------------------
(* queue.c *)

prvCopyDataToQueue(m, q, item) ==
    [m EXCEPT !.mem[m.pcWriteTo] = item, !.uxMessagesWaiting = @ + 1,
              !.pcWriteTo = IF @ + 1 >= uxLength[q] THEN 0 ELSE @ + 1]

\* Mutant: the read pointer is put back, as for a peek.
prvCopyDataFromQueue_Peek(m, q) == [m EXCEPT !.uxMessagesWaiting = @ - 1]

prvCopyDataFromQueue(m, q) ==
    [m EXCEPT !.uxMessagesWaiting = @ - 1,
              !.pcReadFrom = IF @ + 1 >= uxLength[q] THEN 0 ELSE @ + 1]

prvIsQueueEmpty(q) == queue[q].uxMessagesWaiting = 0
prvIsQueueFull(q) == queue[q].uxMessagesWaiting = uxLength[q]

vTaskStartScheduler ==
    [xTickCount |-> 0, xNumOfOverflows |-> 0, xNextTaskUnblockTime |-> portMAX_DELAY,
     uxSchedulerSuspended |-> 0, uxPendedTicks |-> 0, xYieldPending |-> FALSE,
     pxCurrentTCB |-> Last(Created), ready |-> Created \o <<xListEnd>>,
     delayed |-> <<>>, overflow |-> <<>>, suspended |-> {},
     events |-> [e \in Event |-> <<>>]]

xQueueGenericReset(q) ==
    [mem |-> [i \in 0..(uxLength[q] - 1) |-> "none"], uxMessagesWaiting |-> 0,
     pcWriteTo |-> 0, pcReadFrom |-> uxLength[q] - 1]

Init ==
    /\ k = vTaskStartScheduler
    /\ queue = [q \in Queues |-> xQueueGenericReset(q)]
    /\ at = [t \in Tasks |-> 1] /\ step = [t \in Tasks |-> "check"]
    /\ wait = [t \in Tasks |-> Program[t][1].ticks] /\ entry = [t \in Tasks |-> <<>>]
    /\ received = [t \in Tasks |-> "none"] /\ ran = 0 /\ left = [t \in Tasks |-> 0]

---------------------------------------------------------------------------
(* What a task does, t being the current one. *)

GoesTo(t, s) == step' = [step EXCEPT ![t] = s] /\ UNCHANGED <<at, wait, entry>>

\* The call has returned; the next one of the loop begins.
Returns(t) ==
    LET following == (at[t] % Len(Program[t])) + 1 IN
    /\ at' = [at EXCEPT ![t] = following] /\ step' = [step EXCEPT ![t] = "check"]
    /\ wait' = [wait EXCEPT ![t] = Program[t][following].ticks]
    /\ entry' = [entry EXCEPT ![t] = <<>>]

\* Within a call that gives up after a time.
HasTimeout(t) == entry[t] # <<>> /\ Call(t).ticks # portMAX_DELAY

Elapse(n) ==
    left' = [t \in Tasks |-> IF left[t] > 0 \/ HasTimeout(t) THEN left[t] - n ELSE left[t]]
Within(t, ticks) == left' = [left EXCEPT ![t] = IF ticks = portMAX_DELAY THEN 0 ELSE ticks]

\* An event for which nothing is sent: the loop passes the call by.
PassBy(t) == /\ step[t] = "check" /\ entry[t] = <<>> /\ Call(t).may
             /\ Returns(t) /\ UNCHANGED <<k, queue, received, left>>

Send(t) ==
    LET q == Call(t).q IN
    /\ step[t] = "check" /\ Call(t).op = "send" /\ ~prvIsQueueFull(q)
    /\ queue' = [queue EXCEPT ![q] = prvCopyDataToQueue(@, q, t)]
    /\ k' = xTaskRemoveFromEventList(k, <<q, "receive">>)
    /\ Returns(t) /\ Within(t, 0) /\ UNCHANGED received

Receive(t) ==
    LET q == Call(t).q IN
    /\ step[t] = "check" /\ Call(t).op = "receive" /\ ~prvIsQueueEmpty(q)
    /\ queue' = [queue EXCEPT ![q] = prvCopyDataFromQueue(@, q)]
    /\ received' = [received EXCEPT ![t] = queue[q].mem[queue'[q].pcReadFrom]]
    /\ k' = xTaskRemoveFromEventList(k, <<q, "send">>)
    /\ Returns(t) /\ Within(t, 0)

\* The queue is full, or empty for a receiver.
Refused(t) == \/ Call(t).op = "send" /\ prvIsQueueFull(Call(t).q)
              \/ Call(t).op = "receive" /\ prvIsQueueEmpty(Call(t).q)

Refuse(t) ==
    /\ step[t] = "check" /\ Refused(t)
    /\ IF wait[t] = 0 THEN Returns(t) /\ UNCHANGED left
       ELSE /\ step' = [step EXCEPT ![t] = "suspend"]
            /\ IF entry[t] = <<>>
               THEN entry' = [entry EXCEPT ![t] = Now(k)] /\ Within(t, wait[t])
               ELSE UNCHANGED <<entry, left>>
            /\ UNCHANGED <<at, wait>>
    /\ UNCHANGED <<k, queue, received>>

\* Mutant: the queue is not looked at again with the scheduler suspended.
Block_Unchecked(t) ==
    LET checked == xTaskCheckForTimeOut(k, entry[t], wait[t])
        s == [k EXCEPT !.uxSchedulerSuspended = 1]
    IN
    /\ step[t] = "suspend"
    /\ IF checked = <<>> THEN k' = s /\ GoesTo(t, "resume_timeout")
       ELSE /\ entry' = [entry EXCEPT ![t] = checked[1]]
            /\ wait' = [wait EXCEPT ![t] = checked[2]]
            /\ k' = vTaskPlaceOnEventList(s, <<Call(t).q, Call(t).op>>, checked[2])
            /\ step' = [step EXCEPT ![t] = "resume_wait"] /\ UNCHANGED at
    /\ UNCHANGED <<queue, received, left>>

\* vTaskSuspendAll to xTaskResumeAll.  A queue can change before this, not
\* during it, so it is looked at again.
Block(t) ==
    LET op == Call(t).op
        checked == xTaskCheckForTimeOut(k, entry[t], wait[t])
        s == [k EXCEPT !.uxSchedulerSuspended = 1]
    IN
    /\ step[t] = "suspend"
    /\ IF checked = <<>> THEN k' = s /\ GoesTo(t, "resume_timeout")
       ELSE /\ entry' = [entry EXCEPT ![t] = checked[1]]
            /\ wait' = [wait EXCEPT ![t] = checked[2]]
            /\ IF Refused(t)
               THEN /\ k' = vTaskPlaceOnEventList(s, <<Call(t).q, op>>, checked[2])
                    /\ step' = [step EXCEPT ![t] = "resume_wait"]
               ELSE k' = s /\ step' = [step EXCEPT ![t] = "resume_again"]
            /\ UNCHANGED at
    /\ UNCHANGED <<queue, received, left>>

vTaskDelay(t) ==
    /\ step[t] = "check" /\ Call(t).op = "delay"
    /\ k' = prvAddCurrentTaskToDelayedList([k EXCEPT !.uxSchedulerSuspended = 1],
                                           wait[t], FALSE)
    /\ GoesTo(t, "resume_delay") /\ Within(t, wait[t]) /\ UNCHANGED <<queue, received>>

\* A sender that has timed out gives up, a receiver looks once more.
Resume(t) ==
    /\ k.uxSchedulerSuspended = 1 /\ k' = xTaskResumeAll(k)
    /\ \/ step[t] = "resume_again" /\ GoesTo(t, "check")
       \/ step[t] = "resume_wait" /\ GoesTo(t, IF k.xYieldPending THEN "check" ELSE "yield")
       \/ /\ step[t] = "resume_delay"
          /\ IF k.xYieldPending THEN Returns(t) ELSE GoesTo(t, "yield")
       \/ /\ step[t] = "resume_timeout"
          /\ IF Call(t).op = "send" THEN Returns(t) ELSE GoesTo(t, "recheck")
    /\ Elapse(k.uxPendedTicks) /\ UNCHANGED <<queue, received>>

Recheck(t) == /\ step[t] = "recheck"
              /\ IF prvIsQueueEmpty(Call(t).q) THEN Returns(t) ELSE GoesTo(t, "check")
              /\ UNCHANGED <<k, queue, received, left>>

Yield(t) == /\ step[t] = "yield" /\ k' = vTaskSwitchContext(k)
            /\ IF Call(t).op = "delay" THEN Returns(t) ELSE GoesTo(t, "check")
            /\ UNCHANGED <<queue, received, left>>

Step == \E t \in Tasks :
        /\ t = k.pxCurrentTCB
        /\ \/ PassBy(t) \/ Send(t) \/ Receive(t) \/ Refuse(t) \/ Block(t)
           \/ vTaskDelay(t) \/ Resume(t) \/ Recheck(t) \/ Yield(t)
        /\ ran' = IF ran < StepsPerTick THEN ran + 1 ELSE ran

Tick == /\ ran = StepsPerTick \/ k.pxCurrentTCB = Idle
        /\ k' = vPortSysTickHandler(k) /\ ran' = 0
        /\ IF k.uxSchedulerSuspended = 1 THEN UNCHANGED left ELSE Elapse(1)
        /\ UNCHANGED <<queue, at, step, wait, entry, received>>

Next == Step \/ Tick

\* The processor and the timer go on.
Spec == Init /\ [][Next]_vars /\ WF_vars(Next)

---------------------------------------------------------------------------
(* Properties *)

Delayed == {e[1] : e \in ToSet(k.delayed) \cup ToSet(k.overflow)}
Waiting(e) == ToSet(k.events[e])

\* Every task is in exactly one list of the scheduler, once, and waits for at
\* most the event of the call it is in; the current task is the one last taken
\* from the ready list, unless it has just put itself to sleep.
TypeOK ==
    /\ k.xTickCount \in 0..(TickWrap - 1) /\ k.uxPendedTicks \in {0, 1}
    /\ \A t \in Tasks :
         Cardinality({i \in DOMAIN k.ready : k.ready[i] = t})
         + Cardinality({i \in DOMAIN k.delayed : k.delayed[i][1] = t})
         + Cardinality({i \in DOMAIN k.overflow : k.overflow[i][1] = t})
         + Cardinality(k.suspended \cap {t}) = 1
    /\ \A e \in Event : \A t \in Waiting(e) :
         /\ t \in Delayed \cup k.suspended /\ entry[t] # <<>>
         /\ Call(t).q = e[1] /\ Call(t).op = e[2]
    /\ k.suspended \subseteq UNION {Waiting(e) : e \in Event}
    /\ k.pxCurrentTCB \in Delayed \cup k.suspended =>
         step[k.pxCurrentTCB] \in {"resume_wait", "resume_delay", "yield"}

\* Tasks in a call that will look at the queue again before they sleep.
Coming(q, op) == {t \in Tasks : /\ Call(t).op = op /\ Call(t).q = q /\ entry[t] # <<>>
                                /\ t \notin Waiting(<<q, op>>) /\ step[t] # "resume_timeout"}

\* No wake-up is lost: while tasks wait for an item (for room), each item
\* (each free place) has a task that was woken and is on its way to take it.
NoLostWakeup ==
    \A q \in Queues :
        LET items == queue[q].uxMessagesWaiting IN
        /\ Waiting(<<q, "receive">>) # {} => items <= Cardinality(Coming(q, "receive"))
        /\ Waiting(<<q, "send">>) # {} => uxLength[q] - items <= Cardinality(Coming(q, "send"))

AwakeInTime(t) == t \in Delayed => left[t] > 0
NotTooEarly(t) == t \notin Delayed /\ step[t] = "check" /\ entry[t] = <<>> => left[t] <= 0

\* A task sleeps neither longer nor shorter than it asked for, over the wraps
\* of the tick count as well: it is awake in the tick its delay or its timeout
\* ends, however often it was woken in between, and a call that gives up or a
\* delay that returns does so no earlier.
SleepsAsLongAsAsked == \A t \in Tasks : AwakeInTime(t) /\ NotTooEarly(t)

\* The queues are bounded buffers.
ImplementsQueues == MQ!Spec

\* A task that sends to a queue nobody reads stops there; all others go round
\* their loops for ever.
Unread(c) == /\ c.op = "send" /\ c.ticks = portMAX_DELAY
             /\ \A t \in Tasks : \A i \in DOMAIN Program[t] :
                    ~(Program[t][i].op = "receive" /\ Program[t][i].q = c.q)
LoopsGoOn ==
    \A t \in Tasks : (\A i \in DOMAIN Program[t] : ~Unread(Program[t][i])) =>
        []<>(at[t] = 1) /\ []<>(at[t] # 1)
=============================================================================
