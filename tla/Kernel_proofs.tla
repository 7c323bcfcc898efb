----------------------------- MODULE Kernel_proofs ----------------------------
(***************************************************************************)
(* Proofs about Kernel: whatever the tasks call and wherever the tick and  *)
(* the switches of tasks cut in, the memory of a queue with its two        *)
(* pointers and its count is a bounded first-in first-out buffer (QInv),   *)
(* every task is in one list of the scheduler, and as long as tasks wait   *)
(* for items or for room there is one that was woken on its way to each    *)
(* (KInv), and a task sleeps for the time it asked for (TInv).             *)
(*                                                                         *)
(* The queues come first, then what list.c does to a list that holds       *)
(* each of its items once (Once), then each function of tasks.c as a step  *)
(* from lists that fit (Lists) to lists that fit, then the steps of tasks. *)
(* The times follow in the same order: lists in the order of their times,  *)
(* what each function does to the alarms that are set (Alarms), whether it *)
(* takes no time (Stands) or a tick goes by (Passes), then what the times  *)
(* a task has noted say of its alarm (Right), and the steps of tasks.      *)
(***************************************************************************)
EXTENDS Kernel, Division, SequenceTheorems, FiniteSetTheorems, WellFoundedInduction, TLAPS

(* The inductive invariant of the queues. *)

\* The write pointer stands behind the items that wait, counted from the place
\* that was read last.
Buffer(m, n) ==
    /\ m \in [mem : [0..(n - 1) -> Tasks \cup {"none"}], uxMessagesWaiting : 0..n,
              pcWriteTo : 0..(n - 1), pcReadFrom : 0..(n - 1)]
    /\ m.pcWriteTo = (m.pcReadFrom + m.uxMessagesWaiting + 1) % n

QInv ==
    /\ DOMAIN queue = Queues /\ \A q \in Queues : Buffer(queue[q], uxLength[q])
    /\ at \in [Tasks -> Nat] /\ \A t \in Tasks : at[t] \in DOMAIN Program[t]

---------------------------------------------------------------------------
(* Rings. *)

\* One place on, as a pointer that is put back at the end of the memory.
LEMMA NextPlace ==
    ASSUME NEW n \in Nat \ {0}, NEW p \in 0..(n - 1)
    PROVE  /\ (IF p + 1 >= n THEN 0 ELSE p + 1) = (p + 1) % n
           /\ (p + 1) % n \in 0..(n - 1) /\ p % n = p
<1>1. CASE p + 1 = n BY <1>1
<1>2. CASE p + 1 < n BY <1>2
<1> QED BY <1>1, <1>2

\* What c items behind place r are; they are a sequence.
Items(mem, r, c, n) == [i \in 1..c |-> mem[(r + i) % n]]

Stored(C, mem, r, c, n) ==
    n \in Nat \ {0} /\ r \in 0..(n - 1) /\ c \in 0..n /\ mem \in [0..(n - 1) -> C]

LEMMA ItemsSeq ==
    ASSUME NEW C, NEW mem, NEW r, NEW c, NEW n, Stored(C, mem, r, c, n)
    PROVE  Items(mem, r, c, n) \in Seq(C) /\ Len(Items(mem, r, c, n)) = c
<1> USE DEF Stored
<1>1. \A i \in 1..c : (r + i) % n \in 0..(n - 1)
    OBVIOUS
<1>2. \A i \in 1..c : mem[(r + i) % n] \in C
    BY <1>1
<1> QED BY <1>2 DEF Items

\* An item is put behind the last one, the oldest one is taken.
Adds(written, t, C, mem, r, c, n) ==
    /\ Stored(C, mem, r, c, n) /\ c # n
    /\ t \in C /\ written = [mem EXCEPT ![(r + c + 1) % n] = t]
Takes(s, C, mem, r, c, n) ==
    Stored(C, mem, r, c, n) /\ c # 0 /\ s = (r + 1) % n

LEMMA ItemAdded ==
    ASSUME NEW C, NEW mem, NEW r, NEW c, NEW n, NEW t, NEW written,
           Adds(written, t, C, mem, r, c, n)
    PROVE  Items(written, r, c + 1, n) = Append(Items(mem, r, c, n), t)
<1> DEFINE old == Items(mem, r, c, n)
           new == Items(written, r, c + 1, n)
           w == (r + c + 1) % n
<1>0. n \in Nat \ {0} /\ r \in 0..(n - 1) /\ c \in 0..(n - 1) /\ mem \in [0..(n - 1) -> C]
      /\ t \in C /\ written = [mem EXCEPT ![w] = t]
    BY DEF Stored, Adds
<1>1. w \in 0..(n - 1)
    BY <1>0
<1>2. ASSUME NEW i \in 1..c PROVE new[i] = old[i]
    <2>1. /\ r + i \in Nat /\ r + c + 1 \in Nat /\ r + i < r + c + 1
          /\ r + c + 1 < (r + i) + n
        BY <1>0
    <2>2. (r + i) % n # w
        BY <1>0, <2>1, Apart
    <2>3. (r + i) % n \in 0..(n - 1) /\ i \in 1..(c + 1)
        BY <1>0, <2>1
    <2>4. new[i] = written[(r + i) % n]
        BY <2>3 DEF Items
    <2>5. written[(r + i) % n] = mem[(r + i) % n]
        BY <1>0, <2>2, <2>3
    <2>6. old[i] = mem[(r + i) % n]
        BY DEF Items
    <2> QED BY <2>4, <2>5, <2>6
<1>3. new[c + 1] = t
    <2>1. c + 1 \in 1..(c + 1) /\ r + (c + 1) = r + c + 1
        BY <1>0
    <2>2. new[c + 1] = written[w]
        BY <1>0, <2>1 DEF Items
    <2> QED BY <1>0, <1>1, <2>2
<1>4. old \in Seq(C) /\ Len(old) = c
    BY ItemsSeq DEF Adds
<1>5. new \in Seq(C) /\ Len(new) = c + 1
    <2>1. Stored(C, written, r, c + 1, n)
        BY <1>0, <1>1 DEF Stored
    <2> QED BY <2>1, ItemsSeq
<1> HIDE DEF old, new
<1>6. /\ Append(old, t) \in Seq(C) /\ Len(Append(old, t)) = c + 1
      /\ \A i \in 1..c : Append(old, t)[i] = old[i]
      /\ Append(old, t)[c + 1] = t
    BY <1>0, <1>4, AppendProperties
<1>7. \A i \in 1..(c + 1) : new[i] = Append(old, t)[i]
    <2> TAKE i \in 1..(c + 1)
    <2>1. i = c + 1 \/ i \in 1..c
        BY <1>0
    <2> QED BY <1>2, <1>3, <1>6, <2>1
<1>8. new = Append(old, t)
    BY <1>5, <1>6, <1>7, SeqEqual
<1> QED BY <1>8 DEF old, new

LEMMA ItemTaken ==
    ASSUME NEW C, NEW mem, NEW r, NEW c, NEW n, NEW s, Takes(s, C, mem, r, c, n)
    PROVE  /\ Items(mem, r, c, n) # <<>> /\ mem[s] = Head(Items(mem, r, c, n))
           /\ Items(mem, s, c - 1, n) = Tail(Items(mem, r, c, n))
<1> DEFINE old == Items(mem, r, c, n)
           new == Items(mem, s, c - 1, n)
<1>0. n \in Nat \ {0} /\ r \in 0..(n - 1) /\ c \in 1..n /\ mem \in [0..(n - 1) -> C]
      /\ s = (r + 1) % n
    BY DEF Stored, Takes
<1>1. old \in Seq(C) /\ Len(old) = c
    BY ItemsSeq DEF Takes
<1>2. \A i \in 1..c : old[i] = mem[(r + i) % n]
    BY DEF Items
<1>3. ASSUME NEW i \in 1..(c - 1) PROVE mem[(s + i) % n] = old[i + 1]
    <2>1. r + 1 \in Nat /\ i \in Nat /\ r + 1 + i = r + (i + 1) /\ i + 1 \in 1..c
        BY <1>0
    <2>2. (s + i) % n = (r + 1 + i) % n
        BY <1>0, <2>1, ModPlus
    <2> QED BY <1>2, <2>1, <2>2
<1>4. new = [i \in 1..(c - 1) |-> mem[(s + i) % n]]
    BY DEF Items
<1> HIDE DEF old, new
<1>5. old # <<>> /\ Head(old) = old[1]
    BY <1>0, <1>1
<1>6. /\ Tail(old) \in Seq(C) /\ Len(Tail(old)) = c - 1
      /\ \A i \in 1..(c - 1) : Tail(old)[i] = old[i + 1]
    BY <1>0, <1>1, <1>5, HeadTailProperties
<1>7. new \in Seq(C) /\ Len(new) = c - 1
    <2>1. Stored(C, mem, s, c - 1, n)
        BY <1>0 DEF Stored
    <2>2. Items(mem, s, c - 1, n) \in Seq(C) /\ Len(Items(mem, s, c - 1, n)) = c - 1
        BY <2>1, ItemsSeq
    <2> QED BY <2>2 DEF new
<1>8. \A i \in 1..(c - 1) : new[i] = Tail(old)[i]
    BY <1>3, <1>4, <1>6
<1>9. new = Tail(old)
    BY <1>6, <1>7, <1>8, SeqEqual
<1>10. mem[s] = Head(old)
    <2>1. 1 \in 1..c
        BY <1>0
    <2>2. old[1] = mem[(r + 1) % n]
        BY <1>2, <2>1
    <2> QED BY <1>0, <1>5, <2>2
<1> QED BY <1>5, <1>9, <1>10 DEF old, new

---------------------------------------------------------------------------
(* One queue. *)

Content(m, n) == Items(m.mem, m.pcReadFrom, m.uxMessagesWaiting, n)

\* An item is written behind the others when the queue is not full.
LEMMA Written ==
    ASSUME NEW q \in Queues, NEW m, Buffer(m, uxLength[q]), NEW t \in Tasks,
           m.uxMessagesWaiting # uxLength[q],
           NEW n, n = prvCopyDataToQueue(m, q, t)
    PROVE  /\ Buffer(n, uxLength[q])
           /\ Len(Content(m, uxLength[q])) < uxLength[q]
           /\ Content(n, uxLength[q]) = Append(Content(m, uxLength[q]), t)
<1>1. PICK L \in Nat \ {0} : L = uxLength[q]
    BY KernelAssumption
<1>2. PICK mem \in [0..(L - 1) -> Tasks \cup {"none"}], c \in 0..(L - 1), w \in 0..(L - 1),
           r \in 0..(L - 1) :
        /\ m = [mem |-> mem, uxMessagesWaiting |-> c, pcWriteTo |-> w, pcReadFrom |-> r]
        /\ w = (r + c + 1) % L
    <2>1. m.uxMessagesWaiting \in 0..(L - 1)
        BY <1>1 DEF Buffer
    <2>2. m = [mem |-> m.mem, uxMessagesWaiting |-> m.uxMessagesWaiting,
               pcWriteTo |-> m.pcWriteTo, pcReadFrom |-> m.pcReadFrom]
        BY DEF Buffer
    <2> QED BY <1>1, <2>1, <2>2 DEF Buffer
<1>3. n = [mem |-> [mem EXCEPT ![w] = t], uxMessagesWaiting |-> c + 1,
           pcWriteTo |-> IF w + 1 >= L THEN 0 ELSE w + 1, pcReadFrom |-> r]
    BY <1>1, <1>2 DEF prvCopyDataToQueue
<1>4. n.pcWriteTo = (r + (c + 1) + 1) % L /\ n.pcWriteTo \in 0..(L - 1)
    <2>1. n.pcWriteTo = (w + 1) % L /\ n.pcWriteTo \in 0..(L - 1)
        <3>1. n.pcWriteTo = IF w + 1 >= L THEN 0 ELSE w + 1
            BY <1>3
        <3>2. /\ (IF w + 1 >= L THEN 0 ELSE w + 1) = (w + 1) % L
              /\ (w + 1) % L \in 0..(L - 1)
            BY NextPlace, Zenon
        <3> QED BY <3>1, <3>2, Zenon
    <2>2. r + c + 1 \in Nat /\ r + c + 1 + 1 = r + (c + 1) + 1
        OBVIOUS
    <2>3. (w + 1) % L = (r + c + 1 + 1) % L
        BY <1>2, <2>2, ModPlus
    <2> QED BY <2>1, <2>2, <2>3
<1>5. Buffer(n, L)
    <2>1. [mem EXCEPT ![w] = t] \in [0..(L - 1) -> Tasks \cup {"none"}] /\ c + 1 \in 0..L
        OBVIOUS
    <2> QED BY <1>3, <1>4, <2>1 DEF Buffer
<1>6. /\ Content(m, L) = Items(mem, r, c, L)
      /\ Content(n, L) = Items(n.mem, r, c + 1, L)
    <2>1. m.mem = mem /\ m.pcReadFrom = r /\ m.uxMessagesWaiting = c
        BY <1>2
    <2>2. n.pcReadFrom = r /\ n.uxMessagesWaiting = c + 1
        BY <1>3
    <2> QED BY <2>1, <2>2 DEF Content
<1>7. Content(n, L) = Append(Content(m, L), t)
    <2>1. t \in Tasks \cup {"none"} /\ Stored(Tasks \cup {"none"}, mem, r, c, L) /\ c # L
        BY DEF Stored
    <2>2. n.mem = [mem EXCEPT ![(r + c + 1) % L] = t]
        <3>1. n.mem = [mem EXCEPT ![w] = t]
            BY <1>3
        <3>2. w = (r + c + 1) % L
            BY <1>2
        <3> QED BY <3>1, <3>2, Zenon
    <2>3. Adds(n.mem, t, Tasks \cup {"none"}, mem, r, c, L)
        BY <2>1, <2>2 DEF Adds
    <2>4. Items(n.mem, r, c + 1, L) = Append(Items(mem, r, c, L), t)
        BY ONLY <2>3, ItemAdded
    <2> QED BY <1>6, <2>4
<1>8. Len(Content(m, L)) = c /\ c < L
    <2>1. Stored(Tasks \cup {"none"}, mem, r, c, L) /\ c < L
        BY DEF Stored
    <2>2. Len(Items(mem, r, c, L)) = c
        BY <2>1, ItemsSeq
    <2> QED BY <1>6, <2>1, <2>2
<1> QED BY <1>1, <1>5, <1>7, <1>8

\* The oldest item is read; nothing but the read pointer and the count changes.
LEMMA Read ==
    ASSUME NEW q \in Queues, NEW m, Buffer(m, uxLength[q]), m.uxMessagesWaiting # 0,
           NEW n, n = prvCopyDataFromQueue(m, q)
    PROVE  /\ Buffer(n, uxLength[q])
           /\ Content(m, uxLength[q]) # <<>>
           /\ Content(n, uxLength[q]) = Tail(Content(m, uxLength[q]))
           /\ m.mem[n.pcReadFrom] = Head(Content(m, uxLength[q]))
<1>1. PICK L \in Nat \ {0} : L = uxLength[q]
    BY KernelAssumption
<1>2. PICK mem \in [0..(L - 1) -> Tasks \cup {"none"}], c \in 1..L, w \in 0..(L - 1),
           r \in 0..(L - 1) :
        /\ m = [mem |-> mem, uxMessagesWaiting |-> c, pcWriteTo |-> w, pcReadFrom |-> r]
        /\ w = (r + c + 1) % L
    <2>1. m.uxMessagesWaiting \in 1..L
        BY <1>1 DEF Buffer
    <2>2. m = [mem |-> m.mem, uxMessagesWaiting |-> m.uxMessagesWaiting,
               pcWriteTo |-> m.pcWriteTo, pcReadFrom |-> m.pcReadFrom]
        BY DEF Buffer
    <2> QED BY <1>1, <2>1, <2>2 DEF Buffer
<1>3. PICK s \in 0..(L - 1) : s = (r + 1) % L
    BY NextPlace
<1>4. n = [mem |-> mem, uxMessagesWaiting |-> c - 1, pcWriteTo |-> w, pcReadFrom |-> s]
    <2>1. (IF r + 1 >= L THEN 0 ELSE r + 1) = s
        BY <1>3, NextPlace
    <2> QED BY <1>1, <1>2, <2>1 DEF prvCopyDataFromQueue
<1>5. w = (s + (c - 1) + 1) % L
    <2>1. s + (c - 1) + 1 = s + c /\ c \in Nat /\ r + 1 \in Nat /\ r + 1 + c = r + c + 1
        OBVIOUS
    <2>2. (s + c) % L = (r + 1 + c) % L
        BY <1>3, <2>1, ModPlus
    <2> QED BY <1>2, <2>1, <2>2
<1>6. Buffer(n, L)
    <2>1. c - 1 \in 0..L
        OBVIOUS
    <2> QED BY <1>4, <1>5, <2>1 DEF Buffer
<1>7. Content(m, L) = Items(mem, r, c, L) /\ Content(n, L) = Items(mem, s, c - 1, L)
    <2>1. m.mem = mem /\ m.pcReadFrom = r /\ m.uxMessagesWaiting = c
        BY <1>2
    <2>2. n.mem = mem /\ n.pcReadFrom = s /\ n.uxMessagesWaiting = c - 1
        BY <1>4
    <2> QED BY <2>1, <2>2 DEF Content
<1>8. /\ Items(mem, r, c, L) # <<>> /\ mem[s] = Head(Items(mem, r, c, L))
      /\ Items(mem, s, c - 1, L) = Tail(Items(mem, r, c, L))
    <2>1. Takes(s, Tasks \cup {"none"}, mem, r, c, L)
        BY <1>3 DEF Stored, Takes
    <2> QED BY ONLY <2>1, ItemTaken
<1>9. m.mem = mem /\ n.pcReadFrom = s
    BY ONLY <1>2, <1>4
<1> QED BY ONLY <1>1, <1>6, <1>7, <1>8, <1>9

---------------------------------------------------------------------------
(* All steps, of the queues. *)

\* What MessageQueues calls items.
Contents == [q \in Queues |-> [i \in 1..queue[q].uxMessagesWaiting |->
                queue[q].mem[(queue[q].pcReadFrom + i) % uxLength[q]]]]

LEMMA InitQueues == Init => QInv
<1> SUFFICES ASSUME Init PROVE QInv
    OBVIOUS
<1>1. ASSUME NEW q \in Queues PROVE Buffer(queue[q], uxLength[q])
    <2>1. PICK L \in Nat \ {0} : L = uxLength[q]
        BY KernelAssumption
    <2>2. queue[q] = [mem |-> [i \in 0..(L - 1) |-> "none"], uxMessagesWaiting |-> 0,
                      pcWriteTo |-> 0, pcReadFrom |-> L - 1]
        BY <2>1 DEF Init, xQueueGenericReset
    <2>3. (L - 1 + 0 + 1) % L = 0 /\ 0 \in 0..(L - 1) /\ L - 1 \in 0..(L - 1) /\ 0 \in 0..L
        <3>1. L - 1 + 0 + 1 = 1 * L + 0
            OBVIOUS
        <3>2. (1 * L + 0) % L = 0
            BY DivUnique
        <3> QED BY <3>1, <3>2
    <2> QED BY <2>1, <2>2, <2>3 DEF Buffer
<1>2. /\ at = [t \in Tasks |-> 1]
      /\ \A t \in Tasks : 1 \in DOMAIN Program[t]
    BY KernelAssumption DEF Init
<1> QED BY <1>1, <1>2 DEF Init, QInv

LEMMA ReturnsKeeps ==
    ASSUME QInv, NEW t \in Tasks, Returns(t)
    PROVE  at' \in [Tasks -> Nat] /\ \A u \in Tasks : at'[u] \in DOMAIN Program[u]
<1> DEFINE following == (at[t] % Len(Program[t])) + 1
<1>1. following \in Nat /\ following \in DOMAIN Program[t]
    <2>1. /\ DOMAIN Program[t] = 1..Len(Program[t]) /\ Len(Program[t]) \in Nat \ {0}
          /\ at[t] \in Nat
        BY KernelAssumption DEF QInv
    <2> QED BY <2>1
<1>2. at' = [at EXCEPT ![t] = following]
    BY DEF Returns
<1> HIDE DEF following
<1> QED BY <1>1, <1>2 DEF QInv

\* The call a task is in and, if it is not a delay, its queue.
LEMMA CallKnown ==
    ASSUME QInv, NEW t \in Tasks, Call(t).op # "delay"
    PROVE  Call(t).q \in Queues
BY KernelAssumption DEF QInv, Call

LEMMA SendStep ==
    ASSUME QInv, NEW t \in Tasks, Send(t)
    PROVE  QInv' /\ \E q \in Queues : MQ!Send(t, q)
<1>1. PICK q \in Queues :
        q = Call(t).q /\ Buffer(queue[q], uxLength[q]) /\ DOMAIN queue = Queues
    BY CallKnown DEF Send, QInv
<1>2. /\ queue[q].uxMessagesWaiting # uxLength[q] /\ Returns(t) /\ UNCHANGED received
      /\ queue' = [queue EXCEPT ![q] = prvCopyDataToQueue(queue[q], q, t)]
    BY <1>1 DEF Send, prvIsQueueFull
<1>3. /\ Buffer(queue'[q], uxLength[q])
      /\ Len(Content(queue[q], uxLength[q])) < uxLength[q]
      /\ Content(queue'[q], uxLength[q]) = Append(Content(queue[q], uxLength[q]), t)
    <2>1. queue'[q] = prvCopyDataToQueue(queue[q], q, t)
        BY <1>1, <1>2
    <2> QED BY <1>1, <1>2, <2>1, Written
<1>4. DOMAIN queue' = Queues /\ \A p \in Queues \ {q} : queue'[p] = queue[p]
    BY <1>1, <1>2
<1>5. QInv'
    BY <1>2, <1>3, <1>4, ReturnsKeeps DEF QInv
<1>6. MQ!Send(t, q)
    <2>1. /\ [p \in Queues |-> Content(queue'[p], uxLength[p])] =
             [[p \in Queues |-> Content(queue[p], uxLength[p])] EXCEPT ![q] = Append(@, t)]
          /\ [p \in Queues |-> Content(queue[p], uxLength[p])][q] =
             Content(queue[q], uxLength[q])
        BY <1>1, <1>3, <1>4
    <2> QED BY <1>2, <1>3, <2>1 DEF MQ!Send, Content, Items
<1> QED BY <1>1, <1>5, <1>6

LEMMA ReceiveStep ==
    ASSUME QInv, NEW t \in Tasks, Receive(t)
    PROVE  QInv' /\ \E q \in Queues : MQ!Receive(t, q)
<1>1. PICK q \in Queues :
        q = Call(t).q /\ Buffer(queue[q], uxLength[q]) /\ DOMAIN queue = Queues
    BY CallKnown DEF Receive, QInv
<1>2. /\ queue[q].uxMessagesWaiting # 0 /\ Returns(t)
      /\ queue' = [queue EXCEPT ![q] = prvCopyDataFromQueue(queue[q], q)]
      /\ received' = [received EXCEPT ![t] = queue[q].mem[queue'[q].pcReadFrom]]
    BY <1>1 DEF Receive, prvIsQueueEmpty
<1>3. /\ Buffer(queue'[q], uxLength[q]) /\ Content(queue[q], uxLength[q]) # <<>>
      /\ Content(queue'[q], uxLength[q]) = Tail(Content(queue[q], uxLength[q]))
      /\ queue[q].mem[queue'[q].pcReadFrom] = Head(Content(queue[q], uxLength[q]))
    <2>1. queue'[q] = prvCopyDataFromQueue(queue[q], q)
        BY <1>1, <1>2
    <2> QED BY <1>1, <1>2, <2>1, Read
<1>4. DOMAIN queue' = Queues /\ \A p \in Queues \ {q} : queue'[p] = queue[p]
    BY <1>1, <1>2
<1>5. QInv'
    BY <1>2, <1>3, <1>4, ReturnsKeeps DEF QInv
<1>6. MQ!Receive(t, q)
    <2>1. /\ [p \in Queues |-> Content(queue'[p], uxLength[p])] =
             [[p \in Queues |-> Content(queue[p], uxLength[p])] EXCEPT ![q] = Tail(@)]
          /\ [p \in Queues |-> Content(queue[p], uxLength[p])][q] =
             Content(queue[q], uxLength[q])
        BY <1>1, <1>3, <1>4
    <2> QED BY <1>2, <1>3, <2>1 DEF MQ!Receive, Content, Items
<1> QED BY <1>1, <1>5, <1>6

LEMMA OtherStep ==
    ASSUME QInv, UNCHANGED <<queue, received>>,
           UNCHANGED at \/ \E t \in Tasks : Returns(t)
    PROVE  QInv' /\ UNCHANGED <<Contents, received>>
<1>1. at' \in [Tasks -> Nat] /\ \A u \in Tasks : at'[u] \in DOMAIN Program[u]
    BY ReturnsKeeps DEF QInv
<1>2. QInv'
    BY <1>1 DEF QInv
<1> QED BY <1>2 DEF Contents

LEMMA NextStep ==
    ASSUME QInv, [Next]_vars
    PROVE  QInv' /\ [MQ!Next]_<<Contents, received>>
<1>1. CASE Tick \/ UNCHANGED vars
    <2>1. UNCHANGED <<queue, received, at>>
        BY <1>1 DEF Tick, vars
    <2> QED BY <2>1, OtherStep
<1>2. ASSUME NEW t \in Tasks, Send(t) PROVE QInv' /\ MQ!Next
    BY <1>2, SendStep DEF MQ!Next
<1>3. ASSUME NEW t \in Tasks, Receive(t) PROVE QInv' /\ MQ!Next
    BY <1>3, ReceiveStep DEF MQ!Next
<1>4. ASSUME NEW t \in Tasks,
             \/ PassBy(t) \/ Refuse(t) \/ Block(t) \/ vTaskDelay(t) \/ Resume(t)
             \/ Recheck(t) \/ Yield(t)
      PROVE  QInv' /\ UNCHANGED <<Contents, received>>
    <2>1. UNCHANGED <<queue, received>>
        BY <1>4 DEF PassBy, Refuse, Block, vTaskDelay, Resume, Recheck, Yield
    <2>2. UNCHANGED at \/ Returns(t)
        BY <1>4 DEF PassBy, Refuse, Block, vTaskDelay, Resume, Recheck, Yield, GoesTo
    <2> QED BY <2>1, <2>2, OtherStep
<1> QED BY <1>1, <1>2, <1>3, <1>4 DEF Next, Step

---------------------------------------------------------------------------
(* Lists. *)

\* The values of the tick count.
Ticks == 0..portMAX_DELAY

\* A set of numbers has a least one.
LEMMA Least ==
    ASSUME NEW S \in SUBSET Nat, S # {}
    PROVE  \E x \in S : \A y \in S : x <= y
<1>1. PICK x \in S : \A y \in S : ~ (<<y, x>> \in OpToRel(<, Nat))
    BY NatLessThanWellFounded, WFMin, Zenon
<1>2. ASSUME NEW y \in S PROVE x <= y
    <2>1. x \in Nat /\ y \in Nat
        OBVIOUS
    <2>2. ~ (y < x)
        BY <1>1, <2>1 DEF OpToRel
    <2> QED BY <2>1, <2>2
<1> QED BY <1>2

\* Above: everything in front of the place is due, what stands there is not.
LEMMA AboveIs ==
    ASSUME NEW list \in Seq(Tasks \X Ticks), NEW time \in Int
    PROVE  /\ Above(list, time) \in 1..(Len(list) + 1)
           /\ \A j \in 1..(Above(list, time) - 1) : list[j][2] <= time
           /\ Above(list, time) <= Len(list) => time < list[Above(list, time)][2]
<1> DEFINE later == {i \in 1..Len(list) : time < list[i][2]}
           first == IF later # {} THEN Min(later) ELSE 0
<1>1. Above(list, time) = IF first = 0 THEN Len(list) + 1 ELSE first
    BY DEF Above, SelectInSeq
<1>2. Len(list) \in Nat /\ \A i \in 1..Len(list) : list[i][2] \in Int
    BY KernelAssumption DEF Ticks, portMAX_DELAY
<1>3. CASE later = {}
    <2>1. Above(list, time) = Len(list) + 1
        BY <1>1, <1>3
    <2>2. \A j \in 1..Len(list) : j \notin later
        BY <1>3
    <2>3. \A j \in 1..Len(list) : list[j][2] <= time
        BY <1>2, <2>2
    <2> QED BY <1>2, <2>1, <2>3
<1>4. CASE later # {}
    <2>1. PICK x \in later : \A y \in later : x <= y
        <3>1. later \in SUBSET Nat
            OBVIOUS
        <3> HIDE DEF later
        <3> QED BY <1>4, <3>1, Least
    <2>2. Min(later) \in later /\ \A y \in later : Min(later) <= y
        BY <2>1 DEF Min
    <2>3. PICK i \in 1..Len(list) : i = first /\ time < list[i][2] /\ \A y \in later : i <= y
        BY <1>4, <2>2
    <2>4. Above(list, time) = i
        BY <1>1, <2>3
    <2>5. ASSUME NEW j \in 1..(i - 1) PROVE list[j][2] <= time
        <3>1. j \in 1..Len(list) /\ ~ (i <= j)
            <4>1. Len(list) \in Nat /\ i \in 1..Len(list)
                BY <1>2
            <4> QED BY ONLY <4>1, j \in 1..(i - 1)
        <3>2. j \notin later
            <4> HIDE DEF later
            <4> QED BY ONLY <2>3, <3>1
        <3>3. ~ (time < list[j][2]) /\ list[j][2] \in Int
            BY <1>2, <3>1, <3>2
        <3> QED BY ONLY <3>3, time \in Int
    <2>6. i \in 1..(Len(list) + 1) /\ time < list[i][2]
        <3>1. Len(list) \in Nat /\ i \in 1..Len(list) /\ time < list[i][2]
            BY <1>2, <2>3
        <3> QED BY ONLY <3>1
    <2> HIDE DEF later, first
    <2> QED BY <2>4, <2>5, <2>6
<1> QED BY <1>3, <1>4

\* Kept: the list of what stands at some places, in the order it stood in.
LEMMA KeptIs ==
    ASSUME NEW C, NEW list \in Seq(C), NEW places \in SUBSET (1..Len(list))
    PROVE  /\ Kept(list, places) \in Seq(C)
           /\ ToSet(Kept(list, places)) = {list[i] : i \in places}
           /\ \A m, n \in DOMAIN Kept(list, places) : m < n =>
                \E i, j \in places : /\ i < j /\ Kept(list, places)[m] = list[i]
                                     /\ Kept(list, places)[n] = list[j]
<1> DEFINE N == Cardinality(places)
           rank(i) == Cardinality(places \cap (1..i))
           place(n) == CHOOSE i \in places : rank(i) = n
           f == [i \in places |-> rank(i)]
<1>0. Len(list) \in Nat /\ \A i \in places : list[i] \in C /\ i \in Nat /\ 1 <= i
    <2>1. Len(list) \in Nat /\ \A i \in 1..Len(list) : list[i] \in C
        BY LenProperties, ElementOfSeq
    <2> QED BY <2>1
<1>1. IsFiniteSet(places) /\ N \in Nat
    <2>1. IsFiniteSet(1..Len(list))
        BY <1>0, FS_Interval
    <2> QED BY <2>1, FS_Subset, FS_CardinalityType
<1>2. ASSUME NEW i \in places
      PROVE  IsFiniteSet(places \cap (1..i)) /\ rank(i) \in 1..N /\ rank(i) \in Nat
    <2>1. IsFiniteSet(places \cap (1..i)) /\ rank(i) <= N
        BY <1>1, FS_Intersection
    <2>2. rank(i) \in Nat
        BY <2>1, FS_CardinalityType
    <2>3. i \in places \cap (1..i)
        BY <1>0
    <2>4. rank(i) # 0
        BY <2>1, <2>3, FS_EmptySet
    <2> QED BY <1>1, <2>1, <2>2, <2>4
<1>3. ASSUME NEW i \in places, NEW j \in places, i < j PROVE rank(i) < rank(j)
    <2>1. /\ places \cap (1..i) \in SUBSET (places \cap (1..j))
          /\ j \in places \cap (1..j) /\ j \notin places \cap (1..i)
        BY <1>0, <1>3
    <2>2. IsFiniteSet(places \cap (1..j)) /\ rank(i) \in Nat /\ rank(j) \in Nat
        BY <1>1, <1>2
    <2>3. rank(i) <= rank(j) /\ rank(i) # rank(j)
        BY <2>1, <2>2, FS_Subset
    <2> QED BY <2>2, <2>3
<1>4. ASSUME NEW n \in 1..N PROVE place(n) \in places /\ rank(place(n)) = n
    <2> HIDE DEF rank, N
    <2>1. ASSUME NEW i \in places, NEW j \in places, rank(i) = rank(j) PROVE i = j
        <3>1. i \in Nat /\ j \in Nat /\ rank(i) \in Nat /\ rank(j) \in Nat
            BY <1>0, <1>1, <1>2
        <3>2. CASE i < j BY <1>3, <2>1, <3>1, <3>2
        <3>3. CASE j < i BY <1>3, <2>1, <3>1, <3>3
        <3> QED BY <3>1, <3>2, <3>3
    <2>2. f \in Injection(places, 1..N)
        <3>1. f \in [places -> 1..N]
            BY <1>2
        <3>2. IsInjective(f)
            BY <2>1 DEF IsInjective
        <3> QED BY <3>1, <3>2 DEF Injection
    <2>3. IsFiniteSet(1..N) /\ Cardinality(1..N) = N
        BY <1>1, FS_Interval
    <2>4. N = Cardinality(places)
        BY DEF N
    <2>5. f \in Surjection(places, 1..N)
        BY <2>2, <2>3, <2>4, FS_Injection
    <2>6. \E i \in places : rank(i) = n
        BY <2>5 DEF Surjection
    <2> QED BY <2>6
<1>5. ASSUME NEW i \in places PROVE \E n \in 1..N : place(n) = i
    <2> HIDE DEF rank, N
    <2>1. rank(i) \in 1..N
        BY <1>2
    <2>2. place(rank(i)) \in places /\ rank(place(rank(i))) = rank(i)
        BY <1>4, <2>1
    <2>3. ASSUME NEW j \in places, rank(j) = rank(i) PROVE j = i
        <3>1. i \in Nat /\ j \in Nat /\ rank(i) \in Nat /\ rank(j) \in Nat
            BY <1>0, <1>1, <1>2
        <3>2. CASE i < j BY <1>3, <2>3, <3>1, <3>2
        <3>3. CASE j < i BY <1>3, <2>3, <3>1, <3>3
        <3> QED BY <3>1, <3>2, <3>3
    <2> HIDE DEF place
    <2>4. place(rank(i)) = i
        BY <2>2, <2>3
    <2> QED BY <2>1, <2>4
<1>6. Kept(list, places) = [n \in 1..N |-> list[place(n)]]
    BY DEF Kept
<1> HIDE DEF N, rank, place, f
<1>7. Kept(list, places) \in Seq(C)
    <2>1. \A n \in 1..N : list[place(n)] \in C
        BY <1>0, <1>4
    <2> QED BY <1>1, <1>6, <2>1
<1>8. ToSet(Kept(list, places)) = {list[i] : i \in places}
    <2>1. ToSet(Kept(list, places)) = {list[place(n)] : n \in 1..N}
        BY <1>6 DEF ToSet
    <2> QED BY <1>4, <1>5, <2>1
<1>9. ASSUME NEW m \in 1..N, NEW n \in 1..N, m < n
      PROVE  \E i, j \in places : /\ i < j /\ Kept(list, places)[m] = list[i]
                                  /\ Kept(list, places)[n] = list[j]
    <2>1. /\ Kept(list, places)[m] = list[place(m)] /\ Kept(list, places)[n] = list[place(n)]
          /\ place(m) \in places /\ place(n) \in places
          /\ rank(place(m)) = m /\ rank(place(n)) = n
        BY <1>4, <1>6
    <2>2. place(m) < place(n)
        <3>1. place(m) \in Nat /\ place(n) \in Nat /\ m \in Nat /\ n \in Nat
            <4>1. place(m) \in Nat /\ place(n) \in Nat
                BY <1>0, <2>1, Zenon
            <4> QED BY ONLY <4>1, m \in 1..N, n \in 1..N
        <3>2. place(m) # place(n)
            BY <1>9, <2>1, <3>1
        <3>3. ~ (place(n) < place(m))
            BY <1>3, <1>9, <2>1, <3>1
        <3> QED BY <3>1, <3>2, <3>3
    <2> QED BY <2>1, <2>2
<1> QED
    <2>1. DOMAIN Kept(list, places) = 1..N
        BY <1>6
    <2> QED BY <1>7, <1>8, <1>9, <2>1

---------------------------------------------------------------------------
(* Lists and their sets. *)

\* What a list's places say of its set and of its injectivity, in one word.
Places(list, C, n) ==
    /\ ToSet(list) = {list[i] : i \in 1..n} /\ ToSet(list) \subseteq C
    /\ \A x \in ToSet(list) : \E i \in 1..n : list[i] = x
    /\ \A i \in 1..n : list[i] \in ToSet(list)
    /\ DOMAIN list = 1..n /\ n \in Nat
    /\ IsInjective(list) <=> \A i, j \in 1..n : list[i] = list[j] => i = j

\* This holds for every list.
LEMMA ToSetIs ==
    ASSUME NEW C, NEW list \in Seq(C), NEW n, n = Len(list)
    PROVE  Places(list, C, n)
<1>1. DOMAIN list = 1..Len(list) /\ Len(list) \in Nat /\ \A i \in 1..Len(list) : list[i] \in C
    BY LenProperties, ElementOfSeq
<1>2. ToSet(list) = {list[i] : i \in 1..Len(list)}
    BY <1>1 DEF ToSet
<1>3. IsInjective(list) <=> \A i, j \in 1..Len(list) : list[i] = list[j] => i = j
    BY <1>1 DEF IsInjective
<1> QED BY <1>1, <1>2, <1>3 DEF Places

\* One list behind another one that shares nothing with it.
LEMMA Joined ==
    ASSUME NEW C, NEW s \in Seq(C), NEW u \in Seq(C)
    PROVE  /\ s \o u \in Seq(C) /\ ToSet(s \o u) = ToSet(s) \cup ToSet(u)
           /\ IsInjective(s) /\ IsInjective(u) /\ ToSet(s) \cap ToSet(u) = {} =>
                IsInjective(s \o u)
<1>1. PICK m \in Nat, n \in Nat : m = Len(s) /\ n = Len(u)
    BY LenProperties
<1>0. Places(s, C, m) /\ Places(u, C, n)
    BY <1>1, ToSetIs
<1>2. PICK su \in Seq(C) :
        /\ su = s \o u /\ Len(su) = m + n
        /\ \A i \in 1..(m + n) : su[i] = IF i <= m THEN s[i] ELSE u[i - m]
    <2>1. /\ s \o u \in Seq(C) /\ Len(s \o u) = Len(s) + Len(u)
          /\ \A i \in 1..(Len(s) + Len(u)) :
               (s \o u)[i] = IF i <= Len(s) THEN s[i] ELSE u[i - Len(s)]
        BY ConcatProperties
    <2> QED BY <1>1, <2>1, Zenon
<1>3. /\ \A i \in 1..m : s[i] \in ToSet(s)
      /\ \A i \in 1..n : u[i] \in ToSet(u)
      /\ \A x \in ToSet(s) : \E i \in 1..m : s[i] = x
      /\ \A x \in ToSet(u) : \E i \in 1..n : u[i] = x
      /\ ToSet(su) = {su[i] : i \in 1..(m + n)}
      /\ IsInjective(s) => \A i, j \in 1..m : s[i] = s[j] => i = j
      /\ IsInjective(u) => \A i, j \in 1..n : u[i] = u[j] => i = j
      /\ IsInjective(su) <=> \A i, j \in 1..(m + n) : su[i] = su[j] => i = j
    <2>1. /\ \A i \in 1..m : s[i] \in ToSet(s)
          /\ \A x \in ToSet(s) : \E i \in 1..m : s[i] = x
          /\ IsInjective(s) => \A i, j \in 1..m : s[i] = s[j] => i = j
        BY <1>0 DEF Places
    <2>2. /\ \A i \in 1..n : u[i] \in ToSet(u)
          /\ \A x \in ToSet(u) : \E i \in 1..n : u[i] = x
          /\ IsInjective(u) => \A i, j \in 1..n : u[i] = u[j] => i = j
        BY <1>0 DEF Places
    <2>3. m + n = Len(su)
        BY <1>2
    <2>5. Places(su, C, m + n)
        BY ONLY <2>3, su \in Seq(C), ToSetIs
    <2>4. /\ ToSet(su) = {su[i] : i \in 1..(m + n)}
          /\ IsInjective(su) <=> \A i, j \in 1..(m + n) : su[i] = su[j] => i = j
        BY <2>5 DEF Places
    <2> QED BY <2>1, <2>2, <2>4
<1>4. ASSUME NEW i \in 1..m PROVE i \in 1..(m + n) /\ su[i] = s[i]
    BY <1>2
<1>5. ASSUME NEW i \in 1..n PROVE m + i \in 1..(m + n) /\ su[m + i] = u[i]
    BY <1>2
<1>6. ASSUME NEW i \in 1..(m + n)
      PROVE  \/ i \in 1..m /\ su[i] = s[i]
             \/ i - m \in 1..n /\ su[i] = u[i - m]
    BY <1>2
<1>7. ToSet(su) = ToSet(s) \cup ToSet(u)
    <2>1. ASSUME NEW x \in ToSet(su) PROVE x \in ToSet(s) \cup ToSet(u)
        <3>1. PICK i \in 1..(m + n) : x = su[i]
            BY <1>3
        <3>2. CASE i \in 1..m /\ su[i] = s[i]
            BY <1>3, <3>1, <3>2
        <3>3. CASE i - m \in 1..n /\ su[i] = u[i - m]
            BY <1>3, <3>1, <3>3
        <3> QED BY <1>6, <3>2, <3>3
    <2>2. ASSUME NEW x \in ToSet(s) PROVE x \in ToSet(su)
        <3>1. PICK i \in 1..m : s[i] = x
            BY <1>3
        <3>2. i \in 1..(m + n) /\ su[i] = x
            BY <1>4, <3>1
        <3>3. ToSet(su) = {su[j] : j \in 1..(m + n)}
            BY <1>3
        <3> QED BY ONLY <3>2, <3>3
    <2>3. ASSUME NEW x \in ToSet(u) PROVE x \in ToSet(su)
        <3>1. PICK i \in 1..n : u[i] = x
            BY <1>3
        <3>2. m + i \in 1..(m + n) /\ su[m + i] = x
            BY <1>5, <3>1
        <3>3. ToSet(su) = {su[j] : j \in 1..(m + n)}
            BY <1>3
        <3> QED BY ONLY <3>2, <3>3
    <2> QED BY <2>1, <2>2, <2>3
<1>8. ASSUME IsInjective(s), IsInjective(u), ToSet(s) \cap ToSet(u) = {} PROVE IsInjective(su)
    <2>1. ASSUME NEW i \in 1..(m + n), NEW j \in 1..(m + n), su[i] = su[j] PROVE i = j
        <3>1. CASE i \in 1..m /\ su[i] = s[i] /\ j \in 1..m /\ su[j] = s[j]
            <4>1. s[i] = s[j]
                BY ONLY <2>1, <3>1
            <4>2. \A x, y \in 1..m : s[x] = s[y] => x = y
                BY <1>3, <1>8
            <4> QED BY ONLY <3>1, <4>1, <4>2
        <3>2. CASE i - m \in 1..n /\ su[i] = u[i - m] /\ j - m \in 1..n /\ su[j] = u[j - m]
            <4>1. PICK a \in 1..n, b \in 1..n : a = i - m /\ b = j - m
                BY <3>2
            <4>2. u[a] = u[b]
                BY ONLY <2>1, <3>2, <4>1
            <4>3. \A x, y \in 1..n : u[x] = u[y] => x = y
                BY <1>3, <1>8
            <4>4. a = b
                BY ONLY <4>2, <4>3, a \in 1..n, b \in 1..n
            <4> QED BY ONLY <4>1, <4>4, m \in Nat, i \in 1..(m + n), j \in 1..(m + n)
        <3>3. ~ (i \in 1..m /\ su[i] = s[i] /\ j - m \in 1..n /\ su[j] = u[j - m])
            BY <1>3, <1>8, <2>1
        <3>4. ~ (j \in 1..m /\ su[j] = s[j] /\ i - m \in 1..n /\ su[i] = u[i - m])
            BY <1>3, <1>8, <2>1
        <3> QED BY <1>6, <3>1, <3>2, <3>3, <3>4
    <2> QED BY <1>3, <2>1
<1> QED BY <1>2, <1>7, <1>8

\* A list is cut in two, behind place n.
LEMMA Parted ==
    ASSUME NEW C, NEW s \in Seq(C), NEW n \in 0..Len(s)
    PROVE  /\ SubSeq(s, 1, n) \in Seq(C) /\ SubSeq(s, n + 1, Len(s)) \in Seq(C)
           /\ ToSet(SubSeq(s, 1, n)) = {s[i] : i \in 1..n}
           /\ ToSet(SubSeq(s, n + 1, Len(s))) = {s[i] : i \in (n + 1)..Len(s)}
           /\ ToSet(s) = ToSet(SubSeq(s, 1, n)) \cup ToSet(SubSeq(s, n + 1, Len(s)))
           /\ IsInjective(s) =>
                /\ IsInjective(SubSeq(s, 1, n)) /\ IsInjective(SubSeq(s, n + 1, Len(s)))
                /\ ToSet(SubSeq(s, 1, n)) \cap ToSet(SubSeq(s, n + 1, Len(s))) = {}
<1>1. PICK m \in Nat : m = Len(s)
    BY LenProperties
<1>2. n \in 0..m /\ \A i \in 1..m : s[i] \in C
    BY <1>1, ElementOfSeq
<1>3. PICK a \in Seq(C) : a = SubSeq(s, 1, n) /\ Len(a) = n /\ \A i \in 1..n : a[i] = s[i]
    <2>1. 1 \in Int /\ n \in Int /\ \A i \in 1..n : s[i] \in C
        BY <1>2
    <2>2. /\ SubSeq(s, 1, n) \in Seq(C)
          /\ Len(SubSeq(s, 1, n)) = IF 1 <= n THEN n - 1 + 1 ELSE 0
          /\ \A i \in 1..(n - 1 + 1) : SubSeq(s, 1, n)[i] = s[1 + i - 1]
        BY ONLY <2>1, SubSeqProperties
    <2>3. (IF 1 <= n THEN n - 1 + 1 ELSE 0) = n /\ n - 1 + 1 = n /\ \A i \in 1..n : 1 + i - 1 = i
        BY <1>2
    <2>4. Len(SubSeq(s, 1, n)) = n
        BY <2>2, <2>3, Zenon
    <2>5. \A i \in 1..n : SubSeq(s, 1, n)[i] = s[i]
        BY <2>2, <2>3
    <2> QED BY <2>2, <2>4, <2>5
<1>4. PICK b \in Seq(C) : b = SubSeq(s, n + 1, m) /\ Len(b) = m - n
                          /\ \A i \in 1..(m - n) : b[i] = s[n + i]
    <2>1. n + 1 \in Int /\ m \in Int /\ \A i \in (n + 1)..m : s[i] \in C
        BY <1>2
    <2>2. /\ SubSeq(s, n + 1, m) \in Seq(C)
          /\ Len(SubSeq(s, n + 1, m)) = IF n + 1 <= m THEN m - (n + 1) + 1 ELSE 0
          /\ \A i \in 1..(m - (n + 1) + 1) : SubSeq(s, n + 1, m)[i] = s[n + 1 + i - 1]
        BY ONLY <2>1, SubSeqProperties
    <2>3. /\ (IF n + 1 <= m THEN m - (n + 1) + 1 ELSE 0) = m - n /\ m - (n + 1) + 1 = m - n
          /\ \A i \in 1..(m - n) : n + 1 + i - 1 = n + i
        BY <1>2
    <2>4. Len(SubSeq(s, n + 1, m)) = m - n
        BY <2>2, <2>3, Zenon
    <2>5. \A i \in 1..(m - n) : SubSeq(s, n + 1, m)[i] = s[n + i]
        BY <2>2, <2>3
    <2> QED BY <2>2, <2>4, <2>5
<1>5. /\ ToSet(a) = {a[i] : i \in 1..n} /\ ToSet(b) = {b[i] : i \in 1..(m - n)}
      /\ ToSet(s) = {s[i] : i \in 1..m}
      /\ IsInjective(s) => \A i, j \in 1..m : s[i] = s[j] => i = j
      /\ IsInjective(a) <=> \A i, j \in 1..n : a[i] = a[j] => i = j
      /\ IsInjective(b) <=> \A i, j \in 1..(m - n) : b[i] = b[j] => i = j
    <2>1. n = Len(a) /\ m - n = Len(b)
        BY <1>3, <1>4
    <2>5. Places(a, C, n) /\ Places(b, C, m - n) /\ Places(s, C, m)
        BY <1>1, <2>1, ToSetIs
    <2>2. /\ ToSet(a) = {a[i] : i \in 1..n}
          /\ IsInjective(a) <=> \A i, j \in 1..n : a[i] = a[j] => i = j
        BY <2>5 DEF Places
    <2>3. /\ ToSet(b) = {b[i] : i \in 1..(m - n)}
          /\ IsInjective(b) <=> \A i, j \in 1..(m - n) : b[i] = b[j] => i = j
        BY <2>5 DEF Places
    <2>4. /\ ToSet(s) = {s[i] : i \in 1..m}
          /\ IsInjective(s) => \A i, j \in 1..m : s[i] = s[j] => i = j
        BY <2>5 DEF Places
    <2> QED BY <2>2, <2>3, <2>4, Zenon
<1>6. ToSet(a) = {s[i] : i \in 1..n}
    BY <1>3, <1>5
<1>7. ToSet(b) = {s[i] : i \in (n + 1)..m}
    <2>1. \A i \in 1..(m - n) : n + i \in (n + 1)..m
        BY <1>2
    <2>2. \A i \in (n + 1)..m : i - n \in 1..(m - n) /\ n + (i - n) = i
        BY <1>2
    <2>3. ASSUME NEW i \in (n + 1)..m PROVE s[i] \in ToSet(b)
        <3>1. b[i - n] = s[i] /\ i - n \in 1..(m - n)
            BY <1>4, <2>2
        <3> QED BY <1>5, <3>1
    <2>4. ASSUME NEW i \in 1..(m - n) PROVE b[i] \in {s[j] : j \in (n + 1)..m}
        <3>1. b[i] = s[n + i] /\ n + i \in (n + 1)..m
            BY ONLY <1>4, <2>1, i \in 1..(m - n), Zenon
        <3> QED BY ONLY <3>1
    <2>5. ToSet(b) = {b[i] : i \in 1..(m - n)}
        BY <1>5, Zenon
    <2>6. ToSet(b) \subseteq {s[j] : j \in (n + 1)..m}
        BY ONLY <2>4, <2>5
    <2>7. {s[j] : j \in (n + 1)..m} \subseteq ToSet(b)
        BY ONLY <2>3
    <2> QED BY ONLY <2>6, <2>7
<1>8. ToSet(s) = ToSet(a) \cup ToSet(b)
    <2>1. \A i : i \in 1..m <=> i \in 1..n \/ i \in (n + 1)..m
        BY <1>2
    <2>2. ASSUME NEW i \in 1..m PROVE s[i] \in ToSet(a) \cup ToSet(b)
        BY ONLY <1>6, <1>7, <2>1, <2>2
    <2>3. ASSUME NEW i \in 1..n PROVE s[i] \in ToSet(s)
        BY ONLY <1>5, <2>1, <2>3
    <2>4. ASSUME NEW i \in (n + 1)..m PROVE s[i] \in ToSet(s)
        BY ONLY <1>5, <2>1, <2>4
    <2>5. ToSet(s) \subseteq ToSet(a) \cup ToSet(b)
        <3>1. ASSUME NEW x \in ToSet(s) PROVE \E i \in 1..m : x = s[i]
            BY <1>5
        <3> QED BY ONLY <2>2, <3>1
    <2>6. ToSet(a) \subseteq ToSet(s)
        BY ONLY <1>6, <2>3
    <2>7. ToSet(b) \subseteq ToSet(s)
        BY ONLY <1>7, <2>4
    <2> QED BY ONLY <2>5, <2>6, <2>7
<1>9. ASSUME IsInjective(s)
      PROVE  IsInjective(a) /\ IsInjective(b) /\ ToSet(a) \cap ToSet(b) = {}
    <2>1. \A i, j \in 1..m : s[i] = s[j] => i = j
        BY <1>5, <1>9
    <2>2. ASSUME NEW i \in 1..n, NEW j \in 1..n, a[i] = a[j] PROVE i = j
        <3>1. i \in 1..m /\ j \in 1..m
            BY <1>2
        <3> QED BY <1>3, <2>1, <2>2, <3>1
    <2>3. ASSUME NEW i \in 1..(m - n), NEW j \in 1..(m - n), b[i] = b[j] PROVE i = j
        <3>1. n + i \in 1..m /\ n + j \in 1..m
            BY <1>2
        <3>2. n + i = n + j
            BY <1>4, <2>1, <2>3, <3>1
        <3> QED BY <1>2, <3>2
    <2>4. ASSUME NEW i \in 1..n, NEW j \in (n + 1)..m PROVE s[i] # s[j]
        <3>1. i \in 1..m /\ j \in 1..m /\ i # j
            BY <1>2
        <3> QED BY <2>1, <3>1
    <2>5. IsInjective(a) /\ IsInjective(b)
        BY <1>5, <2>2, <2>3, Zenon
    <2>6. ToSet(a) \cap ToSet(b) = {}
        BY ONLY <1>6, <1>7, <2>4
    <2> QED BY <2>5, <2>6
<1> QED BY <1>1, <1>3, <1>4, <1>6, <1>7, <1>8, <1>9

\* A list of one.
LEMMA Single ==
    ASSUME NEW C, NEW x \in C
    PROVE  <<x>> \in Seq(C) /\ ToSet(<<x>>) = {x} /\ IsInjective(<<x>>)
<1>1. <<x>> \in Seq(C) /\ Len(<<x>>) = 1 /\ <<x>>[1] = x /\ DOMAIN <<x>> = 1..1
    OBVIOUS
<1>2. \A i \in 1..1 : i = 1
    OBVIOUS
<1> QED BY <1>1, <1>2 DEF ToSet, IsInjective

---------------------------------------------------------------------------
(* Lists without repetition. *)

\* A list holds just the elements of a set, each of them once.
Once(list, C, S) == list \in Seq(C) /\ IsInjective(list) /\ ToSet(list) = S

\* The same in terms of places.
LEMMA OncePlaces ==
    ASSUME NEW C, NEW S, NEW list, Once(list, C, S), NEW n, n = Len(list)
    PROVE  Places(list, C, n)
BY ToSetIs DEF Once

\* Some of them are kept.
LEMMA OnceKept ==
    ASSUME NEW C, NEW S, NEW list, Once(list, C, S), NEW places \in SUBSET DOMAIN list,
           NEW T \in SUBSET S, \A i \in DOMAIN list : i \in places <=> list[i] \in T
    PROVE  Once(Kept(list, places), C, T)
<1>1. PICK n : n = Len(list) /\ Places(list, C, n)
    BY OncePlaces
<1>2. list \in Seq(C) /\ IsInjective(list) /\ ToSet(list) = S /\ DOMAIN list = 1..n
    BY <1>1 DEF Once, Places
<1>3. places \in SUBSET (1..Len(list))
    BY <1>1, <1>2
<1>4. PICK kept : kept = Kept(list, places)
    OBVIOUS
<1>5. /\ kept \in Seq(C) /\ ToSet(kept) = {list[i] : i \in places}
      /\ \A a, b \in DOMAIN kept : a < b =>
           \E i, j \in places : i < j /\ kept[a] = list[i] /\ kept[b] = list[j]
    BY <1>2, <1>3, <1>4, KeptIs
<1>6. PICK m : m = Len(kept) /\ Places(kept, C, m)
    BY <1>5, ToSetIs
<1>7. IsInjective(kept)
    <2>1. \A i, j \in 1..n : list[i] = list[j] => i = j
        BY <1>1, <1>2 DEF Places
    <2>2. ASSUME NEW a \in 1..m, NEW b \in 1..m, a < b PROVE kept[a] # kept[b]
        <3>1. PICK i \in places, j \in places :
                i < j /\ kept[a] = list[i] /\ kept[b] = list[j]
            BY <1>5, <1>6, <2>2 DEF Places
        <3>2. i # j
            <4>1. i \in 1..n /\ j \in 1..n
                BY <1>2
            <4> QED BY <3>1, <4>1
        <3> QED BY <1>2, <2>1, <3>1, <3>2
    <2>3. ASSUME NEW a \in 1..m, NEW b \in 1..m, kept[a] = kept[b] PROVE a = b
        <3>1. a \in Nat /\ b \in Nat
            BY <1>6 DEF Places
        <3>2. ~ (a < b) /\ ~ (b < a)
            BY <2>2, <2>3
        <3> QED BY <3>1, <3>2
    <2> QED BY <1>6, <2>3 DEF Places
<1>8. ToSet(kept) = T
    <2>1. ASSUME NEW x \in T PROVE x \in ToSet(kept)
        <3>1. PICK i \in 1..n : list[i] = x
            BY <1>1, <1>2 DEF Places
        <3> QED BY <1>2, <1>5, <3>1
    <2> QED BY <1>2, <1>5, <2>1
<1> QED BY <1>4, <1>5, <1>7, <1>8 DEF Once

\* uxListRemove takes one out of a list.
LEMMA OnceRemoved ==
    ASSUME NEW C, NEW S, NEW list, Once(list, C, S), NEW t
    PROVE  Once(Removed(list, t), C, S \ {t})
<1>1. PICK n : n = Len(list) /\ Places(list, C, n)
    BY OncePlaces
<1>2. \A i \in DOMAIN list : i \in {j \in DOMAIN list : list[j] # t} <=> list[i] \in S \ {t}
    BY <1>1 DEF Once, Places
<1> QED BY <1>2, OnceKept DEF Removed

\* All that are in some set are taken out.
LEMMA OnceWithout ==
    ASSUME NEW C, NEW S, NEW list, Once(list, C, S), NEW T
    PROVE  Once(Kept(list, {i \in DOMAIN list : list[i] \notin T}), C, S \ T)
<1>1. PICK n : n = Len(list) /\ Places(list, C, n)
    BY OncePlaces
<1>2. \A i \in DOMAIN list : i \in {j \in DOMAIN list : list[j] \notin T} <=> list[i] \in S \ T
    BY <1>1 DEF Once, Places
<1> QED BY <1>2, OnceKept

\* uxListRemove takes the item of one task out.
LEMMA OnceUntimed ==
    ASSUME NEW C, NEW S, NEW list, Once(list, C, S), NEW t
    PROVE  Once(Untimed(list, t), C, {item \in S : item[1] # t})
<1>1. PICK n : n = Len(list) /\ Places(list, C, n)
    BY OncePlaces
<1> DEFINE T == {item \in S : item[1] # t}
<1>2. \A i \in DOMAIN list : i \in {j \in DOMAIN list : list[j][1] # t} <=> list[i] \in T
    BY <1>1 DEF Once, Places
<1>3. T \in SUBSET S
    OBVIOUS
<1> HIDE DEF T
<1>4. Once(Untimed(list, t), C, T)
    BY <1>2, <1>3, OnceKept DEF Untimed
<1> QED BY <1>4 DEF T

\* Two lists that share nothing, one behind the other.
LEMMA OnceJoined ==
    ASSUME NEW C, NEW S, NEW list, Once(list, C, S), NEW T, NEW more, Once(more, C, T),
           S \cap T = {}
    PROVE  Once(list \o more, C, S \cup T)
BY Joined DEF Once

\* A list cut in two between the places n and p.
Cut(list, C, S, n, p, m) ==
    /\ Once(SubSeq(list, 1, n), C, {list[i] : i \in 1..n})
    /\ Once(SubSeq(list, p, m), C, {list[i] : i \in p..m})
    /\ S = {list[i] : i \in 1..n} \cup {list[i] : i \in p..m}
    /\ {list[i] : i \in 1..n} \cap {list[i] : i \in p..m} = {}

\* A list is cut.
LEMMA OnceParted ==
    ASSUME NEW C, NEW S, NEW list, Once(list, C, S), NEW m, m = Len(list),
           NEW n \in 0..m, NEW p, p = n + 1
    PROVE  Cut(list, C, S, n, p, m)
<1>1. list \in Seq(C) /\ IsInjective(list) /\ ToSet(list) = S
    BY DEF Once
<1> DEFINE a == SubSeq(list, 1, n)
           b == SubSeq(list, p, m)
           A == {list[i] : i \in 1..n}
           B == {list[i] : i \in p..m}
<1>2. /\ a \in Seq(C) /\ b \in Seq(C) /\ ToSet(a) = A /\ ToSet(b) = B
      /\ S = ToSet(a) \cup ToSet(b) /\ IsInjective(a) /\ IsInjective(b)
      /\ ToSet(a) \cap ToSet(b) = {}
    BY <1>1, Parted
<1> HIDE DEF a, b, A, B
<1>3. Once(a, C, A) /\ Once(b, C, B) /\ S = A \cup B /\ A \cap B = {}
    BY <1>2 DEF Once
<1> QED BY <1>3 DEF a, b, A, B, Cut

\* A list of one.
LEMMA OnceSingle ==
    ASSUME NEW C, NEW x \in C
    PROVE  Once(<<x>>, C, {x})
BY Single DEF Once

\* Something new is put at a place of a list.
LEMMA OnceInserted ==
    ASSUME NEW C, NEW S, NEW list, Once(list, C, S), NEW i \in 1..(Len(list) + 1),
           NEW x \in C, x \notin S
    PROVE  Once(InsertAt(list, i, x), C, S \cup {x})
<1>1. PICK n \in Nat : n = Len(list)
    BY LenProperties DEF Once
<1>2. PICK h \in 0..n : h = i - 1 /\ i = h + 1
    BY <1>1
<1>0. Cut(list, C, S, h, i, n)
    BY <1>1, <1>2, OnceParted
<1>3. PICK A, B : /\ Once(SubSeq(list, 1, h), C, A) /\ Once(SubSeq(list, i, n), C, B)
                  /\ S = A \cup B /\ A \cap B = {}
    BY <1>0 DEF Cut
<1>4. Once(SubSeq(list, 1, h) \o <<x>>, C, A \cup {x})
    <2>1. Once(<<x>>, C, {x}) /\ A \cap {x} = {}
        BY <1>3, OnceSingle
    <2> QED BY <1>3, <2>1, OnceJoined
<1>5. Once((SubSeq(list, 1, h) \o <<x>>) \o SubSeq(list, i, n), C, (A \cup {x}) \cup B)
    <2>1. (A \cup {x}) \cap B = {}
        BY <1>3
    <2> QED BY <1>3, <1>4, <2>1, OnceJoined
<1>6. (A \cup {x}) \cup B = S \cup {x}
    BY <1>3
<1> QED BY <1>1, <1>2, <1>5, <1>6 DEF InsertAt

\* vListInsert puts an item in.
LEMMA OnceInsert ==
    ASSUME NEW S, NEW list, Once(list, Tasks \X Ticks, S), NEW item \in Tasks \X Ticks,
           item \notin S
    PROVE  Once(Insert(list, item), Tasks \X Ticks, S \cup {item})
<1>1. item[2] \in Int
    BY KernelAssumption DEF Ticks, portMAX_DELAY
<1>2. Above(list, item[2]) \in 1..(Len(list) + 1)
    BY <1>1, AboveIs DEF Once
<1> QED BY <1>2, OnceInserted DEF Insert

\* vListInsertEnd puts items in front of pxIndex.
LEMMA OnceInsertEnd ==
    ASSUME NEW C, NEW S, NEW list, Once(list, C, S), list # <<>>, NEW T, NEW ts, Once(ts, C, T),
           S \cap T = {}
    PROVE  Once(InsertEnd(list, ts), C, S \cup T)
<1>1. PICK n \in Nat : n = Len(list) /\ n # 0 /\ list[n] \in C
    <2>1. Len(list) \in Nat \ {0}
        BY EmptySeq DEF Once
    <2> QED BY <2>1, ElementOfSeq DEF Once
<1>2. n - 1 \in 0..n /\ n = n - 1 + 1 /\ n..n = {n}
    BY <1>1
<1> DEFINE A == {list[i] : i \in 1..(n - 1)}
           B == {list[i] : i \in n..n}
<1>3. Once(SubSeq(list, 1, n - 1), C, A) /\ S = A \cup B /\ A \cap B = {}
    <2>1. Cut(list, C, S, n - 1, n, n)
        BY ONLY <1>1, <1>2, Once(list, C, S), OnceParted
    <2> QED BY <2>1 DEF Cut
<1>4. B = {list[n]}
    BY <1>2
<1> HIDE DEF A, B
<1>5. Once(SubSeq(list, 1, n - 1) \o ts, C, A \cup T)
    BY <1>3, OnceJoined
<1>6. Once(<<list[n]>>, C, B) /\ (A \cup T) \cap B = {}
    BY <1>1, <1>3, <1>4, OnceSingle
<1>7. Once((SubSeq(list, 1, n - 1) \o ts) \o <<list[n]>>, C, (A \cup T) \cup B)
    BY <1>5, <1>6, OnceJoined
<1>8. (A \cup T) \cup B = S \cup T
    BY <1>3
<1> QED BY <1>1, <1>7, <1>8 DEF InsertEnd

\* vListInsertEnd on a list whose pxIndex is the end marker, or vListInsert of
\* equal values: at the end.
LEMMA OnceAppend ==
    ASSUME NEW C, NEW S, NEW list, Once(list, C, S), NEW x \in C, x \notin S
    PROVE  Once(Append(list, x), C, S \cup {x})
<1>1. Append(list, x) = list \o <<x>>
    BY AppendIsConcat DEF Once
<1>2. Once(<<x>>, C, {x}) /\ S \cap {x} = {}
    BY OnceSingle
<1> QED BY <1>1, <1>2, OnceJoined

\* The head leaves a list.
LEMMA OnceTail ==
    ASSUME NEW C, NEW S, NEW list, Once(list, C, S), list # <<>>
    PROVE  /\ Head(list) \in S /\ Head(list) \in C /\ Head(list) = list[1]
           /\ Once(Tail(list), C, S \ {Head(list)})
<1>1. PICK n \in Nat : n = Len(list) /\ n # 0 /\ list[1] \in C
    <2>1. Len(list) \in Nat \ {0}
        BY EmptySeq DEF Once
    <2> QED BY <2>1, ElementOfSeq DEF Once
<1>2. 1 \in 0..n /\ 2 = 1 + 1 /\ 1..1 = {1}
    BY <1>1
<1> DEFINE A == {list[i] : i \in 1..1}
           B == {list[i] : i \in 2..n}
<1>3. Once(SubSeq(list, 2, n), C, B) /\ S = A \cup B /\ A \cap B = {}
    <2>1. Cut(list, C, S, 1, 2, n)
        BY ONLY <1>1, <1>2, Once(list, C, S), OnceParted
    <2> QED BY <2>1 DEF Cut
<1>4. A = {list[1]}
    BY <1>2
<1> HIDE DEF A, B
<1>5. Head(list) = list[1] /\ Tail(list) = SubSeq(list, 2, n)
    BY <1>1, TailIsSubSeq DEF Once
<1>6. B = S \ {list[1]}
    BY <1>3, <1>4
<1> QED BY <1>1, <1>3, <1>4, <1>5, <1>6

\* pxIndex of a circular list moves on by one: the head goes to the end.
LEMMA OnceTurned ==
    ASSUME NEW C, NEW S, NEW list, Once(list, C, S), list # <<>>
    PROVE  /\ Once(Tail(list) \o <<Head(list)>>, C, S)
           /\ (Tail(list) \o <<Head(list)>>)[Len(Tail(list) \o <<Head(list)>>)] = Head(list)
<1>1. /\ Head(list) \in S /\ Head(list) \in C
      /\ Once(Tail(list), C, S \ {Head(list)})
    BY OnceTail
<1>2. Once(Tail(list) \o <<Head(list)>>, C, (S \ {Head(list)}) \cup {Head(list)})
    BY <1>1, OnceSingle, OnceJoined
<1>3. (S \ {Head(list)}) \cup {Head(list)} = S
    BY <1>1
<1>4. (Tail(list) \o <<Head(list)>>)[Len(Tail(list) \o <<Head(list)>>)] = Head(list)
    <2>1. Tail(list) \o <<Head(list)>> = Append(Tail(list), Head(list))
        BY <1>1, AppendIsConcat DEF Once
    <2> QED BY <1>1, <2>1, AppendProperties DEF Once
<1> QED BY <1>2, <1>3, <1>4

\* listGET_OWNER_OF_NEXT_ENTRY turns the list and ends at an item, not at the
\* end marker.
LEMMA OnceMoved ==
    ASSUME NEW S, NEW list, Once(list, Tasks \cup {xListEnd}, S),
           xListEnd \in S, list # <<xListEnd>>
    PROVE  /\ Once(Moved(list), Tasks \cup {xListEnd}, S)
           /\ Moved(list)[Len(Moved(list))] \in S \ {xListEnd}
<1> DEFINE C == Tasks \cup {xListEnd}
           once == Tail(list) \o <<Head(list)>>
<1>1. list # <<>> /\ list \in Seq(C)
    BY DEF Once, ToSet
<1>2. Once(once, C, S) /\ once[Len(once)] = Head(list) /\ Head(list) \in S
    BY <1>1, OnceTurned, OnceTail
<1>3. CASE Head(list) # xListEnd
    BY <1>2, <1>3 DEF Moved
<1>4. CASE Head(list) = xListEnd
    <2>1. once # <<>>
        <3>1. ToSet(<<>>) = {}
            BY DEF ToSet
        <3> QED BY <1>2, <3>1 DEF Once
    <2> HIDE DEF once
    <2>2. /\ Once(Tail(once) \o <<Head(once)>>, C, S)
          /\ (Tail(once) \o <<Head(once)>>)[Len(Tail(once) \o <<Head(once)>>)] = Head(once)
          /\ Head(once) = once[1] /\ Head(once) \in S
        <3> HIDE DEF C
        <3>1. Once(once, C, S)
            BY <1>2
        <3>2. Head(once) = once[1] /\ Head(once) \in S
            BY ONLY <2>1, <3>1, OnceTail
        <3> QED BY ONLY <2>1, <3>1, <3>2, OnceTurned
    <2>3. Moved(list) = Tail(once) \o <<Head(once)>>
        BY <1>4 DEF Moved, once
    <2>4. once[1] # xListEnd
        <3>1. PICK n \in Nat : n = Len(once) /\ n # 0
            <4>1. Len(once) \in Nat \ {0}
                BY <1>2, <2>1, EmptySeq DEF Once
            <4> QED BY <4>1
        <3>2. Places(once, C, n)
            BY <1>2, <3>1, OncePlaces
        <3>3. ASSUME n = 1 PROVE FALSE
            <4>1. once = <<xListEnd>>
                <5>1. once \in Seq(C) /\ Len(once) = 1 /\ once[1] = xListEnd
                    BY <1>2, <1>4, <3>1, <3>3 DEF Once
                <5> QED BY <5>1
            <4>2. Len(list) = 1
                <5>1. Tail(list) \in Seq(C) /\ Len(Tail(list)) = Len(list) - 1 /\ Len(list) \in Nat
                    BY <1>1, HeadTailProperties
                <5>2. Head(list) \in C
                    BY <1>1, HeadTailProperties
                <5>3. Len(once) = Len(Tail(list)) + 1
                    <6>1. once = Append(Tail(list), Head(list))
                        BY <5>1, <5>2, AppendIsConcat DEF once
                    <6> QED BY <5>1, <5>2, <6>1, AppendProperties
                <5>4. Len(once) = 1
                    BY <3>1, <3>3
                <5>5. PICK a \in Nat : a = Len(list) /\ Len(Tail(list)) = a - 1
                    BY <5>1
                <5>6. 1 = a - 1 + 1
                    BY <5>3, <5>4, <5>5, Zenon
                <5>7. a = 1
                    BY ONLY <5>6, a \in Nat
                <5> QED BY <5>5, <5>7, Zenon
            <4>3. list = <<xListEnd>>
                <5>1. list[1] = xListEnd /\ DOMAIN list = 1..1
                    BY <1>1, <1>4, <4>2
                <5> QED BY <1>1, <4>2, <5>1
            <4> QED BY <4>3
        <3>4. 1 \in 1..n /\ n \in 1..n /\ n # 1
            BY <3>1, <3>3
        <3>5. once[n] = xListEnd
            BY <1>2, <1>4, <3>1
        <3> QED BY <1>2, <3>2, <3>4, <3>5 DEF Once, Places
    <2> QED BY <2>2, <2>3, <2>4
<1> QED BY <1>3, <1>4

---------------------------------------------------------------------------
(* The lists of the scheduler. *)

\* What the lists of the scheduler hold: the delayed ones items <<task, xItemValue>>,
\* the ready one tasks and its end marker.
TimedItems == Tasks \X Ticks
ReadyItems == Tasks \cup {xListEnd}

\* The variables of tasks.c and their types.
State ==
    [xTickCount : Ticks, xNumOfOverflows : Nat, xNextTaskUnblockTime : Ticks,
     uxSchedulerSuspended : {0, 1}, uxPendedTicks : Nat, xYieldPending : BOOLEAN,
     pxCurrentTCB : Tasks \cup {Idle}, ready : Seq(ReadyItems),
     delayed : Seq(TimedItems), overflow : Seq(TimedItems), suspended : SUBSET Tasks,
     events : [Event -> Seq(Tasks)]]

\* Tasks that wait for a time, that do not run, that wait for an event.
Timed(s) == {item[1] : item \in ToSet(s.delayed) \cup ToSet(s.overflow)}
Asleep(s) == Timed(s) \cup s.suspended
Waits(s, e) == ToSet(s.events[e])

\* Every task is in exactly one list of the scheduler, once, only tasks that do
\* not run wait for an event, and for one at most.
Lists(s) ==
    /\ s \in State
    /\ Once(s.ready, ReadyItems, {xListEnd} \cup (Tasks \ Asleep(s)))
    /\ IsInjective(s.delayed) /\ IsInjective(s.overflow)
    /\ ToSet(s.delayed) \cap ToSet(s.overflow) = {}
    /\ \A a, b \in ToSet(s.delayed) \cup ToSet(s.overflow) : a[1] = b[1] => a = b
    /\ Timed(s) \cap s.suspended = {}
    /\ \A e \in Event : IsInjective(s.events[e]) /\ Waits(s, e) \subseteq Asleep(s)
    /\ \A e, f \in Event : e # f => Waits(s, e) \cap Waits(s, f) = {}

\* What a switch does not touch.
Unswitched(s, s2) ==
    /\ s2 \in State
    /\ s2.xTickCount = s.xTickCount /\ s2.xNumOfOverflows = s.xNumOfOverflows
    /\ s2.xNextTaskUnblockTime = s.xNextTaskUnblockTime
    /\ s2.uxSchedulerSuspended = s.uxSchedulerSuspended
    /\ s2.uxPendedTicks = s.uxPendedTicks /\ s2.delayed = s.delayed
    /\ s2.overflow = s.overflow /\ s2.suspended = s.suspended /\ s2.events = s.events

\* Nothing but the order of the ready list changes.
LEMMA SameLists ==
    ASSUME NEW s, Lists(s), NEW s2 \in State,
           s2.delayed = s.delayed, s2.overflow = s.overflow, s2.suspended = s.suspended,
           s2.events = s.events, Once(s2.ready, ReadyItems, {xListEnd} \cup (Tasks \ Asleep(s)))
    PROVE  /\ Lists(s2) /\ Timed(s2) = Timed(s) /\ Asleep(s2) = Asleep(s)
           /\ \A e : Waits(s2, e) = Waits(s, e)
<1>1. Timed(s2) = Timed(s) /\ Asleep(s2) = Asleep(s) /\ \A e : Waits(s2, e) = Waits(s, e)
    BY DEF Timed, Asleep, Waits
<1>2. Lists(s2)
    BY <1>1 DEF Lists
<1> QED BY <1>1, <1>2

\* Not even that order changes.
LEMMA SameReady ==
    ASSUME NEW s, Lists(s), NEW s2 \in State,
           s2.delayed = s.delayed, s2.overflow = s.overflow, s2.suspended = s.suspended,
           s2.events = s.events, s2.ready = s.ready
    PROVE  Lists(s2)
<1>1. Once(s2.ready, ReadyItems, {xListEnd} \cup (Tasks \ Asleep(s)))
    BY DEF Lists
<1> QED BY ONLY <1>1, Lists(s), s2 \in State, s2.delayed = s.delayed, s2.overflow = s.overflow,
                s2.suspended = s.suspended, s2.events = s.events, SameLists

\* vTaskSwitchContext puts nobody to sleep and takes a task that is ready, or is
\* put off while the scheduler is suspended.
LEMMA SwitchLists ==
    ASSUME NEW s, Lists(s), NEW s2, s2 = vTaskSwitchContext(s)
    PROVE  /\ Lists(s2) /\ Unswitched(s, s2)
           /\ s.uxSchedulerSuspended = 1 =>
                s2.pxCurrentTCB = s.pxCurrentTCB /\ s2.xYieldPending
           /\ s.uxSchedulerSuspended = 0 =>
                s2.pxCurrentTCB \in {Idle} \cup (Tasks \ Asleep(s)) /\ ~s2.xYieldPending
<1>0. s \in State
    BY DEF Lists
<1>1. CASE s.uxSchedulerSuspended = 1
    <2>1. s2 = [s EXCEPT !.xYieldPending = TRUE]
        BY <1>1 DEF vTaskSwitchContext
    <2>2. /\ Unswitched(s, s2) /\ s2.ready = s.ready /\ s2.pxCurrentTCB = s.pxCurrentTCB
          /\ s2.xYieldPending
        BY ONLY <1>0, <2>1 DEF State, Unswitched
    <2>3. Lists(s2)
        BY ONLY <2>2, Lists(s), SameReady DEF Unswitched
    <2> QED BY <1>1, <2>2, <2>3
<1>2. CASE s.uxSchedulerSuspended = 0
    <2>1. CASE s.ready = <<xListEnd>>
        <3>1. s2 = [s EXCEPT !.xYieldPending = FALSE, !.pxCurrentTCB = Idle]
            BY <1>2, <2>1 DEF vTaskSwitchContext
        <3>2. /\ Unswitched(s, s2) /\ s2.ready = s.ready /\ s2.pxCurrentTCB = Idle
              /\ ~s2.xYieldPending
            <4>1. s2 \in State
                BY ONLY <1>0, <3>1 DEF State
            <4> QED BY ONLY <1>0, <3>1, <4>1 DEF State, Unswitched
        <3>3. Lists(s2)
            BY ONLY <3>2, Lists(s), SameReady DEF Unswitched
        <3> QED BY <1>2, <3>2, <3>3
    <2>2. CASE s.ready # <<xListEnd>>
        <3>1. PICK list : list = Moved(s.ready)
            OBVIOUS
        <3>2. s2 = [s EXCEPT !.xYieldPending = FALSE, !.ready = list,
                             !.pxCurrentTCB = list[Len(list)]]
            BY <1>2, <2>2, <3>1 DEF vTaskSwitchContext
        <3>3. /\ Once(list, ReadyItems, {xListEnd} \cup (Tasks \ Asleep(s)))
              /\ list[Len(list)] \in Tasks \ Asleep(s)
            <4>1. Once(s.ready, ReadyItems, {xListEnd} \cup (Tasks \ Asleep(s)))
                BY DEF Lists
            <4>2. PICK S : S = {xListEnd} \cup (Tasks \ Asleep(s))
                OBVIOUS
            <4>3. Once(s.ready, Tasks \cup {xListEnd}, S) /\ xListEnd \in S
                BY ONLY <4>1, <4>2 DEF ReadyItems
            <4>4. Once(list, Tasks \cup {xListEnd}, S) /\ list[Len(list)] \in S \ {xListEnd}
                BY ONLY <2>2, <3>1, <4>3, OnceMoved
            <4> QED BY ONLY <4>2, <4>4 DEF ReadyItems
        <3>4. list \in Seq(ReadyItems)
            BY <3>3 DEF Once
        <3>5. /\ Unswitched(s, s2) /\ s2.ready = list /\ s2.pxCurrentTCB = list[Len(list)]
              /\ ~s2.xYieldPending
            <4>1. list[Len(list)] \in Tasks
                BY <3>3
            <4>2. s2 \in State
                BY ONLY <1>0, <3>2, <3>4, <4>1 DEF State
            <4> QED BY ONLY <1>0, <3>2, <4>2 DEF State, Unswitched
        <3>6. Lists(s2)
            BY ONLY <3>3, <3>5, Lists(s), SameLists DEF Unswitched
        <3> QED BY <1>2, <3>3, <3>5, <3>6
    <2> QED BY <2>1, <2>2
<1> QED BY <1>0, <1>1, <1>2 DEF State

---------------------------------------------------------------------------
(* The tick. *)

\* Nobody has gone to sleep, and those that sleep without a time sleep on.
Later(s, s2) ==
    /\ Lists(s2) /\ Timed(s2) \subseteq Timed(s) /\ s2.suspended = s.suspended
    /\ \A e \in Event : /\ Waits(s2, e) \subseteq Waits(s, e)
                         /\ Waits(s, e) \cap s.suspended \subseteq Waits(s2, e)

\* What the tick does not touch.
Unticked(s, s2) ==
    /\ s2 \in State /\ s2.pxCurrentTCB = s.pxCurrentTCB
    /\ s2.uxSchedulerSuspended = s.uxSchedulerSuspended /\ s2.xYieldPending = s.xYieldPending

\* One after the other.
LEMMA LaterTrans ==
    ASSUME NEW s, NEW s2, NEW s3, Lists(s), Later(s, s2), Later(s2, s3)
    PROVE  Later(s, s3)
BY DEF Later

\* The same lists, or the ready one in another order.
LEMMA LaterRefl ==
    ASSUME NEW s, Lists(s), NEW s2, Lists(s2), s2.delayed = s.delayed, s2.overflow = s.overflow,
           s2.suspended = s.suspended, s2.events = s.events
    PROVE  Later(s, s2)
BY DEF Later, Timed, Waits

\* The next time to wake somebody is a time.
LEMMA UnblockTimeIs ==
    ASSUME NEW list \in Seq(TimedItems)
    PROVE  UnblockTime(list) \in Ticks
<1>1. portMAX_DELAY \in Ticks
    BY KernelAssumption DEF Ticks, portMAX_DELAY
<1>2. ASSUME list # <<>> PROVE Head(list) \in Tasks \X Ticks
    BY <1>2, HeadTailProperties DEF TimedItems
<1> QED BY <1>1, <1>2 DEF UnblockTime

\* The tasks of some items, none of which has two.
LEMMA OnceWoken ==
    ASSUME NEW A, NEW list, Once(list, TimedItems, A), NEW n \in Nat, n = Len(list),
           \A a, b \in A : a[1] = b[1] => a = b
    PROVE  Once([i \in 1..n |-> list[i][1]], Tasks, {a[1] : a \in A})
<1>1. Places(list, TimedItems, n) /\ list \in Seq(TimedItems) /\ IsInjective(list) /\ ToSet(list) = A
    BY OncePlaces DEF Once
<1> DEFINE woken == [i \in 1..n |-> list[i][1]]
<1>2. \A i \in 1..n : list[i] \in A /\ list[i] \in Tasks \X Ticks
    BY <1>1, ElementOfSeq DEF Places, TimedItems
<1>3. woken \in Seq(Tasks)
    BY <1>2
<1>4. ToSet(woken) = {a[1] : a \in A}
    <2>1. ToSet(woken) = {list[i][1] : i \in 1..n}
        BY DEF ToSet
    <2>2. ASSUME NEW a \in A PROVE \E i \in 1..n : list[i] = a
        BY <1>1 DEF Places
    <2> QED BY <1>2, <2>1, <2>2
<1>5. IsInjective(woken)
    <2>1. ASSUME NEW i \in 1..n, NEW j \in 1..n, woken[i] = woken[j] PROVE i = j
        <3>1. list[i] = list[j]
            BY <1>2, <2>1
        <3> QED BY <1>1, <3>1 DEF Places
    <2> QED BY <2>1 DEF IsInjective
<1> QED BY <1>3, <1>4, <1>5 DEF Once

\* Unblock: those whose time has come are ready, each once, and wait for no event.
LEMMA UnblockLists ==
    ASSUME NEW s, Lists(s), NEW s2, s2 = Unblock(s)
    PROVE  /\ Later(s, s2) /\ Unticked(s, s2) /\ s2.uxPendedTicks = s.uxPendedTicks
           /\ s2.xTickCount = s.xTickCount /\ s2.xNumOfOverflows = s.xNumOfOverflows
<1>0. s \in State /\ s.delayed \in Seq(TimedItems) /\ s.xTickCount \in Ticks
    BY DEF Lists, State
<1>a. PICK n \in Nat : n = Len(s.delayed)
    BY <1>0, LenProperties
<1>b. PICK first \in 1..(n + 1) : first = Above(s.delayed, s.xTickCount)
    <2>1. s.xTickCount \in Int
        BY <1>0, KernelAssumption DEF Ticks, portMAX_DELAY
    <2>2. Above(s.delayed, s.xTickCount) \in 1..(Len(s.delayed) + 1)
        BY <1>0, <2>1, AboveIs DEF TimedItems
    <2> QED BY <1>a, <2>2
<1>1. PICK h \in 0..n :
        n = Len(s.delayed) /\ first = Above(s.delayed, s.xTickCount) /\ h = first - 1
    <2>1. first - 1 \in 0..n
        BY ONLY first \in 1..(n + 1), n \in Nat
    <2> QED BY <1>a, <1>b, <2>1
<1>2. PICK A, B, D :
        /\ A = {s.delayed[i] : i \in 1..h} /\ B = {s.delayed[i] : i \in first..n}
        /\ D = ToSet(s.delayed)
    OBVIOUS
<1>3. PICK rest, due :
        /\ rest = SubSeq(s.delayed, first, n) /\ Once(rest, TimedItems, B)
        /\ due = SubSeq(s.delayed, 1, h) /\ Once(due, TimedItems, A)
        /\ D = A \cup B /\ A \cap B = {}
    <2>1. Once(s.delayed, TimedItems, D) /\ first = h + 1
        BY <1>0, <1>1, <1>2 DEF Lists, Once
    <2>2. Cut(s.delayed, TimedItems, D, h, first, n)
        BY <1>1, <2>1, OnceParted
    <2> QED BY <1>2, <2>2 DEF Cut
<1>4. PICK O, N, T :
        /\ O = ToSet(s.overflow) /\ N = {item[1] : item \in B \cup O}
        /\ T = {item[1] : item \in A}
    OBVIOUS
<1>5. /\ \A a, b \in D \cup O : a[1] = b[1] => a = b
      /\ D \cap O = {} /\ Timed(s) = {item[1] : item \in D \cup O}
      /\ O \subseteq TimedItems /\ D \subseteq TimedItems
    <2>1. s.overflow \in Seq(TimedItems) /\ s.delayed \in Seq(TimedItems)
        BY <1>0 DEF State
    <2>2. O \subseteq TimedItems /\ D \subseteq TimedItems
        BY <1>2, <1>4, <2>1, ToSetIs DEF Places
    <2> QED BY <1>2, <1>4, <2>2 DEF Lists, Timed
<1>6. /\ T \subseteq Tasks /\ T \cap N = {} /\ Timed(s) = T \cup N /\ T \cap s.suspended = {}
      /\ T \subseteq Asleep(s) /\ N \subseteq Asleep(s)
    <2>1. T \subseteq Tasks
        BY <1>3, <1>4, <1>5 DEF TimedItems
    <2>2. T \cap N = {}
        <3> SUFFICES ASSUME NEW a \in A, NEW b \in B \cup O, a[1] = b[1] PROVE FALSE
            BY <1>4
        <3>1. a = b
            BY <1>3, <1>5
        <3> QED BY <1>3, <1>5, <3>1
    <2>3. Timed(s) = T \cup N
        BY <1>3, <1>4, <1>5
    <2> QED BY <2>1, <2>2, <2>3 DEF Lists, Asleep
<1>7. PICK woken : woken = [i \in 1..h |-> s.delayed[i][1]] /\ Once(woken, Tasks, T)
    <2>1. Len(due) = h /\ \A i \in 1..h : due[i] = s.delayed[i]
        <3>1. 1 \in Int /\ h \in Int /\ \A i \in 1..h : s.delayed[i] \in TimedItems
            <4>1. \A i \in 1..n : s.delayed[i] \in TimedItems
                BY <1>0, <1>1, ElementOfSeq
            <4> QED BY <4>1
        <3>2. /\ Len(due) = (IF 1 <= h THEN h - 1 + 1 ELSE 0)
              /\ \A i \in 1..(h - 1 + 1) : due[i] = s.delayed[1 + i - 1]
            BY <1>3, <3>1, SubSeqProperties
        <3>3. (IF 1 <= h THEN h - 1 + 1 ELSE 0) = h /\ h - 1 + 1 = h /\ \A i \in 1..h : 1 + i - 1 = i
            OBVIOUS
        <3>4. Len(due) = h
            BY <3>2, <3>3, Zenon
        <3> QED BY <3>2, <3>3, <3>4
    <2>2. h \in Nat /\ \A a, b \in A : a[1] = b[1] => a = b
        BY <1>3, <1>5
    <2>3. Once([i \in 1..h |-> due[i][1]], Tasks, T)
        BY <1>3, <1>4, <2>1, <2>2, OnceWoken
    <2>4. [i \in 1..h |-> due[i][1]] = [i \in 1..h |-> s.delayed[i][1]]
        BY <2>1
    <2> QED BY <2>3, <2>4
<1>8. PICK ready : /\ ready = InsertEnd(s.ready, woken)
                   /\ Once(ready, ReadyItems, ({xListEnd} \cup (Tasks \ Asleep(s))) \cup T)
    <2>1. Once(s.ready, ReadyItems, {xListEnd} \cup (Tasks \ Asleep(s)))
        BY DEF Lists
    <2>2. s.ready # <<>>
        BY <2>1 DEF Once, ToSet
    <2>3. Once(woken, ReadyItems, T)
        <3>1. woken \in Seq(ReadyItems)
            BY <1>7, SeqMonotonic DEF Once, ReadyItems
        <3> QED BY <1>7, <3>1 DEF Once
    <2>4. ({xListEnd} \cup (Tasks \ Asleep(s))) \cap T = {}
        BY <1>6, KernelAssumption
    <2> QED BY <2>1, <2>2, <2>3, <2>4, OnceInsertEnd
<1>9. PICK events :
        /\ events = [e \in Event |-> Kept(s.events[e], {i \in DOMAIN s.events[e] :
                                                          s.events[e][i] \notin T})]
        /\ \A e \in Event : Once(events[e], Tasks, Waits(s, e) \ T)
    <2>1. \A e \in Event : Once(s.events[e], Tasks, Waits(s, e))
        BY <1>0 DEF Lists, Once, Waits, State
    <2>2. ASSUME NEW e \in Event
          PROVE  Once(Kept(s.events[e], {i \in DOMAIN s.events[e] : s.events[e][i] \notin T}),
                      Tasks, Waits(s, e) \ T)
        BY <2>1, OnceWithout
    <2> DEFINE kept(e) == Kept(s.events[e], {i \in DOMAIN s.events[e] : s.events[e][i] \notin T})
    <2>3. \A e \in Event : Once(kept(e), Tasks, Waits(s, e) \ T)
        BY <2>2
    <2> HIDE DEF kept
    <2>4. \E events : /\ events = [e \in Event |-> kept(e)]
                      /\ \A e \in Event : Once(events[e], Tasks, Waits(s, e) \ T)
        <3>1. PICK f : f = [e \in Event |-> kept(e)]
            OBVIOUS
        <3>2. \A e \in Event : f[e] = kept(e)
            BY <3>1
        <3>3. \A e \in Event : Once(f[e], Tasks, Waits(s, e) \ T)
            BY <2>3, <3>2
        <3> QED BY <3>1, <3>3
    <2> QED BY <2>4 DEF kept
<1>10. s2 = [s EXCEPT !.delayed = rest, !.xNextTaskUnblockTime = UnblockTime(rest),
                      !.ready = ready, !.events = events]
    <2>1. ToSet(woken) = T
        BY <1>7 DEF Once
    <2> QED BY <1>1, <1>3, <1>7, <1>8, <1>9, <2>1 DEF Unblock
<1>11. /\ rest \in Seq(TimedItems) /\ UnblockTime(rest) \in Ticks /\ ready \in Seq(ReadyItems)
       /\ events \in [Event -> Seq(Tasks)]
    BY <1>3, <1>8, <1>9, UnblockTimeIs DEF Once
<1>12. /\ s2 \in State /\ Unticked(s, s2) /\ s2.uxPendedTicks = s.uxPendedTicks
       /\ s2.xTickCount = s.xTickCount /\ s2.xNumOfOverflows = s.xNumOfOverflows
       /\ s2.delayed = rest /\ s2.overflow = s.overflow /\ s2.suspended = s.suspended
       /\ s2.ready = ready /\ s2.events = events
    BY <1>0, <1>10, <1>11 DEF State, Unticked
<1>13. /\ Timed(s2) = N /\ Asleep(s2) = N \cup s.suspended
       /\ \A e \in Event : Waits(s2, e) = Waits(s, e) \ T
    BY <1>3, <1>4, <1>9, <1>12 DEF Timed, Asleep, Waits, Once
<1>14. Lists(s2)
    <2>1. Once(s2.ready, ReadyItems, {xListEnd} \cup (Tasks \ Asleep(s2)))
        <3>1. Asleep(s2) = Asleep(s) \ T
            BY <1>6, <1>13 DEF Asleep
        <3>2. ({xListEnd} \cup (Tasks \ Asleep(s))) \cup T = {xListEnd} \cup (Tasks \ Asleep(s2))
            BY <1>6, <3>1
        <3> QED BY <1>8, <1>12, <3>2
    <2>2. /\ IsInjective(s2.delayed) /\ IsInjective(s2.overflow)
          /\ ToSet(s2.delayed) = B /\ ToSet(s2.overflow) = O
        BY <1>3, <1>4, <1>12 DEF Once, Lists
    <2>3. /\ B \cap O = {} /\ \A a, b \in B \cup O : a[1] = b[1] => a = b
        BY <1>3, <1>5
    <2>4. Timed(s2) \cap s2.suspended = {}
        BY <1>6, <1>12, <1>13 DEF Lists
    <2>5. \A e \in Event : IsInjective(s2.events[e]) /\ Waits(s2, e) \subseteq Asleep(s2)
        <3>1. \A e \in Event : IsInjective(s2.events[e])
            BY <1>9, <1>12 DEF Once
        <3>2. Asleep(s2) = Asleep(s) \ T
            BY <1>6, <1>13 DEF Asleep
        <3> QED BY <1>13, <3>1, <3>2 DEF Lists
    <2>6. \A e, f \in Event : e # f => Waits(s2, e) \cap Waits(s2, f) = {}
        BY <1>13 DEF Lists
    <2> QED BY <1>12, <2>1, <2>2, <2>3, <2>4, <2>5, <2>6 DEF Lists
<1>15. Later(s, s2)
    BY <1>6, <1>12, <1>13, <1>14 DEF Later
<1> QED BY <1>12, <1>15

---------------------------------------------------------------------------
(* The end of a suspension. *)

\* taskSWITCH_DELAYED_LISTS changes which list is which, not who is in them.
LEMMA SwappedLists ==
    ASSUME NEW s, Lists(s), NEW s2, s2 = taskSWITCH_DELAYED_LISTS(s)
    PROVE  /\ Later(s, s2) /\ Unticked(s, s2) /\ s2.uxPendedTicks = s.uxPendedTicks
<1>0. s \in State
    BY DEF Lists
<1>1. /\ s2 = [s EXCEPT !.delayed = s.overflow, !.overflow = s.delayed,
                        !.xNumOfOverflows = (s.xNumOfOverflows + 1) % OverflowWrap,
                        !.xNextTaskUnblockTime = UnblockTime(s.overflow)]
      /\ UnblockTime(s.overflow) \in Ticks /\ (s.xNumOfOverflows + 1) % OverflowWrap \in Nat
    <2>1. UnblockTime(s.overflow) \in Ticks
        BY <1>0, UnblockTimeIs DEF State
    <2>2. (s.xNumOfOverflows + 1) % OverflowWrap \in Nat
        BY <1>0, KernelAssumption DEF State
    <2>3. s2 = [s EXCEPT !.delayed = s.overflow, !.overflow = s.delayed,
                        !.xNumOfOverflows = (s.xNumOfOverflows + 1) % OverflowWrap,
                        !.xNextTaskUnblockTime = UnblockTime(s.overflow)]
        BY <1>0 DEF State, taskSWITCH_DELAYED_LISTS
    <2> QED BY <2>1, <2>2, <2>3
<1>2. PICK time \in Ticks, over \in Nat :
        s2 = [s EXCEPT !.delayed = s.overflow, !.overflow = s.delayed,
                       !.xNumOfOverflows = over, !.xNextTaskUnblockTime = time]
    BY <1>1
<1>3. /\ s2 \in State /\ Unticked(s, s2) /\ s2.uxPendedTicks = s.uxPendedTicks
      /\ s2.delayed = s.overflow /\ s2.overflow = s.delayed /\ s2.suspended = s.suspended
      /\ s2.events = s.events /\ s2.ready = s.ready
    BY <1>0, <1>2 DEF State, Unticked
<1>4. Timed(s2) = Timed(s) /\ Asleep(s2) = Asleep(s) /\ \A e : Waits(s2, e) = Waits(s, e)
    BY <1>3 DEF Timed, Asleep, Waits
<1>5. Lists(s2)
    BY <1>3, <1>4 DEF Lists
<1> QED BY <1>3, <1>4, <1>5 DEF Later

\* xTaskIncrementTick wakes tasks or, with the scheduler suspended, owes a tick.
LEMMA TickLists ==
    ASSUME NEW s, Lists(s), NEW s2, s2 = xTaskIncrementTick(s)
    PROVE  /\ Later(s, s2) /\ Unticked(s, s2)
           /\ s2.uxPendedTicks = s.uxPendedTicks + s.uxSchedulerSuspended
<1>0. s \in State
    BY DEF Lists
<1>1. CASE s.uxSchedulerSuspended = 1
    <2>1. PICK n \in Nat : n = s.uxPendedTicks + 1
        BY <1>0 DEF State
    <2>2. s2 = [s EXCEPT !.uxPendedTicks = n]
        BY <1>1, <2>1 DEF xTaskIncrementTick
    <2>3. /\ s2 \in State /\ Unticked(s, s2) /\ s2.uxPendedTicks = n
          /\ s2.delayed = s.delayed /\ s2.overflow = s.overflow /\ s2.suspended = s.suspended
          /\ s2.events = s.events /\ s2.ready = s.ready
        BY <1>0, <2>2 DEF State, Unticked
    <2>4. Lists(s2)
        BY ONLY <2>3, Lists(s), SameReady
    <2> QED BY <1>1, <2>1, <2>3, <2>4, LaterRefl
<1>2. CASE s.uxSchedulerSuspended = 0
    <2>1. PICK now \in Ticks : now = (s.xTickCount + 1) % TickWrap
        BY <1>0, KernelAssumption DEF State, Ticks, portMAX_DELAY
    <2>2. PICK u : u = [s EXCEPT !.xTickCount = now]
        OBVIOUS
    <2>3. PICK v : v = IF now = 0 THEN taskSWITCH_DELAYED_LISTS(u) ELSE u
        OBVIOUS
    <2>4. s2 = IF now >= v.xNextTaskUnblockTime THEN Unblock(v) ELSE v
        BY <1>2, <2>1, <2>2, <2>3 DEF xTaskIncrementTick
    <2>5. /\ u \in State /\ Unticked(s, u) /\ u.uxPendedTicks = s.uxPendedTicks
          /\ u.delayed = s.delayed /\ u.overflow = s.overflow /\ u.suspended = s.suspended
          /\ u.events = s.events /\ u.ready = s.ready
        BY <1>0, <2>2 DEF State, Unticked
    <2>6. Lists(u) /\ Later(s, u)
        <3>1. Lists(u)
            BY ONLY <2>5, Lists(s), SameReady
        <3> QED BY ONLY <2>5, <3>1, Lists(s), LaterRefl
    <2>7. Later(u, v) /\ Unticked(u, v) /\ v.uxPendedTicks = u.uxPendedTicks
        <3>1. Later(u, u) /\ Unticked(u, u)
            BY <2>5, <2>6, LaterRefl DEF Unticked
        <3> QED BY <2>3, <2>6, <3>1, SwappedLists
    <2>8. Later(v, s2) /\ Unticked(v, s2) /\ s2.uxPendedTicks = v.uxPendedTicks
        <3>0. Lists(v)
            BY <2>7 DEF Later
        <3>1. Later(v, v) /\ Unticked(v, v)
            BY <2>7, <3>0, LaterRefl DEF Unticked
        <3> QED BY <2>4, <3>0, <3>1, UnblockLists
    <2>9. Later(s, s2)
        <3>1. Lists(u) /\ Lists(v)
            BY <2>6, <2>7 DEF Later
        <3>2. Later(u, s2)
            BY <2>7, <2>8, <3>1, LaterTrans
        <3> QED BY <2>6, <3>2, LaterTrans
    <2>10. Unticked(s, s2)
        BY <2>5, <2>7, <2>8 DEF Unticked
    <2>11. s2.uxPendedTicks = s.uxPendedTicks + 0
        BY <1>0, <2>5, <2>7, <2>8 DEF State
    <2> QED BY <1>2, <2>9, <2>10, <2>11
<1> QED BY <1>0, <1>1, <1>2 DEF State

\* The steps of xTaskResumeAll, a tick being owed or not.
MakesUp(s, u, v, w, s2) ==
    /\ u = [s EXCEPT !.uxSchedulerSuspended = 0]
    /\ v = IF s.uxPendedTicks = 0 THEN u ELSE xTaskIncrementTick(u)
    /\ w = [v EXCEPT !.uxPendedTicks = 0]
    /\ s2 = IF w.xYieldPending THEN vTaskSwitchContext(w) ELSE w

\* The loop of xTaskResumeAll is over after at most one tick.
LEMMA ResumeMakesUp ==
    ASSUME NEW s, s.uxPendedTicks \in {0, 1}, NEW s2, s2 = xTaskResumeAll(s)
    PROVE  \E u, v, w : MakesUp(s, u, v, w, s2)
<1> DEFINE u == [s EXCEPT !.uxSchedulerSuspended = 0]
           step1(f, n) == IF n = 0 THEN u ELSE xTaskIncrementTick(f[n - 1])
           f0 == [n \in 0..s.uxPendedTicks |-> IF n = 0 THEN u ELSE xTaskIncrementTick(u)]
           after[n \in 0..s.uxPendedTicks] ==
               IF n = 0 THEN [s EXCEPT !.uxSchedulerSuspended = 0]
               ELSE xTaskIncrementTick(after[n - 1])
<1>1. f0 = [n \in 0..s.uxPendedTicks |-> step1(f0, n)]
    <2>1. 0 \in 0..s.uxPendedTicks /\ f0[0] = u
        OBVIOUS
    <2>2. \A n \in 0..s.uxPendedTicks : n = 0 \/ n - 1 = 0
        OBVIOUS
    <2> QED BY <2>1, <2>2
<1>2. after = [n \in 0..s.uxPendedTicks |-> step1(after, n)]
    BY <1>1
<1>3. after[s.uxPendedTicks] = IF s.uxPendedTicks = 0 THEN u ELSE xTaskIncrementTick(u)
    <2> HIDE DEF after, u
    <2>1. 0 \in 0..s.uxPendedTicks /\ s.uxPendedTicks \in 0..s.uxPendedTicks
        OBVIOUS
    <2>2. after[0] = u
        BY <1>2, <2>1
    <2>3. CASE s.uxPendedTicks = 0
        BY <2>2, <2>3
    <2>4. CASE s.uxPendedTicks = 1
        <3>1. after[1] = xTaskIncrementTick(after[1 - 1])
            BY <1>2, <2>1, <2>4
        <3> QED BY <2>2, <2>4, <3>1
    <2> QED BY <2>3, <2>4
<1> DEFINE made == [after[s.uxPendedTicks] EXCEPT !.uxPendedTicks = 0]
<1>4. s2 = IF made.xYieldPending THEN vTaskSwitchContext(made) ELSE made
    BY DEF xTaskResumeAll
<1> DEFINE v == after[s.uxPendedTicks]
<1>5. v = (IF s.uxPendedTicks = 0 THEN u ELSE xTaskIncrementTick(u))
      /\ made = [v EXCEPT !.uxPendedTicks = 0]
    BY <1>3
<1> HIDE DEF u, v, made, after
<1>6. u = [s EXCEPT !.uxSchedulerSuspended = 0]
    BY DEF u
<1>7. MakesUp(s, u, v, made, s2)
    BY <1>4, <1>5, <1>6 DEF MakesUp
<1> QED BY <1>7

\* After xTaskResumeAll the scheduler runs again and no tick is owed.
LEMMA ResumeLists ==
    ASSUME NEW s, Lists(s), s.uxPendedTicks \in {0, 1}, NEW s2, s2 = xTaskResumeAll(s)
    PROVE  /\ Later(s, s2) /\ s2.uxSchedulerSuspended = 0 /\ s2.uxPendedTicks = 0
           /\ s.xYieldPending => s2.pxCurrentTCB \in {Idle} \cup (Tasks \ Asleep(s2))
           /\ ~s.xYieldPending => s2.pxCurrentTCB = s.pxCurrentTCB
<1>0. s \in State
    BY DEF Lists
<1>1. PICK u, v, w :
        /\ u = [s EXCEPT !.uxSchedulerSuspended = 0]
        /\ v = IF s.uxPendedTicks = 0 THEN u ELSE xTaskIncrementTick(u)
        /\ w = [v EXCEPT !.uxPendedTicks = 0]
        /\ s2 = IF w.xYieldPending THEN vTaskSwitchContext(w) ELSE w
    <2>1. PICK u, v, w : MakesUp(s, u, v, w, s2)
        BY ResumeMakesUp
    <2> QED BY <2>1 DEF MakesUp
<1>2. /\ u \in State /\ u.uxSchedulerSuspended = 0 /\ u.pxCurrentTCB = s.pxCurrentTCB
      /\ u.xYieldPending = s.xYieldPending /\ u.ready = s.ready /\ u.events = s.events
      /\ u.delayed = s.delayed /\ u.overflow = s.overflow /\ u.suspended = s.suspended
    BY <1>0, <1>1 DEF State
<1>3. Lists(u) /\ Later(s, u)
    <2>1. Lists(u)
        BY ONLY <1>2, Lists(s), SameReady
    <2> QED BY ONLY <1>2, <2>1, Lists(s), LaterRefl
<1>4. Later(u, v) /\ Unticked(u, v)
    <2>1. Later(u, u) /\ Unticked(u, u)
        BY <1>2, <1>3, LaterRefl DEF Unticked
    <2> QED BY <1>1, <1>3, <2>1, TickLists
<1>5. v \in State /\ Lists(v)
    BY <1>4 DEF Later, Unticked
<1>6. /\ w \in State /\ w.uxSchedulerSuspended = 0 /\ w.pxCurrentTCB = s.pxCurrentTCB
      /\ w.xYieldPending = s.xYieldPending /\ w.ready = v.ready /\ w.events = v.events
      /\ w.delayed = v.delayed /\ w.overflow = v.overflow /\ w.suspended = v.suspended
      /\ w.uxPendedTicks = 0
    <2>1. /\ v.uxSchedulerSuspended = 0 /\ v.pxCurrentTCB = s.pxCurrentTCB
          /\ v.xYieldPending = s.xYieldPending
        BY <1>2, <1>4 DEF Unticked
    <2> QED BY <1>1, <1>5, <2>1 DEF State
<1>7. Lists(w) /\ Later(v, w)
    <2>1. Lists(w)
        BY ONLY <1>5, <1>6, SameReady
    <2> QED BY ONLY <1>5, <1>6, <2>1, LaterRefl
<1>8. Later(s, w)
    BY <1>3, <1>4, <1>5, <1>7, LaterTrans
<1>9. CASE ~s.xYieldPending
    BY <1>1, <1>6, <1>8, <1>9
<1>10. CASE s.xYieldPending
    <2>1. s2 = vTaskSwitchContext(w)
        BY <1>1, <1>6, <1>10
    <2>2. /\ Lists(s2) /\ Unswitched(w, s2)
          /\ s2.pxCurrentTCB \in {Idle} \cup (Tasks \ Asleep(w))
        BY <1>6, <1>7, <2>1, SwitchLists
    <2>3. Later(w, s2) /\ Asleep(s2) = Asleep(w)
        BY <1>7, <2>2, LaterRefl DEF Unswitched, Asleep, Timed
    <2>4. Later(s, s2)
        BY <1>7, <1>8, <2>3, LaterTrans
    <2> QED BY <1>6, <1>10, <2>2, <2>3, <2>4 DEF Unswitched
<1> QED BY <1>9, <1>10

---------------------------------------------------------------------------
(* Sleeping. *)

\* The current task has gone to sleep.
Sleeps(s, s2) ==
    /\ Lists(s2) /\ Unticked(s, s2) /\ s2.uxPendedTicks = s.uxPendedTicks
    /\ s2.events = s.events /\ Asleep(s2) = Asleep(s) \cup {s.pxCurrentTCB}
    /\ s.suspended \subseteq s2.suspended /\ s2.suspended \subseteq s.suspended \cup {s.pxCurrentTCB}

\* The current task goes from the ready list to one of the delayed ones.
LEMMA TimedLists ==
    ASSUME NEW s, Lists(s), NEW t, t = s.pxCurrentTCB, t \in Tasks \ Asleep(s),
           NEW s2 \in State, NEW wake \in Ticks, Unticked(s, s2), s2.events = s.events,
           s2.suspended = s.suspended, s2.ready = Removed(s.ready, t),
           s2.uxPendedTicks = s.uxPendedTicks,
           \/ s2.delayed = s.delayed /\ s2.overflow = Insert(s.overflow, <<t, wake>>)
           \/ s2.delayed = Insert(s.delayed, <<t, wake>>) /\ s2.overflow = s.overflow
    PROVE  Sleeps(s, s2) /\ s2.suspended = s.suspended
<1>0. s \in State
    BY DEF Lists
<1>1. PICK D, O : D = ToSet(s.delayed) /\ O = ToSet(s.overflow)
    OBVIOUS
<1>2. PICK item : item = <<t, wake>> /\ item[1] = t /\ item \in TimedItems
    BY DEF TimedItems
<1>3. /\ Once(s.delayed, TimedItems, D) /\ Once(s.overflow, TimedItems, O) /\ D \cap O = {}
      /\ \A a, b \in D \cup O : a[1] = b[1] => a = b
      /\ Timed(s) = {a[1] : a \in D \cup O}
    BY <1>0, <1>1 DEF Lists, State, Once, Timed
<1>4. /\ \A a \in D \cup O : a[1] # t
      /\ item \notin D \cup O /\ t \notin Timed(s) /\ t \notin s.suspended
    BY <1>2, <1>3 DEF Asleep
<1>5. PICK D2, O2 :
        /\ Once(s2.delayed, TimedItems, D2) /\ Once(s2.overflow, TimedItems, O2)
        /\ \/ D2 = D /\ O2 = O \cup {item}
           \/ D2 = D \cup {item} /\ O2 = O
    <2>1. Once(Insert(s.delayed, item), TimedItems, D \cup {item})
        BY <1>2, <1>3, <1>4, OnceInsert DEF TimedItems
    <2>2. Once(Insert(s.overflow, item), TimedItems, O \cup {item})
        BY <1>2, <1>3, <1>4, OnceInsert DEF TimedItems
    <2> QED BY <1>2, <1>3, <2>1, <2>2
<1>6. /\ D2 \cup O2 = (D \cup O) \cup {item} /\ D2 \cap O2 = {}
      /\ \A a, b \in D2 \cup O2 : a[1] = b[1] => a = b
    BY <1>2, <1>3, <1>4, <1>5
<1>7. Timed(s2) = Timed(s) \cup {t}
    <2>1. Timed(s2) = {a[1] : a \in D2 \cup O2}
        BY <1>5 DEF Timed, Once
    <2> QED BY <1>2, <1>3, <1>6, <2>1
<1>8. Asleep(s2) = Asleep(s) \cup {t} /\ \A e : Waits(s2, e) = Waits(s, e)
    BY <1>7 DEF Asleep, Waits
<1>9. Once(s2.ready, ReadyItems, {xListEnd} \cup (Tasks \ Asleep(s2)))
    <2>1. Once(s.ready, ReadyItems, {xListEnd} \cup (Tasks \ Asleep(s)))
        BY DEF Lists
    <2>2. Once(s2.ready, ReadyItems, ({xListEnd} \cup (Tasks \ Asleep(s))) \ {t})
        BY <2>1, OnceRemoved
    <2>3. ({xListEnd} \cup (Tasks \ Asleep(s))) \ {t} = {xListEnd} \cup (Tasks \ Asleep(s2))
        BY <1>8, KernelAssumption
    <2> QED BY <2>2, <2>3
<1>10. Lists(s2)
    <2>1. /\ IsInjective(s2.delayed) /\ IsInjective(s2.overflow)
          /\ ToSet(s2.delayed) = D2 /\ ToSet(s2.overflow) = O2
        BY <1>5 DEF Once
    <2>2. Timed(s2) \cap s2.suspended = {}
        BY <1>4, <1>7 DEF Lists
    <2>3. \A e \in Event : IsInjective(s2.events[e]) /\ Waits(s2, e) \subseteq Asleep(s2)
        BY <1>8 DEF Lists
    <2>4. \A e, f \in Event : e # f => Waits(s2, e) \cap Waits(s2, f) = {}
        BY <1>8 DEF Lists
    <2> QED BY <1>6, <1>9, <2>1, <2>2, <2>3, <2>4 DEF Lists
<1> QED BY <1>8, <1>10 DEF Sleeps

\* prvAddCurrentTaskToDelayedList puts the current task to sleep, whichever list
\* it goes to.
LEMMA SleepLists ==
    ASSUME NEW s, Lists(s), s.pxCurrentTCB \in Tasks \ Asleep(s), NEW ticks \in Ticks,
           NEW b \in BOOLEAN, NEW s2, s2 = prvAddCurrentTaskToDelayedList(s, ticks, b)
    PROVE  Sleeps(s, s2) /\ (~b => s2.suspended = s.suspended)
<1>0. s \in State
    BY DEF Lists
<1>1. PICK t : t = s.pxCurrentTCB /\ t \in Tasks \ Asleep(s)
    OBVIOUS
<1>2. PICK wake \in Ticks : wake = (s.xTickCount + ticks) % TickWrap
    <2>1. s.xTickCount \in Nat /\ ticks \in Nat /\ TickWrap \in Nat \ {0}
        BY <1>0, KernelAssumption DEF State, Ticks, portMAX_DELAY
    <2>2. (s.xTickCount + ticks) % TickWrap \in 0..(TickWrap - 1)
        BY ONLY <2>1
    <2> QED BY <2>2 DEF Ticks, portMAX_DELAY
<1>3. PICK ready : /\ ready = Removed(s.ready, t)
                   /\ Once(ready, ReadyItems, ({xListEnd} \cup (Tasks \ Asleep(s))) \ {t})
    BY OnceRemoved DEF Lists
<1>4. ready \in Seq(ReadyItems)
    BY <1>3 DEF Once
<1>5. PICK u : u = [s EXCEPT !.ready = ready]
    OBVIOUS
<1>6. s2 = IF ticks = portMAX_DELAY /\ b
           THEN [u EXCEPT !.suspended = u.suspended \cup {t}]
           ELSE IF wake < s.xTickCount
           THEN [u EXCEPT !.overflow = Insert(u.overflow, <<t, wake>>)]
           ELSE [u EXCEPT !.delayed = Insert(u.delayed, <<t, wake>>),
                          !.xNextTaskUnblockTime = IF wake < u.xNextTaskUnblockTime THEN wake
                                                   ELSE u.xNextTaskUnblockTime]
    BY <1>0, <1>1, <1>2, <1>3, <1>5 DEF prvAddCurrentTaskToDelayedList, State
<1>7. /\ u \in State /\ u.ready = ready /\ Unticked(s, u) /\ u.uxPendedTicks = s.uxPendedTicks
      /\ u.delayed = s.delayed /\ u.overflow = s.overflow /\ u.suspended = s.suspended
      /\ u.events = s.events /\ u.xNextTaskUnblockTime = s.xNextTaskUnblockTime
    BY <1>0, <1>4, <1>5 DEF State, Unticked
<1>8. CASE ticks = portMAX_DELAY /\ b
    <2>0. PICK suspended \in SUBSET Tasks : suspended = s.suspended \cup {t}
        BY <1>0, <1>1 DEF State
    <2>1. s2 = [u EXCEPT !.suspended = suspended]
        BY <1>6, <1>7, <1>8, <2>0
    <2>2. /\ s2 \in State /\ Unticked(s, s2) /\ s2.uxPendedTicks = s.uxPendedTicks
          /\ s2.delayed = s.delayed /\ s2.overflow = s.overflow /\ s2.events = s.events
          /\ s2.suspended = s.suspended \cup {t} /\ s2.ready = ready
        BY <1>7, <2>0, <2>1 DEF State, Unticked
    <2>3. /\ Timed(s2) = Timed(s) /\ Asleep(s2) = Asleep(s) \cup {t}
          /\ \A e : Waits(s2, e) = Waits(s, e)
        BY <2>2 DEF Timed, Asleep, Waits
    <2>4. Once(s2.ready, ReadyItems, {xListEnd} \cup (Tasks \ Asleep(s2)))
        <3>1. ({xListEnd} \cup (Tasks \ Asleep(s))) \ {t} = {xListEnd} \cup (Tasks \ Asleep(s2))
            BY <1>1, <2>3, KernelAssumption
        <3> QED BY <1>3, <2>2, <3>1
    <2>5. Timed(s2) \cap s2.suspended = {}
        BY <1>1, <2>2, <2>3 DEF Lists, Asleep
    <2>6. Lists(s2)
        BY <2>2, <2>3, <2>4, <2>5 DEF Lists
    <2> QED BY <1>1, <1>8, <2>2, <2>3, <2>6 DEF Sleeps
<1>9. CASE ~(ticks = portMAX_DELAY /\ b) /\ wake < s.xTickCount
    <2>1. PICK list : list = Insert(s.overflow, <<t, wake>>)
        OBVIOUS
    <2>2. s2 = [u EXCEPT !.overflow = list]
        BY <1>6, <1>7, <1>9, <2>1
    <2>3. list \in Seq(TimedItems)
        <3>1. Once(s.overflow, TimedItems, ToSet(s.overflow)) /\ <<t, wake>> \in TimedItems
            BY <1>0, <1>1 DEF Lists, Once, State, TimedItems
        <3>2. <<t, wake>> \notin ToSet(s.overflow)
            BY <1>1 DEF Asleep, Timed
        <3> QED BY <2>1, <3>1, <3>2, OnceInsert DEF Once, TimedItems
    <2>4. /\ s2 \in State /\ Unticked(s, s2) /\ s2.uxPendedTicks = s.uxPendedTicks
          /\ s2.delayed = s.delayed /\ s2.overflow = list /\ s2.events = s.events
          /\ s2.suspended = s.suspended /\ s2.ready = ready
        BY <1>7, <2>2, <2>3 DEF State, Unticked
    <2> QED BY <1>1, <1>3, <2>1, <2>4, TimedLists
<1>10. CASE ~(ticks = portMAX_DELAY /\ b) /\ ~(wake < s.xTickCount)
    <2>1. PICK list, time : /\ list = Insert(s.delayed, <<t, wake>>)
                            /\ time = IF wake < s.xNextTaskUnblockTime THEN wake
                                      ELSE s.xNextTaskUnblockTime
        OBVIOUS
    <2>2. s2 = [u EXCEPT !.delayed = list, !.xNextTaskUnblockTime = time]
        BY <1>6, <1>7, <1>10, <2>1
    <2>3. list \in Seq(TimedItems)
        <3>1. Once(s.delayed, TimedItems, ToSet(s.delayed)) /\ <<t, wake>> \in TimedItems
            BY <1>0, <1>1 DEF Lists, Once, State, TimedItems
        <3>2. <<t, wake>> \notin ToSet(s.delayed)
            BY <1>1 DEF Asleep, Timed
        <3> QED BY <2>1, <3>1, <3>2, OnceInsert DEF Once, TimedItems
    <2>4. time \in Ticks
        BY <1>0, <2>1 DEF State
    <2>5. /\ s2 \in State /\ Unticked(s, s2) /\ s2.uxPendedTicks = s.uxPendedTicks
          /\ s2.delayed = list /\ s2.overflow = s.overflow /\ s2.events = s.events
          /\ s2.suspended = s.suspended /\ s2.ready = ready
        BY <1>7, <2>2, <2>3, <2>4 DEF State, Unticked
    <2> QED BY <1>1, <1>3, <2>1, <2>5, TimedLists
<1> QED BY <1>8, <1>9, <1>10

---------------------------------------------------------------------------
(* Waiting for an event and being woken. *)

\* The current task sleeps and waits for an event.
SleepsFor(s, s2, event) ==
    /\ Lists(s2) /\ Unticked(s, s2) /\ s2.uxPendedTicks = s.uxPendedTicks
    /\ Asleep(s2) = Asleep(s) \cup {s.pxCurrentTCB}
    /\ s2.suspended \subseteq s.suspended \cup {s.pxCurrentTCB}
    /\ Waits(s2, event) = Waits(s, event) \cup {s.pxCurrentTCB}
    /\ \A e \in Event \ {event} : Waits(s2, e) = Waits(s, e)

\* The list of one event is another one.
Changed(f, E, S, e, list, g) ==
    /\ g = [f EXCEPT ![e] = list] /\ g \in [E -> S] /\ g[e] = list
    /\ \A d \in E \ {e} : g[d] = f[d]

\* This is what EXCEPT does.
LEMMA EventChanged ==
    ASSUME NEW E, NEW S, NEW f \in [E -> S], NEW e \in E, NEW list \in S
    PROVE  Changed(f, E, S, e, list, [f EXCEPT ![e] = list])
BY DEF Changed

\* vTaskPlaceOnEventList: the current task sleeps and waits for the event.
LEMMA PlaceLists ==
    ASSUME NEW s, Lists(s), s.pxCurrentTCB \in Tasks \ Asleep(s), NEW ticks \in Ticks,
           NEW event \in Event, NEW s2, s2 = vTaskPlaceOnEventList(s, event, ticks)
    PROVE  SleepsFor(s, s2, event)
<1>0. s \in State
    BY DEF Lists
<1>1. PICK t : t = s.pxCurrentTCB /\ t \in Tasks \ Asleep(s)
    OBVIOUS
<1>2. PICK list : list = Append(s.events[event], t) /\ Once(list, Tasks, Waits(s, event) \cup {t})
    <2>1. Once(s.events[event], Tasks, Waits(s, event)) /\ t \notin Waits(s, event)
        BY <1>0, <1>1 DEF Lists, Once, Waits, State
    <2> QED BY <1>1, <2>1, OnceAppend
<1>3. PICK events : /\ events = [s.events EXCEPT ![event] = list]
                    /\ events \in [Event -> Seq(Tasks)] /\ events[event] = list
                    /\ \A e \in Event \ {event} : events[e] = s.events[e]
    <2>1. s.events \in [Event -> Seq(Tasks)] /\ list \in Seq(Tasks)
        BY <1>0, <1>2 DEF State, Once
    <2>2. Changed(s.events, Event, Seq(Tasks), event, list, [s.events EXCEPT ![event] = list])
        BY ONLY <2>1, event \in Event, EventChanged
    <2>3. PICK events : Changed(s.events, Event, Seq(Tasks), event, list, events)
        BY <2>2
    <2> QED BY <2>3 DEF Changed
\* Of the two lists of a task the scheduler's is written last.
<1>4. PICK u : u = prvAddCurrentTaskToDelayedList(s, ticks, TRUE)
    OBVIOUS
<1>5. Sleeps(s, u)
    BY <1>4, SleepLists
<1>6. s2 = [u EXCEPT !.events = events]
    <2>1. s2 = prvAddCurrentTaskToDelayedList([s EXCEPT !.events = events], ticks, TRUE)
        BY <1>0, <1>1, <1>2, <1>3 DEF vTaskPlaceOnEventList, State
    <2> QED BY <1>0, <1>4, <2>1 DEF prvAddCurrentTaskToDelayedList, State
<1>7. /\ s2 \in State /\ Unticked(s, s2) /\ s2.uxPendedTicks = s.uxPendedTicks
      /\ s2.delayed = u.delayed /\ s2.overflow = u.overflow /\ s2.suspended = u.suspended
      /\ s2.ready = u.ready /\ s2.events = events
    <2>1. u \in State /\ Unticked(s, u) /\ u.uxPendedTicks = s.uxPendedTicks
        BY <1>5 DEF Sleeps, Lists
    <2> QED BY <1>3, <1>6, <2>1 DEF State, Unticked
<1>8. Timed(s2) = Timed(u) /\ Asleep(s2) = Asleep(u) /\ Asleep(u) = Asleep(s) \cup {t}
    BY <1>1, <1>5, <1>7 DEF Timed, Asleep, Sleeps
<1>9. /\ Waits(s2, event) = Waits(s, event) \cup {t}
      /\ \A e \in Event \ {event} : Waits(s2, e) = Waits(s, e)
    BY <1>2, <1>3, <1>7 DEF Waits, Once
<1>10. Lists(s2)
    <2>1. \A e \in Event : IsInjective(s2.events[e]) /\ Waits(s2, e) \subseteq Asleep(s2)
        BY <1>2, <1>3, <1>7, <1>8, <1>9 DEF Lists, Once
    <2>2. \A e, f \in Event : e # f => Waits(s2, e) \cap Waits(s2, f) = {}
        <3>1. \A e \in Event : t \notin Waits(s, e)
            BY <1>1 DEF Lists
        <3> QED BY <1>9, <3>1 DEF Lists
    <2>3. Lists(u)
        BY <1>5 DEF Sleeps
    <2> QED BY <1>7, <1>8, <2>1, <2>2, <2>3 DEF Lists
<1> QED BY <1>1, <1>5, <1>7, <1>8, <1>9, <1>10 DEF SleepsFor, Sleeps

\* The first task that waits for an event, if there is one, is awake.
Wakes(s, s2, event) ==
    /\ Lists(s2) /\ Unticked(s, s2) /\ s2.uxPendedTicks = s.uxPendedTicks
    /\ \A e \in Event \ {event} : Waits(s2, e) = Waits(s, e)
    /\ \/ Waits(s, event) = {} /\ s2 = s
       \/ \E t \in Waits(s, event) :
            /\ Asleep(s2) = Asleep(s) \ {t} /\ s2.suspended = s.suspended \ {t}
            /\ Waits(s2, event) = Waits(s, event) \ {t}

\* xTaskRemoveFromEventList wakes the first one, wherever the scheduler keeps it.
LEMMA WakeLists ==
    ASSUME NEW s, Lists(s), NEW event \in Event, NEW s2, s2 = xTaskRemoveFromEventList(s, event)
    PROVE  Wakes(s, s2, event)
<1>0. s \in State
    BY DEF Lists
<1>1. CASE s.events[event] = <<>>
    <2>1. Waits(s, event) = {} /\ s2 = s
        BY <1>1 DEF Waits, ToSet, xTaskRemoveFromEventList
    <2> QED BY <1>0, <2>1 DEF Wakes, Unticked
<1>2. CASE s.events[event] # <<>>
    <2>1. PICK t, list : /\ t = Head(s.events[event]) /\ list = Tail(s.events[event])
                         /\ t \in Waits(s, event) /\ t \in Tasks
                         /\ Once(list, Tasks, Waits(s, event) \ {t})
        <3>1. Once(s.events[event], Tasks, Waits(s, event))
            BY <1>0 DEF Lists, Once, Waits, State
        <3> QED BY <1>2, <3>1, OnceTail
    <2>2. t \in Asleep(s)
        BY <2>1 DEF Lists
    <2>3. PICK D, O : D = ToSet(s.delayed) /\ O = ToSet(s.overflow)
        OBVIOUS
    <2>4. /\ Once(s.delayed, TimedItems, D) /\ Once(s.overflow, TimedItems, O) /\ D \cap O = {}
          /\ \A a, b \in D \cup O : a[1] = b[1] => a = b
          /\ Timed(s) = {a[1] : a \in D \cup O}
        BY <1>0, <2>3 DEF Lists, State, Once, Timed
    <2>5. PICK D2, O2, delayed, overflow :
            /\ delayed = Untimed(s.delayed, t) /\ Once(delayed, TimedItems, D2)
            /\ overflow = Untimed(s.overflow, t) /\ Once(overflow, TimedItems, O2)
            /\ D2 = {a \in D : a[1] # t} /\ O2 = {a \in O : a[1] # t}
        <3>1. Once(Untimed(s.delayed, t), TimedItems, {a \in D : a[1] # t})
            BY <2>4, OnceUntimed
        <3>2. Once(Untimed(s.overflow, t), TimedItems, {a \in O : a[1] # t})
            BY <2>4, OnceUntimed
        <3> QED BY <3>1, <3>2
    <2>6. PICK ready : /\ ready = InsertEnd(s.ready, <<t>>)
                       /\ Once(ready, ReadyItems, ({xListEnd} \cup (Tasks \ Asleep(s))) \cup {t})
        <3>1. Once(s.ready, ReadyItems, {xListEnd} \cup (Tasks \ Asleep(s)))
            BY DEF Lists
        <3>2. s.ready # <<>>
            BY <3>1 DEF Once, ToSet
        <3>3. Once(<<t>>, ReadyItems, {t})
            BY <2>1, OnceSingle DEF ReadyItems
        <3>4. ({xListEnd} \cup (Tasks \ Asleep(s))) \cap {t} = {}
            BY <2>1, <2>2, KernelAssumption
        <3> QED BY <3>1, <3>2, <3>3, <3>4, OnceInsertEnd
    <2>7. PICK events : /\ events = [s.events EXCEPT ![event] = list]
                        /\ events \in [Event -> Seq(Tasks)] /\ events[event] = list
                        /\ \A e \in Event \ {event} : events[e] = s.events[e]
        <3>1. s.events \in [Event -> Seq(Tasks)] /\ list \in Seq(Tasks)
            BY <1>0, <2>1 DEF State, Once
        <3>2. Changed(s.events, Event, Seq(Tasks), event, list, [s.events EXCEPT ![event] = list])
            BY ONLY <3>1, event \in Event, EventChanged
        <3>3. PICK events : Changed(s.events, Event, Seq(Tasks), event, list, events)
            BY <3>2
        <3> QED BY <3>3 DEF Changed
    <2>8. PICK suspended \in SUBSET Tasks : suspended = s.suspended \ {t}
        BY <1>0 DEF State
    <2>9. s2 = [s EXCEPT !.events = events, !.suspended = suspended, !.delayed = delayed,
                         !.overflow = overflow, !.ready = ready]
        BY <1>0, <1>2, <2>1, <2>5, <2>6, <2>7, <2>8 DEF xTaskRemoveFromEventList, State
    <2>10. /\ s2 \in State /\ Unticked(s, s2) /\ s2.uxPendedTicks = s.uxPendedTicks
           /\ s2.delayed = delayed /\ s2.overflow = overflow /\ s2.suspended = suspended
           /\ s2.ready = ready /\ s2.events = events
        <3>1. delayed \in Seq(TimedItems) /\ overflow \in Seq(TimedItems) /\ ready \in Seq(ReadyItems)
            BY <2>5, <2>6 DEF Once
        <3>2. s2 \in State
            BY ONLY <1>0, <2>7, <2>9, <3>1, suspended \in SUBSET Tasks DEF State
        <3> QED BY ONLY <1>0, <2>9, <3>2 DEF State, Unticked
    <2>11. Timed(s2) = Timed(s) \ {t} /\ Asleep(s2) = Asleep(s) \ {t}
        <3>1. Timed(s2) = {a[1] : a \in D2 \cup O2}
            BY <2>5, <2>10 DEF Timed, Once
        <3>2. D2 \cup O2 = {a \in D \cup O : a[1] # t}
            BY <2>5
        <3>3. Timed(s2) = Timed(s) \ {t}
            BY <2>4, <3>1, <3>2
        <3> QED BY <2>8, <2>10, <3>3 DEF Asleep
    <2>12. /\ Waits(s2, event) = Waits(s, event) \ {t}
           /\ \A e \in Event \ {event} : Waits(s2, e) = Waits(s, e)
        BY <2>1, <2>7, <2>10 DEF Waits, Once
    <2>13. Lists(s2)
        <3>1. Once(s2.ready, ReadyItems, {xListEnd} \cup (Tasks \ Asleep(s2)))
            <4>1. ({xListEnd} \cup (Tasks \ Asleep(s))) \cup {t} =
                  {xListEnd} \cup (Tasks \ Asleep(s2))
                BY <2>1, <2>2, <2>11
            <4> QED BY <2>6, <2>10, <4>1
        <3>2. /\ IsInjective(s2.delayed) /\ IsInjective(s2.overflow)
              /\ ToSet(s2.delayed) = D2 /\ ToSet(s2.overflow) = O2
            BY <2>5, <2>10 DEF Once
        <3>3. D2 \cap O2 = {} /\ \A a, b \in D2 \cup O2 : a[1] = b[1] => a = b
            BY <2>4, <2>5
        <3>4. Timed(s2) \cap s2.suspended = {}
            BY <2>8, <2>10, <2>11 DEF Lists
        <3>5. ASSUME NEW e \in Event
              PROVE  IsInjective(s2.events[e]) /\ Waits(s2, e) \subseteq Asleep(s2)
            <4>1. CASE e = event
                BY <2>1, <2>7, <2>10, <2>11, <2>12, <4>1 DEF Lists, Once
            <4>2. CASE e # event
                <5>1. t \notin Waits(s, e)
                    BY <2>1, <4>2 DEF Lists
                <5> QED BY <2>7, <2>10, <2>11, <2>12, <4>2, <5>1 DEF Lists
            <4> QED BY <4>1, <4>2
        <3>6. \A e, f \in Event : e # f => Waits(s2, e) \cap Waits(s2, f) = {}
            BY <2>12 DEF Lists
        <3> QED BY <2>10, <3>1, <3>2, <3>3, <3>4, <3>5, <3>6 DEF Lists
    <2> QED BY <2>1, <2>8, <2>10, <2>11, <2>12, <2>13 DEF Wakes
<1> QED BY <1>1, <1>2

---------------------------------------------------------------------------
(* The scheduler's invariant. *)

\* Where the scheduler is suspended, and all places in a call.
Inside == {"resume_again", "resume_wait", "resume_delay", "resume_timeout"}
Steps == Inside \cup {"check", "suspend", "recheck", "yield"}

\* What a task's step says of its call op and of its time en of entry.
Phase(op, st, en) ==
    /\ st \in {"suspend", "resume_again", "resume_wait", "resume_timeout"} =>
         op \in {"send", "receive"} /\ en # <<>>
    /\ st = "recheck" => op = "receive" /\ en # <<>>
    /\ st = "resume_delay" => op = "delay"
    /\ st = "yield" => op = "delay" \/ en # <<>>

\* Every task is in a call of its loop, at a place of it that its call has.
Calls ==
    /\ at \in [Tasks -> Nat] /\ \A t \in Tasks : at[t] \in DOMAIN Program[t]
    /\ wait \in [Tasks -> Ticks] /\ step \in [Tasks -> Steps]
    /\ entry \in [Tasks -> {<<>>} \cup (Nat \X Ticks)]
    /\ \A t \in Tasks : Phase(Call(t).op, step[t], entry[t])

\* The scheduler is suspended by the current task and by no other.
Scheduler ==
    /\ \A t \in Tasks : step[t] \in Inside <=> k.uxSchedulerSuspended = 1 /\ t = k.pxCurrentTCB
    /\ k.uxSchedulerSuspended = 1 => k.pxCurrentTCB \in Tasks
    /\ k.uxPendedTicks \in {0, 1} /\ ran \in 0..StepsPerTick
    /\ k.uxPendedTicks = 1 => k.uxSchedulerSuspended = 1 /\ ran = 0
    /\ k.pxCurrentTCB \in Asleep(k) =>
         step[k.pxCurrentTCB] \in {"resume_wait", "resume_delay", "yield"}

\* A task that waits for an event is in the call that does.
Waiter(t, e) ==
    /\ Call(t).q = e[1] /\ Call(t).op = e[2] /\ entry[t] # <<>>
    /\ step[t] \in {"resume_wait", "yield", "check"}

\* All that wait are, and one that sleeps without a time waits.
Waiters ==
    /\ \A e \in Event : \A t \in Waits(k, e) : Waiter(t, e)
    /\ \A t \in k.suspended : \E e \in Event : t \in Waits(k, e)

\* Tasks that have been woken, or have not slept yet, and look at the queue next.
Woken(e) == {t \in Tasks : /\ Call(t).q = e[1] /\ Call(t).op = e[2] /\ entry[t] # <<>>
                            /\ t \notin Waits(k, e)
                            /\ step[t] \in {"check", "yield", "resume_wait", "resume_again"}}
\* Items to receive, or room to send into.
Offer(e) == IF e[2] = "receive" THEN queue[e[1]].uxMessagesWaiting
            ELSE uxLength[e[1]] - queue[e[1]].uxMessagesWaiting
\* For every item (every free place) there is a task on its way to take it.
Served == \A e \in Event : Waits(k, e) # {} => Offer(e) <= Cardinality(Woken(e))

\* The inductive invariant of the scheduler.
KInv == Lists(k) /\ Calls /\ Scheduler /\ Waiters /\ Served

\* Only tasks sleep.
LEMMA AsleepTasks ==
    ASSUME NEW s, Lists(s)
    PROVE  Asleep(s) \subseteq Tasks
<1>1. s.delayed \in Seq(TimedItems) /\ s.overflow \in Seq(TimedItems) /\ s.suspended \subseteq Tasks
    BY DEF Lists, State
<1>2. ToSet(s.delayed) \subseteq TimedItems /\ ToSet(s.overflow) \subseteq TimedItems
    BY <1>1, ToSetIs DEF Places
<1> QED BY <1>1, <1>2 DEF Asleep, Timed, TimedItems

\* There are finitely many tasks.
LEMMA TasksFinite ==
    /\ IsFiniteSet(Tasks)
    /\ \A T \in SUBSET Tasks : IsFiniteSet(T) /\ Cardinality(T) \in Nat
<1>1. PICK n \in Nat : n = Len(Created) /\ Created \in [1..n -> Tasks]
    BY KernelAssumption, LenProperties
<1>2. Created \in Surjection(1..n, Tasks)
    BY <1>1 DEF Surjection, Tasks, ToSet
<1>3. IsFiniteSet(Tasks)
    BY <1>2, FS_Interval, FS_Surjection
<1> QED BY <1>3, FS_Subset, FS_CardinalityType

\* A call's arguments.
LEMMA CallTyped ==
    ASSUME Calls, NEW t \in Tasks
    PROVE  /\ Call(t).op \in {"delay", "send", "receive"} /\ Call(t).ticks \in Ticks
           /\ Call(t).op # "delay" => /\ Call(t).q \in Queues
                                      /\ <<Call(t).q, Call(t).op>> \in Event
<1>1. at[t] \in DOMAIN Program[t]
    BY DEF Calls
<1> QED BY <1>1, KernelAssumption DEF Call, Ticks, Event

\* A task that does not sleep waits for nothing.
LEMMA AwakeWaits ==
    ASSUME KInv, NEW t \in Tasks, t = k.pxCurrentTCB,
           step[t] \notin {"resume_wait", "resume_delay", "yield"}
    PROVE  t \in Tasks \ Asleep(k) /\ \A e \in Event : t \notin Waits(k, e)
BY DEF KInv, Scheduler, Lists

\* The rest of the system while task t makes its step.
Moves(t) ==
    /\ \A u \in Tasks \ {t} : at'[u] = at[u] /\ step'[u] = step[u] /\ entry'[u] = entry[u]
    /\ Calls'

\* What is left to show of a step of task t.
LEMMA Assemble ==
    ASSUME KInv, NEW t \in Tasks, t = k.pxCurrentTCB, Moves(t), Lists(k'),
           step'[t] \in Inside <=> k'.uxSchedulerSuspended = 1,
           k'.uxSchedulerSuspended = 1 => k'.pxCurrentTCB = t,
           k'.uxPendedTicks = 0, ran' \in 0..StepsPerTick,
           k'.pxCurrentTCB \in Asleep(k') =>
             k'.pxCurrentTCB = t /\ step'[t] \in {"resume_wait", "resume_delay", "yield"},
           \A e \in Event : Waits(k', e) \subseteq Waits(k, e) \cup {t},
           \A e \in Event : t \in Waits(k', e) => Waiter(t, e)',
           \A u \in k'.suspended : \E e \in Event : u \in Waits(k', e),
           Served'
    PROVE  KInv'
<1>1. Scheduler'
    <2>1. ASSUME NEW u \in Tasks
          PROVE  step'[u] \in Inside <=> k'.uxSchedulerSuspended = 1 /\ u = k'.pxCurrentTCB
        <3>1. CASE u = t BY <3>1
        <3>2. CASE u # t
            <4>1. step'[u] = step[u] /\ step[u] \notin Inside
                BY <3>2 DEF Moves, KInv, Scheduler
            <4> QED BY <3>2, <4>1
        <3> QED BY <3>1, <3>2
    <2> QED BY <2>1 DEF Scheduler
<1>2. Waiters'
    <2>1. ASSUME NEW e \in Event, NEW u \in Waits(k', e) PROVE Waiter(u, e)'
        <3>1. CASE u = t BY <2>1, <3>1
        <3>2. CASE u # t
            <4>1. u \in Waits(k, e) /\ Waiter(u, e) /\ u \in Tasks
                <5>1. u \in Waits(k, e)
                    BY <2>1, <3>2
                <5>2. Asleep(k) \subseteq Tasks
                    BY AsleepTasks DEF KInv
                <5> QED BY <5>1, <5>2 DEF KInv, Waiters, Lists
            <4>2. at'[u] = at[u] /\ step'[u] = step[u] /\ entry'[u] = entry[u]
                BY <3>2, <4>1 DEF Moves
            <4> QED BY <4>1, <4>2 DEF Waiter, Call
        <3> QED BY <3>1, <3>2
    <2> QED BY <2>1 DEF Waiters
<1> QED BY <1>1, <1>2 DEF KInv, Moves

---------------------------------------------------------------------------
(* Its start and the steps within a program. *)

\* What is offered is a number.
LEMMA Offers ==
    ASSUME QInv, NEW e \in Event
    PROVE  Offer(e) \in Nat
<1>1. e[1] \in Queues
    BY DEF Event
<1>2. PICK n \in Nat : n = uxLength[e[1]]
    BY <1>1, KernelAssumption
<1>3. queue[e[1]].uxMessagesWaiting \in 0..n
    BY <1>1, <1>2 DEF QInv, Buffer
<1> QED BY <1>2, <1>3 DEF Offer

\* The scheduler is started with all tasks ready.
LEMMA StartLists ==
    ASSUME NEW s, s = vTaskStartScheduler
    PROVE  Lists(s) /\ Asleep(s) = {} /\ \A e \in Event : Waits(s, e) = {}
<1>1. Once(Created, ReadyItems, Tasks)
    <2>1. Created \in Seq(Tasks) /\ IsInjective(Created)
        BY KernelAssumption
    <2>2. Tasks \subseteq ReadyItems
        BY DEF ReadyItems
    <2>3. Created \in Seq(ReadyItems)
        BY <2>1, <2>2
    <2> QED BY <2>1, <2>3 DEF Once, Tasks
<1>2. PICK ready : ready = Created \o <<xListEnd>> /\ Once(ready, ReadyItems, Tasks \cup {xListEnd})
    <2>1. Once(<<xListEnd>>, ReadyItems, {xListEnd}) /\ Tasks \cap {xListEnd} = {}
        BY OnceSingle, KernelAssumption DEF ReadyItems
    <2> QED BY <1>1, <2>1, OnceJoined
<1>3. PICK t \in Tasks : t = Last(Created)
    <2>1. Created \in Seq(Tasks) /\ Created # <<>>
        BY KernelAssumption
    <2>2. PICK n \in Nat : n = Len(Created) /\ n # 0
        BY <2>1
    <2> QED BY <2>1, <2>2, ElementOfSeq DEF Last
<1>4. PICK n \in Ticks : n = portMAX_DELAY /\ 0 \in Ticks
    BY KernelAssumption DEF Ticks, portMAX_DELAY
<1>5. PICK events \in [Event -> Seq(Tasks)] : events = [e \in Event |-> <<>>]
    <2>1. <<>> \in Seq(Tasks)
        OBVIOUS
    <2>2. [e \in Event |-> <<>>] \in [Event -> Seq(Tasks)]
        BY <2>1
    <2> QED BY <2>2
<1>6. s = [xTickCount |-> 0, xNumOfOverflows |-> 0, xNextTaskUnblockTime |-> n,
           uxSchedulerSuspended |-> 0, uxPendedTicks |-> 0, xYieldPending |-> FALSE,
           pxCurrentTCB |-> t, ready |-> ready,
           delayed |-> <<>>, overflow |-> <<>>, suspended |-> {}, events |-> events]
    BY <1>2, <1>3, <1>4, <1>5 DEF vTaskStartScheduler
<1>7. /\ s \in State /\ s.ready = ready /\ s.delayed = <<>> /\ s.overflow = <<>>
      /\ s.suspended = {} /\ s.events = events
    <2>1. ready \in Seq(ReadyItems)
        BY <1>2 DEF Once
    <2>2. <<>> \in Seq(TimedItems)
        OBVIOUS
    <2> QED BY <1>4, <1>6, <2>1, <2>2 DEF State
<1>8. ToSet(<<>>) = {} /\ IsInjective(<<>>)
    BY DEF ToSet, IsInjective
<1>9. Timed(s) = {} /\ Asleep(s) = {} /\ \A e \in Event : Waits(s, e) = {}
    BY <1>5, <1>7, <1>8 DEF Timed, Asleep, Waits
<1>10. Lists(s)
    <2>1. {xListEnd} \cup (Tasks \ Asleep(s)) = Tasks \cup {xListEnd}
        BY <1>9
    <2>2. \A e \in Event : IsInjective(s.events[e])
        BY <1>5, <1>7, <1>8
    <2> QED BY <1>2, <1>7, <1>8, <1>9, <2>1, <2>2 DEF Lists
<1> QED BY <1>9, <1>10

\* It holds when the scheduler starts.
LEMMA InitKernel == Init => KInv
<1> SUFFICES ASSUME Init PROVE KInv
    OBVIOUS
<1>1. Lists(k) /\ Asleep(k) = {} /\ \A e \in Event : Waits(k, e) = {}
    BY StartLists DEF Init
<1>2. Calls
    <2>1. \A t \in Tasks : 1 \in DOMAIN Program[t] /\ Program[t][1].ticks \in Ticks
        BY KernelAssumption DEF Ticks
    <2>2. \A t \in Tasks : Phase(Call(t).op, step[t], entry[t])
        BY DEF Init, Phase, Steps, Inside
    <2>3. /\ at \in [Tasks -> Nat] /\ step \in [Tasks -> Steps]
          /\ entry \in [Tasks -> {<<>>} \cup (Nat \X Ticks)]
        BY DEF Init, Steps
    <2>4. wait \in [Tasks -> Ticks]
        BY <2>1 DEF Init
    <2>5. \A t \in Tasks : at[t] \in DOMAIN Program[t]
        BY <2>1 DEF Init
    <2> QED BY <2>2, <2>3, <2>4, <2>5 DEF Calls
<1>3. Scheduler
    <2>1. k.uxSchedulerSuspended = 0 /\ k.uxPendedTicks = 0
        BY DEF Init, vTaskStartScheduler
    <2>2. \A t \in Tasks : step[t] \notin Inside
        BY DEF Init, Inside
    <2>3. ran \in 0..StepsPerTick
        BY KernelAssumption DEF Init
    <2> QED BY <1>1, <2>1, <2>2, <2>3 DEF Scheduler
<1>4. Waiters /\ Served
    BY <1>1 DEF Waiters, Served, Asleep
<1> QED BY <1>1, <1>2, <1>3, <1>4 DEF KInv

\* A call returns and the next one begins.
LEMMA ReturnsMoves ==
    ASSUME Calls, NEW t \in Tasks, Returns(t)
    PROVE  Moves(t) /\ step'[t] = "check" /\ entry'[t] = <<>>
<1>1. PICK following : /\ following = (at[t] % Len(Program[t])) + 1
                       /\ following \in Nat /\ following \in DOMAIN Program[t]
    <2>1. /\ DOMAIN Program[t] = 1..Len(Program[t]) /\ Len(Program[t]) \in Nat \ {0}
          /\ at[t] \in Nat
        BY KernelAssumption DEF Calls
    <2> QED BY <2>1
<1>2. PICK ticks \in Ticks : ticks = Program[t][following].ticks
    BY <1>1, KernelAssumption DEF Ticks
<1>3. /\ at' = [at EXCEPT ![t] = following] /\ step' = [step EXCEPT ![t] = "check"]
      /\ wait' = [wait EXCEPT ![t] = ticks] /\ entry' = [entry EXCEPT ![t] = <<>>]
    BY <1>1, <1>2 DEF Returns
<1>4. /\ \A u \in Tasks \ {t} : at'[u] = at[u] /\ step'[u] = step[u] /\ entry'[u] = entry[u]
      /\ step'[t] = "check" /\ entry'[t] = <<>>
    BY <1>3 DEF Calls
<1>5. Calls'
    <2>1. at' \in [Tasks -> Nat] /\ \A u \in Tasks : at'[u] \in DOMAIN Program[u]
        BY <1>1, <1>3 DEF Calls
    <2>2. /\ wait' \in [Tasks -> Ticks] /\ step' \in [Tasks -> Steps]
          /\ entry' \in [Tasks -> {<<>>} \cup (Nat \X Ticks)]
        BY <1>3 DEF Calls, Steps
    <2>3. \A u \in Tasks : Phase(Call(u).op', step'[u], entry'[u])
        BY <1>4 DEF Calls, Call, Phase, Steps, Inside
    <2> QED BY <2>1, <2>2, <2>3 DEF Calls
<1> QED BY <1>4, <1>5 DEF Moves

\* Within a call.
LEMMA StaysMoves ==
    ASSUME Calls, NEW t \in Tasks, NEW s \in Steps, NEW w \in Ticks,
           NEW en \in {<<>>} \cup (Nat \X Ticks), at' = at,
           step' = [step EXCEPT ![t] = s], entry' = [entry EXCEPT ![t] = en],
           wait' = [wait EXCEPT ![t] = w], Phase(Call(t).op, s, en)
    PROVE  Moves(t) /\ step'[t] = s /\ entry'[t] = en /\ Call(t)' = Call(t)
<1>1. /\ \A u \in Tasks \ {t} : at'[u] = at[u] /\ step'[u] = step[u] /\ entry'[u] = entry[u]
      /\ step'[t] = s /\ entry'[t] = en /\ \A u \in Tasks : Call(u)' = Call(u)
    BY DEF Calls, Call
<1>2. Calls'
    <2>1. /\ wait' \in [Tasks -> Ticks] /\ step' \in [Tasks -> Steps]
          /\ entry' \in [Tasks -> {<<>>} \cup (Nat \X Ticks)]
        BY DEF Calls
    <2>2. \A u \in Tasks : Phase(Call(u).op', step'[u], entry'[u])
        BY <1>1 DEF Calls
    <2>3. at' \in [Tasks -> Nat] /\ \A u \in Tasks : at'[u] \in DOMAIN Program[u]
        BY DEF Calls
    <2> QED BY <2>1, <2>2, <2>3 DEF Calls
<1> QED BY <1>1, <1>2 DEF Moves

\* The same without a change of the times.
LEMMA GoesMoves ==
    ASSUME Calls, NEW t \in Tasks, NEW s \in Steps, GoesTo(t, s), Phase(Call(t).op, s, entry[t])
    PROVE  Moves(t) /\ step'[t] = s /\ entry'[t] = entry[t] /\ Call(t)' = Call(t)
<1>1. /\ entry' = [entry EXCEPT ![t] = entry[t]] /\ wait' = [wait EXCEPT ![t] = wait[t]]
      /\ wait[t] \in Ticks /\ entry[t] \in {<<>>} \cup (Nat \X Ticks)
    BY DEF Calls, GoesTo
<1> QED BY <1>1, StaysMoves DEF GoesTo

---------------------------------------------------------------------------
(* Wake-ups. *)

\* A task that waits or was woken is still so after a step of another task,
\* unless it is the one.
LEMMA WokenOthers ==
    ASSUME KInv, NEW t \in Tasks, Moves(t), NEW e \in Event,
           Waits(k', e) \subseteq Waits(k, e) \cup {t}
    PROVE  Woken(e) \ {t} \subseteq Woken(e)'
<1> SUFFICES ASSUME NEW u \in Woken(e), u # t
             PROVE  u \in Woken(e)'
    OBVIOUS
<1>1. u \in Tasks /\ u \notin Waits(k', e)
    BY DEF Woken
<1>2. at'[u] = at[u] /\ step'[u] = step[u] /\ entry'[u] = entry[u]
    BY <1>1 DEF Moves
<1>3. Call(u)' = Call(u)
    BY <1>2 DEF Call
<1> QED BY <1>1, <1>2, <1>3 DEF Woken

\* A step that leaves the queues alone.
LEMMA QuietStep ==
    ASSUME KInv, QInv, NEW t \in Tasks, Moves(t), UNCHANGED queue,
           \A e \in Event : Waits(k', e) \subseteq Waits(k, e) \cup {t},
           \A e \in Event : \/ Offer(e) = 0
                             \/ /\ t \notin Waits(k', e) \ Waits(k, e)
                                /\ t \in Woken(e) => t \in Woken(e)'
    PROVE  Served'
<1> SUFFICES ASSUME NEW e \in Event, Waits(k', e) # {}
             PROVE  Offer(e)' <= Cardinality(Woken(e)')
    BY DEF Served
<1>1. PICK n \in Nat : n = Offer(e) /\ n = Offer(e)'
    BY Offers DEF Offer
<1>2. PICK W, W2 : W = Woken(e) /\ W2 = Woken(e)' /\ W \in SUBSET Tasks /\ W2 \in SUBSET Tasks
    <2>1. Woken(e) \in SUBSET Tasks
        BY DEF Woken
    <2>2. Woken(e)' \in SUBSET Tasks
        BY DEF Woken
    <2> QED BY <2>1, <2>2
<1>3. IsFiniteSet(W2) /\ Cardinality(W) \in Nat /\ Cardinality(W2) \in Nat
    BY <1>2, TasksFinite
<1>4. CASE n = 0
    BY <1>1, <1>2, <1>3, <1>4
<1>5. CASE n # 0
    <2>1. t \notin Waits(k', e) \ Waits(k, e) /\ (t \in W => t \in W2)
        BY <1>1, <1>2, <1>5
    <2>2. W \subseteq W2
        BY <1>2, <2>1, WokenOthers
    <2>3. Waits(k, e) # {}
        BY <2>1
    <2>4. n <= Cardinality(W)
        BY <1>1, <1>2, <2>3 DEF KInv, Served
    <2>5. Cardinality(W) <= Cardinality(W2)
        BY <1>3, <2>2, FS_Subset
    <2>6. n <= Cardinality(W2)
        BY ONLY n \in Nat, <1>3, <2>4, <2>5
    <2> QED BY <1>1, <1>2, <2>6
<1> QED BY <1>4, <1>5

\* A step that takes from what is offered with one event and adds to what is
\* offered with another one, for which it wakes a task.
LEMMA BusyStep ==
    ASSUME KInv, QInv, NEW t \in Tasks, Moves(t),
           NEW d \in Event, NEW e \in Event, d # e, t \notin Woken(e), t \notin Waits(k, e),
           Wakes(k, k', e), Offer(d)' = Offer(d) - 1, Offer(e)' = Offer(e) + 1,
           \A f \in Event \ {d, e} : Offer(f)' = Offer(f) /\ t \notin Woken(f)
    PROVE  Served'
<1>0. ASSUME NEW f \in Event PROVE Waits(k', f) \subseteq Waits(k, f)
    BY DEF Wakes
<1> SUFFICES ASSUME NEW f \in Event, Waits(k', f) # {}
             PROVE  Offer(f)' <= Cardinality(Woken(f)')
    BY DEF Served
<1>1. PICK n \in Nat : n = Offer(f)
    BY Offers
<1>2. PICK W, W2 : W = Woken(f) /\ W2 = Woken(f)' /\ W \in SUBSET Tasks /\ W2 \in SUBSET Tasks
    <2>1. Woken(f) \in SUBSET Tasks
        BY DEF Woken
    <2>2. Woken(f)' \in SUBSET Tasks
        BY DEF Woken
    <2> QED BY <2>1, <2>2
<1>3. /\ IsFiniteSet(W2) /\ IsFiniteSet(W)
      /\ Cardinality(W) \in Nat /\ Cardinality(W2) \in Nat
    BY <1>2, TasksFinite
<1>4. W \ {t} \subseteq W2
    BY <1>0, <1>2, WokenOthers
<1>5. n <= Cardinality(W)
    <2>1. Waits(k, f) # {}
        BY <1>0
    <2> QED BY <1>1, <1>2, <2>1 DEF KInv, Served
<1>6. CASE f = d
    <2>1. Offer(f)' = n - 1
        BY <1>1, <1>6
    <2>2. Cardinality(W \ {t}) >= Cardinality(W) - 1
        <3>1. CASE t \in W
            <4>1. Cardinality(W \ {t}) = Cardinality(W) - 1
                BY ONLY <1>3, <3>1, FS_RemoveElement
            <4> QED BY ONLY <1>3, <4>1
        <3>2. CASE t \notin W
            <4>1. W \ {t} = W
                BY ONLY <3>2
            <4> QED BY ONLY <1>3, <4>1
        <3> QED BY ONLY <3>1, <3>2
    <2>3. Cardinality(W \ {t}) <= Cardinality(W2) /\ Cardinality(W \ {t}) \in Nat
        BY <1>3, <1>4, FS_Subset, FS_CardinalityType
    <2> QED BY <1>1, <1>2, <1>3, <1>5, <2>1, <2>2, <2>3
<1>7. CASE f = e
    <2>1. PICK u \in Waits(k, e) : Waits(k', e) = Waits(k, e) \ {u}
        BY <1>7 DEF Wakes
    <2>2. u \in Tasks /\ u # t /\ Waiter(u, e) /\ u \notin W
        <3>1. Asleep(k) \subseteq Tasks
            BY AsleepTasks DEF KInv
        <3> QED BY <1>2, <1>7, <2>1, <3>1 DEF KInv, Waiters, Lists, Woken
    <2>3. u \in W2
        <3>1. at'[u] = at[u] /\ step'[u] = step[u] /\ entry'[u] = entry[u]
            BY <2>2 DEF Moves
        <3>2. Call(u)' = Call(u)
            BY <3>1 DEF Call
        <3> QED BY <1>2, <1>7, <2>1, <2>2, <3>1, <3>2 DEF Waiter, Woken
    <2>4. W \cup {u} \subseteq W2
        BY <1>2, <1>4, <1>7, <2>3
    <2>5. Cardinality(W \cup {u}) = Cardinality(W) + 1 
        BY <1>3, <2>2, FS_AddElement
    <2>6. Cardinality(W \cup {u}) <= Cardinality(W2)
        BY <1>3, <2>4, FS_Subset
    <2>7. Offer(f)' = n + 1
        BY <1>1, <1>7
    <2> QED BY <1>1, <1>2, <1>3, <1>5, <2>5, <2>6, <2>7
<1>8. CASE f \notin {d, e}
    <2>1. Offer(f)' = n /\ W \subseteq W2
        BY <1>1, <1>2, <1>4, <1>8
    <2>2. Cardinality(W) <= Cardinality(W2)
        BY <1>3, <2>1, FS_Subset
    <2> QED BY <1>1, <1>2, <1>3, <1>5, <2>1, <2>2
<1> QED BY <1>6, <1>7, <1>8

---------------------------------------------------------------------------
(* Steps with the scheduler running. *)

\* A time of entry has been set.
LEMMA PairSet ==
    ASSUME NEW A, NEW B, NEW p \in A \X B
    PROVE  p # <<>>
<1>1. PICK a, b : p = <<a, b>>
    OBVIOUS
<1>2. Len(<<a, b>>) = 2 /\ Len(<<>>) = 0
    OBVIOUS
<1> QED BY <1>1, <1>2

\* A task that is not asleep itself makes its step while the scheduler runs.
LEMMA Awake ==
    ASSUME KInv, NEW t \in Tasks, t = k.pxCurrentTCB, step[t] \notin Inside \cup {"yield"}
    PROVE  /\ t \in Tasks \ Asleep(k) /\ \A e \in Event : t \notin Waits(k, e)
           /\ k.uxSchedulerSuspended = 0 /\ k.uxPendedTicks = 0
<1>1. t \in Tasks \ Asleep(k) /\ \A e \in Event : t \notin Waits(k, e)
    BY AwakeWaits DEF Inside
<1>2. k.uxSchedulerSuspended \in {0, 1}
    BY DEF KInv, Lists, State
<1> QED BY <1>1, <1>2 DEF KInv, Scheduler

\* A step that leaves the kernel alone.
LEMMA SameKernel ==
    ASSUME KInv, QInv, NEW t \in Tasks, t = k.pxCurrentTCB, Moves(t), UNCHANGED <<k, queue>>,
           step[t] \notin Inside \cup {"yield"}, step'[t] \notin Inside,
           \A e \in Event : Offer(e) = 0 \/ t \notin Woken(e), ran' \in 0..StepsPerTick
    PROVE  KInv'
<1>1. /\ t \in Tasks \ Asleep(k) /\ \A e \in Event : t \notin Waits(k, e)
      /\ k.uxSchedulerSuspended = 0 /\ k.uxPendedTicks = 0
    BY Awake
<1>2. Served'
    BY <1>1, QuietStep
<1>3. Lists(k') /\ k' = k /\ \A u \in k'.suspended : \E e \in Event : u \in Waits(k', e)
    BY DEF KInv, Waiters
<1> QED BY <1>1, <1>2, <1>3, Assemble

\* A call that is not made.
LEMMA PassByStep ==
    ASSUME KInv, QInv, NEW t \in Tasks, t = k.pxCurrentTCB, PassBy(t), ran' \in 0..StepsPerTick
    PROVE  KInv'
<1>1. Moves(t) /\ step'[t] = "check" /\ step[t] = "check" /\ UNCHANGED <<k, queue>>
    BY ReturnsMoves DEF PassBy, KInv
<1>2. \A e \in Event : t \notin Woken(e)
    BY DEF Woken, PassBy
<1> QED BY <1>1, <1>2, SameKernel DEF Inside

\* The last look of a receiver that has timed out.
LEMMA RecheckStep ==
    ASSUME KInv, QInv, NEW t \in Tasks, t = k.pxCurrentTCB, Recheck(t), ran' \in 0..StepsPerTick
    PROVE  KInv'
<1>1. step[t] = "recheck" /\ UNCHANGED <<k, queue>> /\ (Returns(t) \/ GoesTo(t, "check"))
    BY DEF Recheck
<1>2. Moves(t) /\ step'[t] = "check"
    <2>1. Phase(Call(t).op, "check", entry[t]) /\ "check" \in Steps
        BY DEF Phase, Steps
    <2> QED BY <1>1, <2>1, ReturnsMoves, GoesMoves DEF KInv
<1>3. \A e \in Event : t \notin Woken(e)
    BY <1>1 DEF Woken
<1> QED BY <1>1, <1>2, <1>3, SameKernel DEF Inside

\* A call that is refused has nothing that is offered to it.
LEMMA RefusedOffer ==
    ASSUME QInv, NEW t \in Tasks, Refused(t)
    PROVE  /\ Call(t).op \in {"send", "receive"} /\ Call(t).q \in Queues
           /\ Offer(<<Call(t).q, Call(t).op>>) = 0
           /\ \A e \in Event : Offer(e) = 0 \/ t \notin Woken(e)
<1>1. Call(t).op \in {"send", "receive"} /\ Call(t).q \in Queues
    BY KernelAssumption DEF Refused, QInv, Call
<1>2. Offer(<<Call(t).q, Call(t).op>>) = 0
    <2>1. uxLength[Call(t).q] \in Nat
        BY <1>1, KernelAssumption
    <2> QED BY <1>1, <2>1 DEF Refused, Offer, prvIsQueueFull, prvIsQueueEmpty
<1>3. ASSUME NEW e \in Event, t \in Woken(e) PROVE e = <<Call(t).q, Call(t).op>>
    BY <1>3 DEF Woken, Event
<1> QED BY <1>1, <1>2, <1>3

\* A queue is full or empty: the call gives up or is going to wait.
LEMMA RefuseStep ==
    ASSUME KInv, QInv, NEW t \in Tasks, t = k.pxCurrentTCB, Refuse(t), ran' \in 0..StepsPerTick
    PROVE  KInv'
<1>1. step[t] = "check" /\ UNCHANGED <<k, queue>> /\ Refused(t)
    BY DEF Refuse
<1>2. Moves(t) /\ step'[t] \notin Inside
    <2>1. CASE Returns(t)
        BY <2>1, ReturnsMoves DEF KInv, Inside
    <2>2. CASE ~Returns(t)
        <3>1. PICK en \in Nat \X Ticks : entry' = [entry EXCEPT ![t] = en]
            <4>1. CASE entry[t] = <<>>
                <5>1. Now(k) \in Nat \X Ticks
                    BY DEF Now, KInv, Lists, State
                <5> QED BY <2>2, <4>1, <5>1 DEF Refuse
            <4>2. CASE entry[t] # <<>>
                <5>1. entry[t] \in Nat \X Ticks /\ entry' = entry
                    BY <2>2, <4>2 DEF Refuse, KInv, Calls
                <5>2. entry = [entry EXCEPT ![t] = entry[t]]
                    BY DEF KInv, Calls
                <5> QED BY <5>1, <5>2
            <4> QED BY <4>1, <4>2
        <3>2. /\ step' = [step EXCEPT ![t] = "suspend"] /\ at' = at
              /\ wait' = [wait EXCEPT ![t] = wait[t]] /\ wait[t] \in Ticks
            BY <2>2 DEF Refuse, KInv, Calls
        <3>3. Phase(Call(t).op, "suspend", en) /\ "suspend" \in Steps \ Inside
            <4>1. en # <<>>
                BY PairSet
            <4>2. Call(t).op \in {"send", "receive"}
                BY <1>1, RefusedOffer
            <4> QED BY <4>1, <4>2 DEF Phase, Steps, Inside
        <3>4. Moves(t) /\ step'[t] = "suspend"
            <4>1. Calls /\ "suspend" \in Steps /\ en \in {<<>>} \cup (Nat \X Ticks)
                BY <3>3 DEF KInv
            <4> QED BY ONLY <3>1, <3>2, <3>3, <4>1, t \in Tasks, StaysMoves
        <3> QED BY <3>3, <3>4
    <2> QED BY <2>1, <2>2
<1> QED BY <1>1, <1>2, RefusedOffer, SameKernel DEF Inside

\* A step that wakes the first task that waits for an event.
LEMMA WakeStep ==
    ASSUME KInv, QInv, NEW t \in Tasks, t = k.pxCurrentTCB, step[t] = "check", Returns(t),
           NEW d \in Event, NEW e \in Event, d # e, \A f \in Event \ {d} : t \notin Woken(f),
           k' = xTaskRemoveFromEventList(k, e), Offer(d)' = Offer(d) - 1,
           Offer(e)' = Offer(e) + 1, \A f \in Event \ {d, e} : Offer(f)' = Offer(f),
           ran' \in 0..StepsPerTick
    PROVE  KInv'
<1>1. /\ t \in Tasks \ Asleep(k) /\ \A f \in Event : t \notin Waits(k, f)
      /\ k.uxSchedulerSuspended = 0 /\ k.uxPendedTicks = 0
    BY Awake DEF Inside
<1>2. Moves(t) /\ step'[t] = "check"
    BY ReturnsMoves DEF KInv
<1>3. Wakes(k, k', e)
    BY WakeLists DEF KInv
<1>4. Served'
    BY <1>1, <1>2, <1>3, BusyStep
<1>5. /\ Lists(k') /\ k'.pxCurrentTCB = t /\ k'.uxSchedulerSuspended = 0
      /\ k'.uxPendedTicks = 0 /\ Asleep(k') \subseteq Asleep(k)
      /\ \A f \in Event : Waits(k', f) \subseteq Waits(k, f)
    BY <1>1, <1>3 DEF Wakes, Unticked
<1>6. \A u \in k'.suspended : \E f \in Event : u \in Waits(k', f)
    BY <1>3 DEF Wakes, KInv, Waiters
<1> QED BY <1>1, <1>2, <1>4, <1>5, <1>6, Assemble DEF Inside

\* The call that sends or receives and its queue's event.
LEMMA OwnEvent ==
    ASSUME NEW t \in Tasks, NEW e \in Event, Call(t).q # e[1] \/ Call(t).op # e[2]
    PROVE  t \notin Woken(e)
BY DEF Woken

\* An item is sent: one place less, one item more, and a receiver is woken.
LEMMA SendKernel ==
    ASSUME KInv, QInv, NEW t \in Tasks, t = k.pxCurrentTCB, Send(t), ran' \in 0..StepsPerTick
    PROVE  KInv'
<1>1. PICK q \in Queues : q = Call(t).q /\ Buffer(queue[q], uxLength[q]) /\ DOMAIN queue = Queues
    BY KernelAssumption DEF Send, QInv, Call
<1>2. PICK d, e : /\ d = <<q, "send">> /\ e = <<q, "receive">> /\ d \in Event /\ e \in Event
                  /\ d # e /\ d[1] = q /\ e[1] = q /\ d[2] = "send" /\ e[2] = "receive"
    <2>1. \A op \in {"send", "receive"} :
            <<q, op>> \in Event /\ <<q, op>>[1] = q /\ <<q, op>>[2] = op
        BY DEF Event
    <2> QED BY <2>1
<1>3. /\ step[t] = "check" /\ Call(t).op = "send" /\ Returns(t)
      /\ queue' = [queue EXCEPT ![q] = prvCopyDataToQueue(queue[q], q, t)]
      /\ k' = xTaskRemoveFromEventList(k, e)
    BY <1>1, <1>2 DEF Send
<1>4. PICK n \in Nat, c \in Nat :
        /\ n = uxLength[q] /\ c = queue[q].uxMessagesWaiting
        /\ queue'[q].uxMessagesWaiting = c + 1
    <2>1. PICK n \in Nat : n = uxLength[q]
        BY KernelAssumption
    <2>2. PICK m : /\ m = queue[q] /\ m.uxMessagesWaiting \in 0..n
                   /\ m \in [mem : [0..(n - 1) -> Tasks \cup {"none"}], uxMessagesWaiting : 0..n,
                             pcWriteTo : 0..(n - 1), pcReadFrom : 0..(n - 1)]
        BY <1>1, <2>1 DEF Buffer
    <2>3. queue'[q] = prvCopyDataToQueue(m, q, t)
        BY <1>1, <1>3, <2>2
    <2>4. prvCopyDataToQueue(m, q, t).uxMessagesWaiting = m.uxMessagesWaiting + 1
        BY <2>2 DEF prvCopyDataToQueue
    <2> QED BY <2>1, <2>2, <2>3, <2>4
<1>5. /\ Offer(d)' = Offer(d) - 1 /\ Offer(e)' = Offer(e) + 1
      /\ \A f \in Event \ {d, e} : Offer(f)' = Offer(f)
    <2>1. Offer(d) = n - c /\ Offer(d)' = n - (c + 1) /\ Offer(e) = c /\ Offer(e)' = c + 1
        BY <1>2, <1>4 DEF Offer
    <2>2. \A f \in Event \ {d, e} : f[1] \in Queues \ {q}
        BY <1>2 DEF Event
    <2>3. \A p \in Queues \ {q} : queue'[p] = queue[p]
        BY <1>1, <1>3
    <2> QED BY <2>1, <2>2, <2>3 DEF Offer
<1>6. \A f \in Event \ {d} : t \notin Woken(f)
    BY <1>1, <1>2, <1>3, OwnEvent DEF Event
<1> QED BY <1>2, <1>3, <1>5, <1>6, WakeStep

\* An item is received: one item less, one place more, and a sender is woken.
LEMMA ReceiveKernel ==
    ASSUME KInv, QInv, NEW t \in Tasks, t = k.pxCurrentTCB, Receive(t), ran' \in 0..StepsPerTick
    PROVE  KInv'
<1>1. PICK q \in Queues : q = Call(t).q /\ Buffer(queue[q], uxLength[q]) /\ DOMAIN queue = Queues
    BY KernelAssumption DEF Receive, QInv, Call
<1>2. PICK d, e : /\ d = <<q, "receive">> /\ e = <<q, "send">> /\ d \in Event /\ e \in Event
                  /\ d # e /\ d[1] = q /\ e[1] = q /\ d[2] = "receive" /\ e[2] = "send"
    <2>1. \A op \in {"send", "receive"} :
            <<q, op>> \in Event /\ <<q, op>>[1] = q /\ <<q, op>>[2] = op
        BY DEF Event
    <2> QED BY <2>1
<1>3. /\ step[t] = "check" /\ Call(t).op = "receive" /\ Returns(t)
      /\ queue' = [queue EXCEPT ![q] = prvCopyDataFromQueue(queue[q], q)]
      /\ k' = xTaskRemoveFromEventList(k, e)
    BY <1>1, <1>2 DEF Receive
<1>4. PICK n \in Nat, c \in Nat :
        /\ n = uxLength[q] /\ c = queue[q].uxMessagesWaiting
        /\ queue'[q].uxMessagesWaiting = c - 1
    <2>1. PICK n \in Nat : n = uxLength[q]
        BY KernelAssumption
    <2>2. PICK m : /\ m = queue[q] /\ m.uxMessagesWaiting \in 0..n
                   /\ m \in [mem : [0..(n - 1) -> Tasks \cup {"none"}], uxMessagesWaiting : 0..n,
                             pcWriteTo : 0..(n - 1), pcReadFrom : 0..(n - 1)]
        BY <1>1, <2>1 DEF Buffer
    <2>3. queue'[q] = prvCopyDataFromQueue(m, q)
        BY <1>1, <1>3, <2>2
    <2>4. prvCopyDataFromQueue(m, q).uxMessagesWaiting = m.uxMessagesWaiting - 1
        BY <2>2 DEF prvCopyDataFromQueue
    <2> QED BY <2>1, <2>2, <2>3, <2>4
<1>5. /\ Offer(d)' = Offer(d) - 1 /\ Offer(e)' = Offer(e) + 1
      /\ \A f \in Event \ {d, e} : Offer(f)' = Offer(f)
    <2>1. Offer(d) = c /\ Offer(d)' = c - 1 /\ Offer(e) = n - c /\ Offer(e)' = n - (c - 1)
        BY <1>2, <1>4 DEF Offer
    <2>2. \A f \in Event \ {d, e} : f[1] \in Queues \ {q}
        BY <1>2 DEF Event
    <2>3. \A p \in Queues \ {q} : queue'[p] = queue[p]
        BY <1>1, <1>3
    <2> QED BY <2>1, <2>2, <2>3 DEF Offer
<1>6. \A f \in Event \ {d} : t \notin Woken(f)
    BY <1>1, <1>2, <1>3, OwnEvent DEF Event
<1> QED BY <1>2, <1>3, <1>5, <1>6, WakeStep

---------------------------------------------------------------------------
(* Steps that suspend the scheduler. *)

\* What a check for a timeout leaves.
LEMMA TimeOutTyped ==
    ASSUME NEW s \in State, NEW timeout \in Nat \X Ticks, NEW ticks \in Ticks,
           NEW c, c = xTaskCheckForTimeOut(s, timeout, ticks), c # <<>>
    PROVE  c[1] \in Nat \X Ticks /\ c[2] \in Ticks
<1>1. PICK passed \in Nat : passed = (s.xTickCount - timeout[2]) % TickWrap
    <2>1. s.xTickCount \in Int /\ timeout[2] \in Int /\ TickWrap \in Nat \ {0}
        BY KernelAssumption DEF State, Ticks
    <2>2. (s.xTickCount - timeout[2]) % TickWrap \in Nat
        BY ONLY <2>1
    <2> QED BY <2>2
<1>2. CASE ticks = portMAX_DELAY
    <2>1. c = <<timeout, ticks>>
        BY <1>2 DEF xTaskCheckForTimeOut
    <2> QED BY <2>1
<1>3. CASE ticks # portMAX_DELAY
    <2>1. c = <<Now(s), ticks - passed>> /\ ~(passed >= ticks)
        BY <1>1, <1>3 DEF xTaskCheckForTimeOut
    <2>2. Now(s) \in Nat \X Ticks
        BY DEF Now, State
    <2>3. ticks - passed \in Ticks
        <3>1. PICK m : m = portMAX_DELAY /\ m \in Int /\ ticks \in 0..m
            BY KernelAssumption DEF portMAX_DELAY, Ticks
        <3>2. ticks - passed \in 0..m
            BY ONLY <2>1, <3>1, passed \in Nat
        <3> QED BY <3>1, <3>2 DEF Ticks
    <2> QED BY <2>1, <2>2, <2>3
<1> QED BY <1>2, <1>3

\* The scheduler is suspended.
LEMMA SuspendedLists ==
    ASSUME NEW s, Lists(s), NEW s2, s2 = [s EXCEPT !.uxSchedulerSuspended = 1]
    PROVE  /\ Lists(s2) /\ Asleep(s2) = Asleep(s) /\ \A e : Waits(s2, e) = Waits(s, e)
           /\ s2.pxCurrentTCB = s.pxCurrentTCB /\ s2.uxSchedulerSuspended = 1
           /\ s2.uxPendedTicks = s.uxPendedTicks /\ s2.suspended = s.suspended
<1>1. s \in State
    BY DEF Lists
<1>2. /\ s2 \in State /\ s2.delayed = s.delayed /\ s2.overflow = s.overflow
      /\ s2.suspended = s.suspended /\ s2.events = s.events /\ s2.ready = s.ready
      /\ s2.pxCurrentTCB = s.pxCurrentTCB /\ s2.uxSchedulerSuspended = 1
      /\ s2.uxPendedTicks = s.uxPendedTicks
    BY <1>1 DEF State
<1>3. Once(s2.ready, ReadyItems, {xListEnd} \cup (Tasks \ Asleep(s)))
    BY <1>2 DEF Lists
<1> QED BY <1>2, <1>3, SameLists

\* A task suspends the scheduler and does not wait.
LEMMA SuspendStep ==
    ASSUME KInv, QInv, NEW t \in Tasks, t = k.pxCurrentTCB, Moves(t), UNCHANGED queue,
           step[t] = "suspend", step'[t] \in Inside,
           k' = [k EXCEPT !.uxSchedulerSuspended = 1], ran' \in 0..StepsPerTick
    PROVE  KInv'
<1>1. /\ t \in Tasks \ Asleep(k) /\ \A e \in Event : t \notin Waits(k, e)
      /\ k.uxPendedTicks = 0
    BY Awake DEF Inside
<1>2. /\ Lists(k') /\ Asleep(k') = Asleep(k) /\ \A e : Waits(k', e) = Waits(k, e)
      /\ k'.pxCurrentTCB = t /\ k'.uxSchedulerSuspended = 1
      /\ k'.uxPendedTicks = 0 /\ k'.suspended = k.suspended
    BY <1>1, SuspendedLists DEF KInv
<1>3. Served'
    BY <1>1, <1>2, QuietStep DEF Woken
<1>4. \A u \in k'.suspended : \E e \in Event : u \in Waits(k', e)
    BY <1>2 DEF KInv, Waiters
<1> QED BY <1>1, <1>2, <1>3, <1>4, Assemble

\* A task that waits has seen, with the scheduler suspended, that nothing is
\* offered to it; others see that they have timed out or may look again.
LEMMA BlockStep ==
    ASSUME KInv, QInv, NEW t \in Tasks, t = k.pxCurrentTCB, Block(t), ran' \in 0..StepsPerTick
    PROVE  KInv'
<1>1. /\ step[t] = "suspend" /\ Call(t).op \in {"send", "receive"}
      /\ entry[t] # <<>> /\ entry[t] \in Nat \X Ticks /\ wait[t] \in Ticks /\ UNCHANGED queue
    BY DEF Block, KInv, Calls, Phase
<1>2. PICK c, s : /\ c = xTaskCheckForTimeOut(k, entry[t], wait[t])
                  /\ s = [k EXCEPT !.uxSchedulerSuspended = 1]
    OBVIOUS
<1>3. CASE c = <<>>
    <2>1. k' = s /\ GoesTo(t, "resume_timeout")
        BY <1>2, <1>3 DEF Block
    <2>2. Phase(Call(t).op, "resume_timeout", entry[t]) /\ "resume_timeout" \in Inside
        BY <1>1 DEF Phase, Inside
    <2>3. Moves(t) /\ step'[t] = "resume_timeout"
        BY <2>1, <2>2, GoesMoves DEF KInv, Steps
    <2> QED BY <1>1, <1>2, <2>1, <2>2, <2>3, SuspendStep
<1>4. CASE c # <<>>
    <2>1. PICK en \in Nat \X Ticks, w \in Ticks : en = c[1] /\ w = c[2]
        BY <1>1, <1>2, <1>4, TimeOutTyped DEF KInv, Lists
    <2>2. /\ entry' = [entry EXCEPT ![t] = en] /\ wait' = [wait EXCEPT ![t] = w] /\ at' = at
          /\ IF Refused(t)
             THEN /\ k' = vTaskPlaceOnEventList(s, <<Call(t).q, Call(t).op>>, w)
                  /\ step' = [step EXCEPT ![t] = "resume_wait"]
             ELSE k' = s /\ step' = [step EXCEPT ![t] = "resume_again"]
        BY <1>2, <1>4, <2>1 DEF Block
    <2>3. /\ Phase(Call(t).op, "resume_wait", en) /\ Phase(Call(t).op, "resume_again", en)
          /\ "resume_wait" \in Inside /\ "resume_again" \in Inside /\ en # <<>>
        <3>1. en # <<>>
            BY PairSet
        <3> QED BY <1>1, <3>1 DEF Phase, Inside
    <2>4. /\ Moves(t) /\ entry'[t] = en /\ Call(t)' = Call(t)
          /\ step'[t] = IF Refused(t) THEN "resume_wait" ELSE "resume_again"
        <3>1. PICK st \in Steps : /\ st = IF Refused(t) THEN "resume_wait" ELSE "resume_again"
                                  /\ step' = [step EXCEPT ![t] = st]
                                  /\ Phase(Call(t).op, st, en)
            <4>1. CASE Refused(t)
                BY <2>2, <2>3, <4>1 DEF Steps
            <4>2. CASE ~Refused(t)
                BY <2>2, <2>3, <4>2 DEF Steps
            <4> QED BY <4>1, <4>2
        <3>2. en \in {<<>>} \cup (Nat \X Ticks)
            OBVIOUS
        <3>3. Moves(t) /\ step'[t] = st /\ entry'[t] = en /\ Call(t)' = Call(t)
            <4>1. /\ Calls /\ at' = at /\ step' = [step EXCEPT ![t] = st]
                  /\ entry' = [entry EXCEPT ![t] = en] /\ wait' = [wait EXCEPT ![t] = w]
                  /\ Phase(Call(t).op, st, en)
                BY <2>2, <3>1 DEF KInv
            <4> QED BY ONLY t \in Tasks, st \in Steps, w \in Ticks, <3>2, <4>1, StaysMoves, Zenon
        <3> QED BY <3>1, <3>3
    <2>5. CASE ~Refused(t)
        BY <1>1, <1>2, <2>2, <2>3, <2>4, <2>5, SuspendStep
    <2>6. CASE Refused(t)
        <3>1. PICK event \in Event :
                event = <<Call(t).q, Call(t).op>> /\ event[1] = Call(t).q /\ event[2] = Call(t).op
            <4>1. Call(t).q \in Queues
                BY <2>6, RefusedOffer
            <4>2. <<Call(t).q, Call(t).op>> \in Event
                BY <1>1, <4>1 DEF Event
            <4> QED BY <4>2
        <3>2. /\ t \in Tasks \ Asleep(k) /\ \A e \in Event : t \notin Waits(k, e)
              /\ k.uxPendedTicks = 0
            BY <1>1, Awake DEF Inside
        <3>3. /\ Lists(s) /\ Asleep(s) = Asleep(k) /\ \A e : Waits(s, e) = Waits(k, e)
              /\ s.pxCurrentTCB = t /\ s.uxSchedulerSuspended = 1
              /\ s.uxPendedTicks = 0 /\ s.suspended = k.suspended
            BY <1>2, <3>2, SuspendedLists DEF KInv
        <3>4. SleepsFor(s, k', event)
            BY <2>2, <2>6, <3>1, <3>2, <3>3, PlaceLists
        <3>5. /\ Lists(k') /\ k'.pxCurrentTCB = t /\ k'.uxSchedulerSuspended = 1
              /\ k'.uxPendedTicks = 0 /\ Asleep(k') = Asleep(k) \cup {t}
              /\ k'.suspended \subseteq k.suspended \cup {t}
              /\ Waits(k', event) = Waits(k, event) \cup {t}
              /\ \A e \in Event \ {event} : Waits(k', e) = Waits(k, e)
            BY <3>3, <3>4 DEF SleepsFor, Unticked
        <3>6. Offer(event) = 0
            BY <2>6, <3>1, RefusedOffer
        <3>7. Served'
            <4>1. \A e \in Event : t \notin Woken(e)
                BY <1>1 DEF Woken
            <4> QED BY <1>1, <2>4, <3>2, <3>5, <3>6, <4>1, QuietStep
        <3>8. \A u \in k'.suspended : \E e \in Event : u \in Waits(k', e)
            <4>1. \A e \in Event : Waits(k, e) \subseteq Waits(k', e)
                BY <3>5
            <4> QED BY <3>1, <3>5, <4>1 DEF KInv, Waiters
        <3>9. \A e \in Event : t \in Waits(k', e) => Waiter(t, e)'
            <4>1. Waiter(t, event)'
                BY <2>3, <2>4, <2>6, <3>1 DEF Waiter
            <4>2. \A e \in Event : t \in Waits(k', e) => e = event
                BY <3>2, <3>5
            <4> QED BY <4>1, <4>2
        <3> QED BY <2>3, <2>4, <2>6, <3>5, <3>7, <3>8, <3>9, Assemble
    <2> QED BY <2>5, <2>6
<1> QED BY <1>3, <1>4

\* A task sleeps for a time.
LEMMA DelayStep ==
    ASSUME KInv, QInv, NEW t \in Tasks, t = k.pxCurrentTCB, vTaskDelay(t), ran' \in 0..StepsPerTick
    PROVE  KInv'
<1>1. PICK s : /\ s = [k EXCEPT !.uxSchedulerSuspended = 1]
               /\ k' = prvAddCurrentTaskToDelayedList(s, wait[t], FALSE)
    BY DEF vTaskDelay
<1>2. /\ step[t] = "check" /\ Call(t).op = "delay" /\ GoesTo(t, "resume_delay")
      /\ UNCHANGED queue /\ wait[t] \in Ticks
    BY DEF vTaskDelay, KInv, Calls
<1>3. Moves(t) /\ step'[t] = "resume_delay"
    <2>1. Phase(Call(t).op, "resume_delay", entry[t]) /\ "resume_delay" \in Steps
        BY <1>2 DEF Phase, Steps, Inside
    <2> QED BY <1>2, <2>1, GoesMoves DEF KInv
<1>4. /\ t \in Tasks \ Asleep(k) /\ \A e \in Event : t \notin Waits(k, e)
      /\ k.uxPendedTicks = 0
    BY <1>2, Awake DEF Inside
<1>5. /\ Lists(s) /\ Asleep(s) = Asleep(k) /\ \A e : Waits(s, e) = Waits(k, e)
      /\ s.pxCurrentTCB = t /\ s.uxSchedulerSuspended = 1
      /\ s.uxPendedTicks = 0 /\ s.suspended = k.suspended
    BY <1>1, <1>4, SuspendedLists DEF KInv
<1>6. Sleeps(s, k') /\ k'.suspended = k.suspended
    <2>1. s.pxCurrentTCB \in Tasks \ Asleep(s)
        BY <1>4, <1>5
    <2>2. PICK w, b, s2 :
            /\ w \in Ticks /\ b \in BOOLEAN
            /\ ~b /\ s2 = k' /\ s2 = prvAddCurrentTaskToDelayedList(s, w, b)
        BY <1>1, <1>2
    <2>3. Sleeps(s, s2) /\ s2.suspended = s.suspended
        BY <1>5, <2>1, <2>2, SleepLists
    <2> QED BY <1>5, <2>2, <2>3
<1>7. /\ Lists(k') /\ k'.pxCurrentTCB = t /\ k'.uxSchedulerSuspended = 1
      /\ k'.uxPendedTicks = 0 /\ \A e \in Event : Waits(k', e) = Waits(k, e)
    BY <1>5, <1>6 DEF Sleeps, Unticked, Waits
<1>8. Served'
    <2>1. \A e \in Event : t \notin Woken(e)
        BY <1>2 DEF Woken, Event
    <2> QED BY <1>2, <1>3, <1>4, <1>7, <2>1, QuietStep
<1>9. \A u \in k'.suspended : \E e \in Event : u \in Waits(k', e)
    BY <1>6, <1>7 DEF KInv, Waiters
<1> QED BY <1>3, <1>4, <1>7, <1>8, <1>9, Assemble DEF Inside

---------------------------------------------------------------------------
(* Steps that let it go on, and the tick. *)

\* The scheduler goes on.  A task that has put itself to sleep has still to leave
\* the processor, unless it was switched away from.
LEMMA ResumeStep ==
    ASSUME KInv, QInv, NEW t \in Tasks, t = k.pxCurrentTCB, Resume(t), ran' \in 0..StepsPerTick
    PROVE  KInv'
<1>1. /\ k.uxSchedulerSuspended = 1 /\ k' = xTaskResumeAll(k) /\ UNCHANGED queue
      /\ step[t] \in Inside /\ Call(t).op \in {"delay", "send", "receive"}
    BY CallTyped DEF Resume, KInv, Scheduler
<1>2. Phase(Call(t).op, step[t], entry[t]) /\ Calls
    BY DEF KInv, Calls
<1> DEFINE Gone ==
        /\ Moves(t) /\ step'[t] \in Steps \ Inside
        /\ step[t] = "resume_again" =>
             step'[t] = "check" /\ entry'[t] = entry[t] /\ Call(t)' = Call(t)
        /\ step[t] = "resume_wait" =>
             /\ step'[t] = IF k.xYieldPending THEN "check" ELSE "yield"
             /\ entry'[t] = entry[t] /\ Call(t)' = Call(t)
        /\ step[t] = "resume_delay" =>
             step'[t] = IF k.xYieldPending THEN "check" ELSE "yield"
<1>3. Gone
    <2>1. ASSUME NEW s \in Steps \ Inside, GoesTo(t, s),
                 \/ step[t] = "resume_again" /\ s = "check"
                 \/ step[t] = "resume_wait" /\ s = IF k.xYieldPending THEN "check" ELSE "yield"
                 \/ step[t] = "resume_delay" /\ s = "yield" /\ ~k.xYieldPending
                 \/ step[t] = "resume_timeout" /\ s = "recheck" /\ Call(t).op = "receive"
          PROVE  Gone
        <3>1. Phase(Call(t).op, s, entry[t])
            BY <1>2, <2>1 DEF Phase
        <3>2. Moves(t) /\ step'[t] = s /\ entry'[t] = entry[t] /\ Call(t)' = Call(t)
            BY ONLY t \in Tasks, s \in Steps \ Inside, <1>2, <2>1, <3>1, GoesMoves, Zenon
        <3> QED BY <2>1, <3>2
    <2>2. ASSUME Returns(t), \/ step[t] = "resume_delay" /\ k.xYieldPending
                             \/ step[t] = "resume_timeout"
          PROVE  Gone
        <3>1. Moves(t) /\ step'[t] = "check"
            BY <1>2, <2>2, ReturnsMoves
        <3> QED BY <2>2, <3>1 DEF Steps, Inside
    <2> QED BY <1>1, <1>2, <2>1, <2>2 DEF Resume, Phase, Steps, Inside
<1>4. /\ Later(k, k') /\ k'.uxSchedulerSuspended = 0 /\ k'.uxPendedTicks = 0
      /\ k.xYieldPending => k'.pxCurrentTCB \in {Idle} \cup (Tasks \ Asleep(k'))
      /\ ~k.xYieldPending => k'.pxCurrentTCB = t
    BY <1>1, ResumeLists DEF KInv, Scheduler
<1>5. /\ Lists(k') /\ Asleep(k') \subseteq Asleep(k) /\ k'.suspended = k.suspended
      /\ \A e \in Event : Waits(k', e) \subseteq Waits(k, e)
    BY <1>4 DEF Later, Asleep
<1>6. \A e \in Event : t \in Waits(k', e) => Waiter(t, e)'
    <2>1. ASSUME NEW e \in Event, t \in Waits(k', e) PROVE Waiter(t, e)'
        <3>1. Waiter(t, e)
            BY <1>5, <2>1 DEF KInv, Waiters
        <3>2. step[t] = "resume_wait"
            BY <1>1, <3>1 DEF Waiter, Inside
        <3> QED BY <1>3, <3>1, <3>2 DEF Waiter
    <2> QED BY <2>1
<1>7. Served'
    <2>1. \A e \in Event : t \in Woken(e) => t \in Woken(e)'
        <3>1. ASSUME NEW e \in Event, t \in Woken(e) PROVE t \in Woken(e)'
            <4>1. step[t] \in {"resume_wait", "resume_again"} /\ t \notin Waits(k', e)
                BY <1>1, <1>5, <3>1 DEF Woken, Inside
            <4>2. /\ entry'[t] = entry[t] /\ Call(t)' = Call(t)
                  /\ step'[t] \in {"check", "yield"}
                BY <1>3, <4>1
            <4> QED BY <3>1, <4>1, <4>2 DEF Woken
        <3> QED BY <3>1
    <2> QED BY <1>1, <1>3, <1>5, <2>1, QuietStep
<1>8. \A u \in k'.suspended : \E e \in Event : u \in Waits(k', e)
    BY <1>4 DEF Later, KInv, Waiters
<1>9. k'.pxCurrentTCB \in Asleep(k') =>
        k'.pxCurrentTCB = t /\ step'[t] \in {"resume_wait", "resume_delay", "yield"}
    <2>1. CASE k.xYieldPending
        <3>1. Idle \notin Asleep(k')
            BY <1>5, AsleepTasks, KernelAssumption
        <3> QED BY <1>4, <2>1, <3>1
    <2>2. CASE ~k.xYieldPending
        <3>1. t \in Asleep(k) => step[t] \in {"resume_wait", "resume_delay"}
            BY <1>1 DEF KInv, Scheduler, Inside
        <3> QED BY <1>3, <1>4, <1>5, <2>2, <3>1
    <2> QED BY <2>1, <2>2
<1> QED BY <1>3, <1>4, <1>5, <1>6, <1>7, <1>8, <1>9, Assemble

\* A task leaves the processor.
LEMMA YieldStep ==
    ASSUME KInv, QInv, NEW t \in Tasks, t = k.pxCurrentTCB, Yield(t), ran' \in 0..StepsPerTick
    PROVE  KInv'
<1>1. /\ step[t] = "yield" /\ k' = vTaskSwitchContext(k) /\ UNCHANGED queue
      /\ k.uxSchedulerSuspended = 0 /\ k.uxPendedTicks = 0
    <2>1. k.uxSchedulerSuspended \in {0, 1}
        BY DEF KInv, Lists, State
    <2> QED BY <2>1 DEF Yield, KInv, Scheduler, Inside
<1>2. /\ Moves(t) /\ step'[t] = "check"
      /\ Call(t).op # "delay" => entry'[t] = entry[t] /\ Call(t)' = Call(t)
    <2>1. CASE Call(t).op = "delay"
        <3>1. Returns(t)
            BY <2>1 DEF Yield
        <3> QED BY <2>1, <3>1, ReturnsMoves DEF KInv
    <2>2. CASE Call(t).op # "delay"
        <3>1. PICK s \in Steps : s = "check" /\ GoesTo(t, s) /\ Phase(Call(t).op, s, entry[t])
            BY <2>2 DEF Yield, Phase, Steps
        <3>2. Calls
            BY DEF KInv
        <3>3. Moves(t) /\ step'[t] = s /\ entry'[t] = entry[t] /\ Call(t)' = Call(t)
            BY ONLY t \in Tasks, s \in Steps, <3>1, <3>2, GoesMoves, Zenon
        <3> QED BY <3>1, <3>3
    <2> QED BY <2>1, <2>2
<1>3. /\ Lists(k') /\ Unswitched(k, k')
      /\ k'.pxCurrentTCB \in {Idle} \cup (Tasks \ Asleep(k))
    BY <1>1, SwitchLists DEF KInv
<1>4. /\ k'.uxSchedulerSuspended = 0 /\ k'.uxPendedTicks = 0
      /\ k'.suspended = k.suspended /\ Asleep(k') = Asleep(k)
      /\ \A e \in Event : Waits(k', e) = Waits(k, e)
    BY <1>1, <1>3 DEF Unswitched, Asleep, Timed, Waits
<1>5. \A e \in Event : t \in Waits(k', e) => Waiter(t, e)'
    <2>1. ASSUME NEW e \in Event, t \in Waits(k', e) PROVE Waiter(t, e)'
        <3>1. Waiter(t, e)
            BY <1>4, <2>1 DEF KInv, Waiters
        <3>2. Call(t).op # "delay"
            BY <3>1 DEF Waiter, Event
        <3> QED BY <1>2, <3>1, <3>2 DEF Waiter
    <2> QED BY <2>1
<1>6. Served'
    <2>1. \A e \in Event : t \in Woken(e) => t \in Woken(e)'
        <3>1. ASSUME NEW e \in Event, t \in Woken(e) PROVE t \in Woken(e)'
            <4>1. Call(t).op # "delay" /\ t \notin Waits(k', e)
                BY <1>4, <3>1 DEF Woken, Event
            <4> QED BY <1>2, <3>1, <4>1 DEF Woken
        <3> QED BY <3>1
    <2> QED BY <1>1, <1>2, <1>4, <2>1, QuietStep
<1>7. \A u \in k'.suspended : \E e \in Event : u \in Waits(k', e)
    BY <1>4 DEF KInv, Waiters
<1>8. k'.pxCurrentTCB \notin Asleep(k')
    <2>1. Idle \notin Asleep(k')
        BY <1>3, AsleepTasks, KernelAssumption
    <2> QED BY <1>3, <1>4, <2>1
<1> QED BY <1>2, <1>3, <1>4, <1>5, <1>6, <1>7, <1>8, Assemble DEF Inside

\* The tick interrupt: no task moves, some are awake.
LEMMA TickStep ==
    ASSUME KInv, QInv, Tick
    PROVE  KInv'
<1>1. /\ UNCHANGED <<queue, at, step, wait, entry>> /\ ran' = 0
      /\ k' = vTaskSwitchContext(xTaskIncrementTick(k))
      /\ ran = StepsPerTick \/ k.pxCurrentTCB = Idle
    BY DEF Tick, vPortSysTickHandler
<1>2. PICK s : s = xTaskIncrementTick(k)
    OBVIOUS
<1>3. /\ Later(k, s) /\ Unticked(k, s)
      /\ s.uxPendedTicks = k.uxPendedTicks + k.uxSchedulerSuspended
    BY <1>2, TickLists DEF KInv
<1>4. /\ Lists(k') /\ Unswitched(s, k')
      /\ s.uxSchedulerSuspended = 1 => k'.pxCurrentTCB = s.pxCurrentTCB
      /\ s.uxSchedulerSuspended = 0 => k'.pxCurrentTCB \in {Idle} \cup (Tasks \ Asleep(s))
    <2>1. Lists(s) /\ k' = vTaskSwitchContext(s)
        BY <1>1, <1>2, <1>3 DEF Later
    <2> QED BY <2>1, SwitchLists
<1>5. /\ k'.uxSchedulerSuspended = k.uxSchedulerSuspended
      /\ k'.uxPendedTicks = k.uxPendedTicks + k.uxSchedulerSuspended
      /\ k'.suspended = k.suspended /\ Asleep(k') = Asleep(s) /\ Asleep(k') \subseteq Asleep(k)
      /\ \A e \in Event : Waits(k', e) \subseteq Waits(k, e)
      /\ \A e \in Event : Waits(k, e) \cap k.suspended \subseteq Waits(k', e)
      /\ k.uxSchedulerSuspended = 1 => k'.pxCurrentTCB = k.pxCurrentTCB
      /\ k.uxSchedulerSuspended = 0 => k'.pxCurrentTCB \in {Idle} \cup (Tasks \ Asleep(k'))
      /\ k.uxSchedulerSuspended \in {0, 1}
    BY <1>3, <1>4 DEF Later, Unticked, Unswitched, Asleep, Timed, Waits, KInv, Lists, State
<1>6. Calls'
    BY <1>1 DEF KInv, Calls, Call
<1>7. Scheduler'
    <2>1. Idle \notin Asleep(k') /\ Idle \notin Tasks
        BY <1>4, AsleepTasks, KernelAssumption
    <2>2. CASE k.uxSchedulerSuspended = 1
        <3>1. k.pxCurrentTCB \in Tasks /\ k.uxPendedTicks = 0
            BY <1>1, <2>1, <2>2, KernelAssumption DEF KInv, Scheduler
        <3> QED BY <1>1, <1>5, <2>2, <3>1, KernelAssumption DEF KInv, Scheduler
    <2>3. CASE k.uxSchedulerSuspended = 0
        <3>1. k.uxPendedTicks = 0 /\ k'.pxCurrentTCB \notin Asleep(k')
            BY <1>5, <2>1, <2>3 DEF KInv, Scheduler
        <3> QED BY <1>1, <1>5, <2>3, <3>1, KernelAssumption DEF KInv, Scheduler
    <2> QED BY <1>5, <2>2, <2>3
<1>8. Waiters'
    <2>1. \A t \in Tasks, e \in Event : Waiter(t, e) => Waiter(t, e)'
        BY <1>1 DEF Waiter, Call
    <2>2. \A e \in Event : Waits(k, e) \subseteq Tasks
        BY AsleepTasks DEF KInv, Lists
    <2> QED BY <1>5, <2>1, <2>2 DEF KInv, Waiters
<1>9. Served'
    <2> SUFFICES ASSUME NEW e \in Event, Waits(k', e) # {}
                 PROVE  Offer(e)' <= Cardinality(Woken(e)')
        BY DEF Served
    <2>1. PICK n \in Nat : n = Offer(e) /\ n = Offer(e)'
        BY <1>1, Offers DEF Offer
    <2>2. PICK W, W2 : W = Woken(e) /\ W2 = Woken(e)' /\ W2 \in SUBSET Tasks /\ W \subseteq W2
        <3>1. Woken(e)' \in SUBSET Tasks
            BY DEF Woken
        <3>2. Woken(e) \subseteq Woken(e)'
            BY <1>1, <1>5 DEF Woken, Call
        <3> QED BY <3>1, <3>2
    <2>3. IsFiniteSet(W2) /\ Cardinality(W2) \in Nat /\ Cardinality(W) \in Nat
        BY <2>2, TasksFinite
    <2>4. Cardinality(W) <= Cardinality(W2)
        BY <2>2, <2>3, FS_Subset
    <2>5. n <= Cardinality(W)
        BY <1>5, <2>1, <2>2 DEF KInv, Served
    <2>6. n <= Cardinality(W2)
        BY ONLY n \in Nat, <2>3, <2>4, <2>5
    <2> QED BY <2>1, <2>2, <2>6
<1> QED BY <1>4, <1>6, <1>7, <1>8, <1>9 DEF KInv

---------------------------------------------------------------------------
(* All steps of the scheduler, and what its invariant says. *)

\* Every step keeps it.
LEMMA NextKernel ==
    ASSUME KInv, QInv, [Next]_vars
    PROVE  KInv'
<1>1. CASE UNCHANGED vars
    <2>1. /\ k' = k /\ queue' = queue /\ at' = at /\ step' = step /\ wait' = wait
          /\ entry' = entry /\ ran' = ran
        BY <1>1 DEF vars
    <2>2. \A t \in Tasks : Call(t)' = Call(t)
        BY <2>1 DEF Call
    <2>3. Calls' /\ Scheduler' /\ Waiters'
        BY <2>1, <2>2, AsleepTasks DEF KInv, Calls, Scheduler, Waiters, Waiter, Lists, Call
    <2>4. \A e \in Event : Offer(e)' = Offer(e) /\ Woken(e)' = Woken(e)
        BY <2>1, <2>2 DEF Offer, Woken
    <2> QED BY <2>1, <2>3, <2>4 DEF KInv, Served
<1>2. CASE Tick
    BY <1>2, TickStep
<1>3. CASE Step
    <2>1. PICK t \in Tasks :
            /\ t = k.pxCurrentTCB
            /\ \/ PassBy(t) \/ Send(t) \/ Receive(t) \/ Refuse(t) \/ Block(t)
               \/ vTaskDelay(t) \/ Resume(t) \/ Recheck(t) \/ Yield(t)
            /\ ran' = IF ran < StepsPerTick THEN ran + 1 ELSE ran
        BY <1>3 DEF Step
    <2>2. ran' \in 0..StepsPerTick
        <3>1. PICK n \in Nat : n = StepsPerTick /\ ran \in 0..n
            BY KernelAssumption DEF KInv, Scheduler
        <3> QED BY <2>1, <3>1
    <2> QED BY <2>1, <2>2, PassByStep, SendKernel, ReceiveKernel, RefuseStep, BlockStep,
               DelayStep, ResumeStep, RecheckStep, YieldStep
<1> QED BY <1>1, <1>2, <1>3 DEF Next

\* What is in a list once, or not at all, is counted.
LEMMA Counted ==
    ASSUME NEW C, NEW S, NEW list, Once(list, C, S), NEW P,
           NEW x, P = {i \in DOMAIN list : list[i] = x}
    PROVE  Cardinality(P) = IF x \in S THEN 1 ELSE 0
<1>1. PICK n : n = Len(list) /\ Places(list, C, n) /\ ToSet(list) = S /\ IsInjective(list)
    BY OncePlaces DEF Once
<1>2. CASE x \in S
    <2>1. PICK i \in 1..n : list[i] = x
        BY <1>1, <1>2 DEF Places
    <2>2. P = {i}
        <3>1. DOMAIN list = 1..n /\ \A j, l \in 1..n : list[j] = list[l] => j = l
            BY <1>1 DEF Places
        <3> QED BY ONLY <2>1, <3>1, P = {j \in DOMAIN list : list[j] = x}
    <2> QED BY <1>2, <2>2, FS_Singleton
<1>3. CASE x \notin S
    <2>1. P = {}
        BY <1>1, <1>3 DEF Places
    <2> QED BY <1>3, <2>1, FS_EmptySet
<1> QED BY <1>2, <1>3

\* The same of a task that has at most one item in a list.
Rows(list, t) == {i \in DOMAIN list : list[i][1] = t}

LEMMA CountedItems ==
    ASSUME NEW S, NEW list, Once(list, TimedItems, S), \A a, b \in S : a[1] = b[1] => a = b,
           NEW t
    PROVE  Cardinality(Rows(list, t)) = IF \E a \in S : a[1] = t THEN 1 ELSE 0
<1>1. PICK n : /\ n = Len(list) /\ Places(list, TimedItems, n)
               /\ ToSet(list) = S /\ IsInjective(list)
    BY OncePlaces DEF Once
<1>2. CASE \E a \in S : a[1] = t
    <2>1. PICK a \in S : a[1] = t
        BY <1>2
    <2>2. PICK i \in 1..n : list[i] = a
        BY <1>1, <2>1 DEF Places
    <2>3. ASSUME NEW j \in 1..n, list[j][1] = t PROVE j = i
        <3>1. list[j] \in S
            BY <1>1 DEF Places
        <3>2. list[j] = list[i]
            BY <2>1, <2>2, <2>3, <3>1
        <3> QED BY <1>1, <3>2 DEF Places
    <2>4. DOMAIN list = 1..n
        BY <1>1 DEF Places
    <2>5. Rows(list, t) = {i}
        BY <2>1, <2>2, <2>3, <2>4 DEF Rows
    <2> QED BY <1>2, <2>5, FS_Singleton
<1>3. CASE ~ \E a \in S : a[1] = t
    <2>1. Rows(list, t) = {}
        BY <1>1, <1>3 DEF Places, Rows
    <2> QED BY <1>3, <2>1, FS_EmptySet
<1> QED BY <1>2, <1>3

\* Every task is in exactly one of the scheduler's lists.
LEMMA InOneList ==
    ASSUME NEW s, Lists(s), NEW t \in Tasks
    PROVE  Cardinality({i \in DOMAIN s.ready : s.ready[i] = t})
           + Cardinality(Rows(s.delayed, t)) + Cardinality(Rows(s.overflow, t))
           + Cardinality(s.suspended \cap {t}) = 1
<1>1. PICK D, O : /\ D = ToSet(s.delayed) /\ O = ToSet(s.overflow)
                  /\ Once(s.delayed, TimedItems, D) /\ Once(s.overflow, TimedItems, O)
                  /\ D \cap O = {} /\ \A a, b \in D \cup O : a[1] = b[1] => a = b
                  /\ Timed(s) = {a[1] : a \in D \cup O}
    BY DEF Lists, State, Once, Timed
<1>2. PICK d, o : d = {a[1] : a \in D} /\ o = {a[1] : a \in O}
    OBVIOUS
<1>3. /\ Cardinality(Rows(s.delayed, t)) = IF t \in d THEN 1 ELSE 0
      /\ Cardinality(Rows(s.overflow, t)) = IF t \in o THEN 1 ELSE 0
    <2>1. Cardinality(Rows(s.delayed, t)) = IF t \in d THEN 1 ELSE 0
        <3>1. Once(s.delayed, TimedItems, D) /\ \A a, b \in D : a[1] = b[1] => a = b
            BY <1>1
        <3>2. Cardinality(Rows(s.delayed, t)) = IF \E a \in D : a[1] = t THEN 1 ELSE 0
            BY ONLY <3>1, CountedItems
        <3> QED BY <1>2, <3>2
    <2>2. Cardinality(Rows(s.overflow, t)) = IF t \in o THEN 1 ELSE 0
        <3>1. Once(s.overflow, TimedItems, O) /\ \A a, b \in O : a[1] = b[1] => a = b
            BY <1>1
        <3>2. Cardinality(Rows(s.overflow, t)) = IF \E a \in O : a[1] = t THEN 1 ELSE 0
            BY ONLY <3>1, CountedItems
        <3> QED BY <1>2, <3>2
    <2> QED BY <2>1, <2>2
<1>4. d \cap o = {} /\ Timed(s) = d \cup o
    <2>1. d \cap o = {}
        BY <1>1, <1>2
    <2>2. Timed(s) = d \cup o
        BY <1>1, <1>2
    <2> QED BY <2>1, <2>2
<1>5. Cardinality({i \in DOMAIN s.ready : s.ready[i] = t}) = IF t \in Asleep(s) THEN 0 ELSE 1
    <2>1. Once(s.ready, ReadyItems, {xListEnd} \cup (Tasks \ Asleep(s)))
        BY DEF Lists
    <2>2. t \in {xListEnd} \cup (Tasks \ Asleep(s)) <=> t \notin Asleep(s)
        BY KernelAssumption
    <2> QED BY <2>1, <2>2, Counted
<1>6. Cardinality(s.suspended \cap {t}) = IF t \in s.suspended THEN 1 ELSE 0
    <2>1. CASE t \in s.suspended
        <3>1. s.suspended \cap {t} = {t}
            BY <2>1
        <3> QED BY <2>1, <3>1, FS_Singleton
    <2>2. CASE t \notin s.suspended
        <3>1. s.suspended \cap {t} = {}
            BY <2>2
        <3> QED BY <2>2, <3>1, FS_EmptySet
    <2> QED BY <2>1, <2>2
<1>7. Asleep(s) = d \cup o \cup s.suspended /\ (d \cup o) \cap s.suspended = {}
    BY <1>4 DEF Asleep, Lists
<1> QED BY <1>3, <1>4, <1>5, <1>6, <1>7

\* The invariant says what TypeOK does,
LEMMA KernelTyped ==
    ASSUME KInv
    PROVE  TypeOK
<1>1. Lists(k) /\ k \in State
    BY DEF KInv, Lists
<1>2. k.xTickCount \in 0..(TickWrap - 1) /\ k.uxPendedTicks \in {0, 1}
    BY <1>1 DEF State, Ticks, portMAX_DELAY, KInv, Scheduler
<1>3. Delayed \cup k.suspended = Asleep(k) /\ \A e : Waiting(e) = Waits(k, e)
    BY DEF Delayed, Waiting, Asleep, Timed, Waits
<1>4. \A e \in Event : \A t \in Waiting(e) :
        /\ t \in Delayed \cup k.suspended /\ entry[t] # <<>>
        /\ Call(t).q = e[1] /\ Call(t).op = e[2]
    BY <1>1, <1>3 DEF Lists, KInv, Waiters, Waiter
<1>5. k.suspended \subseteq UNION {Waiting(e) : e \in Event}
    BY <1>3 DEF KInv, Waiters
<1>6. k.pxCurrentTCB \in Delayed \cup k.suspended =>
        step[k.pxCurrentTCB] \in {"resume_wait", "resume_delay", "yield"}
    BY <1>3 DEF KInv, Scheduler
<1> QED BY <1>1, <1>2, <1>4, <1>5, <1>6, InOneList DEF TypeOK, Rows

\* and more than NoLostWakeup.
LEMMA WakeupKept ==
    ASSUME KInv, QInv
    PROVE  NoLostWakeup
<1>1. ASSUME NEW q \in Queues, NEW op \in {"send", "receive"}, NEW e, e = <<q, op>>,
             Waiting(e) # {}
      PROVE  Offer(e) <= Cardinality(Coming(q, op))
    <2>1. e \in Event /\ e[1] = q /\ e[2] = op
        BY <1>1 DEF Event
    <2>2. PICK n \in Nat : n = Offer(e)
        BY <2>1, Offers
    <2>3. PICK W, W2 : /\ W = Woken(e) /\ W2 = Coming(q, op)
                       /\ W2 \in SUBSET Tasks /\ W \subseteq W2
        <3>1. Coming(q, op) \in SUBSET Tasks
            BY DEF Coming
        <3>2. ASSUME NEW t \in Woken(e) PROVE t \in Coming(q, op)
            <4>1. /\ t \in Tasks /\ Call(t).op = op /\ Call(t).q = q /\ entry[t] # <<>>
                  /\ t \notin Waits(k, e) /\ step[t] # "resume_timeout"
                BY <2>1 DEF Woken
            <4>2. Waiting(<<q, op>>) = Waits(k, e)
                BY <1>1 DEF Waiting, Waits
            <4> QED BY <4>1, <4>2 DEF Coming
        <3> QED BY <3>1, <3>2
    <2>4. IsFiniteSet(W2) /\ Cardinality(W2) \in Nat /\ Cardinality(W) \in Nat
        BY <2>3, TasksFinite
    <2>5. Cardinality(W) <= Cardinality(W2)
        BY <2>3, <2>4, FS_Subset
    <2>6. n <= Cardinality(W)
        BY <1>1, <2>1, <2>2, <2>3 DEF KInv, Served, Waiting, Waits
    <2>7. n <= Cardinality(W2)
        BY ONLY n \in Nat, <2>4, <2>5, <2>6
    <2> QED BY <2>2, <2>3, <2>7
<1>2. ASSUME NEW q \in Queues
      PROVE  /\ Offer(<<q, "receive">>) = queue[q].uxMessagesWaiting
             /\ Offer(<<q, "send">>) = uxLength[q] - queue[q].uxMessagesWaiting
    BY DEF Offer
<1> QED BY <1>1, <1>2 DEF NoLostWakeup

---------------------------------------------------------------------------
(* Lists in the order of their times. *)

\* No item stands behind a later one.
InOrder(list) == \A i, j \in DOMAIN list : i < j => list[i][2] <= list[j][2]

\* What is kept of a list is in order if the list is.
LEMMA OrderKept ==
    ASSUME NEW list \in Seq(TimedItems), InOrder(list), NEW places \in SUBSET (1..Len(list))
    PROVE  InOrder(Kept(list, places))
<1>1. ASSUME NEW m \in DOMAIN Kept(list, places), NEW n \in DOMAIN Kept(list, places), m < n
      PROVE  Kept(list, places)[m][2] <= Kept(list, places)[n][2]
    <2>1. PICK i, j \in places : /\ i < j /\ Kept(list, places)[m] = list[i]
                                 /\ Kept(list, places)[n] = list[j]
        BY <1>1, KeptIs
    <2>2. i \in DOMAIN list /\ j \in DOMAIN list
        BY LenProperties
    <2> QED BY <2>1, <2>2 DEF InOrder
<1> QED BY <1>1 DEF InOrder

\* So is its end.
LEMMA OrderCut ==
    ASSUME NEW list \in Seq(TimedItems), InOrder(list), NEW n \in Nat, n = Len(list),
           NEW p \in 1..(n + 1)
    PROVE  InOrder(SubSeq(list, p, n))
<1>1. PICK rest : rest = SubSeq(list, p, n)
    OBVIOUS
<1>2. DOMAIN list = 1..n
    BY LenProperties
<1>3. DOMAIN rest = 1..(n - p + 1) /\ \A i \in 1..(n - p + 1) : rest[i] = list[p + i - 1]
    BY <1>1
<1>4. ASSUME NEW i \in DOMAIN rest, NEW j \in DOMAIN rest, i < j PROVE rest[i][2] <= rest[j][2]
    <2>1. p + i - 1 \in 1..n /\ p + j - 1 \in 1..n /\ p + i - 1 < p + j - 1
        BY <1>3, <1>4
    <2> QED BY <1>2, <1>3, <1>4, <2>1 DEF InOrder
<1> QED BY <1>1, <1>4 DEF InOrder

\* What InsertAt does to the places.
LEMMA InsertedIs ==
    ASSUME NEW C, NEW list \in Seq(C), NEW n \in Nat, n = Len(list), NEW p \in 1..(n + 1),
           NEW x \in C
    PROVE  /\ DOMAIN InsertAt(list, p, x) = 1..(n + 1)
           /\ \A i \in 1..(p - 1) : InsertAt(list, p, x)[i] = list[i]
           /\ InsertAt(list, p, x)[p] = x
           /\ \A i \in (p + 1)..(n + 1) : InsertAt(list, p, x)[i] = list[i - 1]
<1>1. PICK h \in 0..n : h = p - 1
    OBVIOUS
<1>2. PICK m \in 0..n : m = n - h
    BY <1>1
<1>3. p = h + 1 /\ p - 1 = h /\ p + 1 = h + 2 /\ h + m = n /\ m = n - p + 1
    BY <1>1, <1>2
<1>4. PICK a, b, c, l : /\ a = SubSeq(list, 1, h) /\ b = SubSeq(list, p, n)
                        /\ c = a \o <<x>> /\ l = c \o b
    OBVIOUS
<1>5. a \in Seq(C) /\ Len(a) = h /\ \A i \in 1..h : a[i] = list[i]
    <2>1. 1 \in Int /\ h \in Int /\ \A i \in 1..h : list[i] \in C
        BY ElementOfSeq
    <2>2. /\ a \in Seq(C) /\ Len(a) = IF 1 <= h THEN h - 1 + 1 ELSE 0
          /\ \A i \in 1..(h - 1 + 1) : a[i] = list[1 + i - 1]
        BY <1>4, <2>1, SubSeqProperties
    <2>3. (IF 1 <= h THEN h - 1 + 1 ELSE 0) = h /\ h - 1 + 1 = h /\ \A i \in 1..h : 1 + i - 1 = i
        OBVIOUS
    <2> QED BY <2>2, <2>3
<1>6. b \in Seq(C) /\ Len(b) = m /\ \A i \in 1..m : b[i] = list[h + i]
    <2>1. p \in Int /\ n \in Int /\ \A i \in p..n : list[i] \in C
        BY ElementOfSeq
    <2>2. /\ b \in Seq(C) /\ Len(b) = IF p <= n THEN n - p + 1 ELSE 0
          /\ \A i \in 1..(n - p + 1) : b[i] = list[p + i - 1]
        BY <1>4, <2>1, SubSeqProperties
    <2>3. (IF p <= n THEN n - p + 1 ELSE 0) = m /\ n - p + 1 = m /\ \A i \in 1..m : p + i - 1 = h + i
        BY <1>3
    <2> QED BY <2>2, <2>3
<1>7. c \in Seq(C) /\ Len(c) = h + 1 /\ c[h + 1] = x /\ \A i \in 1..h : c[i] = list[i]
    <2>1. <<x>> \in Seq(C) /\ Len(<<x>>) = 1 /\ <<x>>[1] = x
        OBVIOUS
    <2>2. /\ c \in Seq(C) /\ Len(c) = h + 1
          /\ \A i \in 1..(h + 1) : c[i] = IF i <= h THEN a[i] ELSE <<x>>[i - h]
        BY <1>4, <1>5, <2>1, ConcatProperties
    <2>3. /\ h + 1 \in 1..(h + 1) /\ ~(h + 1 <= h) /\ h + 1 - h = 1
          /\ \A i \in 1..h : i \in 1..(h + 1) /\ i <= h
        OBVIOUS
    <2> QED BY <1>5, <2>1, <2>2, <2>3
<1>8. /\ Len(l) = n + 1 /\ l \in Seq(C)
      /\ \A i \in 1..(n + 1) : l[i] = IF i <= h + 1 THEN c[i] ELSE b[i - (h + 1)]
    <2>1. /\ l \in Seq(C) /\ Len(l) = Len(c) + Len(b)
          /\ \A i \in 1..(Len(c) + Len(b)) : l[i] = IF i <= Len(c) THEN c[i] ELSE b[i - Len(c)]
        <3>1. c \in Seq(C) /\ b \in Seq(C) /\ l = c \o b
            BY <1>4, <1>6, <1>7
        <3> QED BY ONLY <3>1, ConcatProperties, Zenon
    <2>2. Len(c) + Len(b) = n + 1 /\ Len(c) = h + 1
        BY <1>3, <1>6, <1>7
    <2> QED BY <2>1, <2>2
<1>9. l[h + 1] = x /\ \A i \in 1..h : l[i] = list[i]
    <2>1. /\ \A i \in 1..h : i \in 1..(n + 1) /\ i <= h + 1
          /\ h + 1 \in 1..(n + 1) /\ h + 1 <= h + 1
        BY <1>3
    <2> QED BY <1>7, <1>8, <2>1
<1>10. \A i \in (h + 2)..(n + 1) : l[i] = list[i - 1]
    <2>1. \A i \in (h + 2)..(n + 1) : /\ i \in 1..(n + 1) /\ ~(i <= h + 1)
                                       /\ i - (h + 1) \in 1..m /\ h + (i - (h + 1)) = i - 1
        BY <1>3
    <2> QED BY <1>6, <1>8, <2>1
<1>11. l = InsertAt(list, p, x)
    BY <1>3, <1>4 DEF InsertAt
<1>12. DOMAIN l = 1..(n + 1)
    BY <1>8, LenProperties
<1> QED BY <1>3, <1>9, <1>10, <1>11, <1>12

\* vListInsert keeps the order.
LEMMA OrderInsert ==
    ASSUME NEW list \in Seq(TimedItems), InOrder(list), NEW item \in TimedItems
    PROVE  InOrder(Insert(list, item))
<1>1. PICK n \in Nat : n = Len(list) /\ DOMAIN list = 1..n
    BY LenProperties
<1>2. PICK time \in Nat : time = item[2]
    BY KernelAssumption DEF TimedItems, Ticks, portMAX_DELAY
<1>3. PICK p \in 1..(n + 1) :
        /\ p = Above(list, time) /\ \A j \in 1..(p - 1) : list[j][2] <= time
        /\ p <= n => time < list[p][2]
    <2>1. list \in Seq(Tasks \X Ticks) /\ time \in Int
        BY DEF TimedItems
    <2>2. PICK p : p = Above(list, time)
        OBVIOUS
    <2>3. /\ p \in 1..(n + 1) /\ \A j \in 1..(p - 1) : list[j][2] <= time
          /\ p <= n => time < list[p][2]
        BY <1>1, <2>1, <2>2, AboveIs
    <2> QED BY <2>2, <2>3
<1>4. PICK l : l = Insert(list, item)
    OBVIOUS
<1>5. /\ DOMAIN l = 1..(n + 1) /\ l[p] = item
      /\ \A i \in 1..(p - 1) : l[i] = list[i]
      /\ \A i \in (p + 1)..(n + 1) : l[i] = list[i - 1]
    <2>1. l = InsertAt(list, p, item)
        BY <1>2, <1>3, <1>4 DEF Insert
    <2> QED BY <1>1, <2>1, InsertedIs
<1>6. \A i \in 1..n : list[i][2] \in Nat
    BY <1>1, KernelAssumption DEF TimedItems, Ticks, portMAX_DELAY
<1>7. \A i \in p..n : time <= list[i][2]
    <2>1. ASSUME NEW i \in p..n PROVE time <= list[i][2]
        <3>1. p \in 1..n /\ i \in 1..n /\ time < list[p][2]
            BY <1>3
        <3>2. p < i => list[p][2] <= list[i][2]
            BY <1>1, <3>1 DEF InOrder
        <3> QED BY <1>2, <1>6, <3>1, <3>2
    <2> QED BY <2>1
<1>8. ASSUME NEW i \in 1..(n + 1), NEW j \in 1..(n + 1), i < j PROVE l[i][2] <= l[j][2]
    <2>1. CASE j < p
        <3>1. i \in 1..(p - 1) /\ j \in 1..(p - 1) /\ i \in 1..n /\ j \in 1..n
            BY <1>8, <2>1
        <3> QED BY <1>1, <1>5, <1>8, <3>1 DEF InOrder
    <2>2. CASE j = p
        <3>1. i \in 1..(p - 1)
            BY <1>8, <2>2
        <3> QED BY <1>2, <1>3, <1>5, <2>2, <3>1
    <2>3. CASE p < j
        <3>1. j \in (p + 1)..(n + 1) /\ j - 1 \in p..n /\ j - 1 \in 1..n
            BY <1>8, <2>3
        <3>2. CASE i = p
            BY <1>2, <1>5, <1>7, <3>1, <3>2
        <3>3. CASE p < i
            <4>1. i \in (p + 1)..(n + 1) /\ i - 1 \in 1..n /\ i - 1 < j - 1
                BY <1>8, <3>3
            <4>2. list[i - 1][2] <= list[j - 1][2]
                BY <1>1, <3>1, <4>1 DEF InOrder
            <4> QED BY <1>5, <3>1, <4>1, <4>2
        <3>4. CASE i < p
            <4>1. i \in 1..(p - 1) /\ i \in 1..n /\ i < j - 1
                BY <1>8, <3>1, <3>4
            <4>2. list[i][2] <= list[j - 1][2]
                BY <1>1, <3>1, <4>1 DEF InOrder
            <4> QED BY <1>5, <3>1, <4>1, <4>2
        <3> QED BY <3>2, <3>3, <3>4
    <2> QED BY <2>1, <2>2, <2>3
<1> QED BY <1>4, <1>5, <1>8 DEF InOrder

\* The time of the first one is no later than any other.
LEMMA FirstTime ==
    ASSUME NEW list \in Seq(TimedItems), InOrder(list)
    PROVE  \A a \in ToSet(list) : UnblockTime(list) <= a[2]
<1> SUFFICES ASSUME NEW a \in ToSet(list) PROVE UnblockTime(list) <= a[2]
    OBVIOUS
<1>1. PICK n \in Nat : n = Len(list) /\ DOMAIN list = 1..n
    BY LenProperties
<1>2. PICK i \in 1..n : a = list[i]
    BY <1>1 DEF ToSet
<1>3. UnblockTime(list) = list[1][2] /\ 1 \in 1..n
    <2>1. list # <<>> /\ 1 \in 1..n
        BY <1>1, <1>2
    <2> QED BY <2>1 DEF UnblockTime
<1>4. list[i][2] \in Nat
    BY <1>1, KernelAssumption DEF TimedItems, Ticks, portMAX_DELAY
<1>5. 1 < i => list[1][2] <= list[i][2]
    BY <1>1, <1>3 DEF InOrder
<1> QED BY <1>2, <1>3, <1>4, <1>5

---------------------------------------------------------------------------
(* The delayed lists and the time. *)

\* The items of both delayed lists, and the ticks until the time of one.
Alarms(s) == ToSet(s.delayed) \cup ToSet(s.overflow)
Due(s, a) == IF s.xTickCount < a[2] THEN a[2] - s.xTickCount
             ELSE a[2] - s.xTickCount + TickWrap

\* Every alarm is in the list its time belongs to, in its order, and the next time
\* to look is not behind any.
AlarmsSet(s) ==
    /\ InOrder(s.delayed) /\ InOrder(s.overflow)
    /\ \A a \in ToSet(s.delayed) : s.xTickCount < a[2] /\ s.xNextTaskUnblockTime <= a[2]
    /\ \A a \in ToSet(s.overflow) : a[2] < s.xTickCount

\* The values of the times.
LEMMA TimesAre ==
    /\ TickWrap \in Nat \ {0} /\ portMAX_DELAY = TickWrap - 1 /\ Ticks = 0..(TickWrap - 1)
    /\ \A s \in State : /\ s.xTickCount \in 0..(TickWrap - 1)
                        /\ s.xNextTaskUnblockTime \in 0..(TickWrap - 1)
                        /\ \A a \in Alarms(s) : a \in TimedItems /\ a[2] \in 0..(TickWrap - 1)
<1>1. TickWrap \in Nat \ {0} /\ portMAX_DELAY = TickWrap - 1 /\ Ticks = 0..(TickWrap - 1)
    BY KernelAssumption DEF Ticks, portMAX_DELAY
<1>2. ASSUME NEW s \in State, NEW a \in Alarms(s) PROVE a \in TimedItems /\ a[2] \in Ticks
    <2>1. s.delayed \in Seq(TimedItems) /\ s.overflow \in Seq(TimedItems)
        BY DEF State
    <2>2. a \in TimedItems
        BY <2>1, ToSetIs DEF Alarms, Places
    <2> QED BY <2>2 DEF TimedItems
<1>3. \A s \in State : s.xTickCount \in Ticks /\ s.xNextTaskUnblockTime \in Ticks
    BY DEF State
<1> QED BY <1>1, <1>2, <1>3

\* Unblock leaves just the alarms in the delayed list whose time has not come.
LEMMA UnblockAlarms ==
    ASSUME NEW s \in State, InOrder(s.delayed), NEW s2, s2 = Unblock(s)
    PROVE  /\ ToSet(s2.delayed) = {a \in ToSet(s.delayed) : s.xTickCount < a[2]}
           /\ InOrder(s2.delayed) /\ s2.overflow = s.overflow
           /\ \A a \in ToSet(s2.delayed) : s2.xNextTaskUnblockTime <= a[2]
           /\ s2.xTickCount = s.xTickCount /\ s2.xNumOfOverflows = s.xNumOfOverflows
<1>1. s.delayed \in Seq(TimedItems)
    BY DEF State
<1>a. PICK now \in Nat : now = s.xTickCount
    BY TimesAre
<1>b. PICK list : list = s.delayed
    OBVIOUS
<1>2. PICK n \in Nat : n = Len(list) /\ list = s.delayed /\ DOMAIN list = 1..n /\ now = s.xTickCount
    BY <1>1, <1>a, <1>b, LenProperties
<1>3. PICK p \in 1..(n + 1) :
        /\ p = Above(list, now) /\ \A j \in 1..(p - 1) : list[j][2] <= now
        /\ p <= n => now < list[p][2]
    <2>1. list \in Seq(Tasks \X Ticks) /\ now \in Int
        BY <1>1, <1>2 DEF TimedItems
    <2>2. PICK p : p = Above(list, now)
        OBVIOUS
    <2>3. /\ p \in 1..(n + 1) /\ \A j \in 1..(p - 1) : list[j][2] <= now
          /\ p <= n => now < list[p][2]
        BY <1>2, <2>1, <2>2, AboveIs
    <2> QED BY <2>2, <2>3
<1>4. PICK rest : rest = SubSeq(list, p, n)
    OBVIOUS
<1>5. PICK h \in 0..n : p = h + 1 /\ h = p - 1
    <2>1. p - 1 \in 0..n
        OBVIOUS
    <2> QED BY <2>1
<1>6. rest \in Seq(TimedItems) /\ ToSet(rest) = {list[i] : i \in p..n}
    <2>1. /\ SubSeq(list, h + 1, Len(list)) \in Seq(TimedItems)
          /\ ToSet(SubSeq(list, h + 1, Len(list))) = {list[i] : i \in (h + 1)..Len(list)}
        <3>1. list \in Seq(TimedItems) /\ h \in 0..Len(list)
            BY <1>1, <1>2
        <3> QED BY ONLY <3>1, Parted
    <2> QED BY <1>2, <1>4, <1>5, <2>1
<1>7. InOrder(rest)
    BY <1>1, <1>2, <1>4, OrderCut
<1>8. \A i \in 1..n : list[i][2] \in Nat
    BY <1>1, <1>2, TimesAre DEF TimedItems
<1>9. \A i \in p..n : now < list[i][2]
    <2>1. ASSUME NEW i \in p..n PROVE now < list[i][2]
        <3>1. p \in 1..n /\ i \in 1..n /\ now < list[p][2]
            BY <1>3
        <3>2. p < i => list[p][2] <= list[i][2]
            BY <1>2, <3>1 DEF InOrder
        <3> QED BY <1>8, <3>1, <3>2
    <2> QED BY <2>1
<1>10. ToSet(rest) = {a \in ToSet(list) : now < a[2]}
    <2>1. ToSet(list) = {list[i] : i \in 1..n}
        BY <1>2 DEF ToSet
    <2>2. \A i \in 1..n : i \in 1..(p - 1) \/ i \in p..n
        OBVIOUS
    <2>3. \A i \in 1..n : now < list[i][2] => i \in p..n
        BY <1>3, <1>8, <2>2
    <2>4. \A i \in p..n : i \in 1..n
        OBVIOUS
    <2> QED BY <1>6, <1>9, <2>1, <2>3, <2>4
<1>11. /\ s2.delayed = rest /\ s2.overflow = s.overflow /\ s2.xTickCount = s.xTickCount
       /\ s2.xNumOfOverflows = s.xNumOfOverflows
       /\ s2.xNextTaskUnblockTime = UnblockTime(rest)
    BY <1>2, <1>3, <1>4 DEF Unblock, State
<1>12. \A a \in ToSet(rest) : UnblockTime(rest) <= a[2]
    BY <1>6, <1>7, FirstTime
<1> QED BY <1>2, <1>7, <1>10, <1>11, <1>12

\* One tick goes by: the alarms due with it are gone, the others a tick nearer.
Passes(s, s2) ==
    /\ AlarmsSet(s2)
    /\ s2.xTickCount = (s.xTickCount + 1) % TickWrap
    /\ s2.xNumOfOverflows = IF s2.xTickCount = 0 THEN (s.xNumOfOverflows + 1) % OverflowWrap
                            ELSE s.xNumOfOverflows
    /\ Alarms(s2) = {a \in Alarms(s) : Due(s, a) > 1}
    /\ \A a \in Alarms(s2) : Due(s2, a) = Due(s, a) - 1

\* No time goes by.
Stands(s, s2) ==
    /\ AlarmsSet(s2) /\ Alarms(s2) = Alarms(s)
    /\ s2.xTickCount = s.xTickCount /\ s2.xNumOfOverflows = s.xNumOfOverflows

\* Nothing but the ready list, the events or the flags change.
LEMMA SameAlarms ==
    ASSUME NEW s, AlarmsSet(s), NEW s2, s2.delayed = s.delayed, s2.overflow = s.overflow,
           s2.xTickCount = s.xTickCount, s2.xNumOfOverflows = s.xNumOfOverflows,
           s2.xNextTaskUnblockTime = s.xNextTaskUnblockTime
    PROVE  Stands(s, s2)
BY DEF Stands, AlarmsSet, Alarms

\* xTaskIncrementTick within a round of the tick count: after Unblock, or when there
\* is nothing to unblock.
LEMMA TickWithin ==
    ASSUME NEW s \in State, NEW s2 \in State, AlarmsSet(s), s.xTickCount + 1 < TickWrap,
           s2.xTickCount = s.xTickCount + 1, s2.xNumOfOverflows = s.xNumOfOverflows,
           s2.overflow = s.overflow, InOrder(s2.delayed),
           ToSet(s2.delayed) = {a \in ToSet(s.delayed) : s2.xTickCount < a[2]},
           \A a \in ToSet(s2.delayed) : s2.xNextTaskUnblockTime <= a[2]
    PROVE  Passes(s, s2)
<1>1. PICK T \in Nat \ {0}, now \in Nat :
        T = TickWrap /\ now = s.xTickCount /\ now + 1 < T /\ s2.xTickCount = now + 1
    <2>1. s.xTickCount \in Nat /\ TickWrap \in Nat \ {0}
        BY TimesAre
    <2> QED BY <2>1
<1>2. (now + 1) % T = now + 1 /\ now + 1 # 0
    BY <1>1
<1>3. PICK D, O : D = ToSet(s.delayed) /\ O = ToSet(s.overflow)
    OBVIOUS
<1>4. /\ \A a \in D \cup O : a[2] \in 0..(T - 1)
      /\ \A a \in D : now < a[2]
      /\ \A a \in O : a[2] < now
    BY <1>1, <1>3, TimesAre DEF Alarms, AlarmsSet
<1>5. PICK D2 : D2 = {a \in D : now + 1 < a[2]} /\ D2 = ToSet(s2.delayed)
    BY <1>1, <1>3
<1>6. AlarmsSet(s2)
    <2>1. \A a \in O : a[2] < now + 1
        BY <1>4
    <2> QED BY <1>1, <1>3, <1>5, <2>1 DEF AlarmsSet
<1>7. \A a \in D : Due(s, a) = a[2] - now /\ (Due(s, a) > 1 <=> now + 1 < a[2])
    BY <1>1, <1>4 DEF Due
<1>8. \A a \in O : Due(s, a) = a[2] - now + T /\ Due(s, a) > 1
    BY <1>1, <1>4 DEF Due
<1>9. Alarms(s2) = D2 \cup O /\ Alarms(s) = D \cup O
    BY <1>3, <1>5 DEF Alarms
<1>10. D2 \cup O = {a \in D \cup O : Due(s, a) > 1}
    BY <1>5, <1>7, <1>8
<1>11. \A a \in D2 \cup O : Due(s2, a) = Due(s, a) - 1
    <2>1. \A a \in D2 : Due(s2, a) = a[2] - (now + 1)
        BY <1>1, <1>5 DEF Due
    <2>2. \A a \in O : Due(s2, a) = a[2] - (now + 1) + T
        BY <1>1, <1>4 DEF Due
    <2>3. \A a \in D2 : a \in D
        BY <1>5
    <2> QED BY <1>1, <1>4, <1>7, <1>8, <2>1, <2>2, <2>3
<1> QED BY <1>1, <1>2, <1>6, <1>9, <1>10, <1>11 DEF Passes

\* The same where the tick count wraps: the overflow list takes the place of the
\* delayed one, which is empty.
LEMMA TickOver ==
    ASSUME NEW s \in State, NEW s2 \in State, AlarmsSet(s), s.xTickCount + 1 = TickWrap,
           s2.xTickCount = 0, s2.xNumOfOverflows = (s.xNumOfOverflows + 1) % OverflowWrap,
           s2.overflow = s.delayed, InOrder(s2.delayed),
           ToSet(s2.delayed) = {a \in ToSet(s.overflow) : 0 < a[2]},
           \A a \in ToSet(s2.delayed) : s2.xNextTaskUnblockTime <= a[2]
    PROVE  Passes(s, s2)
<1>1. PICK T \in Nat \ {0}, now \in Nat : T = TickWrap /\ now = s.xTickCount /\ now + 1 = T
    BY TimesAre
<1>2. T % T = 0
    BY <1>1
<1>3. PICK D, O : D = ToSet(s.delayed) /\ O = ToSet(s.overflow)
    OBVIOUS
<1>4. /\ \A a \in D \cup O : a[2] \in 0..(T - 1)
      /\ \A a \in D : now < a[2]
      /\ \A a \in O : a[2] < now
    BY <1>1, <1>3, TimesAre DEF Alarms, AlarmsSet
<1>5. D = {}
    BY <1>1, <1>4
<1>6. PICK D2 : D2 = {a \in O : 0 < a[2]} /\ D2 = ToSet(s2.delayed) /\ ToSet(s2.overflow) = {}
    BY <1>3, <1>5
<1>7. AlarmsSet(s2)
    <2>1. InOrder(s2.overflow)
        BY DEF AlarmsSet
    <2> QED BY <1>6, <2>1 DEF AlarmsSet
<1>8. \A a \in O : Due(s, a) = a[2] + 1 /\ (Due(s, a) > 1 <=> 0 < a[2])
    BY <1>1, <1>4 DEF Due
<1>9. Alarms(s2) = D2 /\ Alarms(s) = O
    BY <1>3, <1>5, <1>6 DEF Alarms
<1>10. D2 = {a \in O : Due(s, a) > 1}
    BY <1>6, <1>8
<1>11. \A a \in D2 : Due(s2, a) = Due(s, a) - 1
    <2>1. \A a \in D2 : Due(s2, a) = a[2] /\ a \in O /\ a[2] \in Nat
        BY <1>4, <1>6 DEF Due
    <2> QED BY <1>8, <2>1
<1> QED BY <1>1, <1>2, <1>7, <1>9, <1>10, <1>11 DEF Passes

\* xTaskIncrementTick passes one tick, or owes it while the scheduler is suspended.
LEMMA TickAlarms ==
    ASSUME NEW s, Lists(s), AlarmsSet(s), NEW s2, s2 = xTaskIncrementTick(s)
    PROVE  /\ s.uxSchedulerSuspended = 0 => Passes(s, s2)
           /\ s.uxSchedulerSuspended = 1 => Stands(s, s2)
<1>0. s \in State /\ s2 \in State
    BY TickLists DEF Lists, Unticked
<1>1. CASE s.uxSchedulerSuspended = 1
    <2>1. s2 = [s EXCEPT !.uxPendedTicks = s.uxPendedTicks + 1]
        BY <1>0, <1>1 DEF xTaskIncrementTick, State
    <2>2. /\ s2.delayed = s.delayed /\ s2.overflow = s.overflow /\ s2.xTickCount = s.xTickCount
          /\ s2.xNumOfOverflows = s.xNumOfOverflows
          /\ s2.xNextTaskUnblockTime = s.xNextTaskUnblockTime
        BY <1>0, <2>1 DEF State
    <2> QED BY <1>1, <2>2, SameAlarms
<1>2. CASE s.uxSchedulerSuspended = 0
    <2>1. PICK T \in Nat \ {0}, c \in Nat : T = TickWrap /\ c = s.xTickCount /\ c < T
        <3>1. s.xTickCount \in 0..(TickWrap - 1) /\ TickWrap \in Nat \ {0}
            BY <1>0, TimesAre
        <3>2. s.xTickCount < TickWrap
            BY ONLY <3>1
        <3> QED BY <3>1, <3>2
    <2>2. PICK now \in Nat : now = (c + 1) % T /\ now = (s.xTickCount + 1) % TickWrap
                             /\ now = IF c + 1 = T THEN 0 ELSE c + 1
        <3>1. (c + 1) % T = IF c + 1 = T THEN 0 ELSE c + 1
            BY <2>1
        <3> QED BY <2>1, <3>1
    <2>3. now \in Ticks
        BY <2>1, <2>2, TimesAre
    <2>4. PICK u : u = [s EXCEPT !.xTickCount = now]
        OBVIOUS
    <2>5. PICK v : v = IF now = 0 THEN taskSWITCH_DELAYED_LISTS(u) ELSE u
        OBVIOUS
    <2>6. s2 = IF now >= v.xNextTaskUnblockTime THEN Unblock(v) ELSE v
        BY <1>2, <2>2, <2>4, <2>5 DEF xTaskIncrementTick
    <2>7. /\ u \in State /\ u.xTickCount = now /\ u.delayed = s.delayed /\ u.overflow = s.overflow
          /\ u.xNumOfOverflows = s.xNumOfOverflows /\ u.ready = s.ready
          /\ u.xNextTaskUnblockTime = s.xNextTaskUnblockTime
          /\ u.suspended = s.suspended /\ u.events = s.events
        BY <1>0, <2>3, <2>4 DEF State
    <2>8. Lists(u)
        BY ONLY <2>7, Lists(s), SameReady
    <2>9. ASSUME v \in State, v.xTickCount = now, InOrder(v.delayed),
                 \A a \in ToSet(v.delayed) : v.xNextTaskUnblockTime <= a[2]
          PROVE  /\ ToSet(s2.delayed) = {a \in ToSet(v.delayed) : now < a[2]}
                 /\ InOrder(s2.delayed) /\ s2.overflow = v.overflow /\ s2.xTickCount = now
                 /\ s2.xNumOfOverflows = v.xNumOfOverflows
                 /\ \A a \in ToSet(s2.delayed) : s2.xNextTaskUnblockTime <= a[2]
        <3>1. CASE now >= v.xNextTaskUnblockTime
            <4>1. s2 = Unblock(v)
                BY <2>6, <3>1
            <4> QED BY <2>9, <4>1, UnblockAlarms
        <3>2. CASE ~(now >= v.xNextTaskUnblockTime)
            <4>1. s2 = v
                BY <2>6, <3>2
            <4>2. \A a \in ToSet(v.delayed) : now < a[2]
                <5>1. v.xNextTaskUnblockTime \in Nat /\ \A a \in ToSet(v.delayed) : a[2] \in Nat
                    BY <2>9, TimesAre DEF Alarms
                <5> QED BY <2>9, <3>2, <5>1
            <4> QED BY <2>9, <4>1, <4>2
        <3> QED BY <3>1, <3>2
    <2>10. CASE now = 0
        <3>1. v = taskSWITCH_DELAYED_LISTS(u) /\ c + 1 = T
            BY <2>2, <2>5, <2>10
        <3>2. v \in State
            BY <2>8, <3>1, SwappedLists DEF Unticked
        <3>3. /\ v.delayed = s.overflow /\ v.overflow = s.delayed /\ v.xTickCount = now
              /\ v.xNumOfOverflows = (s.xNumOfOverflows + 1) % OverflowWrap
              /\ v.xNextTaskUnblockTime = UnblockTime(s.overflow)
            BY <2>7, <3>1 DEF taskSWITCH_DELAYED_LISTS, State
        <3>4. s.overflow \in Seq(TimedItems) /\ InOrder(s.overflow)
            BY <1>0 DEF State, AlarmsSet
        <3>5. \A a \in ToSet(s.overflow) : UnblockTime(s.overflow) <= a[2]
            BY <3>4, FirstTime
        <3> QED BY <1>0, <1>2, <2>1, <2>9, <2>10, <3>1, <3>2, <3>3, <3>4, <3>5, TickOver
    <2>11. CASE now # 0
        <3>1. v = u /\ now = c + 1 /\ c + 1 < T
            BY <2>1, <2>2, <2>5, <2>11
        <3>2. /\ InOrder(v.delayed)
              /\ \A a \in ToSet(v.delayed) : v.xNextTaskUnblockTime <= a[2]
            BY <2>7, <3>1 DEF AlarmsSet
        <3> QED BY <1>0, <1>2, <2>1, <2>7, <2>9, <3>1, <3>2, TickWithin
    <2> QED BY <2>10, <2>11
<1> QED BY <1>0, <1>1, <1>2 DEF State

\* A tick between steps that take no time.
LEMMA PassesBetween ==
    ASSUME NEW s, NEW u, NEW v, NEW w, Stands(s, u), Stands(v, w)
    PROVE  /\ Passes(u, v) => Passes(s, w)
           /\ v = u => Stands(s, w)
<1>1. /\ \A a : Due(u, a) = Due(s, a) /\ Due(w, a) = Due(v, a)
      /\ Alarms(u) = Alarms(s) /\ Alarms(w) = Alarms(v)
    BY DEF Due, Stands
<1> QED BY <1>1 DEF Passes, Stands

\* vTaskSwitchContext takes no time.
LEMMA SwitchAlarms ==
    ASSUME NEW s, Lists(s), AlarmsSet(s), NEW s2, s2 = vTaskSwitchContext(s)
    PROVE  Stands(s, s2)
<1>1. Unswitched(s, s2)
    BY SwitchLists
<1> QED BY <1>1, SameAlarms DEF Unswitched

\* xTaskResumeAll makes up for the tick that is owed.
LEMMA ResumeAlarms ==
    ASSUME NEW s, Lists(s), AlarmsSet(s), s.uxPendedTicks \in {0, 1},
           NEW s2, s2 = xTaskResumeAll(s)
    PROVE  /\ s.uxPendedTicks = 0 => Stands(s, s2)
           /\ s.uxPendedTicks = 1 => Passes(s, s2)
<1>0. s \in State
    BY DEF Lists
<1>1. PICK u, v, w : MakesUp(s, u, v, w, s2)
    BY ResumeMakesUp
<1>2. /\ u = [s EXCEPT !.uxSchedulerSuspended = 0]
      /\ v = IF s.uxPendedTicks = 0 THEN u ELSE xTaskIncrementTick(u)
      /\ w = [v EXCEPT !.uxPendedTicks = 0]
      /\ s2 = IF w.xYieldPending THEN vTaskSwitchContext(w) ELSE w
    BY <1>1 DEF MakesUp
<1>3. /\ u \in State /\ u.uxSchedulerSuspended = 0 /\ u.ready = s.ready /\ u.events = s.events
      /\ u.delayed = s.delayed /\ u.overflow = s.overflow /\ u.suspended = s.suspended
      /\ u.xTickCount = s.xTickCount /\ u.xNumOfOverflows = s.xNumOfOverflows
      /\ u.xNextTaskUnblockTime = s.xNextTaskUnblockTime
    BY <1>0, <1>2 DEF State
<1>4. Lists(u) /\ Stands(s, u)
    <2>1. Lists(u)
        BY ONLY <1>3, Lists(s), SameReady
    <2>2. Stands(s, u)
        BY <1>3, SameAlarms
    <2> QED BY <2>1, <2>2
<1>5. /\ Lists(v) /\ v \in State /\ AlarmsSet(v)
      /\ s.uxPendedTicks = 0 => v = u
      /\ s.uxPendedTicks = 1 => Passes(u, v)
    <2>1. AlarmsSet(u)
        BY <1>4 DEF Stands
    <2>2. CASE s.uxPendedTicks = 0
        BY <1>2, <1>3, <1>4, <2>1, <2>2
    <2>3. CASE s.uxPendedTicks = 1
        <3>1. v = xTaskIncrementTick(u)
            BY <1>2, <2>3
        <3>2. Lists(v) /\ v \in State
            BY <1>4, <3>1, TickLists DEF Later, Unticked
        <3>3. Passes(u, v)
            BY <1>3, <1>4, <2>1, <3>1, TickAlarms
        <3> QED BY <2>3, <3>2, <3>3 DEF Passes
    <2> QED BY <2>2, <2>3
<1>6. /\ w \in State /\ w.ready = v.ready /\ w.events = v.events
      /\ w.delayed = v.delayed /\ w.overflow = v.overflow /\ w.suspended = v.suspended
      /\ w.xTickCount = v.xTickCount /\ w.xNumOfOverflows = v.xNumOfOverflows
      /\ w.xNextTaskUnblockTime = v.xNextTaskUnblockTime
    BY <1>2, <1>5 DEF State
<1>7. Lists(w) /\ Stands(v, w)
    <2>1. Lists(w)
        BY ONLY <1>5, <1>6, SameReady
    <2>2. Stands(v, w)
        BY <1>5, <1>6, SameAlarms
    <2> QED BY <2>1, <2>2
<1>8. Stands(v, s2)
    <2>1. CASE ~w.xYieldPending
        BY <1>2, <1>7, <2>1
    <2>2. CASE w.xYieldPending
        <3>1. Stands(w, s2)
            BY <1>2, <1>7, <2>2, SwitchAlarms DEF Stands
        <3> QED BY <1>7, <3>1 DEF Stands
    <2> QED BY <2>1, <2>2
<1> QED BY <1>4, <1>5, <1>8, PassesBetween

---------------------------------------------------------------------------
(* Going to sleep and being woken. *)

\* The current task has gone to sleep for some ticks, or for ever.
Winds(s, s2, ticks, forever) ==
    /\ AlarmsSet(s2)
    /\ s2.xTickCount = s.xTickCount /\ s2.xNumOfOverflows = s.xNumOfOverflows
    /\ IF forever THEN Alarms(s2) = Alarms(s)
       ELSE \E a \in TimedItems : /\ a[1] = s.pxCurrentTCB /\ Due(s, a) = ticks
                                  /\ Alarms(s2) = Alarms(s) \cup {a}

\* The time to wake is on this side of the wrap or behind it.
LEMMA WakeIs ==
    ASSUME NEW now \in 0..(TickWrap - 1), NEW ticks \in 1..(TickWrap - 1),
           NEW wake, wake = (now + ticks) % TickWrap
    PROVE  /\ wake \in Ticks
           /\ wake < now => wake = now + ticks - TickWrap
           /\ ~(wake < now) => wake = now + ticks
<1>1. PICK T \in Nat \ {0} : T = TickWrap
    BY TimesAre
<1>2. now \in 0..(T - 1) /\ ticks \in 1..(T - 1) /\ wake = (now + ticks) % T
    BY <1>1
<1>3. wake = IF now + ticks < T THEN now + ticks ELSE now + ticks - T
    <2>1. PICK n \in Nat : n = now + ticks /\ n < 2 * T
        BY <1>2
    <2>2. n % T = IF n < T THEN n ELSE n - T
        <3>1. CASE n < T
            BY <2>1, <3>1
        <3>2. CASE ~(n < T)
            <4>1. PICK m \in 0..(T - 1) : n = m + T
                <5>1. n - T \in 0..(T - 1)
                    BY <2>1, <3>2
                <5> QED BY <5>1
            <4>2. (m + T) % T = m
                BY <1>1, <4>1
            <4> QED BY <3>2, <4>1, <4>2
        <3> QED BY <3>1, <3>2
    <2> QED BY <1>2, <2>1, <2>2
<1>4. /\ wake \in 0..(T - 1)
      /\ wake < now => wake = now + ticks - T
      /\ ~(wake < now) => wake = now + ticks
    BY ONLY <1>2, <1>3
<1> QED BY <1>1, <1>4, TimesAre

\* prvAddCurrentTaskToDelayedList sets one more alarm, in the list it belongs to.
LEMMA SleepAlarms ==
    ASSUME NEW s, Lists(s), AlarmsSet(s), s.pxCurrentTCB \in Tasks \ Asleep(s),
           NEW ticks \in 1..(TickWrap - 1), NEW b \in BOOLEAN,
           NEW s2, s2 = prvAddCurrentTaskToDelayedList(s, ticks, b)
    PROVE  Winds(s, s2, ticks, ticks = portMAX_DELAY /\ b)
<1>0. s \in State
    BY DEF Lists
<1>1. PICK t : t = s.pxCurrentTCB /\ t \in Tasks \ Asleep(s)
    OBVIOUS
<1>2. PICK wake \in Ticks :
        /\ wake = (s.xTickCount + ticks) % TickWrap
        /\ wake < s.xTickCount => wake = s.xTickCount + ticks - TickWrap
        /\ ~(wake < s.xTickCount) => wake = s.xTickCount + ticks
    <2>1. s.xTickCount \in 0..(TickWrap - 1)
        BY <1>0, TimesAre
    <2> QED BY <2>1, WakeIs
<1>3. PICK a \in TimedItems : a = <<t, wake>> /\ a[1] = t /\ a[2] = wake
    <2>1. <<t, wake>> \in TimedItems /\ <<t, wake>>[1] = t /\ <<t, wake>>[2] = wake
        BY <1>1 DEF TimedItems
    <2> QED BY <2>1
<1>4. PICK ready : ready = Removed(s.ready, t)
    OBVIOUS
<1>5. s2 = IF ticks = portMAX_DELAY /\ b
           THEN [s EXCEPT !.ready = ready, !.suspended = s.suspended \cup {t}]
           ELSE IF wake < s.xTickCount
           THEN [s EXCEPT !.ready = ready, !.overflow = Insert(s.overflow, a)]
           ELSE [s EXCEPT !.ready = ready, !.delayed = Insert(s.delayed, a),
                          !.xNextTaskUnblockTime = IF wake < s.xNextTaskUnblockTime THEN wake
                                                   ELSE s.xNextTaskUnblockTime]
    BY <1>0, <1>1, <1>2, <1>3, <1>4 DEF prvAddCurrentTaskToDelayedList, State
<1>6. /\ s.delayed \in Seq(TimedItems) /\ s.overflow \in Seq(TimedItems)
      /\ IsInjective(s.delayed) /\ IsInjective(s.overflow)
      /\ a \notin ToSet(s.delayed) /\ a \notin ToSet(s.overflow)
    BY <1>0, <1>1, <1>3 DEF Lists, State, Asleep, Timed
<1>7. s.xTickCount \in Nat /\ wake \in Nat /\ s.xNextTaskUnblockTime \in Nat
    BY <1>0, TimesAre
<1>8. CASE ticks = portMAX_DELAY /\ b
    <2>1. /\ s2.delayed = s.delayed /\ s2.overflow = s.overflow
          /\ s2.xTickCount = s.xTickCount /\ s2.xNumOfOverflows = s.xNumOfOverflows
          /\ s2.xNextTaskUnblockTime = s.xNextTaskUnblockTime
        BY <1>0, <1>5, <1>8 DEF State
    <2>2. Stands(s, s2)
        BY <2>1, SameAlarms
    <2> QED BY <1>8, <2>2 DEF Winds, Stands
<1>9. CASE ~(ticks = portMAX_DELAY /\ b) /\ wake < s.xTickCount
    <2>1. PICK list : list = Insert(s.overflow, a)
        OBVIOUS
    <2>2. ToSet(list) = ToSet(s.overflow) \cup {a} /\ InOrder(list)
        <3>1. Once(s.overflow, Tasks \X Ticks, ToSet(s.overflow)) /\ a \in Tasks \X Ticks
            BY <1>6 DEF Once, TimedItems
        <3>2. Once(list, Tasks \X Ticks, ToSet(s.overflow) \cup {a})
            BY <1>6, <2>1, <3>1, OnceInsert
        <3>3. InOrder(list)
            BY <1>6, <2>1, OrderInsert DEF AlarmsSet
        <3> QED BY <3>2, <3>3 DEF Once
    <2>3. /\ s2.delayed = s.delayed /\ s2.overflow = list
          /\ s2.xTickCount = s.xTickCount /\ s2.xNumOfOverflows = s.xNumOfOverflows
          /\ s2.xNextTaskUnblockTime = s.xNextTaskUnblockTime
        BY <1>0, <1>5, <1>9, <2>1 DEF State
    <2>4. AlarmsSet(s2) /\ Alarms(s2) = Alarms(s) \cup {a}
        BY <1>3, <1>9, <2>2, <2>3 DEF AlarmsSet, Alarms
    <2>5. Due(s, a) = ticks
        <3>1. wake = s.xTickCount + ticks - TickWrap /\ TickWrap \in Nat
            BY <1>2, <1>9, TimesAre
        <3> QED BY <1>3, <1>7, <1>9, <3>1 DEF Due
    <2> QED BY <1>1, <1>3, <1>9, <2>3, <2>4, <2>5 DEF Winds
<1>10. CASE ~(ticks = portMAX_DELAY /\ b) /\ ~(wake < s.xTickCount)
    <2>1. PICK list : list = Insert(s.delayed, a)
        OBVIOUS
    <2>2. ToSet(list) = ToSet(s.delayed) \cup {a} /\ InOrder(list)
        <3>1. Once(s.delayed, Tasks \X Ticks, ToSet(s.delayed)) /\ a \in Tasks \X Ticks
            BY <1>6 DEF Once, TimedItems
        <3>2. Once(list, Tasks \X Ticks, ToSet(s.delayed) \cup {a})
            BY <1>6, <2>1, <3>1, OnceInsert
        <3>3. InOrder(list)
            BY <1>6, <2>1, OrderInsert DEF AlarmsSet
        <3> QED BY <3>2, <3>3 DEF Once
    <2>3. PICK time : time = IF wake < s.xNextTaskUnblockTime THEN wake
                             ELSE s.xNextTaskUnblockTime
        OBVIOUS
    <2>4. /\ s2.delayed = list /\ s2.overflow = s.overflow
          /\ s2.xTickCount = s.xTickCount /\ s2.xNumOfOverflows = s.xNumOfOverflows
          /\ s2.xNextTaskUnblockTime = time
        BY <1>0, <1>5, <1>10, <2>1, <2>3 DEF State
    <2>5. wake = s.xTickCount + ticks /\ s.xTickCount < wake
        BY <1>2, <1>7, <1>10
    <2>6. \A d \in ToSet(s.delayed) \cup {a} : s.xTickCount < d[2] /\ time <= d[2]
        <3>1. \A d \in ToSet(s.delayed) : d[2] \in Nat
            BY <1>0, TimesAre DEF Alarms
        <3> QED BY <1>3, <1>7, <2>3, <2>5, <3>1 DEF AlarmsSet
    <2>7. AlarmsSet(s2) /\ Alarms(s2) = Alarms(s) \cup {a}
        BY <2>2, <2>4, <2>6 DEF AlarmsSet, Alarms
    <2>8. Due(s, a) = ticks
        BY <1>3, <1>7, <2>5 DEF Due
    <2> QED BY <1>1, <1>3, <1>10, <2>4, <2>7, <2>8 DEF Winds
<1> QED BY <1>8, <1>9, <1>10

\* vTaskPlaceOnEventList does the same.
LEMMA PlaceAlarms ==
    ASSUME NEW s, Lists(s), AlarmsSet(s), s.pxCurrentTCB \in Tasks \ Asleep(s),
           NEW ticks \in 1..(TickWrap - 1), NEW event \in Event,
           NEW s2, s2 = vTaskPlaceOnEventList(s, event, ticks)
    PROVE  Winds(s, s2, ticks, ticks = portMAX_DELAY)
<1>0. s \in State
    BY DEF Lists
<1>1. PICK u : u = prvAddCurrentTaskToDelayedList(s, ticks, TRUE)
    OBVIOUS
<1>2. Winds(s, u, ticks, ticks = portMAX_DELAY)
    BY <1>1, SleepAlarms
<1>3. u \in State
    <2>1. ticks \in Ticks /\ TRUE \in BOOLEAN
        BY TimesAre
    <2> QED BY <1>1, <2>1, SleepLists DEF Sleeps, Unticked
<1>4. PICK events : events = [s.events EXCEPT ![event] = Append(s.events[event], s.pxCurrentTCB)]
    OBVIOUS
<1>5. s2 = [u EXCEPT !.events = events]
    <2>1. s2 = prvAddCurrentTaskToDelayedList([s EXCEPT !.events = events], ticks, TRUE)
        BY <1>0, <1>4 DEF vTaskPlaceOnEventList, State
    <2> QED BY <1>0, <1>1, <2>1 DEF prvAddCurrentTaskToDelayedList, State
<1>6. /\ s2.delayed = u.delayed /\ s2.overflow = u.overflow
      /\ s2.xTickCount = u.xTickCount /\ s2.xNumOfOverflows = u.xNumOfOverflows
      /\ s2.xNextTaskUnblockTime = u.xNextTaskUnblockTime
    BY <1>3, <1>5 DEF State
<1>7. Stands(u, s2)
    BY <1>2, <1>6, SameAlarms DEF Winds
<1> QED BY <1>2, <1>7 DEF Winds, Stands

\* The alarm of a task that is woken is taken back, those of the others stand.
TakenBack(s, s2, tasks) ==
    /\ AlarmsSet(s2) /\ Alarms(s2) \subseteq Alarms(s)
    /\ s2.xTickCount = s.xTickCount /\ s2.xNumOfOverflows = s.xNumOfOverflows
    /\ \A a \in Alarms(s) \ Alarms(s2) : a[1] \in tasks

\* xTaskRemoveFromEventList takes back the alarm of one that waits for the event.
LEMMA WakeAlarms ==
    ASSUME NEW s, Lists(s), AlarmsSet(s), NEW event \in Event,
           NEW s2, s2 = xTaskRemoveFromEventList(s, event)
    PROVE  TakenBack(s, s2, Waits(s, event))
<1>0. s \in State
    BY DEF Lists
<1>1. CASE s.events[event] = <<>>
    <2>1. s2 = s
        BY <1>1 DEF xTaskRemoveFromEventList
    <2> QED BY <2>1 DEF TakenBack
<1>2. CASE s.events[event] # <<>>
    <2>1. PICK t : t = Head(s.events[event]) /\ t \in Waits(s, event)
        <3>1. Once(s.events[event], Tasks, Waits(s, event))
            BY <1>0 DEF Lists, Once, Waits, State
        <3> QED BY <1>2, <3>1, OnceTail
    <2>2. ASSUME NEW list \in Seq(TimedItems), IsInjective(list), InOrder(list)
          PROVE  /\ ToSet(Untimed(list, t)) = {a \in ToSet(list) : a[1] # t}
                 /\ InOrder(Untimed(list, t))
        <3>1. Once(Untimed(list, t), TimedItems, {a \in ToSet(list) : a[1] # t})
            BY <2>2, OnceUntimed DEF Once
        <3>2. {i \in DOMAIN list : list[i][1] # t} \in SUBSET (1..Len(list))
            BY LenProperties
        <3>3. InOrder(Untimed(list, t))
            BY <2>2, <3>2, OrderKept DEF Untimed
        <3> QED BY <3>1, <3>3 DEF Once
    <2>3. PICK delayed, overflow, ready, events, suspended :
            /\ delayed = Untimed(s.delayed, t) /\ overflow = Untimed(s.overflow, t)
            /\ ready = InsertEnd(s.ready, <<t>>) /\ suspended = s.suspended \ {t}
            /\ events = [s.events EXCEPT ![event] = Tail(s.events[event])]
        OBVIOUS
    <2>4. s2 = [s EXCEPT !.events = events, !.suspended = suspended, !.delayed = delayed,
                         !.overflow = overflow, !.ready = ready]
        BY <1>0, <1>2, <2>1, <2>3 DEF xTaskRemoveFromEventList, State
    <2>5. /\ s2.delayed = delayed /\ s2.overflow = overflow /\ s2.xTickCount = s.xTickCount
          /\ s2.xNumOfOverflows = s.xNumOfOverflows
          /\ s2.xNextTaskUnblockTime = s.xNextTaskUnblockTime
        BY <1>0, <2>4 DEF State
    <2>6. /\ ToSet(delayed) = {a \in ToSet(s.delayed) : a[1] # t} /\ InOrder(delayed)
          /\ ToSet(overflow) = {a \in ToSet(s.overflow) : a[1] # t} /\ InOrder(overflow)
        <3>1. /\ s.delayed \in Seq(TimedItems) /\ s.overflow \in Seq(TimedItems)
              /\ IsInjective(s.delayed) /\ IsInjective(s.overflow)
              /\ InOrder(s.delayed) /\ InOrder(s.overflow)
            BY <1>0 DEF Lists, State, AlarmsSet
        <3> QED BY <2>2, <2>3, <3>1
    <2>7. AlarmsSet(s2) /\ Alarms(s2) = {a \in Alarms(s) : a[1] # t}
        BY <2>5, <2>6 DEF AlarmsSet, Alarms
    <2> QED BY <2>1, <2>5, <2>7 DEF TakenBack
<1> QED BY <1>1, <1>2

---------------------------------------------------------------------------
(* What a task's times say. *)

\* A call that gives up after a time, and one of them that has not gone on for a
\* whole round of the tick count.
Limited(c, en) == en # <<>> /\ c.ticks # portMAX_DELAY
Prompt(c, en, l) == Limited(c, en) => c.ticks - l < TickWrap

\* The time en is just n ticks ago, over a wrap as well.
Ago(s, n, en) ==
    /\ n >= 0
    /\ \/ n <= s.xTickCount /\ en[1] = s.xNumOfOverflows /\ en[2] = s.xTickCount - n
       \/ /\ n > s.xTickCount /\ (en[1] + 1) % OverflowWrap = s.xNumOfOverflows
          /\ en[2] = s.xTickCount - n + TickWrap

\* The ticks w that a call c still waits for are those it asked for until it is
\* refused, and then those that were left at the time of entry en.
Asked(c, w, en) ==
    /\ en = <<>> => w = c.ticks
    /\ en # <<>> => /\ w \in 1..c.ticks /\ c.op # "delay"
                    /\ c.ticks = portMAX_DELAY => w = portMAX_DELAY
Measured(s, c, w, en, l) == Limited(c, en) /\ c.ticks - l < TickWrap => Ago(s, w - l, en)

\* The alarm of a task goes off when what it asked for is over.
AlarmRight(s, t, c, en, l) ==
    \A a \in Alarms(s) : a[1] = t => /\ Prompt(c, en, l) => l = Due(s, a)
                                     /\ en # <<>> => c.ticks # portMAX_DELAY

\* It is over once a task that delays or has not begun to wait is awake, or has
\* seen that it timed out.
GivesUp == {"recheck", "resume_timeout"}
OverRight(s, t, st, en, l) == t \notin Timed(s) /\ (en = <<>> \/ st \in GivesUp) => l <= 0

Right(s, t, c, st, w, en, l) ==
    /\ l \in Int /\ Asked(c, w, en) /\ Measured(s, c, w, en, l)
    /\ AlarmRight(s, t, c, en, l) /\ OverRight(s, t, st, en, l)

\* The inductive invariant of the times: that of every task.
Timely(t) == Right(k, t, Call(t), step[t], wait[t], entry[t], left[t])
TInv == AlarmsSet(k) /\ left \in [Tasks -> Int] /\ \A t \in Tasks : Timely(t)

\* A task is among those with an alarm if it has one.
LEMMA TimedIs ==
    ASSUME NEW s, NEW t
    PROVE  t \in Timed(s) <=> \E a \in Alarms(s) : a[1] = t
BY DEF Timed, Alarms

\* Alarms that others set, and one that is taken back from a task in a call that
\* waits for an event, make no difference.
LEMMA RightKept ==
    ASSUME NEW s, NEW s2, NEW t, NEW c, NEW st, NEW w, NEW en, NEW l,
           Right(s, t, c, st, w, en, l),
           s2.xTickCount = s.xTickCount, s2.xNumOfOverflows = s.xNumOfOverflows,
           \A a \in Alarms(s2) : a[1] = t => a \in Alarms(s),
           \A a \in Alarms(s) \ Alarms(s2) : a[1] = t => en # <<>> /\ st \notin GivesUp
    PROVE  Right(s2, t, c, st, w, en, l)
<1>1. \A a : Due(s2, a) = Due(s, a)
    BY DEF Due
<1>2. AlarmRight(s2, t, c, en, l)
    BY <1>1 DEF Right, AlarmRight
<1>3. OverRight(s2, t, st, en, l)
    BY TimedIs DEF Right, OverRight
<1>4. Measured(s2, c, w, en, l)
    BY DEF Right, Measured, Ago
<1> QED BY <1>2, <1>3, <1>4 DEF Right

\* The values that occur.
LEMMA DueIs ==
    ASSUME NEW s \in State, NEW a \in Alarms(s)
    PROVE  Due(s, a) \in 1..TickWrap
<1>1. PICK T \in Nat, now \in Nat, time \in Nat :
        T = TickWrap /\ now = s.xTickCount /\ time = a[2] /\ now < T /\ time < T
    <2>1. s.xTickCount \in 0..(TickWrap - 1) /\ a[2] \in 0..(TickWrap - 1) /\ TickWrap \in Nat
        BY TimesAre
    <2>2. s.xTickCount < TickWrap /\ a[2] < TickWrap
        BY ONLY <2>1
    <2> QED BY <2>1, <2>2
<1> QED BY <1>1 DEF Due

\* One tick goes by.
LEMMA AgoPasses ==
    ASSUME NEW s \in State, NEW s2, Passes(s, s2), NEW n \in Int, NEW en, Ago(s, n, en),
           n + 1 < TickWrap
    PROVE  Ago(s2, n + 1, en)
<1>1. PICK T \in Nat \ {0}, now \in Nat : T = TickWrap /\ now = s.xTickCount /\ now < T
    <2>1. s.xTickCount \in 0..(TickWrap - 1) /\ TickWrap \in Nat \ {0}
        BY TimesAre
    <2>2. s.xTickCount < TickWrap
        BY ONLY <2>1
    <2> QED BY <2>1, <2>2
<1>2. (now + 1) % T = IF now + 1 = T THEN 0 ELSE now + 1
    BY <1>1
<1>3. PICK m \in Nat : m = s2.xTickCount /\ m = IF now + 1 = T THEN 0 ELSE now + 1
    BY <1>1, <1>2 DEF Passes
<1>4. s2.xNumOfOverflows = IF m = 0 THEN (s.xNumOfOverflows + 1) % OverflowWrap
                           ELSE s.xNumOfOverflows
    BY <1>3 DEF Passes
<1>5. /\ n >= 0 /\ n + 1 < T
      /\ \/ n <= now /\ en[1] = s.xNumOfOverflows /\ en[2] = now - n
         \/ /\ n > now /\ (en[1] + 1) % OverflowWrap = s.xNumOfOverflows
            /\ en[2] = now - n + T
    BY <1>1 DEF Ago
<1>6. CASE now + 1 = T
    <2>1. /\ m = 0 /\ n <= now /\ en[1] = s.xNumOfOverflows /\ en[2] = now - n
          /\ s2.xNumOfOverflows = (en[1] + 1) % OverflowWrap
        BY <1>3, <1>4, <1>5, <1>6
    <2> QED BY <1>1, <1>3, <1>5, <1>6, <2>1 DEF Ago
<1>7. CASE now + 1 # T
    <2>1. m = now + 1 /\ m # 0 /\ s2.xNumOfOverflows = s.xNumOfOverflows
        BY <1>3, <1>4, <1>7
    <2> QED BY <1>1, <1>3, <1>5, <2>1 DEF Ago
<1> QED BY <1>6, <1>7

\* What is left is a tick less then.
Elapsed(c, en, l) == IF l > 0 \/ Limited(c, en) THEN l - 1 ELSE l

LEMMA RightPasses ==
    ASSUME NEW s \in State, NEW s2, Passes(s, s2), NEW t, NEW c, NEW st, NEW w, NEW en, NEW l,
           Right(s, t, c, st, w, en, l), c.ticks \in Ticks, w \in Ticks,
           NEW l2, l2 = Elapsed(c, en, l)
    PROVE  Right(s2, t, c, st, w, en, l2)
<1>1. PICK T \in Nat \ {0}, n \in Nat : T = TickWrap /\ n = c.ticks /\ n < T
    <2>1. c.ticks \in 0..(TickWrap - 1) /\ TickWrap \in Nat \ {0}
        BY TimesAre
    <2>2. c.ticks < TickWrap
        BY ONLY <2>1
    <2> QED BY <2>1, <2>2
<1>2. l \in Int /\ l2 \in Int /\ l2 <= l /\ l - 1 <= l2 /\ w \in Int
    BY TimesAre DEF Right, Elapsed
<1>3. Asked(c, w, en)
    BY DEF Right
<1>4. ASSUME Limited(c, en), n - l2 < T
      PROVE  Ago(s2, w - l2, en)
    <2>1. l2 = l - 1 /\ n - l < T
        BY <1>1, <1>2, <1>4 DEF Elapsed
    <2>2. Ago(s, w - l, en)
        BY <1>1, <1>4, <2>1 DEF Right, Measured
    <2>3. w <= n
        BY <1>1, <1>3, <1>4 DEF Limited, Asked
    <2>4. w - l \in Int /\ w - l + 1 < TickWrap /\ w - l2 = w - l + 1
        BY <1>1, <1>2, <1>4, <2>1, <2>3
    <2> QED BY <2>2, <2>4, AgoPasses
<1>5. Measured(s2, c, w, en, l2)
    BY <1>1, <1>4 DEF Measured
<1>6. ASSUME NEW a \in Alarms(s), a[1] = t
      PROVE  /\ Prompt(c, en, l2) => l2 = Due(s, a) - 1
             /\ Due(s, a) = 1 => l2 <= 0
             /\ en # <<>> => c.ticks # portMAX_DELAY
    <2>1. Due(s, a) \in 1..TickWrap
        BY DueIs
    <2>2. /\ Prompt(c, en, l) => l = Due(s, a)
          /\ en # <<>> => c.ticks # portMAX_DELAY
        BY <1>6 DEF Right, AlarmRight
    <2>3. Prompt(c, en, l2) => Prompt(c, en, l)
        BY <1>1, <1>2 DEF Prompt
    <2>4. Prompt(c, en, l) => l2 = Due(s, a) - 1
        BY <1>1, <1>2, <2>1, <2>2 DEF Elapsed
    <2>5. ~Prompt(c, en, l) => l < 0
        BY <1>1, <1>2 DEF Prompt
    <2> QED BY <1>2, <2>1, <2>2, <2>3, <2>4, <2>5
<1>7. /\ Alarms(s2) = {a \in Alarms(s) : Due(s, a) > 1}
      /\ \A a \in Alarms(s2) : Due(s2, a) = Due(s, a) - 1
    BY DEF Passes
<1>8. AlarmRight(s2, t, c, en, l2)
    BY <1>6, <1>7 DEF AlarmRight
<1>9. ASSUME t \notin Timed(s2), en = <<>> \/ st \in GivesUp
      PROVE  l2 <= 0
    <2>1. CASE t \in Timed(s)
        <3>1. PICK a \in Alarms(s) : a[1] = t
            BY <2>1, TimedIs
        <3>2. a \notin Alarms(s2)
            BY <1>9, <3>1, TimedIs
        <3>3. Due(s, a) = 1
            <4>1. Due(s, a) \in 1..TickWrap /\ ~(Due(s, a) > 1)
                BY <1>7, <3>1, <3>2, DueIs
            <4> QED BY <1>1, <4>1
        <3> QED BY <1>6, <3>1, <3>3
    <2>2. CASE t \notin Timed(s)
        <3>1. l <= 0
            BY <1>9, <2>2 DEF Right, OverRight
        <3> QED BY <1>2, <3>1
    <2> QED BY <2>1, <2>2
<1>10. OverRight(s2, t, st, en, l2)
    BY <1>9 DEF OverRight
<1> QED BY <1>2, <1>3, <1>5, <1>8, <1>10 DEF Right

---------------------------------------------------------------------------
(* A task moves on. *)

\* A call has returned: nothing was asked for yet of the next one.
LEMMA RightReturns ==
    ASSUME NEW s, NEW t, NEW c, NEW st, NEW w, NEW en, NEW l, Right(s, t, c, st, w, en, l),
           en = <<>> \/ (st \in GivesUp /\ t \notin Timed(s)), NEW c2
    PROVE  Right(s, t, c2, "check", c2.ticks, <<>>, l)
<1>1. Asked(c2, c2.ticks, <<>>) /\ Measured(s, c2, c2.ticks, <<>>, l)
    BY DEF Asked, Measured, Limited
<1>2. AlarmRight(s, t, c2, <<>>, l)
    BY TimedIs DEF Right, AlarmRight, Prompt, Limited
<1>3. OverRight(s, t, "check", <<>>, l)
    BY DEF Right, OverRight
<1> QED BY <1>1, <1>2, <1>3 DEF Right

\* It has returned without having waited to the end.
LEMMA RightFresh ==
    ASSUME NEW s, NEW t, t \notin Timed(s), NEW l \in Int, l <= 0, NEW c
    PROVE  Right(s, t, c, "check", c.ticks, <<>>, l)
<1>1. Asked(c, c.ticks, <<>>) /\ Measured(s, c, c.ticks, <<>>, l)
    BY DEF Asked, Measured, Limited
<1>2. AlarmRight(s, t, c, <<>>, l) /\ OverRight(s, t, "check", <<>>, l)
    BY TimedIs DEF AlarmRight, OverRight
<1> QED BY <1>1, <1>2 DEF Right

\* Within a call.
LEMMA RightGoes ==
    ASSUME NEW s, NEW t, NEW c, NEW st, NEW w, NEW en, NEW l, Right(s, t, c, st, w, en, l),
           NEW st2, en = <<>> \/ st \in GivesUp \/ st2 \notin GivesUp
    PROVE  Right(s, t, c, st2, w, en, l)
<1>1. OverRight(s, t, st2, en, l)
    BY DEF Right, OverRight
<1> QED BY <1>1 DEF Right

\* The ticks of a call and those that are left of it.
LEMMA TicksIn ==
    ASSUME NEW c, c.ticks \in Ticks, NEW w, NEW en, Asked(c, w, en)
    PROVE  /\ c.ticks \in Nat /\ c.ticks <= TickWrap - 1 /\ TickWrap \in Nat \ {0}
           /\ portMAX_DELAY = TickWrap - 1
           /\ en # <<>> => w \in 1..(TickWrap - 1) /\ w <= c.ticks
<1>1. c.ticks \in 0..(TickWrap - 1) /\ TickWrap \in Nat \ {0} /\ portMAX_DELAY = TickWrap - 1
    BY TimesAre
<1> QED BY <1>1 DEF Asked

\* A call is refused for the first time: from now on it waits.
LEMMA RightEnters ==
    ASSUME NEW s \in State, NEW t, t \notin Timed(s), NEW c, c.ticks \in Ticks \ {0},
           c.op # "delay", NEW l, l = IF c.ticks = portMAX_DELAY THEN 0 ELSE c.ticks
    PROVE  Right(s, t, c, "suspend", c.ticks, Now(s), l)
<1>1. PICK en : en = Now(s) /\ en # <<>> /\ en[1] = s.xNumOfOverflows /\ en[2] = s.xTickCount
    <2>1. <<s.xNumOfOverflows, s.xTickCount>> \in Nat \X Ticks
        BY DEF State
    <2>2. <<s.xNumOfOverflows, s.xTickCount>> # <<>>
        BY <2>1, PairSet
    <2>3. Now(s) = <<s.xNumOfOverflows, s.xTickCount>>
        BY DEF Now
    <2> QED BY <2>2, <2>3
<1>2. PICK now \in Nat, n \in Nat, T \in Nat \ {0} :
        now = s.xTickCount /\ n = c.ticks /\ T = TickWrap /\ n # 0 /\ l \in Nat
    BY TimesAre
<1>3. Asked(c, c.ticks, en)
    BY <1>1, <1>2 DEF Asked
<1>4. Measured(s, c, c.ticks, en, l)
    <2>1. c.ticks # portMAX_DELAY => n - l = 0
        BY <1>2
    <2> QED BY <1>1, <1>2, <2>1 DEF Measured, Ago, Limited
<1>5. AlarmRight(s, t, c, en, l) /\ OverRight(s, t, "suspend", en, l)
    BY <1>1, TimedIs DEF AlarmRight, OverRight, GivesUp
<1> QED BY <1>1, <1>2, <1>3, <1>4, <1>5 DEF Right

\* xTaskCheckForTimeOut tells how many ticks ago the time of entry is, if it is less
\* than a round of the tick count.
LEMMA TimeOutAgo ==
    ASSUME NEW s \in State, NEW n \in 0..(TickWrap - 1), NEW en, Ago(s, n, en),
           NEW w \in Nat, w # portMAX_DELAY, NEW checked, checked = xTaskCheckForTimeOut(s, en, w)
    PROVE  checked = IF n >= w THEN <<>> ELSE <<Now(s), w - n>>
<1>1. PICK T \in Nat \ {0}, now \in Nat : T = TickWrap /\ now = s.xTickCount /\ now < T
    <2>1. s.xTickCount \in 0..(TickWrap - 1) /\ TickWrap \in Nat \ {0}
        BY TimesAre
    <2>2. s.xTickCount < TickWrap
        BY ONLY <2>1
    <2> QED BY <2>1, <2>2
<1>2. /\ n \in 0..(T - 1)
      /\ \/ n <= now /\ en[1] = s.xNumOfOverflows /\ en[2] = now - n
         \/ n > now /\ en[2] = now - n + T
    BY <1>1 DEF Ago
<1>3. (now - en[2]) % T = n
    <2>1. CASE n <= now /\ en[2] = now - n
        <3>1. now - en[2] = n
            BY <1>2, <2>1
        <3> QED BY <1>1, <1>2, <3>1
    <2>2. CASE n > now /\ en[2] = now - n + T
        <3>1. now - en[2] = n - T
            BY <1>2, <2>2
        <3>2. (n - T) % T = n
            BY <1>1, <1>2
        <3> QED BY <3>1, <3>2
    <2> QED BY <1>2, <2>1, <2>2
<1>4. ~(s.xNumOfOverflows # en[1] /\ now >= en[2])
    BY <1>1, <1>2
<1> QED BY <1>1, <1>3, <1>4 DEF xTaskCheckForTimeOut

\* Whatever it tells: the ticks are fewer then, and none are left on a timeout.
LEMMA TimeOutOf ==
    ASSUME NEW s \in State, NEW en \in Nat \X Ticks, NEW w \in Nat, NEW checked,
           checked = xTaskCheckForTimeOut(s, en, w)
    PROVE  /\ w = portMAX_DELAY => checked = <<en, w>>
           /\ w # portMAX_DELAY /\ checked # <<>> => checked[1] = Now(s) /\ checked[2] \in 1..w
<1>1. PICK passed \in Nat : passed = (s.xTickCount - en[2]) % TickWrap
    <2>1. s.xTickCount - en[2] \in Int /\ TickWrap \in Nat \ {0}
        BY TimesAre
    <2>2. (s.xTickCount - en[2]) % TickWrap \in Nat
        BY ONLY <2>1
    <2> QED BY <2>2
<1>3. checked = IF w = portMAX_DELAY THEN <<en, w>>
                ELSE IF \/ s.xNumOfOverflows # en[1] /\ s.xTickCount >= en[2]
                        \/ passed >= w
                THEN <<>> ELSE <<Now(s), w - passed>>
    BY <1>1 DEF xTaskCheckForTimeOut
<1>4. ASSUME w # portMAX_DELAY, checked # <<>>
      PROVE  checked[1] = Now(s) /\ checked[2] \in 1..w
    <2>1. checked = <<Now(s), w - passed>> /\ ~(passed >= w)
        BY <1>3, <1>4
    <2>2. checked[1] = Now(s) /\ checked[2] = w - passed
        BY <2>1
    <2>3. w - passed \in 1..w
        BY <1>1, <2>1
    <2> QED BY <2>2, <2>3
<1>5. w = portMAX_DELAY => checked = <<en, w>>
    BY <1>3
<1> QED BY <1>4, <1>5

\* A check for a timeout finds one when the time is over and no sooner; if not, it
\* leaves the ticks that are left.
LEMMA RightChecked ==
    ASSUME NEW s \in State, NEW t, NEW c, c.ticks \in Ticks, NEW st, NEW w \in Ticks,
           NEW en \in Nat \X Ticks, NEW l, Right(s, t, c, st, w, en, l),
           NEW checked, checked = xTaskCheckForTimeOut(s, en, w)
    PROVE  /\ checked = <<>> => l <= 0
           /\ checked # <<>> => /\ checked[2] \in 1..(TickWrap - 1)
                                /\ Asked(c, checked[2], checked[1])
                                /\ Measured(s, c, checked[2], checked[1], l)
                                /\ checked[2] = portMAX_DELAY => c.ticks = portMAX_DELAY
                                /\ checked[2] # portMAX_DELAY /\ Prompt(c, checked[1], l) =>
                                     l = checked[2]
<1>1. PICK T \in Nat \ {0}, n \in Nat :
        T = TickWrap /\ n = c.ticks /\ n < T /\ portMAX_DELAY = T - 1
    BY TicksIn DEF Right
<1>2. /\ en # <<>> /\ l \in Int /\ w \in 1..n /\ c.op # "delay" /\ w \in Nat
      /\ n = portMAX_DELAY => w = portMAX_DELAY
    BY <1>1, PairSet DEF Right, Asked
<1>3. PICK stamp : stamp = Now(s) /\ stamp \in Nat \X Ticks /\ stamp # <<>>
                   /\ stamp[1] = s.xNumOfOverflows /\ stamp[2] = s.xTickCount
    <2>1. <<s.xNumOfOverflows, s.xTickCount>> \in Nat \X Ticks
        BY DEF State
    <2> QED BY <2>1, PairSet DEF Now
<1>4. CASE w = portMAX_DELAY
    <2>1. checked = <<en, w>> /\ checked[1] = en /\ checked[2] = w /\ checked # <<>>
        BY <1>2, <1>4, TimeOutOf
    <2>2. n = portMAX_DELAY /\ w \in 1..(TickWrap - 1)
        BY <1>1, <1>2, <1>4
    <2> QED BY <1>1, <1>4, <2>1, <2>2 DEF Right
<1>5. CASE w # portMAX_DELAY
    <2>1. n # portMAX_DELAY /\ w < T - 1
        BY <1>1, <1>2, <1>5
    <2>2. checked # <<>> => checked[1] = Now(s) /\ checked[2] \in 1..w
        BY <1>2, <1>5, TimeOutOf
    <2>3. ASSUME n - l < T
          PROVE  checked = IF w - l >= w THEN <<>> ELSE <<Now(s), w - (w - l)>>
        <3>1. Limited(c, en) /\ c.ticks - l < TickWrap
            BY <1>1, <1>2, <2>1, <2>3 DEF Limited
        <3>2. Ago(s, w - l, en)
            BY <3>1 DEF Right, Measured
        <3>3. PICK m \in 0..(TickWrap - 1) : m = w - l
            BY <1>1, <1>2, <2>3, <3>2 DEF Ago
        <3> QED BY <1>2, <1>5, <3>2, <3>3, TimeOutAgo
    <2>4. CASE checked = <<>>
        <3>1. CASE n - l < T
            <4>1. w - l >= w
                BY <1>3, <2>3, <2>4, <3>1
            <4> QED BY <1>2, <2>4, <4>1
        <3>2. CASE ~(n - l < T)
            BY <1>1, <1>2, <2>4, <3>2
        <3> QED BY <3>1, <3>2
    <2>5. CASE checked # <<>>
        <3>1. checked[1] = stamp /\ checked[2] \in 1..w
            BY <1>3, <2>2, <2>5
        <3>2. /\ checked[2] \in 1..(TickWrap - 1) /\ checked[2] # portMAX_DELAY
              /\ Asked(c, checked[2], stamp)
            BY <1>1, <1>2, <1>3, <2>1, <3>1 DEF Asked
        <3>3. n - l < T => l = checked[2]
            <4>1. ASSUME n - l < T PROVE l = checked[2]
                <5>1. ~(w - l >= w) /\ checked = <<Now(s), w - (w - l)>>
                    BY <2>3, <2>5, <4>1
                <5>2. checked[2] = w - (w - l)
                    BY <5>1
                <5> QED BY <1>2, <5>2
            <4> QED BY <4>1
        <3>4. Measured(s, c, checked[2], stamp, l)
            <4>1. ASSUME n - l < T PROVE Ago(s, checked[2] - l, stamp)
                <5>1. checked[2] - l = 0 /\ s.xTickCount \in Nat
                    BY <1>2, <3>3, <4>1, TimesAre
                <5> QED BY <1>3, <5>1 DEF Ago
            <4> QED BY <1>1, <4>1 DEF Measured
        <3>5. Prompt(c, stamp, l) => l = checked[2]
            BY <1>1, <1>3, <2>1, <3>3 DEF Prompt, Limited
        <3> QED BY <2>5, <3>1, <3>2, <3>4, <3>5
    <2> QED BY <2>4, <2>5
<1> QED BY <1>4, <1>5

\* A task goes to sleep: its alarm is wound to what is left.
LEMMA RightWinds ==
    ASSUME NEW s, NEW s2, NEW ticks, NEW forever \in BOOLEAN, NEW t, t = s.pxCurrentTCB,
           t \notin Timed(s), Winds(s, s2, ticks, forever), NEW c, NEW en, NEW l \in Int,
           Asked(c, ticks, en), Measured(s, c, ticks, en, l), NEW st,
           ~forever => /\ Prompt(c, en, l) => l = ticks
                       /\ en # <<>> => c.ticks # portMAX_DELAY,
           en = <<>> => ~forever, st \notin GivesUp
    PROVE  Right(s2, t, c, st, ticks, en, l)
<1>1. Measured(s2, c, ticks, en, l)
    BY DEF Winds, Measured, Ago
<1>2. \A a : Due(s2, a) = Due(s, a)
    BY DEF Winds, Due
<1>3. CASE forever
    <2>1. t \notin Timed(s2)
        BY <1>3, TimedIs DEF Winds
    <2>2. AlarmRight(s2, t, c, en, l) /\ OverRight(s2, t, st, en, l)
        BY <1>3, <2>1, TimedIs DEF AlarmRight, OverRight
    <2> QED BY <1>1, <2>2 DEF Right
<1>4. CASE ~forever
    <2>1. PICK a \in TimedItems : /\ a[1] = t /\ Due(s, a) = ticks
                                  /\ Alarms(s2) = Alarms(s) \cup {a}
        BY <1>4 DEF Winds
    <2>2. \A d \in Alarms(s2) : d[1] = t => d = a
        BY <2>1, TimedIs
    <2>3. AlarmRight(s2, t, c, en, l)
        BY <1>2, <1>4, <2>1, <2>2 DEF AlarmRight
    <2>4. OverRight(s2, t, st, en, l)
        BY <2>1, TimedIs DEF OverRight
    <2> QED BY <1>1, <2>3, <2>4 DEF Right
<1> QED BY <1>3, <1>4

---------------------------------------------------------------------------
(* The steps of tasks and their times. *)

\* The other tasks stay where they are.
Others(t) == \A u \in Tasks \ {t} : /\ at'[u] = at[u] /\ step'[u] = step[u]
                                     /\ wait'[u] = wait[u] /\ entry'[u] = entry[u]

\* A call returns,
LEMMA ReturnsOthers ==
    ASSUME Calls, NEW t \in Tasks, Returns(t)
    PROVE  /\ Others(t) /\ step'[t] = "check" /\ entry'[t] = <<>>
           /\ wait'[t] = (Call(t)').ticks
<1>1. PICK following : following = (at[t] % Len(Program[t])) + 1
    OBVIOUS
<1>2. /\ at' = [at EXCEPT ![t] = following] /\ step' = [step EXCEPT ![t] = "check"]
      /\ wait' = [wait EXCEPT ![t] = Program[t][following].ticks]
      /\ entry' = [entry EXCEPT ![t] = <<>>]
    BY <1>1 DEF Returns
<1>3. at'[t] = following /\ Others(t)
    BY <1>2 DEF Calls, Others
<1> QED BY <1>2, <1>3 DEF Calls, Call

\* goes on with other times,
LEMMA StaysOthers ==
    ASSUME Calls, NEW t \in Tasks, NEW s, NEW w, NEW en, at' = at,
           step' = [step EXCEPT ![t] = s], entry' = [entry EXCEPT ![t] = en],
           wait' = [wait EXCEPT ![t] = w]
    PROVE  /\ Others(t) /\ step'[t] = s /\ entry'[t] = en /\ wait'[t] = w
           /\ Call(t)' = Call(t)
BY DEF Calls, Call, Others

\* or goes on as it is.
LEMMA GoesOthers ==
    ASSUME Calls, NEW t \in Tasks, NEW s, GoesTo(t, s)
    PROVE  /\ Others(t) /\ step'[t] = s /\ entry'[t] = entry[t] /\ wait'[t] = wait[t]
           /\ Call(t)' = Call(t)
BY DEF Calls, Call, Others, GoesTo

\* A task makes a step that takes no time: others may be woken by it.
LEMMA AssembleTimes ==
    ASSUME TInv, NEW t \in Tasks, Others(t), left' \in [Tasks -> Int],
           \A u \in Tasks \ {t} : left'[u] = left[u],
           AlarmsSet(k'), k'.xTickCount = k.xTickCount,
           k'.xNumOfOverflows = k.xNumOfOverflows,
           \A a \in Alarms(k') : a[1] # t => a \in Alarms(k),
           \A a \in Alarms(k) \ Alarms(k') :
             a[1] # t => entry[a[1]] # <<>> /\ step[a[1]] \notin GivesUp,
           Right(k', t, Call(t)', step'[t], wait'[t], entry'[t], left'[t])
    PROVE  TInv'
<1>1. ASSUME NEW u \in Tasks \ {t}
      PROVE  Right(k', u, Call(u)', step'[u], wait'[u], entry'[u], left'[u])
    <2>1. Right(k, u, Call(u), step[u], wait[u], entry[u], left[u])
        BY DEF TInv, Timely
    <2>2. Right(k', u, Call(u), step[u], wait[u], entry[u], left[u])
        BY <2>1, RightKept
    <2>3. Call(u)' = Call(u)
        BY DEF Others, Call
    <2> QED BY <2>2, <2>3 DEF Others
<1>2. \A u \in Tasks : Right(k', u, Call(u)', step'[u], wait'[u], entry'[u], left'[u])
    BY <1>1
<1> QED BY <1>2 DEF TInv, Timely

\* A step that leaves the kernel alone.
LEMMA StillTimes ==
    ASSUME TInv, NEW t \in Tasks, Others(t), left' \in [Tasks -> Int],
           \A u \in Tasks \ {t} : left'[u] = left[u], Stands(k, k'),
           Right(k', t, Call(t)', step'[t], wait'[t], entry'[t], left'[t])
    PROVE  TInv'
<1>1. AlarmsSet(k') /\ Alarms(k') = Alarms(k) /\ k'.xTickCount = k.xTickCount
      /\ k'.xNumOfOverflows = k.xNumOfOverflows
    BY DEF Stands
<1> QED BY <1>1, AssembleTimes

\* Nobody's ticks change.
LEMMA LeftSame ==
    ASSUME TInv, UNCHANGED left
    PROVE  left' \in [Tasks -> Int] /\ \A u \in Tasks : left'[u] = left[u]
BY DEF TInv

\* Those of the task that moves do.
LEMMA WithinIs ==
    ASSUME TInv, NEW t \in Tasks, NEW n \in Ticks, Within(t, n)
    PROVE  /\ left' \in [Tasks -> Int] /\ \A u \in Tasks \ {t} : left'[u] = left[u]
           /\ left'[t] = IF n = portMAX_DELAY THEN 0 ELSE n
<1>1. n \in Int
    BY TimesAre
<1> QED BY <1>1 DEF TInv, Within

\* The kernel stands still.
LEMMA KernelStands ==
    ASSUME TInv, UNCHANGED k
    PROVE  Stands(k, k')
BY DEF TInv, Stands

\* The task that moves.
LEMMA OneTimely ==
    ASSUME TInv, KInv, NEW t \in Tasks
    PROVE  /\ Right(k, t, Call(t), step[t], wait[t], entry[t], left[t])
           /\ Asked(Call(t), wait[t], entry[t]) /\ left[t] \in Int
           /\ Call(t).ticks \in Ticks /\ wait[t] \in Ticks /\ k \in State /\ Calls
           /\ entry[t] # <<>> => entry[t] \in Nat \X Ticks
<1>1. Right(k, t, Call(t), step[t], wait[t], entry[t], left[t]) /\ Calls /\ k \in State
    BY DEF TInv, Timely, KInv, Lists
<1> QED BY <1>1, CallTyped DEF Right, Calls

\* A call that is not made.
LEMMA PassByTimes ==
    ASSUME KInv, TInv, NEW t \in Tasks, PassBy(t)
    PROVE  TInv'
<1>1. Returns(t) /\ UNCHANGED <<k, left>> /\ entry[t] = <<>>
    BY DEF PassBy
<1>2. /\ Others(t) /\ step'[t] = "check" /\ entry'[t] = <<>>
      /\ wait'[t] = (Call(t)').ticks
    BY <1>1, ReturnsOthers DEF KInv
<1>3. Right(k', t, Call(t)', step'[t], wait'[t], entry'[t], left'[t])
    <2>1. Right(k, t, Call(t)', "check", (Call(t)').ticks, <<>>, left[t])
        BY <1>1, OneTimely, RightReturns
    <2> QED BY <1>1, <1>2, <2>1
<1> QED BY <1>1, <1>2, <1>3, StillTimes, LeftSame, KernelStands

\* The last look of a receiver that has timed out.
LEMMA RecheckTimes ==
    ASSUME KInv, TInv, NEW t \in Tasks, t = k.pxCurrentTCB, Recheck(t)
    PROVE  TInv'
<1>1. step[t] = "recheck" /\ UNCHANGED <<k, left>> /\ (Returns(t) \/ GoesTo(t, "check"))
    BY DEF Recheck
<1>2. t \notin Timed(k) /\ "recheck" \in GivesUp
    BY <1>1, Awake DEF Inside, Asleep, GivesUp
<1>3. CASE Returns(t)
    <2>1. /\ Others(t) /\ step'[t] = "check" /\ entry'[t] = <<>>
          /\ wait'[t] = (Call(t)').ticks
        BY <1>3, ReturnsOthers DEF KInv
    <2>2. Right(k, t, Call(t)', "check", (Call(t)').ticks, <<>>, left[t])
        BY <1>1, <1>2, OneTimely, RightReturns
    <2>3. Right(k', t, Call(t)', step'[t], wait'[t], entry'[t], left'[t])
        BY <1>1, <2>1, <2>2
    <2> QED BY <1>1, <2>1, <2>3, StillTimes, LeftSame, KernelStands
<1>4. CASE GoesTo(t, "check")
    <2>1. /\ Others(t) /\ step'[t] = "check" /\ entry'[t] = entry[t] /\ wait'[t] = wait[t]
          /\ Call(t)' = Call(t)
        BY <1>4, GoesOthers DEF KInv
    <2>2. Right(k, t, Call(t), "check", wait[t], entry[t], left[t])
        BY <1>1, <1>2, OneTimely, RightGoes
    <2>3. Right(k', t, Call(t)', step'[t], wait'[t], entry'[t], left'[t])
        BY <1>1, <2>1, <2>2
    <2> QED BY <1>1, <2>1, <2>3, StillTimes, LeftSame, KernelStands
<1> QED BY <1>1, <1>3, <1>4

\* A call that is refused begins to wait, or goes on waiting, with what is left.
LEMMA RefuseTimes ==
    ASSUME KInv, QInv, TInv, NEW t \in Tasks, t = k.pxCurrentTCB, Refuse(t)
    PROVE  TInv'
<1>1. step[t] = "check" /\ UNCHANGED k /\ Call(t).op # "delay"
    BY DEF Refuse, Refused
<1>2. t \notin Timed(k)
    BY <1>1, Awake DEF Inside, Asleep
<1>3. CASE wait[t] = 0
    <2>1. Returns(t) /\ UNCHANGED left
        BY <1>3 DEF Refuse
    <2>2. entry[t] = <<>>
        BY <1>3, OneTimely, TicksIn
    <2>3. /\ Others(t) /\ step'[t] = "check" /\ entry'[t] = <<>>
          /\ wait'[t] = (Call(t)').ticks
        BY <2>1, ReturnsOthers DEF KInv
    <2>4. Right(k, t, Call(t)', "check", (Call(t)').ticks, <<>>, left[t])
        BY <2>2, OneTimely, RightReturns
    <2>5. Right(k', t, Call(t)', step'[t], wait'[t], entry'[t], left'[t])
        BY <1>1, <2>1, <2>3, <2>4
    <2> QED BY <1>1, <2>1, <2>3, <2>5, StillTimes, LeftSame, KernelStands
<1>4. CASE wait[t] # 0 /\ entry[t] = <<>>
    <2>1. /\ step' = [step EXCEPT ![t] = "suspend"] /\ entry' = [entry EXCEPT ![t] = Now(k)]
          /\ Within(t, wait[t]) /\ UNCHANGED <<at, wait>>
        BY <1>4 DEF Refuse
    <2>2. /\ wait = [wait EXCEPT ![t] = wait[t]] /\ wait[t] \in Ticks \ {0}
          /\ wait[t] = Call(t).ticks
        BY <1>4, OneTimely DEF Calls, Asked
    <2>3. /\ Others(t) /\ step'[t] = "suspend" /\ entry'[t] = Now(k) /\ wait'[t] = Call(t).ticks
          /\ Call(t)' = Call(t)
        <3>1. /\ Calls /\ at' = at /\ step' = [step EXCEPT ![t] = "suspend"]
              /\ entry' = [entry EXCEPT ![t] = Now(k)] /\ wait' = [wait EXCEPT ![t] = wait[t]]
            BY <2>1, <2>2 DEF KInv
        <3>2. /\ Others(t) /\ step'[t] = "suspend" /\ entry'[t] = Now(k) /\ wait'[t] = wait[t]
              /\ Call(t)' = Call(t)
            BY ONLY <3>1, t \in Tasks DEF Calls, Call, Others
        <3> QED BY <2>2, <3>2
    <2>4. /\ left' \in [Tasks -> Int] /\ \A u \in Tasks \ {t} : left'[u] = left[u]
          /\ left'[t] = IF Call(t).ticks = portMAX_DELAY THEN 0 ELSE Call(t).ticks
        BY <2>1, <2>2, WithinIs
    <2>5. Right(k, t, Call(t), "suspend", Call(t).ticks, Now(k), left'[t])
        BY <1>1, <1>2, <2>2, <2>4, RightEnters, OneTimely
    <2>6. Right(k', t, Call(t)', step'[t], wait'[t], entry'[t], left'[t])
        BY <1>1, <2>3, <2>5
    <2> QED BY <1>1, <2>3, <2>4, <2>6, StillTimes, KernelStands
<1>5. CASE wait[t] # 0 /\ entry[t] # <<>>
    <2>1. GoesTo(t, "suspend") /\ UNCHANGED left
        BY <1>5 DEF Refuse, GoesTo
    <2>2. /\ Others(t) /\ step'[t] = "suspend" /\ entry'[t] = entry[t] /\ wait'[t] = wait[t]
          /\ Call(t)' = Call(t)
        BY <2>1, GoesOthers DEF KInv
    <2>3. Right(k, t, Call(t), "suspend", wait[t], entry[t], left[t])
        BY OneTimely, RightGoes DEF GivesUp
    <2>4. Right(k', t, Call(t)', step'[t], wait'[t], entry'[t], left'[t])
        BY <1>1, <2>1, <2>2, <2>3
    <2> QED BY <1>1, <2>1, <2>2, <2>4, StillTimes, LeftSame, KernelStands
<1> QED BY <1>3, <1>4, <1>5

\* A call that succeeds wakes a task that waits for a queue, before its time.
LEMMA WakeTimes ==
    ASSUME KInv, TInv, NEW t \in Tasks, t = k.pxCurrentTCB, step[t] = "check", Returns(t),
           Within(t, 0), NEW e \in Event, k' = xTaskRemoveFromEventList(k, e)
    PROVE  TInv'
<1>1. TakenBack(k, k', Waits(k, e))
    BY WakeAlarms DEF KInv, TInv
<1>2. /\ Others(t) /\ step'[t] = "check" /\ entry'[t] = <<>>
      /\ wait'[t] = (Call(t)').ticks
    BY ReturnsOthers DEF KInv
<1>3. /\ left' \in [Tasks -> Int] /\ \A u \in Tasks \ {t} : left'[u] = left[u] /\ left'[t] = 0
    BY WithinIs, TimesAre
<1>4. t \notin Timed(k')
    <2>1. t \notin Timed(k)
        BY Awake DEF Inside, Asleep
    <2> QED BY <1>1, <2>1, TimedIs DEF TakenBack
<1>5. Right(k', t, Call(t)', step'[t], wait'[t], entry'[t], left'[t])
    <2>1. Right(k', t, Call(t)', "check", (Call(t)').ticks, <<>>, 0)
        BY <1>4, RightFresh
    <2>2. left'[t] = 0
        BY WithinIs, TimesAre
    <2> QED BY <1>2, <2>1, <2>2
<1>6. \A a \in Alarms(k) \ Alarms(k') : entry[a[1]] # <<>> /\ step[a[1]] \notin GivesUp
    BY <1>1 DEF TakenBack, KInv, Waiters, Waiter, GivesUp
<1> QED BY <1>1, <1>2, <1>3, <1>5, <1>6, AssembleTimes DEF TakenBack

\* An item is sent or received.
LEMMA SendTimes ==
    ASSUME KInv, QInv, TInv, NEW t \in Tasks, t = k.pxCurrentTCB, Send(t) \/ Receive(t)
    PROVE  TInv'
<1>1. PICK e \in Event : k' = xTaskRemoveFromEventList(k, e)
    <2>1. CASE Send(t)
        <3>1. <<Call(t).q, "receive">> \in Event
            BY <2>1, CallKnown DEF Send, Event
        <3> QED BY <2>1, <3>1 DEF Send
    <2>2. CASE Receive(t)
        <3>1. <<Call(t).q, "send">> \in Event
            BY <2>2, CallKnown DEF Receive, Event
        <3> QED BY <2>2, <3>1 DEF Receive
    <2> QED BY <2>1, <2>2
<1>2. step[t] = "check" /\ Returns(t) /\ Within(t, 0)
    BY DEF Send, Receive
<1> QED BY <1>1, <1>2, WakeTimes

---------------------------------------------------------------------------
(* The steps that suspend the scheduler, and those that take time. *)

\* vTaskSuspendAll takes no time.
LEMMA SuspendAlarms ==
    ASSUME NEW s, Lists(s), AlarmsSet(s), NEW s2, s2 = [s EXCEPT !.uxSchedulerSuspended = 1]
    PROVE  Stands(s, s2)
<1>1. /\ s2.delayed = s.delayed /\ s2.overflow = s.overflow
      /\ s2.xTickCount = s.xTickCount /\ s2.xNumOfOverflows = s.xNumOfOverflows
      /\ s2.xNextTaskUnblockTime = s.xNextTaskUnblockTime
    BY DEF Lists, State
<1> QED BY <1>1, SameAlarms

\* A task puts itself to sleep, the scheduler being suspended.
LEMMA AsleepTimes ==
    ASSUME KInv, TInv, NEW t \in Tasks, t = k.pxCurrentTCB, t \notin Timed(k),
           NEW s, Stands(k, s), s.pxCurrentTCB = t,
           NEW ticks, NEW forever \in BOOLEAN, Winds(s, k', ticks, forever),
           Others(t), left' \in [Tasks -> Int], \A u \in Tasks \ {t} : left'[u] = left[u],
           Asked(Call(t)', ticks, entry'[t]),
           Measured(s, Call(t)', ticks, entry'[t], left'[t]), wait'[t] = ticks,
           ~forever => /\ Prompt(Call(t)', entry'[t], left'[t]) => left'[t] = ticks
                       /\ entry'[t] # <<>> => (Call(t)').ticks # portMAX_DELAY,
           entry'[t] = <<>> => ~forever, step'[t] \notin GivesUp
    PROVE  TInv'
<1>1. PICK c, st, en, l : /\ c = Call(t)' /\ st = step'[t] /\ en = entry'[t] /\ l = left'[t]
                          /\ l \in Int
    OBVIOUS
<1>2. t \notin Timed(s)
    BY TimedIs DEF Stands
<1>3. Right(k', t, c, st, ticks, en, l)
    BY <1>1, <1>2, RightWinds
<1>4. Right(k', t, Call(t)', step'[t], wait'[t], entry'[t], left'[t])
    BY <1>1, <1>3
<1>5. /\ AlarmsSet(k') /\ k'.xTickCount = k.xTickCount
      /\ k'.xNumOfOverflows = k.xNumOfOverflows
    BY DEF Stands, Winds
<1>6. /\ \A a \in Alarms(k') : a[1] # t => a \in Alarms(k)
      /\ Alarms(k) \subseteq Alarms(k')
    BY DEF Stands, Winds
<1> QED BY <1>4, <1>5, <1>6, AssembleTimes

\* A delay sets its alarm to all that was asked for.
LEMMA DelayTimes ==
    ASSUME KInv, TInv, NEW t \in Tasks, t = k.pxCurrentTCB, vTaskDelay(t)
    PROVE  TInv'
<1>1. PICK s : /\ s = [k EXCEPT !.uxSchedulerSuspended = 1]
               /\ k' = prvAddCurrentTaskToDelayedList(s, wait[t], FALSE)
    BY DEF vTaskDelay
<1>2. /\ step[t] = "check" /\ Call(t).op = "delay" /\ GoesTo(t, "resume_delay")
      /\ Within(t, wait[t])
    BY DEF vTaskDelay
<1>3. t \in Tasks \ Asleep(k) /\ t \notin Timed(k)
    BY <1>2, Awake DEF Inside, Asleep
<1>4. entry[t] = <<>> /\ wait[t] = Call(t).ticks /\ wait[t] \in 1..(TickWrap - 1)
      /\ wait[t] # portMAX_DELAY
    <2>1. entry[t] = <<>> /\ wait[t] = Call(t).ticks /\ Calls
        BY <1>2, OneTimely DEF Asked
    <2>2. Call(t).ticks \in 1..(portMAX_DELAY - 1)
        BY <1>2, <2>1, KernelAssumption DEF Calls, Call
    <2> QED BY <2>1, <2>2, TimesAre
<1>5. /\ Lists(s) /\ AlarmsSet(s) /\ Stands(k, s) /\ s.pxCurrentTCB = t
      /\ s.pxCurrentTCB \in Tasks \ Asleep(s)
    <2>1. Lists(s) /\ s.pxCurrentTCB = t /\ Asleep(s) = Asleep(k)
        BY <1>1, SuspendedLists DEF KInv
    <2>2. Stands(k, s)
        BY <1>1, SuspendAlarms DEF KInv, TInv
    <2> QED BY <1>3, <2>1, <2>2 DEF Stands
<1>6. Winds(s, k', wait[t], FALSE)
    <2>1. PICK b \in BOOLEAN : ~b /\ k' = prvAddCurrentTaskToDelayedList(s, wait[t], b)
        BY <1>1
    <2>2. PICK n \in 1..(TickWrap - 1) : n = wait[t]
        BY <1>4
    <2>3. k' = prvAddCurrentTaskToDelayedList(s, n, b)
        BY <2>1, <2>2
    <2>4. Winds(s, k', n, n = portMAX_DELAY /\ b)
        BY <1>5, <2>3, SleepAlarms
    <2>5. (n = portMAX_DELAY /\ b) = FALSE
        BY <2>1
    <2> QED BY <2>2, <2>4, <2>5
<1>7. /\ Others(t) /\ step'[t] = "resume_delay" /\ entry'[t] = <<>> /\ wait'[t] = wait[t]
      /\ Call(t)' = Call(t)
    BY <1>2, <1>4, GoesOthers DEF KInv
<1>8. /\ left' \in [Tasks -> Int] /\ \A u \in Tasks \ {t} : left'[u] = left[u]
      /\ left'[t] = wait[t]
    <2>1. wait[t] \in Ticks
        BY OneTimely
    <2> QED BY <1>2, <1>4, <2>1, WithinIs
<1>9. /\ Asked(Call(t)', wait[t], entry'[t])
      /\ Measured(s, Call(t)', wait[t], entry'[t], left'[t])
    BY <1>4, <1>7 DEF Asked, Measured, Limited
<1> QED BY <1>3, <1>5, <1>6, <1>7, <1>8, <1>9, AsleepTimes DEF GivesUp

\* A call looks whether its time is over, and waits for what is left if it is not.
LEMMA BlockTimes ==
    ASSUME KInv, QInv, TInv, NEW t \in Tasks, t = k.pxCurrentTCB, Block(t)
    PROVE  TInv'
<1>1. /\ step[t] = "suspend" /\ Call(t).op \in {"send", "receive"} /\ UNCHANGED left
      /\ entry[t] # <<>> /\ entry[t] \in Nat \X Ticks
    BY DEF Block, KInv, Calls, Phase
<1>2. PICK s : s = [k EXCEPT !.uxSchedulerSuspended = 1]
    OBVIOUS
<1>3. PICK checked : checked = xTaskCheckForTimeOut(k, entry[t], wait[t])
    OBVIOUS
<1>4. t \in Tasks \ Asleep(k) /\ t \notin Timed(k)
    BY <1>1, Awake DEF Inside, Asleep
<1>5. /\ Lists(s) /\ AlarmsSet(s) /\ Stands(k, s) /\ s.pxCurrentTCB = t
      /\ s.pxCurrentTCB \in Tasks \ Asleep(s)
    <2>1. Lists(s) /\ s.pxCurrentTCB = t /\ Asleep(s) = Asleep(k)
        BY <1>2, SuspendedLists DEF KInv
    <2>2. Stands(k, s)
        BY <1>2, SuspendAlarms DEF KInv, TInv
    <2> QED BY <1>4, <2>1, <2>2 DEF Stands
<1>6. \A u \in Tasks : left'[u] = left[u] /\ left' \in [Tasks -> Int] /\ left[t] \in Int
    BY <1>1, LeftSame, OneTimely
<1>7. /\ checked = <<>> => left[t] <= 0
      /\ checked # <<>> => /\ checked[2] \in 1..(TickWrap - 1)
                           /\ Asked(Call(t), checked[2], checked[1])
                           /\ Measured(k, Call(t), checked[2], checked[1], left[t])
                           /\ checked[2] = portMAX_DELAY => Call(t).ticks = portMAX_DELAY
                           /\ checked[2] # portMAX_DELAY /\ Prompt(Call(t), checked[1], left[t]) =>
                                left[t] = checked[2]
    <2>1. PICK st, w, en, l, c : /\ c = Call(t) /\ st = step[t] /\ w = wait[t] /\ en = entry[t]
                                 /\ l = left[t]
        OBVIOUS
    <2>2. /\ Right(k, t, c, st, w, en, l) /\ c.ticks \in Ticks /\ w \in Ticks /\ k \in State
          /\ en \in Nat \X Ticks /\ checked = xTaskCheckForTimeOut(k, en, w)
        BY <1>1, <1>3, <2>1, OneTimely
    <2>3. /\ checked = <<>> => l <= 0
          /\ checked # <<>> => /\ checked[2] \in 1..(TickWrap - 1)
                               /\ Asked(c, checked[2], checked[1])
                               /\ Measured(k, c, checked[2], checked[1], l)
                               /\ checked[2] = portMAX_DELAY => c.ticks = portMAX_DELAY
                               /\ checked[2] # portMAX_DELAY /\ Prompt(c, checked[1], l) =>
                                    l = checked[2]
        BY ONLY <2>2, RightChecked
    <2> QED BY <2>1, <2>3
<1>8. CASE checked = <<>>
    <2>1. k' = s /\ GoesTo(t, "resume_timeout")
        BY <1>2, <1>3, <1>8 DEF Block
    <2>2. /\ Others(t) /\ step'[t] = "resume_timeout" /\ entry'[t] = entry[t]
          /\ wait'[t] = wait[t] /\ Call(t)' = Call(t)
        BY <2>1, GoesOthers DEF KInv
    <2>3. Right(k, t, Call(t), "resume_timeout", wait[t], entry[t], left[t])
        BY <1>7, <1>8, OneTimely DEF Right, OverRight
    <2>4. Right(k', t, Call(t), "resume_timeout", wait[t], entry[t], left[t])
        BY <1>5, <2>1, <2>3, RightKept DEF Stands
    <2>5. Right(k', t, Call(t)', step'[t], wait'[t], entry'[t], left'[t])
        BY <1>6, <2>2, <2>4
    <2> QED BY <1>5, <1>6, <2>1, <2>2, <2>5, StillTimes
<1>9. CASE checked # <<>>
    <2>1. PICK en, w, st : /\ en = checked[1] /\ w = checked[2]
                           /\ st = IF Refused(t) THEN "resume_wait" ELSE "resume_again"
        OBVIOUS
    <2>2. en # <<>>
        <3>1. en \in Nat \X Ticks
            BY <1>1, <1>3, <1>9, <2>1, TimeOutTyped, OneTimely
        <3> QED BY <3>1, PairSet
    <2>3. /\ entry' = [entry EXCEPT ![t] = en] /\ wait' = [wait EXCEPT ![t] = w]
          /\ step' = [step EXCEPT ![t] = st] /\ at' = at
          /\ IF Refused(t) THEN k' = vTaskPlaceOnEventList(s, <<Call(t).q, Call(t).op>>, w)
             ELSE k' = s
        BY <1>2, <1>3, <1>9, <2>1 DEF Block
    <2>4. /\ Others(t) /\ step'[t] = st /\ entry'[t] = en /\ wait'[t] = w
          /\ Call(t)' = Call(t)
        BY <2>3, StaysOthers DEF KInv
    <2>5. /\ Asked(Call(t), w, en) /\ Measured(k, Call(t), w, en, left[t])
          /\ w # portMAX_DELAY /\ Prompt(Call(t), en, left[t]) => left[t] = w
          /\ w \in 1..(TickWrap - 1)
        BY <1>7, <1>9, <2>1
    <2>6. /\ Measured(s, Call(t), w, en, left[t])
          /\ Call(t).ticks = portMAX_DELAY => w = portMAX_DELAY
        <3>1. Measured(s, Call(t), w, en, left[t])
            BY <1>5, <2>5 DEF Stands, Measured, Ago
        <3> QED BY <2>2, <2>5, <3>1 DEF Asked
    <2>7. st \notin GivesUp
        BY <2>1 DEF GivesUp
    <2>8. CASE ~Refused(t)
        <3>1. k' = s
            BY <2>3, <2>8
        <3>2. Right(k', t, Call(t), st, w, en, left[t])
            <4>1. t \notin Timed(s)
                BY <1>4, <1>5, TimedIs DEF Stands
            <4>2. AlarmRight(s, t, Call(t), en, left[t])
                BY <4>1, TimedIs DEF AlarmRight
            <4>3. OverRight(s, t, st, en, left[t])
                BY <2>2, <2>7 DEF OverRight
            <4> QED BY <1>6, <2>5, <2>6, <3>1, <4>2, <4>3 DEF Right
        <3>3. Right(k', t, Call(t)', step'[t], wait'[t], entry'[t], left'[t])
            BY <1>6, <2>4, <3>2
        <3> QED BY <1>5, <1>6, <2>4, <3>1, <3>3, StillTimes
    <2>9. CASE Refused(t)
        <3>1. PICK event \in Event : event = <<Call(t).q, Call(t).op>>
            <4>1. Call(t).q \in Queues
                BY <2>9, RefusedOffer
            <4>2. <<Call(t).q, Call(t).op>> \in Event
                BY <1>1, <4>1 DEF Event
            <4> QED BY <4>2
        <3>2. Winds(s, k', w, w = portMAX_DELAY)
            <4>1. k' = vTaskPlaceOnEventList(s, event, w) /\ w \in 1..(TickWrap - 1)
                BY <2>3, <2>5, <2>9, <3>1
            <4> QED BY ONLY event \in Event, <1>5, <4>1, PlaceAlarms
        <3>3. PICK forever \in BOOLEAN : forever = (w = portMAX_DELAY)
            OBVIOUS
        <3>4. Winds(s, k', w, forever)
            BY <3>2, <3>3
        <3>5. ~forever => /\ Prompt(Call(t)', entry'[t], left'[t]) => left'[t] = w
                          /\ entry'[t] # <<>> => (Call(t)').ticks # portMAX_DELAY
            BY <1>6, <2>4, <2>5, <2>6, <3>3
        <3>6. /\ Asked(Call(t)', w, entry'[t]) /\ Measured(s, Call(t)', w, entry'[t], left'[t])
              /\ entry'[t] = <<>> => ~forever
            BY <1>6, <2>2, <2>4, <2>5, <2>6
        <3> QED BY <1>4, <1>5, <1>6, <2>4, <2>7, <3>4, <3>5, <3>6, AsleepTimes
    <2> QED BY <2>8, <2>9
<1> QED BY <1>8, <1>9

\* What is left while no time or one tick goes by.
LEMMA ElapseIs ==
    ASSUME TInv, NEW n \in {0, 1}, Elapse(n)
    PROVE  /\ left' \in [Tasks -> Int]
           /\ \A u \in Tasks : left'[u] = IF n = 0 THEN left[u]
                                          ELSE Elapsed(Call(u), entry[u], left[u])
<1>1. left' = [u \in Tasks |-> IF left[u] > 0 \/ HasTimeout(u) THEN left[u] - n ELSE left[u]]
    BY DEF Elapse
<1>2. \A u \in Tasks : left[u] \in Int /\ left[u] - n \in Int /\ left[u] - 0 = left[u]
    BY DEF TInv
<1>3. \A u \in Tasks : HasTimeout(u) <=> Limited(Call(u), entry[u])
    BY DEF HasTimeout, Limited
<1>4. CASE n = 0
    BY <1>1, <1>2, <1>4
<1>5. CASE n = 1
    BY <1>1, <1>2, <1>3, <1>5 DEF Elapsed
<1> QED BY <1>4, <1>5

\* No task has moved yet and the time has gone on or not.
TimeGoesOn ==
    /\ AlarmsSet(k') /\ left' \in [Tasks -> Int]
    /\ \A u \in Tasks : Right(k', u, Call(u), step[u], wait[u], entry[u], left'[u])

LEMMA GoesOn ==
    ASSUME KInv, TInv, NEW n \in {0, 1}, Elapse(n),
           n = 0 => Stands(k, k'), n = 1 => Passes(k, k')
    PROVE  TimeGoesOn
<1>1. /\ left' \in [Tasks -> Int]
      /\ \A u \in Tasks : left'[u] = IF n = 0 THEN left[u]
                                     ELSE Elapsed(Call(u), entry[u], left[u])
    BY ElapseIs
<1>2. ASSUME NEW u \in Tasks
      PROVE  Right(k', u, Call(u), step[u], wait[u], entry[u], left'[u])
    <2>1. /\ Right(k, u, Call(u), step[u], wait[u], entry[u], left[u])
          /\ Call(u).ticks \in Ticks /\ wait[u] \in Ticks /\ k \in State
        BY OneTimely
    <2>2. CASE n = 0
        <3>1. Right(k', u, Call(u), step[u], wait[u], entry[u], left[u])
            BY <2>1, <2>2, RightKept DEF Stands
        <3> QED BY <1>1, <2>2, <3>1
    <2>3. CASE n = 1
        <3>1. left'[u] = Elapsed(Call(u), entry[u], left[u])
            BY <1>1, <2>3
        <3> QED BY <2>1, <2>3, <3>1, RightPasses
    <2> QED BY <2>2, <2>3
<1>3. AlarmsSet(k')
    BY DEF Stands, Passes
<1> QED BY <1>1, <1>2, <1>3 DEF TimeGoesOn

\* Then one moves.
LEMMA MovesOn ==
    ASSUME TimeGoesOn, NEW t \in Tasks, Others(t),
           Right(k', t, Call(t)', step'[t], wait'[t], entry'[t], left'[t])
    PROVE  TInv'
<1>1. \A u \in Tasks \ {t} : Right(k', u, Call(u)', step'[u], wait'[u], entry'[u], left'[u])
    <2>1. \A u \in Tasks \ {t} : Call(u)' = Call(u)
        BY DEF Others, Call
    <2> QED BY <2>1 DEF TimeGoesOn, Others
<1> QED BY <1>1 DEF TimeGoesOn, TInv, Timely

\* To the next place of its call,
LEMMA GoesOnTo ==
    ASSUME Calls, TimeGoesOn, NEW t \in Tasks, NEW st, GoesTo(t, st),
           entry[t] = <<>> \/ step[t] \in GivesUp \/ st \notin GivesUp
    PROVE  TInv'
<1>1. /\ Others(t) /\ step'[t] = st /\ entry'[t] = entry[t] /\ wait'[t] = wait[t]
      /\ Call(t)' = Call(t)
    BY GoesOthers
<1>2. Right(k', t, Call(t), step[t], wait[t], entry[t], left'[t])
    BY DEF TimeGoesOn
<1>3. Right(k', t, Call(t), st, wait[t], entry[t], left'[t])
    BY <1>2, RightGoes
<1>4. Right(k', t, Call(t)', step'[t], wait'[t], entry'[t], left'[t])
    BY <1>1, <1>3
<1> QED BY <1>1, <1>4, MovesOn

\* or to the next call.
LEMMA GoesOnReturns ==
    ASSUME Calls, TimeGoesOn, NEW t \in Tasks, Returns(t),
           entry[t] = <<>> \/ (step[t] \in GivesUp /\ t \notin Timed(k'))
    PROVE  TInv'
<1>1. /\ Others(t) /\ step'[t] = "check" /\ entry'[t] = <<>>
      /\ wait'[t] = (Call(t)').ticks
    BY ReturnsOthers
<1>2. Right(k', t, Call(t), step[t], wait[t], entry[t], left'[t])
    BY DEF TimeGoesOn
<1>3. Right(k', t, Call(t)', "check", (Call(t)').ticks, <<>>, left'[t])
    BY <1>2, RightReturns
<1>4. Right(k', t, Call(t)', step'[t], wait'[t], entry'[t], left'[t])
    BY <1>1, <1>3
<1> QED BY <1>1, <1>4, MovesOn

\* A delay has no time of entry.
LEMMA DelayUntimed ==
    ASSUME KInv, TInv, NEW t \in Tasks
    PROVE  Call(t).op = "delay" => entry[t] = <<>>
BY OneTimely DEF Asked

\* The scheduler goes on, and with it the time.
LEMMA ResumeTimes ==
    ASSUME KInv, TInv, NEW t \in Tasks, t = k.pxCurrentTCB, Resume(t)
    PROVE  TInv'
<1>1. k' = xTaskResumeAll(k) /\ Elapse(k.uxPendedTicks) /\ k.uxPendedTicks \in {0, 1}
    BY DEF Resume, KInv, Scheduler
<1>2. TimeGoesOn
    <2>1. /\ k.uxPendedTicks = 0 => Stands(k, k')
          /\ k.uxPendedTicks = 1 => Passes(k, k')
        BY <1>1, ResumeAlarms DEF KInv, TInv
    <2>2. PICK n \in {0, 1} : n = k.uxPendedTicks /\ Elapse(n)
        BY <1>1
    <2> QED BY <2>1, <2>2, GoesOn
<1>3. Phase(Call(t).op, step[t], entry[t]) /\ Calls
    BY DEF KInv, Calls
<1>4. CASE step[t] = "resume_again"
    <2>1. GoesTo(t, "check")
        BY <1>4 DEF Resume
    <2> QED BY <1>2, <1>3, <2>1, GoesOnTo DEF GivesUp
<1>5. CASE step[t] = "resume_wait"
    <2>1. PICK st \in {"check", "yield"} : GoesTo(t, st)
        BY <1>5 DEF Resume
    <2> QED BY <1>2, <1>3, <2>1, GoesOnTo DEF GivesUp
<1>6. CASE step[t] = "resume_delay"
    <2>1. entry[t] = <<>>
        BY <1>3, <1>6, DelayUntimed DEF Phase
    <2>2. Returns(t) \/ GoesTo(t, "yield")
        BY <1>6 DEF Resume
    <2> QED BY <1>2, <1>3, <2>1, <2>2, GoesOnTo, GoesOnReturns
<1>7. CASE step[t] = "resume_timeout"
    <2>1. t \notin Timed(k')
        <3>1. t \notin Timed(k)
            BY <1>7 DEF KInv, Scheduler, Asleep
        <3>2. Timed(k') \subseteq Timed(k)
            BY <1>1, ResumeLists DEF KInv, Later
        <3> QED BY <3>1, <3>2
    <2>2. Returns(t) \/ GoesTo(t, "recheck")
        BY <1>7 DEF Resume
    <2> QED BY <1>2, <1>3, <1>7, <2>1, <2>2, GoesOnTo, GoesOnReturns DEF GivesUp
<1> QED BY <1>4, <1>5, <1>6, <1>7 DEF Resume

\* A task leaves the processor.
LEMMA YieldTimes ==
    ASSUME KInv, TInv, NEW t \in Tasks, t = k.pxCurrentTCB, Yield(t)
    PROVE  TInv'
<1>1. /\ step[t] = "yield" /\ k' = vTaskSwitchContext(k) /\ UNCHANGED left
      /\ IF Call(t).op = "delay" THEN Returns(t) ELSE GoesTo(t, "check")
    BY DEF Yield
<1>2. TimeGoesOn
    <2>1. Stands(k, k')
        BY <1>1, SwitchAlarms DEF KInv, TInv
    <2>2. AlarmsSet(k') /\ left' \in [Tasks -> Int]
        BY <1>1, <2>1, LeftSame DEF Stands
    <2>3. ASSUME NEW u \in Tasks
          PROVE  Right(k', u, Call(u), step[u], wait[u], entry[u], left'[u])
        <3>1. Right(k, u, Call(u), step[u], wait[u], entry[u], left[u])
            BY OneTimely
        <3>2. Right(k', u, Call(u), step[u], wait[u], entry[u], left[u])
            BY <2>1, <3>1, RightKept DEF Stands
        <3> QED BY <1>1, <3>2, LeftSame
    <2> QED BY <2>2, <2>3 DEF TimeGoesOn
<1>3. CASE Call(t).op = "delay"
    BY <1>1, <1>2, <1>3, DelayUntimed, GoesOnReturns DEF KInv
<1>4. CASE Call(t).op # "delay"
    BY <1>1, <1>2, <1>4, GoesOnTo DEF KInv, GivesUp
<1> QED BY <1>3, <1>4

\* The tick interrupt.
LEMMA TickTimes ==
    ASSUME KInv, TInv, Tick
    PROVE  TInv'
<1>1. PICK u : u = xTaskIncrementTick(k) /\ k' = vTaskSwitchContext(u)
    BY DEF Tick, vPortSysTickHandler
<1>2. /\ k.uxSchedulerSuspended = 0 => Passes(k, u)
      /\ k.uxSchedulerSuspended = 1 => Stands(k, u)
      /\ Lists(u) /\ k.uxSchedulerSuspended \in {0, 1}
    <2>1. Lists(u)
        BY <1>1, TickLists DEF KInv, Later
    <2>2. k.uxSchedulerSuspended \in {0, 1}
        BY DEF KInv, Lists, State
    <2> QED BY <1>1, <2>1, <2>2, TickAlarms DEF KInv, TInv
<1>3. Stands(k, k) /\ Stands(u, k')
    <2>1. AlarmsSet(u)
        BY <1>2 DEF Passes, Stands
    <2> QED BY <1>1, <1>2, <2>1, SwitchAlarms DEF Stands, TInv
<1>4. PICK n \in {0, 1} : Elapse(n) /\ (n = 0 => Stands(k, k')) /\ (n = 1 => Passes(k, k'))
    <2>1. CASE k.uxSchedulerSuspended = 0
        <3>1. Elapse(1)
            BY <2>1 DEF Tick
        <3>2. Passes(k, k')
            BY <1>2, <1>3, <2>1, PassesBetween
        <3> QED BY <3>1, <3>2
    <2>2. CASE k.uxSchedulerSuspended = 1
        <3>1. Elapse(0)
            <4>1. left' = left /\ \A t \in Tasks : left[t] - 0 = left[t]
                BY <2>2 DEF Tick, TInv
            <4> QED BY <4>1 DEF Elapse, TInv
        <3>2. Stands(k, k')
            BY <1>2, <1>3, <2>2 DEF Stands
        <3> QED BY <3>1, <3>2
    <2> QED BY <1>2, <2>1, <2>2
<1>5. TimeGoesOn
    BY <1>4, GoesOn
<1> QED BY <1>5 DEF TimeGoesOn, Tick, TInv, Timely, Call

\* All steps.
LEMMA NextTimes ==
    ASSUME KInv, QInv, TInv, [Next]_vars
    PROVE  TInv'
<1>1. CASE Step
    <2>1. PICK t \in Tasks :
            /\ t = k.pxCurrentTCB
            /\ \/ PassBy(t) \/ Send(t) \/ Receive(t) \/ Refuse(t) \/ Block(t)
               \/ vTaskDelay(t) \/ Resume(t) \/ Recheck(t) \/ Yield(t)
        BY <1>1 DEF Step
    <2> QED BY <2>1, PassByTimes, SendTimes, RefuseTimes, BlockTimes, DelayTimes, ResumeTimes,
               RecheckTimes, YieldTimes
<1>2. CASE Tick
    BY <1>2, TickTimes
<1>3. CASE UNCHANGED vars
    BY <1>3 DEF vars, TInv, Timely, Call
<1> QED BY <1>1, <1>2, <1>3 DEF Next

\* When the scheduler starts no alarm is set.
LEMMA InitTimes == Init => TInv
<1> SUFFICES ASSUME Init PROVE TInv
    OBVIOUS
<1>1. /\ k.delayed = <<>> /\ k.overflow = <<>> /\ left = [t \in Tasks |-> 0]
      /\ at = [t \in Tasks |-> 1] /\ step = [t \in Tasks |-> "check"]
      /\ wait = [t \in Tasks |-> Program[t][1].ticks] /\ entry = [t \in Tasks |-> <<>>]
    BY DEF Init, vTaskStartScheduler
<1>2. AlarmsSet(k) /\ \A t : t \notin Timed(k)
    <2>1. ToSet(<<>>) = {}
        BY DEF ToSet
    <2> QED BY <1>1, <2>1 DEF AlarmsSet, InOrder, Timed
<1>3. ASSUME NEW t \in Tasks PROVE Timely(t)
    <2>1. Right(k, t, Call(t), "check", Call(t).ticks, <<>>, 0)
        BY <1>2, RightFresh
    <2>2. /\ step[t] = "check" /\ wait[t] = Call(t).ticks /\ entry[t] = <<>> /\ left[t] = 0
        BY <1>1 DEF Call
    <2> QED BY <2>1, <2>2 DEF Timely
<1> QED BY <1>1, <1>2, <1>3 DEF TInv

---------------------------------------------------------------------------
(* What the invariant says of the property. *)

\* A call that gives up after a time has not gone on for a whole round of the tick
\* count.
InTime(t) == HasTimeout(t) => Call(t).ticks - left[t] < TickWrap

\* The item of a task in the lists says when it wakes, so that it is in time.
LEMMA TimesKept ==
    ASSUME KInv, TInv, NEW t \in Tasks
    PROVE  NotTooEarly(t) /\ (InTime(t) => AwakeInTime(t))
<1>1. Delayed = Timed(k)
    BY DEF Delayed, Timed
<1>2. Right(k, t, Call(t), step[t], wait[t], entry[t], left[t]) /\ k \in State
    BY OneTimely
<1>3. NotTooEarly(t)
    BY <1>1, <1>2 DEF NotTooEarly, Right, OverRight
<1>4. ASSUME InTime(t), t \in Delayed PROVE left[t] > 0
    <2>1. PICK a \in Alarms(k) : a[1] = t
        BY <1>1, <1>4, TimedIs
    <2>2. Prompt(Call(t), entry[t], left[t])
        BY <1>4 DEF InTime, HasTimeout, Prompt, Limited
    <2>3. left[t] = Due(k, a)
        BY <1>2, <2>1, <2>2 DEF Right, AlarmRight
    <2>4. Due(k, a) \in 1..TickWrap /\ TickWrap \in Nat
        BY <1>2, <2>1, DueIs, TimesAre
    <2> QED BY <2>3, <2>4
<1> QED BY <1>3, <1>4 DEF AwakeInTime

---------------------------------------------------------------------------
(* Theorems. *)

\* In every queue the write pointer stands where the read pointer and the count
\* say, and no count exceeds its queue's length.
THEOREM Invariance == Spec => []QInv
<1>1. QInv /\ [Next]_vars => QInv'
    BY NextStep
<1> QED BY InitQueues, <1>1, PTL DEF Spec

\* Whatever is called, times out, is woken or interrupted: every queue is a bounded
\* first-in first-out buffer, and what a task receives is its oldest item.
THEOREM Refinement == Spec => ImplementsQueues
<1>1. Init => MQ!Init
    <2> SUFFICES ASSUME Init PROVE MQ!Init
        OBVIOUS
    <2>1. \A q \in Queues : queue[q].uxMessagesWaiting = 0
        BY DEF Init, xQueueGenericReset
    <2>2. \A q \in Queues : Contents[q] = <<>>
        BY <2>1 DEF Contents
    <2>3. Contents = [q \in Queues |-> <<>>]
        BY <2>2 DEF Contents
    <2> QED BY <2>3 DEF Init, MQ!Init, Contents
<1>2. QInv /\ [Next]_vars => [MQ!Next]_<<Contents, received>>
    BY NextStep
<1> QED BY <1>1, <1>2, Invariance, PTL DEF Spec, ImplementsQueues, MQ!Spec, Contents

\* The lists of the scheduler and of the queues, the calls of the tasks and the
\* counts of the queues agree, and there is a task on its way for all that is
\* offered to tasks that wait.
THEOREM KernelInvariance == Spec => []KInv
<1>1. KInv /\ QInv /\ [Next]_vars => KInv'
    BY NextKernel
<1> QED BY InitKernel, <1>1, Invariance, PTL DEF Spec

\* Every task is in exactly one list of the scheduler, once, and waits for the
\* event of the call it is in.
THEOREM TypeCorrect == Spec => []TypeOK
<1>1. KInv => TypeOK
    BY KernelTyped
<1> QED BY <1>1, KernelInvariance, PTL

\* No wake-up is lost between a look at a queue and the sleep that follows.
THEOREM NothingLost == Spec => []NoLostWakeup
<1>1. KInv /\ QInv => NoLostWakeup
    BY WakeupKept
<1> QED BY <1>1, KernelInvariance, Invariance, PTL

\* The delayed lists are in the order of their times and on the right side of the wrap,
\* and of every task what is left of its delay or timeout agrees with the tick count,
\* its item in the lists and the time and ticks its call has noted.
THEOREM TimeInvariance == Spec => []TInv
<1>1. KInv /\ QInv /\ TInv /\ [Next]_vars => TInv'
    BY NextTimes
<1>2. Init => TInv
    BY InitTimes
<1> QED BY <1>1, <1>2, Invariance, KernelInvariance, PTL DEF Spec

\* No delay returns and no call gives up before its time, whatever the tick count does.
THEOREM NeverTooEarly == Spec => [](\A t \in Tasks : NotTooEarly(t))
<1>1. KInv /\ TInv => \A t \in Tasks : NotTooEarly(t)
    BY TimesKept
<1> QED BY <1>1, KernelInvariance, TimeInvariance, PTL

\* And none sleeps longer than it asked for, as long as no call that has a timeout
\* has gone on for a whole round of the tick count.
THEOREM SleepTimes == Spec => []((\A t \in Tasks : InTime(t)) => SleepsAsLongAsAsked)
<1>1. KInv /\ TInv => ((\A t \in Tasks : InTime(t)) => SleepsAsLongAsAsked)
    BY TimesKept DEF SleepsAsLongAsAsked
<1> QED BY <1>1, KernelInvariance, TimeInvariance, PTL
=============================================================================
