---------------------------- MODULE MessageQueues ----------------------------
(***************************************************************************)
(* What the tasks rely on when they use the queues of FreeRTOS: each is a  *)
(* bounded first-in first-out buffer, an item is received once, whole and  *)
(* in order, and a call that gives up leaves the queue alone.              *)
(***************************************************************************)
EXTENDS Integers, Sequences

CONSTANTS
    Queues,
    Tasks,      \* also the items: a task sends its own name
    uxLength    \* of each queue

VARIABLES
    items,      \* the items in each queue, the oldest first
    received    \* the item each task received last

Init == /\ items = [q \in Queues |-> <<>>]
        /\ received = [t \in Tasks |-> "none"]

Send(t, q) == /\ Len(items[q]) < uxLength[q]
              /\ items' = [items EXCEPT ![q] = Append(@, t)]
              /\ UNCHANGED received

Receive(t, q) == /\ items[q] # <<>>
                 /\ items' = [items EXCEPT ![q] = Tail(@)]
                 /\ received' = [received EXCEPT ![t] = Head(items[q])]

Next == \E t \in Tasks, q \in Queues : Send(t, q) \/ Receive(t, q)
Spec == Init /\ [][Next]_<<items, received>>
=============================================================================
