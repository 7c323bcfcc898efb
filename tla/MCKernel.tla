------------------------------- MODULE MCKernel ------------------------------
(* TLC instances of Kernel. *)
EXTENDS Kernel, TLC

ModeCreated == <<"main", "sns", "button", "disp">>
ModeQueues == {"SnsorQue", "ButtonQue", "GLCD_QUE"}
ModeLength == [SnsorQue |-> 1, ButtonQue |-> 1, GLCD_QUE |-> 2]

Delay == [op |-> "delay", q |-> "", ticks |-> 1, may |-> FALSE]
Sends(q, ticks) == [op |-> "send", q |-> q, ticks |-> ticks, may |-> FALSE]
MaySend(q, ticks) == [op |-> "send", q |-> q, ticks |-> ticks, may |-> TRUE]
Receives(q, ticks) == [op |-> "receive", q |-> q, ticks |-> ticks, may |-> FALSE]

\* task_main while it executes commands (IS posts to SnsorQue, SG and SF write to
\* the log), task_sns, task_button and task_disp; debug_print sends to GLCD_QUE.
ModeProgram ==
    [main |-> <<Sends("SnsorQue", portMAX_DELAY), MaySend("GLCD_QUE", 2), Delay>>,
     sns |-> <<Receives("SnsorQue", 1), Sends("GLCD_QUE", 2), Delay>>,
     button |-> <<Sends("ButtonQue", portMAX_DELAY), Delay>>,
     disp |-> <<Receives("GLCD_QUE", 0), Delay>>]
=============================================================================
