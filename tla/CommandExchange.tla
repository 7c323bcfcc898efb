--------------------------- MODULE CommandExchange ---------------------------
(***************************************************************************)
(* What the command interface promises a host that sends one command and   *)
(* waits: every command gets exactly one answer, and it is an answer to    *)
(* that command.                                                           *)
(***************************************************************************)
CONSTANTS Frames,          \* the commands, as their bytes
          Nobody,          \* not a command
          NoAnswer,        \* not an answer
          Answers(_)       \* the answers a command may get

VARIABLES pending,         \* the command being served, or Nobody
          answer           \* the last answer, or NoAnswer

vars == <<pending, answer>>

Init == pending = Nobody /\ answer = NoAnswer

Send(f) == pending = Nobody /\ pending' = f /\ answer' = NoAnswer

Reply == /\ pending # Nobody /\ pending' = Nobody /\ answer' \in Answers(pending)

Next == (\E f \in Frames : Send(f)) \/ Reply

Spec == Init /\ [][Next]_vars /\ WF_vars(Reply)
=============================================================================
