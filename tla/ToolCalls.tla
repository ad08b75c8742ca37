------------------------------ MODULE ToolCalls ------------------------------
(***************************************************************************)
(* What a caller of a tool on another server may rely on, whatever becomes *)
(* of the connection: a call that was asked for returns once, the tool ran *)
(* at most twice for it, and an answer with nothing added to it is of a    *)
(* tool that ran once.                                                     *)
(***************************************************************************)
EXTENDS Naturals

CONSTANT Callers

VARIABLE calls  \* caller -> whether it waits, how often its tool ran, and the outcome

Outcomes == {"none", "answer", "noted", "error", "cancelled"}

Init == calls = [c \in Callers |-> [waits |-> FALSE, ran |-> 0, outcome |-> "none"]]

Ask(c) ==
    /\ ~calls[c].waits
    /\ calls' = [calls EXCEPT ![c] = [waits |-> TRUE, ran |-> 0, outcome |-> "none"]]

RunTool(c) ==
    /\ calls[c].waits /\ calls[c].ran < 2
    /\ calls' = [calls EXCEPT ![c].ran = @ + 1]

\* An answer is of a tool that ran, and of one that ran twice it is noted.
Return(c) ==
    /\ calls[c].waits
    /\ \E o \in Outcomes \ {"none"} :
          /\ o = "answer" => calls[c].ran = 1
          /\ o = "noted" => calls[c].ran \in 1..2
          /\ calls' = [calls EXCEPT ![c].waits = FALSE, ![c].outcome = o]

Next == \E c \in Callers : Ask(c) \/ RunTool(c) \/ Return(c)

\* What no step of a call may break.
Safety == Init /\ [][Next]_calls

\* And no call waits for ever.
Spec == Safety /\ \A c \in Callers : calls[c].waits ~> ~calls[c].waits

=============================================================================
