--------------------------- MODULE SandboxLifecycle ---------------------------
(***************************************************************************)
(* What the manager promises the backend it is given, and through it those *)
(* who run commands.  The calls on one name come one after the other; a    *)
(* call is made for one caller, who has no other, or, to stop what is      *)
(* idle, for nobody; a command follows a preparation, or needs none; a     *)
(* sandbox comes into being in a preparation and is gone only by a         *)
(* Destroy, though either may fail half-way; and nothing is called once    *)
(* the backend is closed.                                                  *)
(***************************************************************************)
CONSTANTS
    Names,
    Callers,
    None      \* nobody

VARIABLES
    box,     \* name -> what the backend has: "absent", "stopped" or "running"
    call,    \* name -> the call being made on it, and for whom
    closed   \* the backend is closed

lifecycle == <<box, call, closed>>

NoCall == [kind |-> "none", by |-> None]

Init ==
    /\ box \in [Names -> {"absent", "stopped", "running"}]
    /\ call = [n \in Names |-> NoCall]
    /\ closed = FALSE

\* A call on n is begun for c.
Begin(n, kind, c) ==
    /\ ~closed /\ call[n] = NoCall
    /\ call' = [call EXCEPT ![n] = [kind |-> kind, by |-> c]]
    /\ UNCHANGED <<box, closed>>

\* A caller is served: it has no other call.
Serve(n) ==
    \E c \in Callers, kind \in {"prepare", "exec", "destroy"} :
        (\A m \in Names : call[m].by # c) /\ Begin(n, kind, c)

\* What is idle is stopped.
StopIdle(n) == Begin(n, "stop", None)

\* The sandbox is ready, and the command begins for the one who asked for it.
Prepared(n) ==
    /\ call[n].kind = "prepare"
    /\ box' = [box EXCEPT ![n] = "running"]
    /\ call' = [call EXCEPT ![n] = [kind |-> "exec", by |-> @.by]]
    /\ UNCHANGED closed

\* Compute that is stopped, where there is any.
halted(b) == IF b = "running" THEN "stopped" ELSE b

\* What a call may leave of b, with or without an error.
Leaves(kind, b) ==
    CASE kind = "prepare" -> {b, "running"} \cup (IF b = "absent" THEN {"stopped"} ELSE {})
      [] kind = "exec" -> {b}
      [] kind = "stop" -> {b, halted(b)}
      [] kind = "destroy" -> {b, halted(b), "absent"}

\* The call on n is over.
Return(n) ==
    /\ call[n] # NoCall
    /\ \E b \in Leaves(call[n].kind, box[n]) : box' = [box EXCEPT ![n] = b]
    /\ call' = [call EXCEPT ![n] = NoCall]
    /\ UNCHANGED closed

\* The backend is closed when no call is being made.
Close ==
    /\ ~closed /\ \A n \in Names : call[n] = NoCall
    /\ closed' = TRUE
    /\ UNCHANGED <<box, call>>

Next ==
    \/ \E n \in Names : Serve(n) \/ StopIdle(n) \/ Prepared(n) \/ Return(n)
    \/ Close

Spec == Init /\ [][Next]_lifecycle

=============================================================================
