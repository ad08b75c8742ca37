------------------------------ MODULE McpServer ------------------------------
(***************************************************************************)
(* The client side of one MCP server (metaharness/mcp): several callers    *)
(* share one cached session, which is dialed under the lock by whoever     *)
(* finds none.  A call that finds the connection gone drops the session,   *)
(* dials again and tries once more; Close releases the session at any      *)
(* time, and a call after it dials again.                                  *)
(*                                                                         *)
(* A session is known by its number.  It is alive, dead on the server's    *)
(* side, or closed on ours.  The observer is told what happened and        *)
(* changes nothing, so it is left out, as is what an answer says.          *)
(***************************************************************************)
EXTENDS Naturals, FiniteSets

CONSTANTS
    Callers,     \* goroutines that call
    Nobody,      \* no caller
    MaxSessions, \* bound on the sessions dialed
    MaxCalls,    \* bound on the calls made
    MaxCloses,   \* bound on the times Close is called
    MaxFaults    \* bound on deaths of a session, failed dials and broken requests

ASSUME McpAssumption ==
    /\ Callers # {} /\ Nobody \notin Callers
    /\ MaxSessions \in Nat /\ MaxCalls \in Nat /\ MaxCloses \in Nat /\ MaxFaults \in Nat

VARIABLES
    session, \* Server.session: the cached one, or 0
    mu,      \* who holds the lock over a dial
    life,    \* session -> "none", "live", "dead" or "closed"
    caller,  \* caller -> where it is
    closer,  \* the session Close has taken and not yet closed, or 0
    closes,  \* how often Close was called
    calls,   \* how many calls were made
    faults

vars == <<session, mu, life, caller, closer, closes, calls, faults>>

-----------------------------------------------------------------------------

Sessions == 1..MaxSessions

\* try is 2 once callOnce has redialed.  hits counts the sessions that were lost, or
\* could not be had, during the call.
Resting == [pc |-> "idle", kind |-> "call", sess |-> 0, try |-> 1, ran |-> 0, hits |-> 0,
            outcome |-> "none"]

\* A caller, in a call or between two.
CallState == [pc : {"idle", "connect", "dial", "call", "served", "drop", "close"},
              kind : {"call", "tools"}, sess : 0..MaxSessions, try : 1..2, ran : 0..2, hits : Nat,
              outcome : {"none", "answer", "noted", "error", "cancelled"}]

TypeOK ==
    /\ session \in 0..MaxSessions /\ mu \in Callers \cup {Nobody}
    /\ life \in [Sessions -> {"none", "live", "dead", "closed"}]
    /\ caller \in [Callers -> CallState]
    /\ closer \in 0..MaxSessions /\ closes \in 0..MaxCloses /\ calls \in 0..MaxCalls
    /\ faults \in 0..MaxFaults

fault == faults < MaxFaults /\ faults' = faults + 1

\* The callers once something has happened to a connection that they may be using.
hit(cs) == [c \in Callers |-> IF cs[c].pc = "idle" THEN cs[c] ELSE [cs[c] EXCEPT !.hits = @ + 1]]

\* The callers once session s is closed on our side.
closed(cs, s) == IF life[s] = "live" THEN hit(cs) ELSE cs

goto(c, pc) == caller' = [caller EXCEPT ![c].pc = pc]

\* The callers once the call of c has returned.
over(cs, c, outcome) == [cs EXCEPT ![c].pc = "idle", ![c].sess = 0, ![c].outcome = outcome]

returned(c, outcome) == caller' = over(caller, c, outcome)

-----------------------------------------------------------------------------
(* A call, or a listing of the tools *)

asks(c, kind) ==
    /\ caller[c].pc = "idle" /\ calls < MaxCalls /\ calls' = calls + 1
    /\ caller' = [caller EXCEPT ![c] =
          [Resting EXCEPT !.pc = "connect", !.kind = kind,
              !.hits = IF session # 0 /\ life[session] # "live" THEN 1 ELSE 0]]
    /\ UNCHANGED <<session, mu, life, closer, closes, faults>>

\* Call, for Execute of one of the tools.
Call(c) == asks(c, "call")

\* Tools: the server lists what it has.
Tools(c) == asks(c, "tools")

\* Mutant: the lock covers the look at the cache and not the dial.
connectUnlocked(c) ==
    /\ caller[c].pc = "connect"
    /\ caller' = [caller EXCEPT ![c].pc = IF session # 0 THEN "call" ELSE "dial",
                                ![c].sess = session]
    /\ UNCHANGED <<session, mu, life, closer, closes, calls, faults>>

\* establish: the cached session, or the lock to dial one under.
connect(c) ==
    /\ caller[c].pc = "connect" /\ mu = Nobody
    /\ caller' = [caller EXCEPT ![c].pc = IF session # 0 THEN "call" ELSE "dial",
                                ![c].sess = session]
    /\ mu' = IF session # 0 THEN Nobody ELSE c
    /\ UNCHANGED <<session, life, closer, closes, calls, faults>>

dialed(c) ==
    /\ caller[c].pc = "dial"
    /\ \E s \in Sessions :
          /\ life[s] = "none" /\ \A t \in 1..(s - 1) : life[t] # "none"
          /\ life' = [life EXCEPT ![s] = "live"]
          /\ session' = s
          /\ caller' = [caller EXCEPT ![c].pc = "call", ![c].sess = s]
    /\ mu' = Nobody
    /\ UNCHANGED <<closer, closes, calls, faults>>

\* The dial fails, or the call's context ends first.
dialFails(c) ==
    /\ caller[c].pc = "dial"
    /\ \/ fault /\ caller' = over(hit(caller), c, "error")
       \/ returned(c, "cancelled") /\ UNCHANGED faults
    /\ mu' = Nobody
    /\ UNCHANGED <<session, life, closer, closes, calls>>

\* The server runs what was asked of it.
serves(c) ==
    /\ caller[c].pc = "call" /\ life[caller[c].sess] = "live"
    /\ caller' = [caller EXCEPT ![c].pc = "served", ![c].ran = @ + 1]
    /\ UNCHANGED <<session, mu, life, closer, closes, calls, faults>>

\* Mutant: the answer of a call that redialed is like any other.
answersPlain(c) ==
    /\ caller[c].pc = "served" /\ life[caller[c].sess] = "live"
    /\ returned(c, "answer")
    /\ UNCHANGED <<session, mu, life, closer, closes, calls, faults>>

\* Its answer, an error of its own included, with a note if the call redialed.
answers(c) ==
    /\ caller[c].pc = "served" /\ life[caller[c].sess] = "live"
    /\ returned(c, IF caller[c].try = 2 THEN "noted" ELSE "answer")
    /\ UNCHANGED <<session, mu, life, closer, closes, calls, faults>>

\* The call's context is done: the session is left as it is.
cancelled(c) ==
    /\ caller[c].pc \in {"call", "served"}
    /\ returned(c, "cancelled")
    /\ UNCHANGED <<session, mu, life, closer, closes, calls, faults>>

\* transportFailed: a call drops its session the first time; the second time, and
\* for a listing, it is an error, and the session stays cached.
fails(c) ==
    /\ caller[c].pc \in {"call", "served"}
    /\ LET next(cs) == IF caller[c].try = 2 \/ caller[c].kind = "tools"
                       THEN over(cs, c, "error") ELSE [cs EXCEPT ![c].pc = "drop"]
       IN \/ life[caller[c].sess] # "live" /\ caller' = next(caller) /\ UNCHANGED faults
          \/ life[caller[c].sess] = "live" /\ fault /\ caller' = next(hit(caller))
    /\ UNCHANGED <<session, mu, life, closer, closes, calls>>

\* Mutant: the session is closed and still cached.
dropKeeps(c) ==
    /\ caller[c].pc = "drop" /\ mu = Nobody
    /\ goto(c, "close")
    /\ UNCHANGED <<session, mu, life, closer, closes, calls, faults>>

\* drop: the session is forgotten unless another is cached by now.
drop(c) ==
    /\ caller[c].pc = "drop" /\ mu = Nobody
    /\ session' = IF session = caller[c].sess THEN 0 ELSE session
    /\ goto(c, "close")
    /\ UNCHANGED <<mu, life, closer, closes, calls, faults>>

\* And closed, under whoever else is using it; then the call connects again.
closesDropped(c) ==
    /\ caller[c].pc = "close"
    /\ caller' = [closed(caller, caller[c].sess) EXCEPT ![c].pc = "connect", ![c].try = 2,
                                                        ![c].hits = caller[c].hits]
    /\ life' = [life EXCEPT ![caller[c].sess] = "closed"]
    /\ UNCHANGED <<session, mu, closer, closes, calls, faults>>

-----------------------------------------------------------------------------
(* Close, and the server *)

\* Close takes the cached session under the lock ...
Close ==
    /\ closes < MaxCloses /\ closes' = closes + 1
    /\ closer = 0 /\ mu = Nobody
    /\ closer' = session /\ session' = 0
    /\ UNCHANGED <<mu, life, caller, calls, faults>>

\* ... and closes it after.
closeTaken ==
    /\ closer # 0
    /\ caller' = closed(caller, closer)
    /\ life' = [life EXCEPT ![closer] = "closed"]
    /\ closer' = 0
    /\ UNCHANGED <<session, mu, closes, calls, faults>>

\* The server, its process or the connection to it dies.
dies(s) ==
    /\ life[s] = "live" /\ fault
    /\ life' = [life EXCEPT ![s] = "dead"]
    /\ caller' = hit(caller)
    /\ UNCHANGED <<session, mu, closer, closes, calls>>

-----------------------------------------------------------------------------

Init ==
    /\ session = 0 /\ mu = Nobody /\ life = [s \in Sessions |-> "none"]
    /\ caller = [c \in Callers |-> Resting]
    /\ closer = 0 /\ closes = 0 /\ calls = 0 /\ faults = 0

step(c) == connect(c) \/ dialed(c) \/ dialFails(c) \/ serves(c) \/ answers(c) \/ cancelled(c)
           \/ fails(c) \/ drop(c) \/ closesDropped(c)

Next == \/ \E c \in Callers : Call(c) \/ Tools(c) \/ step(c)
        \/ Close \/ closeTaken \/ \E s \in Sessions : dies(s)

Spec == Init /\ [][Next]_vars

\* A caller that can go on does: every dial and every request has the call's
\* timeout, and the lock is taken in turn.
FairSpec == Spec /\ \A c \in Callers : WF_vars(step(c))

-----------------------------------------------------------------------------

\* No session is left open by everybody: one that is not closed is the cached one,
\* or in the hands of whoever is about to close it (establish, drop, Close).
NoSessionIsLeaked ==
    \A s \in Sessions : life[s] \in {"live", "dead"} =>
        \/ s \in {session, closer}
        \/ \E c \in Callers : caller[c].sess = s /\ caller[c].pc \in {"drop", "close"}

\* A call ends in an error only if its first dial failed or two sessions failed it,
\* one found dead among them: one loss, be it noticed by several callers at once,
\* is always made good (callOnce, drop).
OneLossIsMadeGood ==
    \A c \in Callers : caller[c].kind = "call" /\ caller[c].outcome = "error"
                       => caller[c].hits >= 2 \/ caller[c].try = 1

\* The callers as ToolCalls has them: a call waits from its beginning to its end.
promised == [c \in Callers |-> [waits |-> caller[c].pc # "idle", ran |-> caller[c].ran,
                                outcome |-> caller[c].outcome]]

Promise == INSTANCE ToolCalls WITH calls <- promised

\* A call keeps what ToolCalls promises: it returns, and a tool that ran twice, for a
\* connection that broke before its answer, is never answered as if it had run once
\* (callOnce, Call).
KeepsThePromise == Promise!Spec

=============================================================================
