------------------------------ MODULE XmppBridge ------------------------------
(***************************************************************************)
(* The personal XMPP bridge (metaharness/bridge/xmpp): the stream's        *)
(* handler pushes what it accepts on a queue, and one loop serves the      *)
(* queue and a daily schedule, a turn of the agent at a time.  The bridge  *)
(* keeps one current session, with one handle on its sandbox, and shows    *)
(* the progress of a turn in one message that it corrects.                 *)
(*                                                                         *)
(* An action is what the loop, or the handler, does between two points     *)
(* where the other can act.  Time is in steps of a day that has Day of     *)
(* them.  A turn of the agent is some steps and an outcome; what it says   *)
(* is not modelled.  A send that fails is not delivered.                   *)
(***************************************************************************)
EXTENDS Naturals, Sequences, FiniteSets

CONSTANTS
    People,      \* accounts that write to the bridge
    Allowed,     \* Config.AllowedJIDs
    At,          \* the schedule's times of day; none schedules nothing
    Day,         \* how many times of day there are
    None,        \* nil
    MaxStanzas,  \* bound on the stanzas that arrive
    MaxSessions, \* bound on the sessions started
    MaxLines,    \* bound on the steps a turn reports
    MaxTime,     \* bound on the clock
    MaxFaults    \* bound on failed sends and failed opens

ASSUME XmppAssumption ==
    /\ Allowed \subseteq People /\ Allowed # {} /\ None \notin People
    /\ Day \in Nat \ {0} /\ At \subseteq 0..(Day - 1)
    /\ MaxStanzas \in Nat /\ MaxSessions \in Nat \ {0} /\ MaxLines \in Nat
    /\ MaxTime \in Nat /\ MaxFaults \in Nat

VARIABLES
    queue,    \* messageQueue: the items, and whether ready holds its token
    handler,  \* the stream's goroutine: "rest", or "signal" inside push
    stanzas,  \* how many stanzas have arrived
    loop,     \* the goroutine of Run: where it is, and the slot it waits for
    turn,     \* the turn running now and its statusMessage
    current,  \* the current session
    sessions, \* how many were started, and which of them the store holds
    open,     \* session -> handles on the sandbox not yet released
    now,
    ctx,      \* "live", or "done" once the context is cancelled
    stream,   \* "up", or "ended" once Serve has returned
    continuing, \* Schedule.continuing, which never changes
    served,   \* the slots a scheduled turn was started for
    faults

vars == <<queue, handler, stanzas, loop, turn, current, sessions, open, now, ctx,
          stream, continuing, served, faults>>

queueVars == <<queue, handler, stanzas>>
sessionVars == <<current, sessions, open>>
outside == <<now, ctx, stream, continuing>>

-----------------------------------------------------------------------------

Ids == 1..MaxSessions
Never == MaxTime + Day + 1
Commands == {"new", "resume", "other"}
Messages == [from : People, body : Commands \cup {"prompt"}, arg : Ids \cup {None}]

\* No turn.
NoTurn == [on |-> "no", status |-> "none", lines |-> 0, shown |-> 0, seen |-> 0,
           posts |-> 0, failed |-> FALSE, since |-> 0]

\* The goroutine of Run, and a turn.
Loop == [pc : {"connect", "top", "select", "pop", "turn", "returned"}, due : Nat]

Turn == [on : {"no", "typed", "scheduled"}, status : {"none", "lost", "posted"},
         lines : Nat, shown : Nat, seen : Nat, posts : Nat, failed : BOOLEAN,
         since : 0..MaxTime]

TypeOK ==
    /\ queue \in [items : Seq(Messages), ready : BOOLEAN]
    /\ handler \in {"rest", "signal"}
    /\ stanzas \in 0..MaxStanzas
    /\ loop \in Loop
    /\ turn \in Turn
    /\ current \in Ids
    /\ sessions \in [started : Ids, stored : SUBSET Ids]
    /\ open \in [Ids -> Nat]
    /\ now \in 0..MaxTime
    /\ ctx \in {"live", "done"} /\ stream \in {"up", "ended"}
    /\ continuing \in BOOLEAN
    /\ served \subseteq 0..MaxTime
    /\ faults \in 0..MaxFaults

fault == faults < MaxFaults /\ faults' = faults + 1

-----------------------------------------------------------------------------
(* The stream's handler *)

\* push: the message is appended under the lock; the signal comes after it.
push(m) ==
    /\ queue' = [queue EXCEPT !.items = Append(@, m)]
    /\ handler' = "signal"

\* incomingHandler and decodeMessage.  A subscription request is answered, or
\* refused, on the stream; a correction, a stale message the server kept and what
\* cannot be read are left out, and so is all of it once the context is done.
incomingHandler(m, kind) ==
    /\ loop.pc \notin {"connect", "returned"} /\ stream = "up" /\ handler = "rest"
    /\ stanzas < MaxStanzas /\ stanzas' = stanzas + 1
    /\ IF kind = "chat" /\ ctx = "live" THEN push(m) ELSE UNCHANGED <<queue, handler>>
    /\ UNCHANGED <<loop, turn, sessionVars, outside, served, faults>>

\* The end of push: ready holds one token at most.
signal ==
    /\ handler = "signal"
    /\ queue' = [queue EXCEPT !.ready = TRUE]
    /\ handler' = "rest"
    /\ UNCHANGED <<stanzas, loop, turn, sessionVars, outside, served, faults>>

-----------------------------------------------------------------------------
(* The schedule *)

isSlot(t) == t % Day \in At

\* Mutant: a slot that is due this very moment is still to come.
nextDueNow(t) ==
    IF At = {} THEN Never
    ELSE CHOOSE d \in t..(t + Day) : isSlot(d) /\ \A e \in t..(d - 1) : ~isSlot(e)

\* The first slot strictly after t, or never.
nextDue(t) ==
    IF At = {} THEN Never
    ELSE CHOOSE d \in (t + 1)..(t + Day) : isSlot(d) /\ \A e \in (t + 1)..(d - 1) : ~isSlot(e)

-----------------------------------------------------------------------------
(* Sessions.  An action that starts or resumes one says what loop does next. *)

\* Opening the sandbox of a session fails: the current one is kept.
keepCurrent == fault /\ UNCHANGED sessionVars

\* Mutant: the current session is let go before there is another.
replaceCurrentFirst(id, started) ==
    /\ open' = [open EXCEPT ![current] = @ - 1]
    /\ \/ /\ fault /\ UNCHANGED <<current, sessions>>
       \/ /\ current' = id
          /\ sessions' = [sessions EXCEPT !.started = started]
          /\ UNCHANGED faults

\* startSession, or Resume, and then closeCurrent: the handle on the next one is
\* there before the last one's is released.
replaceCurrent(id, started) ==
    \/ keepCurrent
    \/ /\ open' = [open EXCEPT ![id] = @ + 1, ![current] = @ - 1]
       /\ current' = id
       /\ sessions' = [sessions EXCEPT !.started = started]
       /\ UNCHANGED faults

startSession ==
    /\ sessions.started < MaxSessions
    /\ replaceCurrent(sessions.started + 1, sessions.started + 1)

\* A session that is current already, or that the store does not have, is refused.
resumeSession(id) ==
    IF id = None \/ id = current \/ id \notin sessions.stored
    THEN UNCHANGED <<sessionVars, faults>>
    ELSE replaceCurrent(id, sessions.started)

\* /new, /clear, /resume, and those that only answer.  The answer itself may be
\* lost, which changes nothing here.
handleCommand(m) ==
    CASE m.body = "new"    -> startSession
      [] m.body = "resume" -> resumeSession(m.arg)
      [] m.body = "other"  -> UNCHANGED <<sessionVars, faults>>

-----------------------------------------------------------------------------
(* A turn *)

\* status.start: the message that the trail will be shown in, unless it is lost.
start ==
    \/ /\ turn' = [NoTurn EXCEPT !.on = "typed", !.since = now, !.status = "posted",
                                !.posts = 1]
       /\ UNCHANGED faults
    \/ /\ turn' = [NoTurn EXCEPT !.on = "typed", !.since = now, !.status = "lost",
                                !.failed = TRUE]
       /\ fault

\* runTurn up to the events: the prompt goes to the session.  A scheduled turn has
\* nobody watching and no status to show.
runTurn(on) ==
    IF on = "typed" THEN start
    ELSE turn' = [NoTurn EXCEPT !.on = on, !.since = now] /\ UNCHANGED faults

\* flush sends the trail t has: as a correction, or as the message itself when that
\* one was lost.  shown is what it thinks the other side sees, seen what it does.
flush(t) ==
    \/ /\ turn' = [t EXCEPT !.shown = t.lines, !.seen = t.lines, !.status = "posted",
                            !.posts = IF t.status = "posted" THEN @ ELSE @ + 1]
       /\ UNCHANGED faults
    \/ /\ turn' = [t EXCEPT !.shown = t.lines, !.failed = TRUE]
       /\ fault

\* The agent reports a step.  The trail is sent unless the last send was too
\* recent, which it may or may not be.
progress ==
    /\ loop.pc = "turn" /\ turn.lines < MaxLines
    /\ LET t == [turn EXCEPT !.lines = @ + 1] IN
       \/ turn.on = "scheduled" /\ turn' = t /\ UNCHANGED faults
       \/ turn.on = "typed" /\ turn' = t /\ UNCHANGED faults
       \/ turn.on = "typed" /\ flush(t)
    /\ UNCHANGED <<queueVars, loop, sessionVars, outside, served>>

\* Mutant: what the gap held back is left behind.
lastFlushSkipped == UNCHANGED <<turn, faults>>

\* The flush at the end of a turn, whatever the gap: nothing to send if what was
\* shown last is all there is.
lastFlush ==
    IF turn.on = "typed" /\ turn.lines # turn.shown THEN flush(turn)
    ELSE UNCHANGED <<turn, faults>>

\* The events are over, or Run refused the turn.  The agent saved the session on the
\* way, or failed before.
turnEnds ==
    /\ loop.pc = "turn"
    /\ lastFlush
    /\ \/ sessions' = [sessions EXCEPT !.stored = @ \cup {current}]
       \/ UNCHANGED sessions
    /\ loop' = [loop EXCEPT !.pc = "top"]
    /\ UNCHANGED <<queueVars, current, open, outside, served>>

-----------------------------------------------------------------------------
(* The loop *)

\* Run: the connection is made, or Run returns and releases the session.
connect ==
    /\ loop.pc = "connect"
    /\ \/ loop' = [loop EXCEPT !.pc = "top"] /\ UNCHANGED <<open, faults>>
       \/ /\ fault
          /\ loop' = [loop EXCEPT !.pc = "returned"]
          /\ open' = [open EXCEPT ![current] = @ - 1]
    /\ UNCHANGED <<queueVars, turn, current, sessions, outside, served>>

\* The timer for the next slot is set anew for every select.
arm ==
    /\ loop.pc = "top"
    /\ loop' = [pc |-> "select", due |-> nextDue(now)]
    /\ turn' = NoTurn
    /\ UNCHANGED <<queueVars, sessionVars, outside, served, faults>>

\* The context is done or the stream has ended: Run returns and releases the
\* current session.
stop ==
    /\ loop.pc = "select" /\ (ctx = "done" \/ stream = "ended")
    /\ loop' = [loop EXCEPT !.pc = "returned"]
    /\ open' = [open EXCEPT ![current] = @ - 1]
    /\ UNCHANGED <<queueVars, turn, current, sessions, outside, served, faults>>

takeReady ==
    /\ loop.pc = "select" /\ queue.ready
    /\ queue' = [queue EXCEPT !.ready = FALSE]
    /\ loop' = [loop EXCEPT !.pc = "pop"]
    /\ UNCHANGED <<handler, stanzas, turn, sessionVars, outside, served, faults>>

\* Mutant: pop leaves the token to push.
popQuietly ==
    queue' = [queue EXCEPT !.items = IF @ = <<>> THEN @ ELSE Tail(@)]

\* pop: the token goes back while there is more.
pop ==
    queue' = [items |-> IF queue.items = <<>> THEN <<>> ELSE Tail(queue.items),
              ready |-> queue.ready \/ Len(queue.items) > 1]

\* pop and handleMessage: what strangers write is dropped, commands are carried
\* out, and a prompt is a turn.
handleMessage ==
    /\ loop.pc = "pop"
    /\ pop
    /\ IF queue.items = <<>> \/ Head(queue.items).from \notin Allowed
       THEN /\ loop' = [loop EXCEPT !.pc = "top"]
            /\ UNCHANGED <<turn, sessionVars, faults>>
       ELSE LET m == Head(queue.items) IN
            IF m.body \in Commands
            THEN /\ loop' = [loop EXCEPT !.pc = "top"]
                 /\ handleCommand(m)
                 /\ UNCHANGED turn
            ELSE /\ loop' = [loop EXCEPT !.pc = "turn"]
                 /\ runTurn("typed")
                 /\ UNCHANGED sessionVars
    /\ UNCHANGED <<handler, stanzas, outside, served>>

\* The slot came due: a turn nobody asked for, in a session of its own unless the
\* schedule continues the current one.
runScheduled ==
    /\ loop.pc = "select" /\ loop.due <= now
    /\ IF continuing THEN UNCHANGED <<sessionVars, faults>> ELSE startSession
    /\ IF ~continuing /\ current' = current
       THEN loop' = [loop EXCEPT !.pc = "top"] /\ UNCHANGED <<turn, served>>
       ELSE /\ loop' = [loop EXCEPT !.pc = "turn"]
            /\ runTurn("scheduled")
            /\ served' = served \cup {loop.due}
    /\ UNCHANGED <<queueVars, outside>>

-----------------------------------------------------------------------------

tick ==
    /\ now < MaxTime
    /\ now' = now + 1
    /\ UNCHANGED <<queueVars, loop, turn, sessionVars, ctx, stream, continuing, served, faults>>

cancel ==
    /\ ctx = "live" /\ ctx' = "done"
    /\ UNCHANGED <<queueVars, loop, turn, sessionVars, now, stream, continuing, served, faults>>

streamEnds ==
    /\ loop.pc # "connect" /\ stream = "up" /\ handler = "rest"
    /\ stream' = "ended"
    /\ UNCHANGED <<queueVars, loop, turn, sessionVars, now, ctx, continuing, served, faults>>

\* newBridge has started the first session, or there is no bridge.
Init ==
    /\ queue = [items |-> <<>>, ready |-> FALSE]
    /\ handler = "rest"
    /\ stanzas = 0
    /\ loop = [pc |-> "connect", due |-> Never]
    /\ turn = NoTurn
    /\ current = 1
    /\ sessions = [started |-> 1, stored |-> {}]
    /\ open = [i \in Ids |-> IF i = 1 THEN 1 ELSE 0]
    /\ now = 0
    /\ ctx = "live" /\ stream = "up"
    /\ continuing \in BOOLEAN
    /\ served = {}
    /\ faults = 0

loopStep == arm \/ stop \/ takeReady \/ handleMessage \/ runScheduled \/ progress \/ turnEnds

Next ==
    \/ \E m \in Messages, kind \in {"chat", "other"} :
         /\ m.body # "resume" => m.arg = None
         /\ incomingHandler(m, kind)
    \/ signal \/ connect \/ loopStep
    \/ tick \/ cancel \/ streamEnds

Spec == Init /\ [][Next]_vars

-----------------------------------------------------------------------------
(* Properties *)

\* A message waiting in the queue has somebody on the way to it: the token is there,
\* its push has yet to signal, or the loop has taken the token and not yet popped.
\* One token stands for any number of messages (push, pop).
NoLostWakeup ==
    queue.items # <<>> => queue.ready \/ handler = "signal" \/ loop.pc = "pop"

\* The current session holds the one handle that is open, whatever /new, /resume and
\* the schedule do and whichever of them fail; none is left when Run has returned
\* (startSession, resumeSession, closeCurrent).
OneHandle ==
    open = [i \in Ids |-> IF i = current /\ loop.pc # "returned" THEN 1 ELSE 0]

\* A turn shows its progress in one message, which it corrects, though the first or
\* any other send fails; and when it is over and none failed, whoever asked has seen
\* all of the trail: nothing the gap held back stays behind (start, flush).
TrailIsShown ==
    /\ turn.posts <= 1
    /\ loop.pc = "top" /\ turn.on = "typed" /\ ~turn.failed => turn.seen = turn.lines

\* No slot starts two turns, however short the turn it starts (nextDue, serve).
OneTurnPerSlot ==
    [][loop.pc = "select" /\ loop'.pc = "turn" => loop.due \notin served]_vars

-----------------------------------------------------------------------------
(* What the code's comments say and its behaviour does not bear out *)

\* "a slot that comes due during a turn is served when that turn ends" (serve): the
\* timer set after a turn is for the slot that passed in it, if one did.
SlotsDuringATurnAreServed ==
    [][loop.pc = "top" /\ turn.on # "no" /\ turn.since < loop.due /\ loop.due <= now
          => loop'.due <= loop.due]_loop
=============================================================================
