---------------------------- MODULE SandboxManager ----------------------------
(***************************************************************************)
(* The sandbox manager of metaharness/sandbox: one goroutine per named     *)
(* sandbox (an "entry") that serializes commands, idle stops, observations *)
(* and destruction; the callers that hold handles; the adoption pass that  *)
(* records what an earlier process left behind; and Close.                 *)
(*                                                                         *)
(* An action is what one goroutine does between two points where another   *)
(* one can be observed: a channel rendezvous, a mutex, a backend call or   *)
(* its return.  A backend call is in flight from the step that sets the    *)
(* entry's `at' to "prepare", "exec", "stop" or "destroy" to the step that *)
(* returns from it.  A call that fails may have had its effect already     *)
(* (a cancelled request, a lost answer), so failure steps choose what it   *)
(* left behind.                                                            *)
(***************************************************************************)
EXTENDS Integers, FiniteSets

CONSTANTS
    Names,     \* sandbox names
    Callers,   \* goroutines that use the manager, each with one handle
    Entries,   \* identities of entries; a collected one is reused
    None,      \* "no entry", "no caller": nil
    Idle,      \* the idle timeout; 0 disables stopping
    MaxTime    \* bound on the clock

\* nil is not an entry or a caller; a non-positive timeout is represented by 0.
ASSUME ConstantsAssumption ==
    /\ None \notin Entries
    /\ None \notin Callers
    /\ None \notin Names
    /\ Idle \in Nat
    /\ MaxTime \in Nat

VARIABLES
    box,       \* ground truth on the backend, per name
    now,       \* the clock
    closer,    \* progress of Close
    known,     \* the entries Close collected and waits for
    entries,   \* Manager.entries: name -> entry
    ent,       \* the entry structs and their goroutines
    wakes,     \* fired idle timers whose goroutine is still inside ask
    adopted,   \* Manager.adopted
    pass,      \* adoptMu and the locals of the adoption pass it guards
    caller     \* the callers

vars == <<box, now, closer, known, entries, ent, wakes, adopted, pass, caller>>

-----------------------------------------------------------------------------
(* Types *)

NoTime == -1
Deadline == Nat \cup {NoTime}

\* What the backend can hold under a name.
Boxes == {"absent", "stopped", "running"}

\* state.go
States == {"Unknown", "Preparing", "Ready", "Executing", "Stopping", "Stopped",
           "Destroying", "Destroyed"}

\* Where an entry's goroutine is: not started, in run's select, in one of the
\* four backend calls, between its last reply and exit, or exited.
Calls == {"prepare", "exec", "stop", "destroy"}
Active == {"select"} \cup Calls
At == {"unborn", "exiting", "gone"} \cup Active

Entry == [name : Names \cup {None},
          image : BOOLEAN,                \* the spec names an image
          at : At,
          state : States,
          prior : States,                 \* local of doExec and doDestroy
          due : Deadline,
          armed : Deadline,               \* the pending timer's deadline
          lastExec : Deadline,
          client : Callers \cup {None},   \* who the request being served is from
          why : {"none", "ErrDestroyed", "ErrShutdown"}]

Pass == [by : Callers \cup {None},        \* who holds adoptMu
         at : {"free", "list", "loop", "observe"},
         todo : SUBSET (Names \X {"stopped", "running"}),
         cur : Entries \cup {None},
         obs : {"Ready", "Stopped"}]

Caller == [pc : {"rest", "lock", "pass", "ask", "wait", "forget"},
           op : {"none", "exec", "destroy", "reconcile"},
           tgt : Entries \cup {None},     \* the entry being asked
           handle : Entries \cup {None}]  \* an open handle's entry

TypeOK ==
    /\ box \in [Names -> Boxes]
    /\ now \in 0..MaxTime
    /\ closer \in {"open", "closing", "waiting", "closed"}
    /\ known \subseteq Entries
    /\ entries \in [Names -> Entries \cup {None}]
    /\ ent \in [Entries -> Entry]
    /\ wakes \subseteq Entries \X Nat
    /\ adopted \in BOOLEAN
    /\ pass \in Pass
    /\ caller \in [Callers -> Caller]

shuttingDown == closer # "open"

-----------------------------------------------------------------------------
(* Entry operations: what the goroutine does to its own fields *)

unborn == [name |-> None, image |-> FALSE, at |-> "unborn", state |-> "Unknown",
           prior |-> "Unknown", due |-> NoTime, armed |-> NoTime,
           lastExec |-> NoTime, client |-> None, why |-> "none"]

newEntry(n, img) == [unborn EXCEPT !.name = n, !.image = img, !.at = "select"]

commit(r, s) == [r EXCEPT !.state = s]

stopTimer(r) == [r EXCEPT !.armed = NoTime, !.due = NoTime]

armIdle(r) ==
    IF Idle = 0 THEN stopTimer(r)
    ELSE [r EXCEPT !.armed = now + Idle, !.due = now + Idle]

\* The goroutine goes back to run's select with its client answered.
rest(r) == [r EXCEPT !.at = "select", !.prior = "Unknown", !.client = None]

\* After exit only the name, the last state and the reason are ever read.
exit(r, w) == [unborn EXCEPT !.name = r.name, !.state = r.state, !.at = "gone", !.why = w]

\* The wakeups that remain once e has exited: ask answers those of e at once and
\* nobody looks at the answer.
wakesBut(e) == {w \in wakes : w[1] # e}

\* The goroutine starts backend call k on behalf of caller c (or of nobody).
begin(r, k, c) == [r EXCEPT !.at = k, !.client = c, !.prior = r.state]

-----------------------------------------------------------------------------
(* Callers *)

ready(c) == caller[c].pc = "rest"

\* The call returns to its caller.
answer(c) ==
    [caller EXCEPT ![c] = [@ EXCEPT !.pc = "rest", !.op = "none", !.tgt = None]]

\* The caller enters entry.ask on e for operation o.
asking(c, e, o) ==
    [caller EXCEPT ![c] = [@ EXCEPT !.pc = "ask", !.op = o, !.tgt = e]]

\* Mutant: shutdown is not checked under the lock Close collects under.
adoptWhileClosing(n, img, e, isKnown) ==
    \/ isKnown /\ entries[n] = e /\ UNCHANGED <<entries, ent>>
    \/ /\ ~isKnown /\ entries[n] = None /\ ent[e].at = "unborn"
       /\ entries' = [entries EXCEPT ![n] = e]
       /\ ent' = [ent EXCEPT ![e] = newEntry(n, img)]

\* adopt: under Manager.mu, refuse when shutting down, find the entry of n, or
\* make one and start its goroutine.  A new entry is known = FALSE.
adopt(n, img, e, isKnown) ==
    /\ ~shuttingDown
    /\ \/ isKnown /\ entries[n] = e /\ UNCHANGED <<entries, ent>>
       \/ /\ ~isKnown /\ entries[n] = None /\ ent[e].at = "unborn"
          /\ entries' = [entries EXCEPT ![n] = e]
          /\ ent' = [ent EXCEPT ![e] = newEntry(n, img)]

\* Open binds a handle and never calls the backend.  A call refused because the
\* manager is shutting down changes nothing, so it is no step at all.
Open(c, n) ==
    /\ ready(c)
    /\ \E e \in Entries, k \in BOOLEAN :
          /\ adopt(n, TRUE, e, k)
          /\ caller' = [caller EXCEPT ![c] = [@ EXCEPT !.handle = e]]
    /\ UNCHANGED <<box, now, closer, known, wakes, adopted, pass>>

\* handle.Close, also while a command on the handle is in flight.  A closed
\* handle answers ErrClosed before it looks at its entry: it is no handle.
closeHandle(c) ==
    /\ caller[c].handle # None
    /\ caller' = [caller EXCEPT ![c] = [@ EXCEPT !.handle = None]]
    /\ UNCHANGED <<box, now, closer, known, entries, ent, wakes, adopted, pass>>

\* handle.Exec up to the rendezvous: the first check of ensureAdopted sends the
\* caller to adoptMu or straight to ask.
Exec(c) ==
    /\ ready(c) /\ caller[c].handle # None
    /\ caller' = IF adopted \/ shuttingDown
                 THEN asking(c, caller[c].handle, "exec")
                 ELSE [caller EXCEPT ![c] = [@ EXCEPT !.pc = "lock", !.op = "exec",
                                                      !.tgt = caller[c].handle]]
    /\ UNCHANGED <<box, now, closer, known, entries, ent, wakes, adopted, pass>>

\* Destroy enters its name without an image when it is not known yet.
Destroy(c, n) ==
    /\ ready(c)
    /\ \E e \in Entries, k \in BOOLEAN :
          /\ adopt(n, FALSE, e, k)
          /\ caller' = asking(c, e, "destroy")
    /\ UNCHANGED <<box, now, closer, known, wakes, adopted, pass>>

Reconcile(c) ==
    /\ ready(c) /\ ~shuttingDown
    /\ caller' = [caller EXCEPT ![c] = [@ EXCEPT !.pc = "lock", !.op = "reconcile"]]
    /\ UNCHANGED <<box, now, closer, known, entries, ent, wakes, adopted, pass>>

\* ask on an entry whose goroutine has exited: the reason it exited.
askGone(c) ==
    /\ caller[c].pc = "ask" /\ ent[caller[c].tgt].at = "gone"
    /\ caller' = answer(c)
    /\ UNCHANGED <<box, now, closer, known, entries, ent, wakes, adopted, pass>>

\* Destroy's last step: drop the name unless it was opened again meanwhile.
forget(c) ==
    /\ caller[c].pc = "forget"
    /\ entries' = [n \in Names |-> IF entries[n] = caller[c].tgt THEN None ELSE entries[n]]
    /\ caller' = answer(c)
    /\ UNCHANGED <<box, now, closer, known, ent, wakes, adopted, pass>>

-----------------------------------------------------------------------------
(* The adoption pass: ensureAdopted and Reconcile, under adoptMu *)

NoPass == [by |-> None, at |-> "free", todo |-> {}, cur |-> None, obs |-> "Stopped"]

\* What follows the pass: a command goes on to ask, whatever the pass returned;
\* Reconcile returns.
afterPass(c) ==
    IF caller[c].op = "exec" THEN asking(c, caller[c].tgt, "exec") ELSE answer(c)

\* adoptMu.Lock; a command rechecks adopted, Reconcile makes its pass anyway.
\* The pass begins with backend.List.
lockAdopt(c) ==
    /\ caller[c].pc = "lock" /\ pass.by = None
    /\ IF caller[c].op = "exec" /\ adopted
       THEN caller' = asking(c, caller[c].tgt, "exec") /\ UNCHANGED pass
       ELSE /\ caller' = [caller EXCEPT ![c] = [@ EXCEPT !.pc = "pass"]]
            /\ pass' = [NoPass EXCEPT !.by = c, !.at = "list"]
    /\ UNCHANGED <<box, now, closer, known, entries, ent, wakes, adopted>>

\* The pass ends in an error: adopted stays as it was.
passFails(c) ==
    /\ pass' = NoPass
    /\ caller' = afterPass(c)
    /\ UNCHANGED <<entries, ent>>

listReturns(c) ==
    /\ pass.by = c /\ pass.at = "list"
    /\ \/ /\ pass' = [pass EXCEPT !.at = "loop",
                        !.todo = {f \in Names \X {"stopped", "running"} : box[f[1]] = f[2]}]
          /\ UNCHANGED <<entries, ent, caller>>
       \/ passFails(c)
    /\ UNCHANGED <<box, now, closer, known, wakes, adopted>>

\* One turn of reconcile's loop: a known name is skipped, a new one is handed
\* the state the List reported for it.
passAdopts(c) ==
    /\ pass.by = c /\ pass.at = "loop"
    /\ \E f \in pass.todo :
         \/ shuttingDown /\ passFails(c)
         \/ \E e \in Entries, k \in BOOLEAN :
              /\ adopt(f[1], TRUE, e, k)
              /\ pass' = IF k THEN [pass EXCEPT !.todo = @ \ {f}]
                         ELSE [pass EXCEPT !.todo = @ \ {f}, !.at = "observe", !.cur = e,
                                 !.obs = IF f[2] = "running" THEN "Ready" ELSE "Stopped"]
              /\ UNCHANGED caller
    /\ UNCHANGED <<box, now, closer, known, wakes, adopted>>

\* The entry the pass just made was destroyed, or shut down, before it could be
\* told what was found.
passGone(c) ==
    /\ pass.by = c /\ pass.at = "observe" /\ ent[pass.cur].at = "gone"
    /\ passFails(c)
    /\ UNCHANGED <<box, now, closer, known, wakes, adopted>>

\* Mutant: adopted is stored before the loop is through.
passDoneEarly(c) ==
    /\ pass.by = c /\ pass.at = "loop"
    /\ adopted' = TRUE
    /\ pass' = NoPass
    /\ caller' = afterPass(c)
    /\ UNCHANGED <<box, now, closer, known, entries, ent, wakes>>

\* Every name the List reported was dealt with: the pass is made for good.
passDone(c) ==
    /\ pass.by = c /\ pass.at = "loop" /\ pass.todo = {}
    /\ adopted' = TRUE
    /\ pass' = NoPass
    /\ caller' = afterPass(c)
    /\ UNCHANGED <<box, now, closer, known, entries, ent, wakes>>

-----------------------------------------------------------------------------
(* The goroutine of an entry *)

\* The goroutine of e and caller c meet on e.reqs for operation o.
meet(e, c, o) ==
    /\ ent[e].at = "select"
    /\ caller[c].pc = "ask" /\ caller[c].tgt = e /\ caller[c].op = o

waiting(c) == [caller EXCEPT ![c] = [@ EXCEPT !.pc = "wait"]]

doExec(e, c) ==
    /\ meet(e, c, "exec")
    /\ ent' = [ent EXCEPT ![e] =
                 IF @.state # "Ready"
                 THEN commit(begin(stopTimer(@), "prepare", c), "Preparing")
                 ELSE commit(begin(stopTimer(@), "exec", c), "Executing")]
    /\ caller' = waiting(c)
    /\ UNCHANGED <<box, now, closer, known, entries, wakes, adopted, pass>>

\* EnsureReady succeeded and the command starts.  Creating needs an image.
execPrepared(e) ==
    LET n == ent[e].name IN
    /\ ent[e].at = "prepare"
    /\ box[n] = "absent" => ent[e].image
    /\ box' = [box EXCEPT ![n] = "running"]
    /\ ent' = [ent EXCEPT ![e] = [commit(@, "Executing") EXCEPT !.at = "exec"]]
    /\ UNCHANGED <<now, closer, known, entries, wakes, adopted, pass, caller>>

\* Mutant: the failure is recorded and never answered.
execPrepareUnanswered(e) ==
    /\ ent[e].at = "prepare"
    /\ ent' = [ent EXCEPT ![e] = rest(commit(@, @.prior))]
    /\ UNCHANGED <<box, now, closer, known, entries, wakes, adopted, pass, caller>>

\* What a failed EnsureReady may leave: what was there, or any later stage of
\* inspect, create, start.
prepareLeaves(b, img) ==
    IF b = "absent" /\ ~img THEN {b}
    ELSE CASE b = "absent" -> Boxes
           [] b = "stopped" -> {"stopped", "running"}
           [] b = "running" -> {"running"}

execPrepareFailed(e) ==
    LET n == ent[e].name IN
    /\ ent[e].at = "prepare"
    /\ \E b \in prepareLeaves(box[n], ent[e].image) : box' = [box EXCEPT ![n] = b]
    /\ ent' = [ent EXCEPT ![e] = rest(commit(@, @.prior))]
    /\ caller' = answer(ent[e].client)
    /\ UNCHANGED <<now, closer, known, entries, wakes, adopted, pass>>

\* The command ended, with a result or an error: both count as use.
execDone(e) ==
    /\ ent[e].at = "exec"
    /\ ent' = [ent EXCEPT ![e] = rest(armIdle(commit([@ EXCEPT !.lastExec = now], "Ready")))]
    /\ caller' = answer(ent[e].client)
    /\ UNCHANGED <<box, now, closer, known, entries, wakes, adopted, pass>>

\* Mutant: a wakeup is not compared with the current deadline.
doIdleAnyDeadline(e, w) ==
    /\ ent[e].at = "select" /\ w[1] = e
    /\ wakes' = wakes \ {w}
    /\ ent' = IF ent[e].state # "Ready" THEN ent
              ELSE [ent EXCEPT ![e] = commit(begin(@, "stop", None), "Stopping")]
    /\ UNCHANGED <<box, now, closer, known, entries, adopted, pass, caller>>

\* The idle deadline w[2] arrives at its entry.
doIdle(e, w) ==
    /\ ent[e].at = "select" /\ w[1] = e
    /\ wakes' = wakes \ {w}
    /\ ent' = IF ent[e].state # "Ready" \/ w[2] # ent[e].due THEN ent
              ELSE [ent EXCEPT ![e] = commit(begin(@, "stop", None), "Stopping")]
    /\ UNCHANGED <<box, now, closer, known, entries, adopted, pass, caller>>

stopped(b) == IF b = "running" THEN "stopped" ELSE b

stopDone(e) ==
    LET n == ent[e].name IN
    /\ ent[e].at = "stop"
    /\ box' = [box EXCEPT ![n] = stopped(@)]
    /\ ent' = [ent EXCEPT ![e] = rest(commit(stopTimer(@), "Stopped"))]
    /\ UNCHANGED <<now, closer, known, entries, wakes, adopted, pass, caller>>

\* Mutant: a refused stop leaves the sandbox Ready and off the clock.
stopFailedUnarmed(e) ==
    /\ ent[e].at = "stop"
    /\ ent' = [ent EXCEPT ![e] = rest(commit(@, "Ready"))]
    /\ UNCHANGED <<box, now, closer, known, entries, wakes, adopted, pass, caller>>

stopFailed(e) ==
    LET n == ent[e].name IN
    /\ ent[e].at = "stop"
    /\ \E b \in {box[n], stopped(box[n])} : box' = [box EXCEPT ![n] = b]
    /\ ent' = [ent EXCEPT ![e] = rest(armIdle(commit(@, "Ready")))]
    /\ UNCHANGED <<now, closer, known, entries, wakes, adopted, pass, caller>>

doDestroy(e, c) ==
    /\ meet(e, c, "destroy")
    /\ ent' = [ent EXCEPT ![e] = commit(begin(stopTimer(@), "destroy", c), "Destroying")]
    /\ caller' = waiting(c)
    /\ UNCHANGED <<box, now, closer, known, entries, wakes, adopted, pass>>

\* Mutant: the goroutine goes on serving after the sandbox is gone.
destroyDoneStays(e) ==
    LET n == ent[e].name  c == ent[e].client IN
    /\ ent[e].at = "destroy"
    /\ box' = [box EXCEPT ![n] = "absent"]
    /\ ent' = [ent EXCEPT ![e] = rest(commit(@, "Destroyed"))]
    /\ caller' = [caller EXCEPT ![c] = [@ EXCEPT !.pc = "forget"]]
    /\ UNCHANGED <<now, closer, known, entries, wakes, adopted, pass>>

\* Success is answered before the goroutine exits: the caller may forget the
\* name, and someone open it again, in between.
destroyDone(e) ==
    LET n == ent[e].name  c == ent[e].client IN
    /\ ent[e].at = "destroy"
    /\ box' = [box EXCEPT ![n] = "absent"]
    /\ ent' = [ent EXCEPT ![e] = [rest(commit(@, "Destroyed")) EXCEPT !.at = "exiting"]]
    /\ caller' = [caller EXCEPT ![c] = [@ EXCEPT !.pc = "forget"]]
    /\ UNCHANGED <<now, closer, known, entries, wakes, adopted, pass>>

\* Mutant: the name is forgotten although the Destroy failed.
destroyFailedForgets(e) ==
    LET c == ent[e].client IN
    /\ ent[e].at = "destroy"
    /\ ent' = [ent EXCEPT ![e] = rest(commit(@, @.prior))]
    /\ caller' = [caller EXCEPT ![c] = [@ EXCEPT !.pc = "forget"]]
    /\ UNCHANGED <<box, now, closer, known, entries, wakes, adopted, pass>>

\* A failed removal may have killed the compute, or removed everything.
destroyFailed(e) ==
    LET n == ent[e].name IN
    /\ ent[e].at = "destroy"
    /\ \E b \in {box[n], stopped(box[n]), "absent"} : box' = [box EXCEPT ![n] = b]
    /\ ent' = [ent EXCEPT ![e] =
                 rest(IF @.prior = "Ready" THEN armIdle(commit(@, @.prior))
                                           ELSE commit(@, @.prior))]
    /\ caller' = answer(ent[e].client)
    /\ UNCHANGED <<now, closer, known, entries, wakes, adopted, pass>>

doObserve(e) ==
    /\ ent[e].at = "select" /\ pass.at = "observe" /\ pass.cur = e
    /\ ent' = [ent EXCEPT ![e] = IF pass.obs = "Ready" THEN armIdle(commit(@, "Ready"))
                                                       ELSE commit(@, "Stopped")]
    /\ pass' = [pass EXCEPT !.at = "loop", !.cur = None, !.obs = "Stopped"]
    /\ UNCHANGED <<box, now, closer, known, entries, wakes, adopted, caller>>

\* Mutant: only shutdown closes gone.
exitDestroyedSilently(e) ==
    /\ ent[e].at = "exiting" /\ FALSE
    /\ UNCHANGED vars

\* run returns after a successful Destroy.
exitDestroyed(e) ==
    /\ ent[e].at = "exiting"
    /\ ent' = [ent EXCEPT ![e] = exit(@, "ErrDestroyed")]
    /\ wakes' = wakesBut(e)
    /\ UNCHANGED <<box, now, closer, known, entries, adopted, pass, caller>>

\* run's select may take closing while requests wait, or requests while closing
\* is closed: Go picks among the ready cases at random.
exitShutdown(e) ==
    /\ ent[e].at = "select" /\ shuttingDown
    /\ ent' = [ent EXCEPT ![e] = exit(@, "ErrShutdown")]
    /\ wakes' = wakesBut(e)
    /\ UNCHANGED <<box, now, closer, known, entries, adopted, pass, caller>>

-----------------------------------------------------------------------------
(* Timers, the clock, Close and the runtime *)

\* The timer's function starts: stopping the timer no longer calls it off.
fire(e) ==
    /\ ent[e].armed # NoTime /\ ent[e].armed <= now
    /\ wakes' = wakes \cup {<<e, ent[e].armed>>}
    /\ ent' = [ent EXCEPT ![e] = [@ EXCEPT !.armed = NoTime]]
    /\ UNCHANGED <<box, now, closer, known, entries, adopted, pass, caller>>

Tick ==
    /\ now < MaxTime
    /\ now' = now + 1
    /\ UNCHANGED <<box, closer, known, entries, ent, wakes, adopted, pass, caller>>

\* Close: closing is closed, the entries are collected under Manager.mu, each
\* one's gone is awaited, and then the backend is closed.
closeBegin ==
    /\ closer = "open"
    /\ closer' = "closing"
    /\ UNCHANGED <<box, now, known, entries, ent, wakes, adopted, pass, caller>>

closeCollect ==
    /\ closer = "closing"
    /\ closer' = "waiting"
    /\ known' = {entries[n] : n \in Names} \ {None}
    /\ UNCHANGED <<box, now, entries, ent, wakes, adopted, pass, caller>>

closeBackend ==
    /\ closer = "waiting" /\ \A e \in known : ent[e].at = "gone"
    /\ closer' = "closed"
    /\ known' = {}
    /\ UNCHANGED <<box, now, entries, ent, wakes, adopted, pass, caller>>

\* The Go runtime: an exited goroutine's entry nobody refers to is collected.
collect(e) ==
    /\ ent[e].at = "gone"
    /\ e \notin known
    /\ \A n \in Names : entries[n] # e
    /\ pass.cur # e
    /\ \A c \in Callers : caller[c].tgt # e /\ caller[c].handle # e
    /\ ent' = [ent EXCEPT ![e] = unborn]
    /\ UNCHANGED <<box, now, closer, known, entries, wakes, adopted, pass, caller>>

-----------------------------------------------------------------------------

\* A process starts with nothing in memory over whatever an earlier one, which
\* may have crashed in the middle of anything, left on the backend.
Init ==
    /\ box \in [Names -> Boxes]
    /\ now = 0
    /\ closer = "open"
    /\ known = {}
    /\ entries = [n \in Names |-> None]
    /\ ent = [e \in Entries |-> unborn]
    /\ wakes = {}
    /\ adopted = FALSE
    /\ pass = NoPass
    /\ caller = [c \in Callers |-> [pc |-> "rest", op |-> "none", tgt |-> None,
                                    handle |-> None]]

callerStep(c) ==
    \/ \E n \in Names : Open(c, n) \/ Destroy(c, n)
    \/ closeHandle(c) \/ Exec(c) \/ Reconcile(c)
    \/ askGone(c) \/ forget(c)
    \/ lockAdopt(c) \/ listReturns(c) \/ passAdopts(c) \/ passGone(c) \/ passDone(c)

entryStep(e) ==
    \/ \E c \in Callers : doExec(e, c) \/ doDestroy(e, c)
    \/ \E w \in wakes : doIdle(e, w)
    \/ doObserve(e)
    \/ execPrepared(e) \/ execPrepareFailed(e) \/ execDone(e)
    \/ stopDone(e) \/ stopFailed(e)
    \/ destroyDone(e) \/ destroyFailed(e)
    \/ exitDestroyed(e) \/ exitShutdown(e)
    \/ fire(e) \/ collect(e)

Next ==
    \/ \E c \in Callers : callerStep(c)
    \/ \E e \in Entries : entryStep(e)
    \/ Tick
    \/ closeBegin \/ closeCollect \/ closeBackend

Spec == Init /\ [][Next]_vars

-----------------------------------------------------------------------------
(* Safety *)

\* A goroutine that may still call the backend is the one its name resolves to,
\* so no sandbox ever has two: a handle kept over a Destroy, a name opened again
\* while the old goroutine winds down, or an adoption pass working from an old
\* List cannot start a second lifecycle beside a live one (adopt, forget).
OneLifecyclePerName ==
    \A e \in Entries : ent[e].at \in Active => entries[ent[e].name] = e

\* A command "still has the backend under it": Close hands the backend back only
\* after the goroutine of every entry has exited, whoever opened what while it was
\* collecting, so that no EnsureReady, Exec, Stop or Destroy meets a closed backend
\* (Close, adopt).  The List of a pass is a caller's own call and is not waited for.
CommandsKeepTheBackend ==
    closer = "closed" => \A e \in Entries : ent[e].at \notin Active

\* A sandbox at rest and believed running is on the idle clock: its deadline has
\* a pending timer, or that timer's wakeup is on its way.  No failure path of
\* doExec, doIdle or doDestroy drops it, and no stale wakeup consumes it.
ReadyIsOnTheClock ==
    \A e \in Entries :
        Idle > 0 /\ ent[e].at = "select" /\ ent[e].state = "Ready" =>
            /\ ent[e].due # NoTime
            /\ ent[e].armed = ent[e].due \/ <<e, ent[e].due>> \in wakes

\* Compute is released only after a full idle window since the last command
\* ended, even when a wakeup the command outran is delivered late (doIdle).
NoEarlyStop ==
    \A e \in Entries :
        ent[e].at = "stop" => ent[e].lastExec + Idle <= ent[e].due /\ ent[e].due <= now

\* A caller that waits for an answer is being served: the goroutine that took
\* its request still has it in hand, or has answered it (ask, serve).
EveryTakenRequestIsInHand ==
    \A c \in Callers :
        caller[c].pc = "wait" =>
            /\ ent[caller[c].tgt].at \in Calls
            /\ ent[caller[c].tgt].client = c

\* Only the goroutine the name resolves to brings a sandbox into being: once
\* Destroy returned, no old handle or wakeup resurrects it (doDestroy, exit).
OnlyTheLiveEntryCreates ==
    [][\A n \in Names :
          box[n] = "absent" /\ box'[n] # "absent" =>
              entries[n] # None /\ ent[entries[n]].at = "prepare"]_vars

\* After a pass succeeded, the manager has an entry for everything the backend
\* holds: nothing found is lost between List and the loop, and nothing is made or
\* left behind by a failed Destroy outside an entry (reconcile, ensureAdopted).
AdoptionIsComplete ==
    adopted => \A n \in Names : box[n] # "absent" => entries[n] # None

-----------------------------------------------------------------------------
(* What the backend and the callers see of it *)

\* The call the goroutine a name resolves to makes, and who it is for.
calls ==
    [n \in Names |->
        IF entries[n] # None /\ ent[entries[n]].at \in Calls
        THEN [kind |-> ent[entries[n]].at, by |-> ent[entries[n]].client]
        ELSE [kind |-> "none", by |-> None]]

Lifecycle == INSTANCE SandboxLifecycle WITH call <- calls, closed <- closer = "closed"

\* However entries are made, adopted, left behind by a Destroy and shut down, the
\* manager keeps to the lifecycle: the backend gets one call at a time under a name,
\* each for one caller, and none under a name once it is closed (Manager, entry.run).
KeepsTheLifecycle == Lifecycle!Spec

-----------------------------------------------------------------------------
(* Fairness and liveness *)

\* A backend call returns, and a goroutine that can run does.
goroutineRuns(e) ==
    \/ execPrepared(e) \/ execPrepareFailed(e) \/ execDone(e)
    \/ stopDone(e) \/ stopFailed(e)
    \/ destroyDone(e) \/ destroyFailed(e)
    \/ exitDestroyed(e) \/ collect(e)

\* The select of run has a ready case.
selectRuns(e) ==
    \/ exitShutdown(e) \/ doObserve(e)
    \/ \E w \in wakes : doIdle(e, w)

callerRuns(c) == askGone(c) \/ forget(c) \/ listReturns(c) \/ passGone(c) \/ passDone(c)

\* The caller competes for something: a channel, adoptMu, a fresh entry.
callerGetsIts(c) ==
    \/ \E e \in Entries : doExec(e, c) \/ doDestroy(e, c)
    \/ lockAdopt(c) \/ passAdopts(c)

\* Backend calls return and goroutines run.  Strong fairness is Go's own: senders
\* blocked on a channel queue in order, a mutex hands over to a starving waiter, and
\* select picks among ready cases at random.  Nothing obliges a timer to fire, a
\* caller to call, or anyone to call Close.
Fairness ==
    /\ \A e \in Entries : WF_vars(goroutineRuns(e)) /\ SF_vars(selectRuns(e))
    /\ \A c \in Callers : WF_vars(callerRuns(c)) /\ SF_vars(callerGetsIts(c))
    /\ WF_vars(closeCollect \/ closeBackend)

\* Every command, Destroy and Reconcile returns: no request is lost between a
\* caller, the goroutine it asks and a Close that races both; and whoever waits for
\* adoptMu gets it, since the pass that holds it is in turn only waiting for an entry
\* that answers or is gone (ask, handle.Exec, ensureAdopted).
CallsReturn ==
    \A c \in Callers : caller[c].pc # "rest" ~> caller[c].pc = "rest"

\* Close returns, with destroyed entries still listed and callers still asking.
CloseReturns == closer # "open" ~> closer = "closed"

-----------------------------------------------------------------------------
(* What the code's comments say and its behaviour does not bear out *)

\* "a sandbox that is already gone ... is success" (Destroy): no Destroy is
\* answered that the sandbox has been destroyed.
DestroyOfGoneSucceeds ==
    [][\A c \in Callers :
          caller[c].pc = "ask" /\ caller[c].op = "destroy" /\ caller'[c].pc = "rest" =>
              ent[caller[c].tgt].why # "ErrDestroyed"]_vars
=============================================================================
