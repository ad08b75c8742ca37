------------------------- MODULE SandboxManagerProofs -------------------------
(***************************************************************************)
(* Proofs about SandboxManager for every set of names, callers and entries,*)
(* every idle timeout and every bound on the clock.  The inductive         *)
(* invariant is the conjunction of the named parts below; each part is     *)
(* shown to be preserved on top of the ones before it.                     *)
(***************************************************************************)
EXTENDS SandboxManager, TLAPS

\* An entry that was ever started has a name.
Named == \A e \in Entries : ent[e].at # "unborn" => ent[e].name \in Names

\* Calls made on behalf of a caller who waits for the answer.
Served == {"prepare", "exec", "destroy"}

\* The map, the goroutines and the callers point at each other consistently: a
\* listed entry was started under that name, a live one is listed, a goroutine in
\* a served call and the caller waiting for it name each other, a stop is for nobody,
\* a Destroy about to forget an entry has ended it, and who holds adoptMu is in the
\* pass.
Linked ==
    /\ \A n \in Names : entries[n] # None =>
           ent[entries[n]].at # "unborn" /\ ent[entries[n]].name = n
    /\ OneLifecyclePerName
    /\ \A e \in Entries : ent[e].at \in Served =>
           /\ ent[e].client \in Callers
           /\ caller[ent[e].client].pc = "wait"
           /\ caller[ent[e].client].tgt = e
    /\ \A c \in Callers : caller[c].pc = "wait" =>
           /\ caller[c].tgt \in Entries
           /\ ent[caller[c].tgt].at \in Served
           /\ ent[caller[c].tgt].client = c
    /\ \A e \in Entries : ent[e].at = "stop" => ent[e].client = None
    /\ \A c \in Callers : caller[c].pc = "forget" =>
           /\ caller[c].tgt \in Entries
           /\ ent[caller[c].tgt].at \in {"exiting", "gone"}
    /\ \A c \in Callers : pass.by = c => caller[c].pc = "pass"

\* Close waits for every live goroutine once it has collected them.
Closing ==
    /\ closer = "waiting" => \A e \in Entries : ent[e].at \in Active => e \in known
    /\ CommandsKeepTheBackend

\* What keeps a sandbox on the clock, and a stop from coming early.
OnClock ==
    /\ ReadyIsOnTheClock
    /\ \A w \in wakes : w[2] <= now
    /\ \A e \in Entries :
         /\ ent[e].lastExec <= now
         /\ ent[e].due # NoTime => ent[e].lastExec + Idle <= ent[e].due
         /\ ent[e].at = "stop" => ent[e].due # NoTime /\ ent[e].due <= now
         /\ ent[e].at = "prepare" => ent[e].prior # "Ready"

\* What a pass has still to deal with covers what the manager does not know, and
\* a name about to be forgotten has nothing behind it.
Covered ==
    /\ AdoptionIsComplete
    /\ pass.at \in {"loop", "observe"} =>
           \A n \in Names : box[n] # "absent" =>
               entries[n] # None \/ \E f \in pass.todo : f[1] = n
    /\ \A c \in Callers, n \in Names :
           caller[c].pc = "forget" /\ entries[n] = caller[c].tgt => box[n] = "absent"

-----------------------------------------------------------------------------
(* Entry operations yield entries *)

\* A slot no goroutine was started for.
LEMMA UnbornType == unborn \in Entry
  BY ConstantsAssumption DEF unborn, Entry, Deadline, NoTime, At, Active, Calls, States

\* newEntry.
LEMMA NewEntryType ==
    ASSUME NEW n \in Names, NEW i \in BOOLEAN
    PROVE  newEntry(n, i) \in Entry
  BY UnbornType DEF newEntry, Entry, At, Active

\* commit.
LEMMA CommitType ==
    ASSUME NEW r \in Entry, NEW s \in States
    PROVE  commit(r, s) \in Entry
  BY DEF commit, Entry

\* stopTimer.
LEMMA StopTimerType == ASSUME NEW r \in Entry PROVE stopTimer(r) \in Entry
  BY DEF stopTimer, Entry, NoTime, Deadline

\* armIdle.
LEMMA ArmIdleType == ASSUME NEW r \in Entry, now \in Nat PROVE armIdle(r) \in Entry
<1>1. now + Idle \in Deadline
  BY ConstantsAssumption DEF Deadline
<1> QED
  BY <1>1, StopTimerType DEF armIdle, Entry

\* Back to run's select.
LEMMA RestType == ASSUME NEW r \in Entry PROVE rest(r) \in Entry
  BY DEF rest, Entry, At, Active, States

\* A backend call starts.
LEMMA BeginType ==
    ASSUME NEW r \in Entry, NEW k \in Calls, NEW c \in Callers \cup {None}
    PROVE  begin(r, k, c) \in Entry
  BY DEF begin, Entry, At, Active

\* exit.
LEMMA ExitType ==
    ASSUME NEW r \in Entry, NEW w \in {"ErrDestroyed", "ErrShutdown"}
    PROVE  exit(r, w) \in Entry
  BY UnbornType DEF exit, Entry, At

-----------------------------------------------------------------------------
(* Caller operations and adopt *)

\* A call returns.
LEMMA AnswerType ==
    ASSUME caller \in [Callers -> Caller], NEW c
    PROVE  answer(c) \in [Callers -> Caller]
  BY DEF answer, Caller

\* run takes the caller's request.
LEMMA WaitingType ==
    ASSUME caller \in [Callers -> Caller], NEW c \in Callers
    PROVE  waiting(c) \in [Callers -> Caller]
<1>1. [caller[c] EXCEPT !.pc = "wait"] \in Caller
  BY DEF Caller
<1> QED
  BY <1>1 DEF waiting

\* ask is entered.
LEMMA AskingType ==
    ASSUME caller \in [Callers -> Caller], NEW c, NEW e \in Entries \cup {None},
           NEW o \in {"none", "exec", "destroy", "reconcile"}
    PROVE  asking(c, e, o) \in [Callers -> Caller]
  BY DEF asking, Caller

\* The pass is over.
LEMMA AfterPassType ==
    ASSUME caller \in [Callers -> Caller], NEW c \in Callers
    PROVE  afterPass(c) \in [Callers -> Caller]
<1>1. caller[c].tgt \in Entries \cup {None}
  BY DEF Caller
<1> QED
  BY <1>1, AskingType, AnswerType DEF afterPass

\* No pass is under way.
LEMMA NoPassType == NoPass \in Pass
  BY DEF NoPass, Pass

\* What adopt does: nothing is started while shutting down, n is listed
\* afterwards, and an entry that changed is a fresh one, for an unlisted n.
AdoptedAs(n, e) ==
    /\ entries' \in [Names -> Entries \cup {None}]
    /\ ent' \in [Entries -> Entry]
    /\ closer = "open"
    /\ entries'[n] = e
    /\ \A m \in Names : m # n => entries'[m] = entries[m]
    /\ \A x \in Entries : x # e => ent'[x] = ent[x]
    /\ \/ entries[n] = e /\ ent'[e] = ent[e]
       \/ /\ entries[n] = None /\ ent[e].at = "unborn"
          /\ ent'[e].at = "select" /\ ent'[e].name = n
          /\ ent'[e].state = "Unknown"
          /\ ent'[e].due = NoTime /\ ent'[e].lastExec = NoTime

\* adopt has the effect AdoptedAs describes.
LEMMA AdoptEffect ==
    ASSUME TypeOK, NEW n \in Names, NEW img \in BOOLEAN, NEW e \in Entries,
           NEW k \in BOOLEAN, adopt(n, img, e, k)
    PROVE  AdoptedAs(n, e)
<1>1. newEntry(n, img) \in Entry
  BY NewEntryType
<1>2. /\ newEntry(n, img).at = "select" /\ newEntry(n, img).name = n
      /\ newEntry(n, img).state = "Unknown"
      /\ newEntry(n, img).due = NoTime /\ newEntry(n, img).lastExec = NoTime
  BY DEF newEntry, unborn
<1>3. CASE k
  BY <1>3 DEF adopt, TypeOK, shuttingDown, AdoptedAs
<1>4. CASE ~k
  BY <1>1, <1>2, <1>4 DEF adopt, TypeOK, shuttingDown, AdoptedAs
<1> QED
  BY <1>3, <1>4

\* Open adopts its name and binds the caller's handle.
LEMMA OpenEffect ==
    ASSUME TypeOK, NEW c \in Callers, NEW n \in Names, Open(c, n)
    PROVE  \E e \in Entries :
             /\ AdoptedAs(n, e)
             /\ caller' = [caller EXCEPT ![c] = [@ EXCEPT !.handle = e]]
             /\ UNCHANGED <<box, now, closer, known, wakes, adopted, pass>>
<1>1. PICK e \in Entries, k \in BOOLEAN :
        /\ adopt(n, TRUE, e, k)
        /\ caller' = [caller EXCEPT ![c] = [@ EXCEPT !.handle = e]]
  BY DEF Open
<1>2. AdoptedAs(n, e)
  BY <1>1, AdoptEffect
<1> QED
  BY <1>1, <1>2 DEF Open

\* Destroy adopts its name and asks the entry.
LEMMA DestroyEffect ==
    ASSUME TypeOK, NEW c \in Callers, NEW n \in Names, Destroy(c, n)
    PROVE  \E e \in Entries :
             /\ AdoptedAs(n, e)
             /\ caller[c].pc = "rest"
             /\ caller' = asking(c, e, "destroy")
             /\ UNCHANGED <<box, now, closer, known, wakes, adopted, pass>>
<1>1. PICK e \in Entries, k \in BOOLEAN :
        /\ adopt(n, FALSE, e, k)
        /\ caller' = asking(c, e, "destroy")
  BY DEF Destroy
<1>2. AdoptedAs(n, e)
  BY <1>1, AdoptEffect
<1> QED
  BY <1>1, <1>2 DEF Destroy, ready

\* A turn of the pass either ends it or adopts a name it found, and only that
\* name leaves the list.
LEMMA PassAdoptsEffect ==
    ASSUME TypeOK, NEW c \in Callers, passAdopts(c)
    PROVE  /\ pass.by = c /\ pass.at = "loop"
           /\ UNCHANGED <<box, now, closer, known, wakes, adopted>>
           /\ \/ passFails(c)
              \/ \E f \in pass.todo, e \in Entries :
                   /\ f[1] \in Names
                   /\ AdoptedAs(f[1], e)
                   /\ pass' \in Pass /\ pass'.todo = pass.todo \ {f} /\ pass'.by = c
                   /\ pass'.at \in {"loop", "observe"}
                   /\ UNCHANGED caller
<1>1. ASSUME NEW f \in pass.todo, NEW e \in Entries, NEW k \in BOOLEAN,
             adopt(f[1], TRUE, e, k),
             pass' = IF k THEN [pass EXCEPT !.todo = @ \ {f}]
                     ELSE [pass EXCEPT !.todo = @ \ {f}, !.at = "observe", !.cur = e,
                             !.obs = IF f[2] = "running" THEN "Ready" ELSE "Stopped"],
             pass.by = c, pass.at = "loop"
      PROVE  /\ f[1] \in Names
             /\ AdoptedAs(f[1], e)
             /\ pass' \in Pass /\ pass'.todo = pass.todo \ {f} /\ pass'.by = c
             /\ pass'.at \in {"loop", "observe"}
  <2>1. f[1] \in Names
    BY DEF TypeOK, Pass
  <2>2. AdoptedAs(f[1], e)
    BY <1>1, <2>1, AdoptEffect
  <2>3. pass \in Pass
    BY DEF TypeOK
  <2> QED
    BY <1>1, <2>1, <2>2, <2>3 DEF Pass
<1>2. /\ pass.by = c /\ pass.at = "loop"
      /\ UNCHANGED <<box, now, closer, known, wakes, adopted>>
  BY DEF passAdopts
<1>3. PICK f \in pass.todo :
        \/ passFails(c)
        \/ \E e \in Entries, k \in BOOLEAN :
             /\ adopt(f[1], TRUE, e, k)
             /\ pass' = IF k THEN [pass EXCEPT !.todo = @ \ {f}]
                        ELSE [pass EXCEPT !.todo = @ \ {f}, !.at = "observe", !.cur = e,
                                !.obs = IF f[2] = "running" THEN "Ready" ELSE "Stopped"]
             /\ UNCHANGED caller
  BY DEF passAdopts
<1>4. CASE passFails(c)
  BY <1>2, <1>4
<1>5. ASSUME NEW e \in Entries, NEW k \in BOOLEAN,
             adopt(f[1], TRUE, e, k),
             pass' = IF k THEN [pass EXCEPT !.todo = @ \ {f}]
                     ELSE [pass EXCEPT !.todo = @ \ {f}, !.at = "observe", !.cur = e,
                             !.obs = IF f[2] = "running" THEN "Ready" ELSE "Stopped"],
             UNCHANGED caller
      PROVE  \E g \in pass.todo, x \in Entries :
                   /\ g[1] \in Names
                   /\ AdoptedAs(g[1], x)
                   /\ pass' \in Pass /\ pass'.todo = pass.todo \ {g} /\ pass'.by = c
                   /\ pass'.at \in {"loop", "observe"}
                   /\ UNCHANGED caller
  <2>1. /\ f[1] \in Names
        /\ AdoptedAs(f[1], e)
        /\ pass' \in Pass /\ pass'.todo = pass.todo \ {f} /\ pass'.by = c
        /\ pass'.at \in {"loop", "observe"}
    BY <1>1, <1>2, <1>5
  <2> QED
    BY <1>5, <2>1, Zenon
<1> QED
  BY <1>2, <1>3, <1>4, <1>5

\* So does entering ask.
LEMMA AskingEffect ==
    ASSUME caller \in [Callers -> Caller], NEW c \in Callers, NEW e, NEW o
    PROVE  /\ asking(c, e, o)[c].pc = "ask" /\ asking(c, e, o)[c].tgt = e
           /\ \A x \in Callers : x # c => asking(c, e, o)[x] = caller[x]
  BY DEF asking, Caller

\* What follows a pass touches the caller who made it and no other.
LEMMA AfterPassEffect ==
    ASSUME caller \in [Callers -> Caller], NEW c \in Callers
    PROVE  /\ afterPass(c)[c].pc \in {"ask", "rest"}
           /\ \A x \in Callers : x # c => afterPass(c)[x] = caller[x]
  BY DEF afterPass, asking, answer, Caller

-----------------------------------------------------------------------------
(* Type correctness *)

\* Every step of a caller, a goroutine, the clock and Close keeps the types: no
\* helper on entries, callers and the pass leaves its record's type.
LEMMA TypeStep == TypeOK /\ Named /\ [Next]_vars => TypeOK'
<1> SUFFICES ASSUME TypeOK, Named, [Next]_vars PROVE TypeOK'
  OBVIOUS
<1> USE ConstantsAssumption
<1>n. now \in Nat
  BY DEF TypeOK
<1>1. ASSUME NEW c \in Callers, NEW n \in Names, Open(c, n) PROVE TypeOK'
  <2>1. PICK e \in Entries :
          /\ AdoptedAs(n, e)
          /\ caller' = [caller EXCEPT ![c] = [@ EXCEPT !.handle = e]]
          /\ UNCHANGED <<box, now, closer, known, wakes, adopted, pass>>
    BY <1>1, OpenEffect
  <2> QED
    BY <2>1 DEF TypeOK, AdoptedAs, Caller
<1>2. ASSUME NEW c \in Callers, NEW n \in Names, Destroy(c, n) PROVE TypeOK'
  <2>1. PICK e \in Entries :
          /\ AdoptedAs(n, e)
          /\ caller' = asking(c, e, "destroy")
          /\ UNCHANGED <<box, now, closer, known, wakes, adopted, pass>>
    BY <1>2, DestroyEffect
  <2>2. caller' \in [Callers -> Caller]
    BY <2>1, AskingType DEF TypeOK
  <2> QED
    BY <2>1, <2>2 DEF TypeOK, AdoptedAs
<1>3. ASSUME NEW c \in Callers, closeHandle(c) PROVE TypeOK'
  BY <1>n, <1>3 DEF TypeOK, Named, closeHandle, Caller
<1>4. ASSUME NEW c \in Callers, Exec(c) PROVE TypeOK'
  <2>1. caller[c].handle \in Entries \cup {None}
    BY DEF TypeOK, Caller
  <2>2. asking(c, caller[c].handle, "exec") \in [Callers -> Caller]
    BY <2>1, AskingType DEF TypeOK
  <2>3. [caller EXCEPT ![c] = [@ EXCEPT !.pc = "lock", !.op = "exec",
                                        !.tgt = caller[c].handle]] \in [Callers -> Caller]
    <3>1. caller[c] \in Caller
      BY DEF TypeOK
    <3>2. [caller[c] EXCEPT !.pc = "lock", !.op = "exec", !.tgt = caller[c].handle] \in Caller
      BY <2>1, <3>1 DEF Caller
    <3> QED
      BY <3>2 DEF TypeOK
  <2> QED
    BY <1>4, <2>2, <2>3 DEF TypeOK, Exec
<1>5. ASSUME NEW c \in Callers, Reconcile(c) PROVE TypeOK'
  <2>1. caller[c] \in Caller
    BY DEF TypeOK
  <2>2. [caller[c] EXCEPT !.pc = "lock", !.op = "reconcile"] \in Caller
    BY <2>1 DEF Caller
  <2>3. caller' \in [Callers -> Caller]
    BY <1>5, <2>2 DEF TypeOK, Reconcile
  <2> QED
    BY <1>5, <2>3 DEF TypeOK, Reconcile
<1>6. ASSUME NEW c \in Callers, askGone(c) PROVE TypeOK'
  BY <1>n, <1>6, AnswerType DEF TypeOK, Named, askGone, Caller
<1>7. ASSUME NEW c \in Callers, forget(c) PROVE TypeOK'
  BY <1>n, <1>7, AnswerType DEF TypeOK, Named, forget, Caller
<1>8. ASSUME NEW c \in Callers, lockAdopt(c) PROVE TypeOK'
  <2>1. asking(c, caller[c].tgt, "exec") \in [Callers -> Caller]
    <3>1. caller[c].tgt \in Entries \cup {None}
      BY DEF TypeOK, Caller
    <3> QED
      BY <3>1, AskingType DEF TypeOK
  <2>2. [caller EXCEPT ![c] = [@ EXCEPT !.pc = "pass"]] \in [Callers -> Caller]
    BY DEF TypeOK, Caller
  <2>3. [NoPass EXCEPT !.by = c, !.at = "list"] \in Pass
    BY DEF NoPass, Pass
  <2> QED
    BY <1>8, <2>1, <2>2, <2>3 DEF TypeOK, lockAdopt
<1>9. ASSUME NEW c \in Callers, listReturns(c) PROVE TypeOK'
  <2>1. afterPass(c) \in [Callers -> Caller]
    BY AfterPassType DEF TypeOK
  <2>2. [pass EXCEPT !.at = "loop",
           !.todo = {f \in Names \X {"stopped", "running"} : box[f[1]] = f[2]}] \in Pass
    BY DEF TypeOK, Pass
  <2> QED
    BY <1>9, <2>1, <2>2, NoPassType DEF TypeOK, listReturns, passFails
<1>10. ASSUME NEW c \in Callers, passAdopts(c) PROVE TypeOK'
  <2>1. afterPass(c) \in [Callers -> Caller]
    BY AfterPassType DEF TypeOK
  <2>2. CASE passFails(c)
    BY <1>10, <2>1, <2>2, NoPassType, PassAdoptsEffect DEF TypeOK, passFails
  <2>3. ASSUME NEW f \in pass.todo, NEW e \in Entries, AdoptedAs(f[1], e),
               pass' \in Pass, UNCHANGED caller,
               UNCHANGED <<box, now, closer, known, wakes, adopted>>
        PROVE  TypeOK'
    BY <2>3 DEF TypeOK, AdoptedAs
  <2> QED
    BY <1>10, <2>2, <2>3, PassAdoptsEffect
<1>11. ASSUME NEW c \in Callers, passGone(c) PROVE TypeOK'
  BY <1>n, <1>11, AfterPassType, NoPassType DEF TypeOK, Named, passGone, passFails
<1>12. ASSUME NEW c \in Callers, passDone(c) PROVE TypeOK'
  BY <1>n, <1>12, AfterPassType, NoPassType DEF TypeOK, Named, passDone
<1>13. ASSUME NEW e \in Entries, NEW c \in Callers, doExec(e, c) PROVE TypeOK'
  <2>1. stopTimer(ent[e]) \in Entry
    BY StopTimerType DEF TypeOK
  <2>2. \A k \in Calls : begin(stopTimer(ent[e]), k, c) \in Entry
    BY <2>1, BeginType
  <2>3. /\ commit(begin(stopTimer(ent[e]), "prepare", c), "Preparing") \in Entry
        /\ commit(begin(stopTimer(ent[e]), "exec", c), "Executing") \in Entry
    BY <2>2, CommitType DEF Calls, States
  <2>4. ent' \in [Entries -> Entry]
    BY <1>13, <2>3 DEF TypeOK, doExec
  <2>5. caller' \in [Callers -> Caller]
    BY <1>13, WaitingType DEF TypeOK, doExec
  <2> QED
    BY <1>13, <2>4, <2>5 DEF TypeOK, doExec
<1>14. ASSUME NEW e \in Entries, NEW c \in Callers, doDestroy(e, c) PROVE TypeOK'
  <2>1. stopTimer(ent[e]) \in Entry
    BY StopTimerType DEF TypeOK
  <2>2. begin(stopTimer(ent[e]), "destroy", c) \in Entry
    BY <2>1, BeginType DEF Calls
  <2>3. commit(begin(stopTimer(ent[e]), "destroy", c), "Destroying") \in Entry
    BY <2>2, CommitType DEF States
  <2>4. ent' \in [Entries -> Entry]
    BY <1>14, <2>3 DEF TypeOK, doDestroy
  <2>5. caller' \in [Callers -> Caller]
    BY <1>14, WaitingType DEF TypeOK, doDestroy
  <2> QED
    BY <1>14, <2>4, <2>5 DEF TypeOK, doDestroy
<1>15. ASSUME NEW e \in Entries, NEW w \in wakes, doIdle(e, w) PROVE TypeOK'
  BY <1>n, <1>15, BeginType, CommitType DEF TypeOK, Named, doIdle, Calls, States
<1>16. ASSUME NEW e \in Entries, doObserve(e) PROVE TypeOK'
  BY <1>n, <1>16, CommitType, ArmIdleType DEF TypeOK, Named, doObserve, Pass, States
<1>17. ASSUME NEW e \in Entries, execPrepared(e) PROVE TypeOK'
  <2>1. commit(ent[e], "Executing") \in Entry
    BY CommitType DEF TypeOK, States
  <2>2. [commit(ent[e], "Executing") EXCEPT !.at = "exec"] \in Entry
    BY <2>1 DEF Entry, At, Active, Calls
  <2>3. box' \in [Names -> Boxes]
    BY <1>17 DEF TypeOK, execPrepared, Boxes
  <2>4. ent' \in [Entries -> Entry]
    BY <1>17, <2>2 DEF TypeOK, execPrepared
  <2> QED
    BY <1>17, <2>3, <2>4 DEF TypeOK, execPrepared
<1>18. ASSUME NEW e \in Entries, execPrepareFailed(e) PROVE TypeOK'
  BY <1>n, <1>18, CommitType, RestType, AnswerType DEF TypeOK, Named, execPrepareFailed,
     prepareLeaves, Boxes, Entry
<1>19. ASSUME NEW e \in Entries, execDone(e) PROVE TypeOK'
  BY <1>n, <1>19, CommitType, ArmIdleType, RestType, AnswerType DEF TypeOK, Named, execDone,
     States, Entry, Deadline
<1>20. ASSUME NEW e \in Entries, stopDone(e) PROVE TypeOK'
  BY <1>n, <1>20, StopTimerType, CommitType, RestType DEF TypeOK, Named, stopDone, stopped,
     States, Boxes
<1>21. ASSUME NEW e \in Entries, stopFailed(e) PROVE TypeOK'
  BY <1>n, <1>21, CommitType, ArmIdleType, RestType DEF TypeOK, Named, stopFailed, stopped,
     States, Boxes
<1>22. ASSUME NEW e \in Entries, destroyDone(e) PROVE TypeOK'
  <2>1. rest(commit(ent[e], "Destroyed")) \in Entry
    BY CommitType, RestType DEF TypeOK, States
  <2>2. [rest(commit(ent[e], "Destroyed")) EXCEPT !.at = "exiting"] \in Entry
    BY <2>1 DEF Entry, At
  <2>3. caller' \in [Callers -> Caller]
    <3>1. \A c \in Callers : [caller[c] EXCEPT !.pc = "forget"] \in Caller
      BY DEF TypeOK, Caller
    <3> QED
      BY <1>22, <3>1 DEF TypeOK, destroyDone
  <2>4. box' \in [Names -> Boxes]
    BY <1>22 DEF TypeOK, destroyDone, Boxes
  <2> QED
    BY <1>22, <2>2, <2>3, <2>4 DEF TypeOK, destroyDone
<1>23. ASSUME NEW e \in Entries, destroyFailed(e) PROVE TypeOK'
  BY <1>n, <1>23, CommitType, ArmIdleType, RestType, AnswerType DEF TypeOK, Named, destroyFailed,
     stopped, Boxes, Entry
<1>24. ASSUME NEW e \in Entries, exitDestroyed(e) PROVE TypeOK'
  BY <1>n, <1>24, ExitType DEF TypeOK, Named, exitDestroyed, wakesBut
<1>25. ASSUME NEW e \in Entries, exitShutdown(e) PROVE TypeOK'
  BY <1>n, <1>25, ExitType DEF TypeOK, Named, exitShutdown, wakesBut
<1>26. ASSUME NEW e \in Entries, fire(e) PROVE TypeOK'
  BY <1>n, <1>26 DEF TypeOK, Named, fire, Entry, Deadline, NoTime
<1>27. ASSUME NEW e \in Entries, collect(e) PROVE TypeOK'
  BY <1>n, <1>27, UnbornType DEF TypeOK, Named, collect
<1>28. ASSUME Tick PROVE TypeOK'
  BY <1>n, <1>28 DEF TypeOK, Named, Tick
<1>29. ASSUME closeBegin PROVE TypeOK'
  BY <1>n, <1>29 DEF TypeOK, Named, closeBegin
<1>30. ASSUME closeCollect PROVE TypeOK'
  BY <1>n, <1>30 DEF TypeOK, Named, closeCollect
<1>31. ASSUME closeBackend PROVE TypeOK'
  BY <1>n, <1>31 DEF TypeOK, Named, closeBackend
<1>32. CASE UNCHANGED vars
  BY <1>32 DEF vars, TypeOK
<1> QED
  BY <1>1, <1>2, <1>3, <1>4, <1>5, <1>6, <1>7, <1>8, <1>9, <1>10, <1>11, <1>12, <1>13, <1>14,
     <1>15, <1>16, <1>17, <1>18, <1>19, <1>20, <1>21, <1>22, <1>23, <1>24, <1>25, <1>26, <1>27,
     <1>28, <1>29, <1>30, <1>31, <1>32 DEF Next, callerStep, entryStep

\* Every step keeps a goroutine's name resolving to it: adopt makes the only new
\* ones, and forget drops only a name whose goroutine no longer serves.
LEMMA NamedStep == TypeOK /\ Named /\ [Next]_vars => Named'
<1> SUFFICES ASSUME TypeOK, Named, [Next]_vars PROVE Named'
  OBVIOUS
<1>1. ASSUME NEW c \in Callers, NEW n \in Names, Open(c, n) PROVE Named'
  BY <1>1, OpenEffect DEF AdoptedAs, Named
<1>2. ASSUME NEW c \in Callers, NEW n \in Names, Destroy(c, n) PROVE Named'
  BY <1>2, DestroyEffect DEF AdoptedAs, Named
<1>3. ASSUME NEW c \in Callers, closeHandle(c) PROVE Named'
  BY <1>3 DEF Named, closeHandle, Entry, TypeOK
<1>4. ASSUME NEW c \in Callers, Exec(c) PROVE Named'
  BY <1>4 DEF Named, Exec, asking, Entry, TypeOK
<1>5. ASSUME NEW c \in Callers, Reconcile(c) PROVE Named'
  BY <1>5 DEF Named, Reconcile, Entry, TypeOK
<1>6. ASSUME NEW c \in Callers, askGone(c) PROVE Named'
  BY <1>6 DEF Named, askGone, answer, Entry, TypeOK
<1>7. ASSUME NEW c \in Callers, forget(c) PROVE Named'
  BY <1>7 DEF Named, forget, answer, Entry, TypeOK
<1>8. ASSUME NEW c \in Callers, lockAdopt(c) PROVE Named'
  BY <1>8 DEF Named, lockAdopt, asking, NoPass, Entry, TypeOK
<1>9. ASSUME NEW c \in Callers, listReturns(c) PROVE Named'
  BY <1>9 DEF Named, listReturns, passFails, afterPass, asking, answer, NoPass, Entry, TypeOK
<1>10. ASSUME NEW c \in Callers, passAdopts(c) PROVE Named'
  BY <1>10, PassAdoptsEffect DEF AdoptedAs, Named, passFails
<1>11. ASSUME NEW c \in Callers, passGone(c) PROVE Named'
  BY <1>11 DEF Named, passGone, passFails, afterPass, asking, answer, NoPass, Entry, TypeOK
<1>12. ASSUME NEW c \in Callers, passDone(c) PROVE Named'
  BY <1>12 DEF Named, passDone, afterPass, asking, answer, NoPass, Entry, TypeOK
<1>13. ASSUME NEW e \in Entries, NEW c \in Callers, doExec(e, c) PROVE Named'
  BY <1>13 DEF Named, doExec, meet, waiting, begin, commit, stopTimer, Entry, TypeOK
<1>14. ASSUME NEW e \in Entries, NEW c \in Callers, doDestroy(e, c) PROVE Named'
  BY <1>14 DEF Named, doDestroy, meet, waiting, begin, commit, stopTimer, Entry, TypeOK
<1>15. ASSUME NEW e \in Entries, NEW w \in wakes, doIdle(e, w) PROVE Named'
  BY <1>15 DEF Named, doIdle, begin, commit, Entry, TypeOK
<1>16. ASSUME NEW e \in Entries, doObserve(e) PROVE Named'
  BY <1>16 DEF Named, doObserve, armIdle, commit, stopTimer, Entry, TypeOK
<1>17. ASSUME NEW e \in Entries, execPrepared(e) PROVE Named'
  BY <1>17 DEF Named, execPrepared, commit, Entry, TypeOK
<1>18. ASSUME NEW e \in Entries, execPrepareFailed(e) PROVE Named'
  BY <1>18 DEF Named, execPrepareFailed, prepareLeaves, rest, commit, answer, Entry, TypeOK
<1>19. ASSUME NEW e \in Entries, execDone(e) PROVE Named'
  BY <1>19 DEF Named, execDone, rest, armIdle, commit, stopTimer, answer, Entry, TypeOK
<1>20. ASSUME NEW e \in Entries, stopDone(e) PROVE Named'
  BY <1>20 DEF Named, stopDone, stopped, rest, commit, stopTimer, Entry, TypeOK
<1>21. ASSUME NEW e \in Entries, stopFailed(e) PROVE Named'
  BY <1>21 DEF Named, stopFailed, stopped, rest, armIdle, commit, stopTimer, Entry, TypeOK
<1>22. ASSUME NEW e \in Entries, destroyDone(e) PROVE Named'
  BY <1>22 DEF Named, destroyDone, rest, commit, Entry, TypeOK
<1>23. ASSUME NEW e \in Entries, destroyFailed(e) PROVE Named'
  BY <1>23 DEF Named, destroyFailed, stopped, rest, armIdle, commit, stopTimer, answer, Entry,
     TypeOK
<1>24. ASSUME NEW e \in Entries, exitDestroyed(e) PROVE Named'
  BY <1>24 DEF Named, exitDestroyed, exit, unborn, wakesBut, Entry, TypeOK
<1>25. ASSUME NEW e \in Entries, exitShutdown(e) PROVE Named'
  BY <1>25 DEF Named, exitShutdown, exit, unborn, wakesBut, shuttingDown, Entry, TypeOK
<1>26. ASSUME NEW e \in Entries, fire(e) PROVE Named'
  BY <1>26 DEF Named, fire, Entry, TypeOK
<1>27. ASSUME NEW e \in Entries, collect(e) PROVE Named'
  BY <1>27 DEF Named, collect, unborn, Entry, TypeOK
<1>28. ASSUME Tick PROVE Named'
  BY <1>28 DEF Named, Tick, Entry, TypeOK
<1>29. ASSUME closeBegin PROVE Named'
  BY <1>29 DEF Named, closeBegin, Entry, TypeOK
<1>30. ASSUME closeCollect PROVE Named'
  BY <1>30 DEF Named, closeCollect, Entry, TypeOK
<1>31. ASSUME closeBackend PROVE Named'
  BY <1>31 DEF Named, closeBackend, Entry, TypeOK
<1>32. CASE UNCHANGED vars
  BY <1>32 DEF vars, Named
<1> QED
  BY <1>1, <1>2, <1>3, <1>4, <1>5, <1>6, <1>7, <1>8, <1>9, <1>10, <1>11, <1>12, <1>13, <1>14,
     <1>15, <1>16, <1>17, <1>18, <1>19, <1>20, <1>21, <1>22, <1>23, <1>24, <1>25, <1>26, <1>27,
     <1>28, <1>29, <1>30, <1>31, <1>32 DEF Next, callerStep, entryStep

-----------------------------------------------------------------------------
(* The map, the goroutines and the callers *)

\* Only caller c moves, and not into or out of a wait or a forget.
CallerMoves(c) ==
    /\ UNCHANGED <<entries, ent>>
    /\ caller[c].pc \notin {"wait", "forget"}
    /\ caller'[c].pc \notin {"wait", "forget"}
    /\ \A x \in Callers : x # c => caller'[x] = caller[x]
    /\ \/ pass'.by = None
       \/ pass'.by = c /\ caller'[c].pc = "pass"
       \/ pass' = pass /\ caller[c].pc # "pass"

\* Such a step keeps the links.
LEMMA CallerMovesLinked ==
    ASSUME TypeOK, Linked, NEW c \in Callers, CallerMoves(c)
    PROVE  Linked'
  BY ConstantsAssumption DEF CallerMoves, Linked, OneLifecyclePerName, TypeOK, Served

\* Adopting a name keeps the links, whatever a caller not in a wait, a forget or
\* a pass does with the entry.
LEMMA AdoptedLinked ==
    ASSUME TypeOK, Named, Linked, NEW n \in Names, NEW e \in Entries, AdoptedAs(n, e),
           pass'.by = pass.by,
           \A x \in Callers :
               \/ caller'[x] = caller[x]
               \/ caller'[x].pc = caller[x].pc /\ caller'[x].tgt = caller[x].tgt
               \/ caller[x].pc = "rest" /\ caller'[x].pc = "ask"
    PROVE  Linked'
<1>1. (\A m \in Names : entries[m] # None =>
           ent[entries[m]].at # "unborn" /\ ent[entries[m]].name = m)'
  BY ConstantsAssumption DEF AdoptedAs, Linked, TypeOK
<1>2. OneLifecyclePerName'
  <2>1. ASSUME NEW x \in Entries, ent'[x].at \in Active PROVE entries'[ent'[x].name] = x
    <3>1. CASE x = e
      BY <2>1, <3>1, ConstantsAssumption DEF AdoptedAs, Linked
    <3>2. CASE x # e
      BY <2>1, <3>2, ConstantsAssumption
         DEF AdoptedAs, Linked, OneLifecyclePerName, Named, Active, Calls
    <3> QED
      BY <3>1, <3>2
  <2> QED
    BY <2>1 DEF OneLifecyclePerName
<1>3. \A x \in Entries : ent[x].at # "unborn" => ent'[x] = ent[x]
  BY DEF AdoptedAs, Linked, TypeOK
<1>4. \A x \in Entries : ent'[x].at \in Served => ent'[x] = ent[x]
  BY DEF AdoptedAs, Served
<1>5. \A x \in Callers : caller'[x].pc \in {"wait", "forget"} \/ caller[x].pc = "wait" =>
          caller'[x].pc = caller[x].pc /\ caller'[x].tgt = caller[x].tgt
  OBVIOUS
<1>6. (\A x \in Entries : ent[x].at \in Served =>
           /\ ent[x].client \in Callers
           /\ caller[ent[x].client].pc = "wait"
           /\ caller[ent[x].client].tgt = x)'
  BY <1>4, <1>5 DEF Linked
<1>7. (\A c \in Callers : caller[c].pc = "wait" =>
           /\ caller[c].tgt \in Entries
           /\ ent[caller[c].tgt].at \in Served
           /\ ent[caller[c].tgt].client = c)'
  BY <1>3, <1>5 DEF Linked, Served
<1>8. (\A c \in Callers : caller[c].pc = "forget" =>
           /\ caller[c].tgt \in Entries
           /\ ent[caller[c].tgt].at \in {"exiting", "gone"})'
  BY <1>3, <1>5 DEF Linked
<1>9. (\A c \in Callers : pass.by = c => caller[c].pc = "pass")'
  BY DEF Linked
<1>10. (\A x \in Entries : ent[x].at = "stop" => ent[x].client = None)'
  BY <1>3 DEF AdoptedAs, Linked
<1> QED
  BY <1>1, <1>2, <1>6, <1>7, <1>8, <1>9, <1>10 DEF Linked

\* Only goroutine e and caller c move, c not in a pass, and the name of e is listed.
Meeting(e, c) ==
    /\ UNCHANGED <<entries, pass>>
    /\ ent[e].at \in Active /\ ent'[e].at # "unborn" /\ ent'[e].name = ent[e].name
    /\ \A x \in Entries : x # e => ent'[x] = ent[x]
    /\ caller[c].pc # "pass"
    /\ \A x \in Callers : x # c => caller'[x] = caller[x]

\* What such a step leaves of the map and of the pass.
LEMMA MeetingKeeps ==
    ASSUME TypeOK, Linked, NEW e \in Entries, NEW c \in Callers, Meeting(e, c)
    PROVE  /\ (\A n \in Names : entries[n] # None =>
                   ent[entries[n]].at # "unborn" /\ ent[entries[n]].name = n)'
           /\ OneLifecyclePerName'
           /\ (\A x \in Callers : pass.by = x => caller[x].pc = "pass")'
<1>1. \A n \in Names : entries[n] \in Entries \cup {None}
  BY DEF TypeOK
<1>2. ASSUME NEW n \in Names, entries[n] # None
      PROVE  ent'[entries[n]].at # "unborn" /\ ent'[entries[n]].name = n
  <2>1. ent[entries[n]].at # "unborn" /\ ent[entries[n]].name = n /\ entries[n] \in Entries
    BY <1>1, <1>2 DEF Linked
  <2>2. CASE entries[n] = e
    BY <2>1, <2>2 DEF Meeting
  <2>3. CASE entries[n] # e
    BY <2>1, <2>3 DEF Meeting
  <2> QED
    BY <2>2, <2>3
<1>3. ASSUME NEW x \in Entries, ent'[x].at \in Active PROVE entries[ent'[x].name] = x
  BY <1>3 DEF Meeting, Linked, OneLifecyclePerName
<1>4. \A x \in Callers : pass.by = x => x # c /\ caller[x].pc = "pass"
  BY DEF Meeting, Linked
<1> QED
  BY <1>2, <1>3, <1>4 DEF Meeting, OneLifecyclePerName

\* The goroutine of e takes the request of c, and the two name each other.
LEMMA TakenLinked ==
    ASSUME TypeOK, Linked, NEW e \in Entries, NEW c \in Callers, Meeting(e, c),
           ent[e].at = "select", caller[c].pc = "ask",
           ent'[e].at \in Served, ent'[e].client = c,
           caller'[c].pc = "wait", caller'[c].tgt = e
    PROVE  Linked'
<1>1. \A x \in Callers : caller[x].pc \in {"wait", "forget"} =>
          x # c /\ caller[x].tgt \in Entries /\ caller[x].tgt # e
  BY DEF Linked, Served
<1>2. \A x \in Entries : ent[x].at \in Served => x # e /\ ent[x].client # c
  BY DEF Linked, Served
<1>3. (\A x \in Entries : ent[x].at \in Served =>
           /\ ent[x].client \in Callers
           /\ caller[ent[x].client].pc = "wait"
           /\ caller[ent[x].client].tgt = x)'
  BY <1>2 DEF Linked, Meeting
<1>4. (\A x \in Callers : caller[x].pc = "wait" =>
           /\ caller[x].tgt \in Entries
           /\ ent[caller[x].tgt].at \in Served
           /\ ent[caller[x].tgt].client = x)'
  BY <1>1 DEF Linked, Meeting
<1>5. (\A x \in Entries : ent[x].at = "stop" => ent[x].client = None)'
  BY DEF Linked, Meeting, Served
<1>6. (\A x \in Callers : caller[x].pc = "forget" =>
           caller[x].tgt \in Entries /\ ent[caller[x].tgt].at \in {"exiting", "gone"})'
  BY <1>1 DEF Linked, Meeting
<1> QED
  BY <1>3, <1>4, <1>5, <1>6, MeetingKeeps DEF Linked

\* The goroutine of e answers the caller it serves, who is done or goes on to forget
\* an entry that has ended.
LEMMA AnsweredLinked ==
    ASSUME TypeOK, Linked, NEW e \in Entries, NEW c \in Callers, Meeting(e, c),
           ent[e].at \in Served, ent[e].client = c, ent'[e].at \in {"select", "exiting"},
           \/ caller'[c].pc = "rest"
           \/ caller'[c].pc = "forget" /\ caller'[c].tgt = e /\ ent'[e].at = "exiting"
    PROVE  Linked'
<1>1. caller[c].pc = "wait" /\ caller[c].tgt = e
  BY DEF Linked
<1>2. \A x \in Entries : ent[x].at \in Served /\ x # e => ent[x].client # c
  BY <1>1 DEF Linked
<1>3. \A x \in Callers : x # c /\ caller[x].pc = "wait" => caller[x].tgt # e
  BY DEF Linked
<1>4. \A x \in Callers : caller[x].pc = "forget" => caller[x].tgt # e
  BY DEF Linked, Served
<1>5. (\A x \in Entries : ent[x].at \in Served =>
           /\ ent[x].client \in Callers
           /\ caller[ent[x].client].pc = "wait"
           /\ caller[ent[x].client].tgt = x)'
  <2>1. \A x \in Entries : ent'[x].at \in Served => x # e
    BY DEF Served
  <2> QED
    BY <1>2, <2>1 DEF Linked, Meeting
<1>6. (\A x \in Callers : caller[x].pc = "wait" =>
           /\ caller[x].tgt \in Entries
           /\ ent[caller[x].tgt].at \in Served
           /\ ent[caller[x].tgt].client = x)'
  BY <1>3 DEF Linked, Meeting
<1>7. (\A x \in Entries : ent[x].at = "stop" => ent[x].client = None)'
  BY DEF Linked, Meeting
<1>8. (\A x \in Callers : caller[x].pc = "forget" =>
           caller[x].tgt \in Entries /\ ent[caller[x].tgt].at \in {"exiting", "gone"})'
  BY <1>4 DEF Linked, Meeting
<1> QED
  BY <1>5, <1>6, <1>7, <1>8, MeetingKeeps DEF Linked

\* A goroutine that serves nobody moves on its own or exits: the links of the others
\* stay, and a caller that is to forget it still finds it on its way out.
LEMMA AloneLinked ==
    ASSUME Linked, TypeOK, NEW e \in Entries,
           ent[e].at \in {"exiting", "select", "stop"},
           ent'[e].at \in {"gone", "select", "stop"}, ent'[e].name = ent[e].name,
           ent[e].at = "exiting" => ent'[e].at = "gone",
           ent'[e].at = "stop" => ent'[e].client = None,
           \A x \in Entries : x # e => ent'[x] = ent[x],
           UNCHANGED <<entries, pass, caller>>
    PROVE  Linked'
<1>1. \A x \in Callers : caller[x].pc = "wait" => caller[x].tgt # e
  BY DEF Linked, Served
<1>2. (\A n \in Names : entries[n] # None =>
           ent[entries[n]].at # "unborn" /\ ent[entries[n]].name = n)'
  BY DEF Linked, TypeOK
<1>3. OneLifecyclePerName'
  <2>1. ent'[e].at \in Active => ent[e].at \in Active
    BY DEF Active, Calls
  <2> QED
    BY <2>1 DEF Linked, OneLifecyclePerName
<1>4. (\A x \in Entries : ent[x].at \in Served =>
           /\ ent[x].client \in Callers
           /\ caller[ent[x].client].pc = "wait"
           /\ caller[ent[x].client].tgt = x)'
  <2>1. \A x \in Entries : ent'[x].at \in Served => x # e
    BY DEF Served
  <2> QED
    BY <2>1 DEF Linked
<1>5. (\A x \in Callers : caller[x].pc = "wait" =>
           /\ caller[x].tgt \in Entries
           /\ ent[caller[x].tgt].at \in Served
           /\ ent[caller[x].tgt].client = x)'
  BY <1>1 DEF Linked
<1>6. (\A x \in Entries : ent[x].at = "stop" => ent[x].client = None)'
  BY DEF Linked
<1>7. (\A x \in Callers : caller[x].pc = "forget" =>
           caller[x].tgt \in Entries /\ ent[caller[x].tgt].at \in {"exiting", "gone"})'
  BY DEF Linked
<1>8. (\A x \in Callers : pass.by = x => caller[x].pc = "pass")'
  BY DEF Linked
<1> QED
  BY <1>2, <1>3, <1>4, <1>5, <1>6, <1>7, <1>8 DEF Linked

\* What exit leaves of an entry.
LEMMA ExitEffect ==
    ASSUME NEW r \in Entry, NEW w
    PROVE  exit(r, w).at = "gone" /\ exit(r, w).name = r.name
  BY DEF exit, unborn

\* Every step keeps them pointing at each other.
LEMMA LinkedStep == TypeOK /\ Named /\ Linked /\ TypeOK' /\ Named' /\ [Next]_vars => Linked'
<1> SUFFICES ASSUME TypeOK, Named, Linked, TypeOK', Named', [Next]_vars PROVE Linked'
  OBVIOUS
<1> USE ConstantsAssumption
<1>1. ASSUME NEW c \in Callers, NEW n \in Names, Open(c, n) PROVE Linked'
  <2>1. PICK e \in Entries :
          /\ AdoptedAs(n, e)
          /\ caller' = [caller EXCEPT ![c] = [@ EXCEPT !.handle = e]]
          /\ UNCHANGED <<box, now, closer, known, wakes, adopted, pass>>
    BY <1>1, OpenEffect
  <2>2. \A x \in Callers : caller'[x].pc = caller[x].pc /\ caller'[x].tgt = caller[x].tgt
    BY <2>1 DEF TypeOK, Caller
  <2> QED
    BY <2>1, <2>2, AdoptedLinked DEF TypeOK
<1>2. ASSUME NEW c \in Callers, NEW n \in Names, Destroy(c, n) PROVE Linked'
  <2>1. PICK e \in Entries :
          /\ AdoptedAs(n, e)
          /\ caller[c].pc = "rest"
          /\ caller' = asking(c, e, "destroy")
          /\ UNCHANGED <<box, now, closer, known, wakes, adopted, pass>>
    BY <1>2, DestroyEffect
  <2>2. \A x \in Callers :
            \/ caller'[x] = caller[x]
            \/ caller[x].pc = "rest" /\ caller'[x].pc = "ask"
    <3>1. caller \in [Callers -> Caller]
      BY DEF TypeOK
    <3>2. /\ caller'[c].pc = "ask"
          /\ \A x \in Callers : x # c => caller'[x] = caller[x]
      BY <2>1, <3>1, AskingEffect
    <3>3. caller[c].pc = "rest"
      BY <2>1
    <3> QED
      BY <3>2, <3>3
  <2> QED
    BY <2>1, <2>2, AdoptedLinked DEF TypeOK
<1>3. ASSUME NEW c \in Callers, closeHandle(c) PROVE Linked'
  BY <1>3 DEF Linked, OneLifecyclePerName, TypeOK, Named, Served, Active, Calls, closeHandle,
     Entry, Caller
<1>4. ASSUME NEW c \in Callers, Exec(c) PROVE Linked'
  <2>1. CallerMoves(c)
    BY <1>4 DEF CallerMoves, TypeOK, Caller, Exec, ready, asking
  <2> QED
    BY <2>1, CallerMovesLinked
<1>5. ASSUME NEW c \in Callers, Reconcile(c) PROVE Linked'
  <2>1. CallerMoves(c)
    BY <1>5 DEF CallerMoves, TypeOK, Caller, Reconcile, ready
  <2> QED
    BY <2>1, CallerMovesLinked
<1>6. ASSUME NEW c \in Callers, askGone(c) PROVE Linked'
  BY <1>6 DEF Linked, OneLifecyclePerName, TypeOK, Named, Served, Active, Calls, askGone, answer,
     Entry, Caller
<1>7. ASSUME NEW c \in Callers, forget(c) PROVE Linked'
  BY <1>7 DEF Linked, OneLifecyclePerName, TypeOK, Named, Served, Active, Calls, forget, answer,
     Entry, Caller
<1>8. ASSUME NEW c \in Callers, lockAdopt(c) PROVE Linked'
  <2>1. CallerMoves(c)
    <3>1. CASE caller[c].op = "exec" /\ adopted
      BY <1>8, <3>1, AskingEffect DEF CallerMoves, TypeOK, lockAdopt
    <3>2. CASE ~(caller[c].op = "exec" /\ adopted)
      <4>1. pass'.by = c
        BY <1>8, <3>2 DEF lockAdopt, NoPass
      <4>2. /\ caller[c].pc = "lock" /\ caller'[c].pc = "pass"
            /\ \A x \in Callers : x # c => caller'[x] = caller[x]
            /\ UNCHANGED <<entries, ent>>
        BY <1>8, <3>2 DEF lockAdopt, TypeOK, Caller
      <4> QED
        BY <4>1, <4>2 DEF CallerMoves
    <3> QED
      BY <3>1, <3>2
  <2> QED
    BY <2>1, CallerMovesLinked
<1>9. ASSUME NEW c \in Callers, listReturns(c) PROVE Linked'
  <2>1. CallerMoves(c)
    <3>1. caller[c].pc = "pass"
      BY <1>9 DEF Linked, listReturns
    <3>2. CASE passFails(c)
      BY <1>9, <3>1, <3>2, AfterPassEffect DEF CallerMoves, TypeOK, passFails, NoPass
    <3>3. CASE ~passFails(c)
      <4>1. pass'.by = c
        BY <1>9, <3>3 DEF listReturns, TypeOK, Pass
      <4> QED
        BY <1>9, <3>1, <3>3, <4>1 DEF CallerMoves, listReturns
    <3> QED
      BY <3>2, <3>3
  <2> QED
    BY <2>1, CallerMovesLinked
<1>10. ASSUME NEW c \in Callers, passAdopts(c) PROVE Linked'
  <2>1. CASE passFails(c)
    <3>1. CallerMoves(c)
      BY <1>10, <2>1, AfterPassEffect, PassAdoptsEffect
         DEF CallerMoves, TypeOK, Linked, passFails, NoPass
    <3> QED
      BY <3>1, CallerMovesLinked
  <2>2. ASSUME NEW f \in pass.todo, NEW e \in Entries, f[1] \in Names, AdoptedAs(f[1], e),
               pass'.by = c, pass.by = c, UNCHANGED caller
        PROVE  Linked'
    BY <2>2, AdoptedLinked
  <2> QED
    BY <1>10, <2>1, <2>2, PassAdoptsEffect
<1>11. ASSUME NEW c \in Callers, passGone(c) PROVE Linked'
  <2>1. CallerMoves(c)
    BY <1>11, AfterPassEffect DEF CallerMoves, TypeOK, Linked, passGone, passFails, NoPass
  <2> QED
    BY <2>1, CallerMovesLinked
<1>12. ASSUME NEW c \in Callers, passDone(c) PROVE Linked'
  <2>1. CallerMoves(c)
    BY <1>12, AfterPassEffect DEF CallerMoves, TypeOK, Linked, passDone, NoPass
  <2> QED
    BY <2>1, CallerMovesLinked
<1>13. ASSUME NEW e \in Entries, NEW c \in Callers, doExec(e, c) PROVE Linked'
  <2>1. ent \in [Entries -> Entry] /\ caller \in [Callers -> Caller]
    BY DEF TypeOK
  <2>2. /\ ent'[e].at \in Served /\ ent'[e].client = c /\ ent'[e].name = ent[e].name
        /\ \A x \in Entries : x # e => ent'[x] = ent[x]
    BY <1>13, <2>1 DEF doExec, begin, commit, stopTimer, Entry, Served
  <2>3. /\ caller[c].pc = "ask" /\ caller'[c].pc = "wait" /\ caller'[c].tgt = e
        /\ \A x \in Callers : x # c => caller'[x] = caller[x]
    BY <1>13, <2>1 DEF doExec, meet, waiting, Caller
  <2>4. ent[e].at = "select" /\ UNCHANGED <<entries, pass>>
    BY <1>13 DEF doExec, meet
  <2>5. Meeting(e, c)
    BY <2>2, <2>3, <2>4 DEF Meeting, Active, Served
  <2> QED
    BY <2>2, <2>3, <2>4, <2>5, TakenLinked
<1>14. ASSUME NEW e \in Entries, NEW c \in Callers, doDestroy(e, c) PROVE Linked'
  <2>1. ent \in [Entries -> Entry] /\ caller \in [Callers -> Caller]
    BY DEF TypeOK
  <2>2. /\ ent'[e].at \in Served /\ ent'[e].client = c /\ ent'[e].name = ent[e].name
        /\ \A x \in Entries : x # e => ent'[x] = ent[x]
    BY <1>14, <2>1 DEF doDestroy, begin, commit, stopTimer, Entry, Served
  <2>3. /\ caller[c].pc = "ask" /\ caller'[c].pc = "wait" /\ caller'[c].tgt = e
        /\ \A x \in Callers : x # c => caller'[x] = caller[x]
    BY <1>14, <2>1 DEF doDestroy, meet, waiting, Caller
  <2>4. ent[e].at = "select" /\ UNCHANGED <<entries, pass>>
    BY <1>14 DEF doDestroy, meet
  <2>5. Meeting(e, c)
    BY <2>2, <2>3, <2>4 DEF Meeting, Active, Served
  <2> QED
    BY <2>2, <2>3, <2>4, <2>5, TakenLinked
<1>15. ASSUME NEW e \in Entries, NEW w \in wakes, doIdle(e, w) PROVE Linked'
  <2>1. ent \in [Entries -> Entry]
    BY DEF TypeOK
  <2>2. ent[e].at = "select" /\ UNCHANGED <<entries, pass, caller>>
    BY <1>15 DEF doIdle
  <2>3. CASE UNCHANGED ent
    BY <2>2, <2>3, AloneLinked
  <2>4. CASE ent' = [ent EXCEPT ![e] = commit(begin(@, "stop", None), "Stopping")]
    <3>1. /\ ent'[e].at = "stop" /\ ent'[e].client = None /\ ent'[e].name = ent[e].name
          /\ \A x \in Entries : x # e => ent'[x] = ent[x]
      BY <2>1, <2>4 DEF begin, commit, Entry
    <3> QED
      BY <2>2, <3>1, AloneLinked
  <2> QED
    BY <1>15, <2>3, <2>4 DEF doIdle
<1>16. ASSUME NEW e \in Entries, doObserve(e) PROVE Linked'
  BY <1>16 DEF Linked, OneLifecyclePerName, TypeOK, Named, Served, Active, Calls, doObserve,
     armIdle, commit, stopTimer, Entry, Caller
<1>17. ASSUME NEW e \in Entries, execPrepared(e) PROVE Linked'
  BY <1>17 DEF Linked, OneLifecyclePerName, TypeOK, Named, Served, Active, Calls, execPrepared,
     commit, Entry, Caller
<1>18. ASSUME NEW e \in Entries, execPrepareFailed(e) PROVE Linked'
  <2>1. /\ ent'[e].at = "select" /\ ent'[e].name = ent[e].name
        /\ \A x \in Entries : x # e => ent'[x] = ent[x]
    BY <1>18 DEF TypeOK, execPrepareFailed, rest, commit, Entry
  <2>2. PICK c \in Callers : c = ent[e].client /\ caller[c].pc = "wait" /\ caller[c].tgt = e
    BY <1>18 DEF Linked, Served, execPrepareFailed
  <2>3. /\ caller'[c].pc = "rest"
        /\ \A x \in Callers : x # c => caller'[x] = caller[x]
    BY <1>18, <2>2 DEF TypeOK, execPrepareFailed, answer, Caller
  <2>4. UNCHANGED <<entries, pass>> /\ ent[e].at \in Served
    BY <1>18 DEF execPrepareFailed, Served
  <2>5. Meeting(e, c)
    BY <2>1, <2>2, <2>3, <2>4 DEF Meeting, Active, Calls, Served
  <2> QED
    BY <2>1, <2>2, <2>3, <2>4, <2>5, AnsweredLinked
<1>19. ASSUME NEW e \in Entries, execDone(e) PROVE Linked'
  <2>1. /\ ent'[e].at = "select" /\ ent'[e].name = ent[e].name
        /\ \A x \in Entries : x # e => ent'[x] = ent[x]
    BY <1>19 DEF TypeOK, execDone, rest, armIdle, commit, stopTimer, Entry
  <2>2. PICK c \in Callers : c = ent[e].client /\ caller[c].pc = "wait" /\ caller[c].tgt = e
    BY <1>19 DEF Linked, Served, execDone
  <2>3. /\ caller'[c].pc = "rest"
        /\ \A x \in Callers : x # c => caller'[x] = caller[x]
    BY <1>19, <2>2 DEF TypeOK, execDone, answer, Caller
  <2>4. UNCHANGED <<entries, pass>> /\ ent[e].at \in Served
    BY <1>19 DEF execDone, Served
  <2>5. Meeting(e, c)
    BY <2>1, <2>2, <2>3, <2>4 DEF Meeting, Active, Calls, Served
  <2> QED
    BY <2>1, <2>2, <2>3, <2>4, <2>5, AnsweredLinked
<1>20. ASSUME NEW e \in Entries, stopDone(e) PROVE Linked'
  <2>1. ent \in [Entries -> Entry]
    BY DEF TypeOK
  <2>2. /\ ent'[e].at = "select" /\ ent'[e].name = ent[e].name
        /\ \A x \in Entries : x # e => ent'[x] = ent[x]
    BY <1>20, <2>1 DEF stopDone, rest, commit, stopTimer, Entry
  <2>3. ent[e].at = "stop" /\ UNCHANGED <<entries, pass, caller>>
    BY <1>20 DEF stopDone
  <2> QED
    BY <2>2, <2>3, AloneLinked
<1>21. ASSUME NEW e \in Entries, stopFailed(e) PROVE Linked'
  <2>1. ent \in [Entries -> Entry]
    BY DEF TypeOK
  <2>2. /\ ent'[e].at = "select" /\ ent'[e].name = ent[e].name
        /\ \A x \in Entries : x # e => ent'[x] = ent[x]
    BY <1>21, <2>1 DEF stopFailed, rest, armIdle, commit, stopTimer, Entry
  <2>3. ent[e].at = "stop" /\ UNCHANGED <<entries, pass, caller>>
    BY <1>21 DEF stopFailed
  <2> QED
    BY <2>2, <2>3, AloneLinked
<1>22. ASSUME NEW e \in Entries, destroyDone(e) PROVE Linked'
  <2>1. /\ ent'[e].at = "exiting" /\ ent'[e].name = ent[e].name
        /\ \A x \in Entries : x # e => ent'[x] = ent[x]
    BY <1>22 DEF TypeOK, destroyDone, rest, commit, Entry
  <2>2. PICK c \in Callers : c = ent[e].client /\ caller[c].pc = "wait" /\ caller[c].tgt = e
    BY <1>22 DEF Linked, Served, destroyDone
  <2>3. /\ caller'[c].pc = "forget" /\ caller'[c].tgt = e
        /\ \A x \in Callers : x # c => caller'[x] = caller[x]
    BY <1>22, <2>2 DEF TypeOK, destroyDone, Caller
  <2>4. UNCHANGED <<entries, pass>> /\ ent[e].at \in Served
    BY <1>22 DEF destroyDone, Served
  <2>5. Meeting(e, c)
    BY <2>1, <2>2, <2>3, <2>4 DEF Meeting, Active, Calls, Served
  <2> QED
    BY <2>1, <2>2, <2>3, <2>4, <2>5, AnsweredLinked
<1>23. ASSUME NEW e \in Entries, destroyFailed(e) PROVE Linked'
  <2>1. /\ ent'[e].at = "select" /\ ent'[e].name = ent[e].name
        /\ \A x \in Entries : x # e => ent'[x] = ent[x]
    BY <1>23 DEF TypeOK, destroyFailed, rest, armIdle, commit, stopTimer, Entry
  <2>2. PICK c \in Callers : c = ent[e].client /\ caller[c].pc = "wait" /\ caller[c].tgt = e
    BY <1>23 DEF Linked, Served, destroyFailed
  <2>3. /\ caller'[c].pc = "rest"
        /\ \A x \in Callers : x # c => caller'[x] = caller[x]
    BY <1>23, <2>2 DEF TypeOK, destroyFailed, answer, Caller
  <2>4. UNCHANGED <<entries, pass>> /\ ent[e].at \in Served
    BY <1>23 DEF destroyFailed, Served
  <2>5. Meeting(e, c)
    BY <2>1, <2>2, <2>3, <2>4 DEF Meeting, Active, Calls, Served
  <2> QED
    BY <2>1, <2>2, <2>3, <2>4, <2>5, AnsweredLinked
<1>24. ASSUME NEW e \in Entries, exitDestroyed(e) PROVE Linked'
  <2>1. ent \in [Entries -> Entry]
    BY DEF TypeOK
  <2>2. /\ ent'[e].at = "gone" /\ ent'[e].name = ent[e].name
        /\ \A x \in Entries : x # e => ent'[x] = ent[x]
    BY <1>24, <2>1, ExitEffect DEF exitDestroyed
  <2>3. ent[e].at \in {"exiting", "select"} /\ UNCHANGED <<entries, pass, caller>>
    BY <1>24 DEF exitDestroyed
  <2> QED
    BY <2>2, <2>3, AloneLinked
<1>25. ASSUME NEW e \in Entries, exitShutdown(e) PROVE Linked'
  <2>1. ent \in [Entries -> Entry]
    BY DEF TypeOK
  <2>2. /\ ent'[e].at = "gone" /\ ent'[e].name = ent[e].name
        /\ \A x \in Entries : x # e => ent'[x] = ent[x]
    BY <1>25, <2>1, ExitEffect DEF exitShutdown
  <2>3. ent[e].at \in {"exiting", "select"} /\ UNCHANGED <<entries, pass, caller>>
    BY <1>25 DEF exitShutdown
  <2> QED
    BY <2>2, <2>3, AloneLinked
<1>26. ASSUME NEW e \in Entries, fire(e) PROVE Linked'
  BY <1>26 DEF Linked, OneLifecyclePerName, TypeOK, Named, Served, Active, Calls, fire, Entry,
     Caller
<1>27. ASSUME NEW e \in Entries, collect(e) PROVE Linked'
  BY <1>27 DEF Linked, OneLifecyclePerName, TypeOK, Named, Served, Active, Calls, collect, unborn,
     Entry, Caller
<1>28. ASSUME Tick PROVE Linked'
  BY <1>28 DEF Linked, OneLifecyclePerName, TypeOK, Named, Served, Active, Calls, Tick, Entry,
     Caller
<1>29. ASSUME closeBegin PROVE Linked'
  BY <1>29 DEF Linked, OneLifecyclePerName, TypeOK, Named, Served, Active, Calls, closeBegin,
     Entry, Caller
<1>30. ASSUME closeCollect PROVE Linked'
  BY <1>30 DEF Linked, OneLifecyclePerName, TypeOK, Named, Served, Active, Calls, closeCollect,
     Entry, Caller
<1>31. ASSUME closeBackend PROVE Linked'
  BY <1>31 DEF Linked, OneLifecyclePerName, TypeOK, Named, Served, Active, Calls, closeBackend,
     Entry, Caller
<1>32. CASE UNCHANGED vars
  BY <1>32 DEF vars, Linked, OneLifecyclePerName
<1> QED
  BY <1>1, <1>2, <1>3, <1>4, <1>5, <1>6, <1>7, <1>8, <1>9, <1>10, <1>11, <1>12, <1>13, <1>14,
     <1>15, <1>16, <1>17, <1>18, <1>19, <1>20, <1>21, <1>22, <1>23, <1>24, <1>25, <1>26, <1>27,
     <1>28, <1>29, <1>30, <1>31, <1>32 DEF Next, callerStep, entryStep

-----------------------------------------------------------------------------
(* Close *)

\* No step leaves Close, or the closed backend, with a goroutine unaccounted for.
LEMMA ClosingStep == TypeOK /\ Named /\ Linked /\ Closing /\ [Next]_vars => Closing'
<1> SUFFICES ASSUME TypeOK, Named, Linked, Closing, [Next]_vars PROVE Closing'
  OBVIOUS
<1> USE ConstantsAssumption
<1>1. ASSUME NEW c \in Callers, NEW n \in Names, Open(c, n) PROVE Closing'
  BY <1>1, OpenEffect DEF Closing, CommandsKeepTheBackend, AdoptedAs
<1>2. ASSUME NEW c \in Callers, NEW n \in Names, Destroy(c, n) PROVE Closing'
  BY <1>2, DestroyEffect DEF Closing, CommandsKeepTheBackend, AdoptedAs
<1>3. ASSUME NEW c \in Callers, closeHandle(c) PROVE Closing'
  BY <1>3 DEF Closing, CommandsKeepTheBackend, closeHandle
<1>4. ASSUME NEW c \in Callers, Exec(c) PROVE Closing'
  BY <1>4 DEF Closing, CommandsKeepTheBackend, Exec
<1>5. ASSUME NEW c \in Callers, Reconcile(c) PROVE Closing'
  BY <1>5 DEF Closing, CommandsKeepTheBackend, Reconcile
<1>6. ASSUME NEW c \in Callers, askGone(c) PROVE Closing'
  BY <1>6 DEF Closing, CommandsKeepTheBackend, askGone
<1>7. ASSUME NEW c \in Callers, forget(c) PROVE Closing'
  BY <1>7 DEF Closing, CommandsKeepTheBackend, forget
<1>8. ASSUME NEW c \in Callers, lockAdopt(c) PROVE Closing'
  BY <1>8 DEF Closing, CommandsKeepTheBackend, lockAdopt
<1>9. ASSUME NEW c \in Callers, listReturns(c) PROVE Closing'
  BY <1>9 DEF Closing, CommandsKeepTheBackend, listReturns, passFails
<1>10. ASSUME NEW c \in Callers, passAdopts(c) PROVE Closing'
  BY <1>10, PassAdoptsEffect DEF Closing, CommandsKeepTheBackend, AdoptedAs, passFails
<1>11. ASSUME NEW c \in Callers, passGone(c) PROVE Closing'
  BY <1>11 DEF Closing, CommandsKeepTheBackend, passGone, passFails
<1>12. ASSUME NEW c \in Callers, passDone(c) PROVE Closing'
  BY <1>12 DEF Closing, CommandsKeepTheBackend, passDone
<1>13. ASSUME NEW e \in Entries, NEW c \in Callers, doExec(e, c) PROVE Closing'
  BY <1>13 DEF Closing, CommandsKeepTheBackend, doExec, begin, commit, stopTimer, TypeOK, Entry,
     Active, Calls, meet
<1>14. ASSUME NEW e \in Entries, NEW c \in Callers, doDestroy(e, c) PROVE Closing'
  BY <1>14 DEF Closing, CommandsKeepTheBackend, doDestroy, begin, commit, stopTimer, TypeOK,
     Entry, Active, Calls, meet
<1>15. ASSUME NEW e \in Entries, NEW w \in wakes, doIdle(e, w) PROVE Closing'
  BY <1>15 DEF Closing, CommandsKeepTheBackend, doIdle, begin, commit, TypeOK, Entry, Active, Calls
<1>16. ASSUME NEW e \in Entries, doObserve(e) PROVE Closing'
  BY <1>16 DEF Closing, CommandsKeepTheBackend, doObserve, armIdle, commit, stopTimer, TypeOK,
     Entry, Active, Calls
<1>17. ASSUME NEW e \in Entries, execPrepared(e) PROVE Closing'
  BY <1>17 DEF Closing, CommandsKeepTheBackend, execPrepared, commit, TypeOK, Entry, Active, Calls
<1>18. ASSUME NEW e \in Entries, execPrepareFailed(e) PROVE Closing'
  BY <1>18 DEF Closing, CommandsKeepTheBackend, execPrepareFailed, rest, commit, TypeOK, Entry,
     Active, Calls
<1>19. ASSUME NEW e \in Entries, execDone(e) PROVE Closing'
  BY <1>19 DEF Closing, CommandsKeepTheBackend, execDone, rest, armIdle, commit, stopTimer,
     TypeOK, Entry, Active, Calls
<1>20. ASSUME NEW e \in Entries, stopDone(e) PROVE Closing'
  BY <1>20 DEF Closing, CommandsKeepTheBackend, stopDone, rest, commit, stopTimer, TypeOK, Entry,
     Active, Calls
<1>21. ASSUME NEW e \in Entries, stopFailed(e) PROVE Closing'
  BY <1>21 DEF Closing, CommandsKeepTheBackend, stopFailed, rest, armIdle, commit, stopTimer,
     TypeOK, Entry, Active, Calls
<1>22. ASSUME NEW e \in Entries, destroyDone(e) PROVE Closing'
  BY <1>22 DEF Closing, CommandsKeepTheBackend, destroyDone, rest, commit, TypeOK, Entry, Active,
     Calls
<1>23. ASSUME NEW e \in Entries, destroyFailed(e) PROVE Closing'
  BY <1>23 DEF Closing, CommandsKeepTheBackend, destroyFailed, rest, armIdle, commit, stopTimer,
     TypeOK, Entry, Active, Calls
<1>24. ASSUME NEW e \in Entries, exitDestroyed(e) PROVE Closing'
  BY <1>24 DEF Closing, CommandsKeepTheBackend, exitDestroyed, exit, unborn, wakesBut, TypeOK,
     Entry, Active, Calls
<1>25. ASSUME NEW e \in Entries, exitShutdown(e) PROVE Closing'
  BY <1>25 DEF Closing, CommandsKeepTheBackend, exitShutdown, exit, unborn, wakesBut, TypeOK,
     Entry, Active, Calls
<1>26. ASSUME NEW e \in Entries, fire(e) PROVE Closing'
  BY <1>26 DEF Closing, CommandsKeepTheBackend, fire, TypeOK, Entry, Active, Calls
<1>27. ASSUME NEW e \in Entries, collect(e) PROVE Closing'
  BY <1>27 DEF Closing, CommandsKeepTheBackend, collect, unborn, TypeOK, Entry, Active, Calls
<1>28. ASSUME Tick PROVE Closing'
  BY <1>28 DEF Closing, CommandsKeepTheBackend, Tick
<1>29. ASSUME closeBegin PROVE Closing'
  BY <1>29 DEF Closing, CommandsKeepTheBackend, closeBegin
<1>30. ASSUME closeCollect PROVE Closing'
  BY <1>30 DEF Closing, CommandsKeepTheBackend, closeCollect, Linked, OneLifecyclePerName, Named,
     Active, Calls
<1>31. ASSUME closeBackend PROVE Closing'
  BY <1>31 DEF Closing, CommandsKeepTheBackend, closeBackend, Active, Calls, TypeOK
<1>32. CASE UNCHANGED vars
  BY <1>32 DEF vars, Closing, CommandsKeepTheBackend
<1> QED
  BY <1>1, <1>2, <1>3, <1>4, <1>5, <1>6, <1>7, <1>8, <1>9, <1>10, <1>11, <1>12, <1>13, <1>14,
     <1>15, <1>16, <1>17, <1>18, <1>19, <1>20, <1>21, <1>22, <1>23, <1>24, <1>25, <1>26, <1>27,
     <1>28, <1>29, <1>30, <1>31, <1>32 DEF Next, callerStep, entryStep

-----------------------------------------------------------------------------
(* The idle clock *)

\* No step takes a resting Ready sandbox off the clock or makes a deadline early.
LEMMA OnClockStep == TypeOK /\ OnClock /\ [Next]_vars => OnClock'
<1> SUFFICES ASSUME TypeOK, OnClock, [Next]_vars PROVE OnClock'
  OBVIOUS
<1> USE ConstantsAssumption
<1>1. ASSUME NEW c \in Callers, NEW n \in Names, Open(c, n) PROVE OnClock'
  BY <1>1, OpenEffect DEF OnClock, ReadyIsOnTheClock, AdoptedAs, NoTime, TypeOK
<1>2. ASSUME NEW c \in Callers, NEW n \in Names, Destroy(c, n) PROVE OnClock'
  BY <1>2, DestroyEffect DEF OnClock, ReadyIsOnTheClock, AdoptedAs, NoTime, TypeOK
<1>3. ASSUME NEW c \in Callers, closeHandle(c) PROVE OnClock'
  BY <1>3 DEF OnClock, ReadyIsOnTheClock, closeHandle
<1>4. ASSUME NEW c \in Callers, Exec(c) PROVE OnClock'
  BY <1>4 DEF OnClock, ReadyIsOnTheClock, Exec
<1>5. ASSUME NEW c \in Callers, Reconcile(c) PROVE OnClock'
  BY <1>5 DEF OnClock, ReadyIsOnTheClock, Reconcile
<1>6. ASSUME NEW c \in Callers, askGone(c) PROVE OnClock'
  BY <1>6 DEF OnClock, ReadyIsOnTheClock, askGone
<1>7. ASSUME NEW c \in Callers, forget(c) PROVE OnClock'
  BY <1>7 DEF OnClock, ReadyIsOnTheClock, forget
<1>8. ASSUME NEW c \in Callers, lockAdopt(c) PROVE OnClock'
  BY <1>8 DEF OnClock, ReadyIsOnTheClock, lockAdopt
<1>9. ASSUME NEW c \in Callers, listReturns(c) PROVE OnClock'
  BY <1>9 DEF OnClock, ReadyIsOnTheClock, listReturns, passFails
<1>10. ASSUME NEW c \in Callers, passAdopts(c) PROVE OnClock'
  BY <1>10, PassAdoptsEffect DEF OnClock, ReadyIsOnTheClock, AdoptedAs, NoTime, passFails, TypeOK
<1>11. ASSUME NEW c \in Callers, passGone(c) PROVE OnClock'
  BY <1>11 DEF OnClock, ReadyIsOnTheClock, passGone, passFails
<1>12. ASSUME NEW c \in Callers, passDone(c) PROVE OnClock'
  BY <1>12 DEF OnClock, ReadyIsOnTheClock, passDone
<1>13. ASSUME NEW e \in Entries, NEW c \in Callers, doExec(e, c) PROVE OnClock'
  BY <1>13 DEF OnClock, ReadyIsOnTheClock, doExec, begin, commit, stopTimer, TypeOK, Entry,
     NoTime, Deadline, meet
<1>14. ASSUME NEW e \in Entries, NEW c \in Callers, doDestroy(e, c) PROVE OnClock'
  BY <1>14 DEF OnClock, ReadyIsOnTheClock, doDestroy, begin, commit, stopTimer, TypeOK, Entry,
     NoTime, Deadline, meet
<1>15. ASSUME NEW e \in Entries, NEW w \in wakes, doIdle(e, w) PROVE OnClock'
  BY <1>15 DEF OnClock, ReadyIsOnTheClock, doIdle, begin, commit, TypeOK, Entry, NoTime, Deadline
<1>16. ASSUME NEW e \in Entries, doObserve(e) PROVE OnClock'
  BY <1>16 DEF OnClock, ReadyIsOnTheClock, doObserve, armIdle, commit, stopTimer, TypeOK, Entry,
     NoTime, Deadline
<1>17. ASSUME NEW e \in Entries, execPrepared(e) PROVE OnClock'
  BY <1>17 DEF OnClock, ReadyIsOnTheClock, execPrepared, commit, TypeOK, Entry, NoTime, Deadline
<1>18. ASSUME NEW e \in Entries, execPrepareFailed(e) PROVE OnClock'
  BY <1>18 DEF OnClock, ReadyIsOnTheClock, execPrepareFailed, rest, commit, TypeOK, Entry, NoTime,
     Deadline
<1>19. ASSUME NEW e \in Entries, execDone(e) PROVE OnClock'
  BY <1>19 DEF OnClock, ReadyIsOnTheClock, execDone, rest, armIdle, commit, stopTimer, TypeOK,
     Entry, NoTime, Deadline
<1>20. ASSUME NEW e \in Entries, stopDone(e) PROVE OnClock'
  BY <1>20 DEF OnClock, ReadyIsOnTheClock, stopDone, rest, commit, stopTimer, TypeOK, Entry,
     NoTime, Deadline
<1>21. ASSUME NEW e \in Entries, stopFailed(e) PROVE OnClock'
  BY <1>21 DEF OnClock, ReadyIsOnTheClock, stopFailed, rest, armIdle, commit, stopTimer, TypeOK,
     Entry, NoTime, Deadline
<1>22. ASSUME NEW e \in Entries, destroyDone(e) PROVE OnClock'
  BY <1>22 DEF OnClock, ReadyIsOnTheClock, destroyDone, rest, commit, TypeOK, Entry, NoTime,
     Deadline
<1>23. ASSUME NEW e \in Entries, destroyFailed(e) PROVE OnClock'
  BY <1>23 DEF OnClock, ReadyIsOnTheClock, destroyFailed, rest, armIdle, commit, stopTimer,
     TypeOK, Entry, NoTime, Deadline
<1>24. ASSUME NEW e \in Entries, exitDestroyed(e) PROVE OnClock'
  BY <1>24 DEF OnClock, ReadyIsOnTheClock, exitDestroyed, exit, unborn, wakesBut, TypeOK, Entry,
     NoTime, Deadline
<1>25. ASSUME NEW e \in Entries, exitShutdown(e) PROVE OnClock'
  BY <1>25 DEF OnClock, ReadyIsOnTheClock, exitShutdown, exit, unborn, wakesBut, TypeOK, Entry,
     NoTime, Deadline
<1>26. ASSUME NEW e \in Entries, fire(e) PROVE OnClock'
  BY <1>26 DEF OnClock, ReadyIsOnTheClock, fire, TypeOK, Entry, NoTime, Deadline
<1>27. ASSUME NEW e \in Entries, collect(e) PROVE OnClock'
  BY <1>27 DEF OnClock, ReadyIsOnTheClock, collect, unborn, TypeOK, Entry, NoTime, Deadline
<1>28. ASSUME Tick PROVE OnClock'
  BY <1>28 DEF OnClock, ReadyIsOnTheClock, Tick, TypeOK, Entry, Deadline, NoTime
<1>29. ASSUME closeBegin PROVE OnClock'
  BY <1>29 DEF OnClock, ReadyIsOnTheClock, closeBegin
<1>30. ASSUME closeCollect PROVE OnClock'
  BY <1>30 DEF OnClock, ReadyIsOnTheClock, closeCollect
<1>31. ASSUME closeBackend PROVE OnClock'
  BY <1>31 DEF OnClock, ReadyIsOnTheClock, closeBackend
<1>32. CASE UNCHANGED vars
  BY <1>32 DEF vars, OnClock, ReadyIsOnTheClock
<1> QED
  BY <1>1, <1>2, <1>3, <1>4, <1>5, <1>6, <1>7, <1>8, <1>9, <1>10, <1>11, <1>12, <1>13, <1>14,
     <1>15, <1>16, <1>17, <1>18, <1>19, <1>20, <1>21, <1>22, <1>23, <1>24, <1>25, <1>26, <1>27,
     <1>28, <1>29, <1>30, <1>31, <1>32 DEF Next, callerStep, entryStep

-----------------------------------------------------------------------------
(* Adoption *)

\* Adopting a name keeps the cover.
LEMMA AdoptedCovered ==
    ASSUME TypeOK, Linked, Covered, NEW n \in Names, NEW e \in Entries, AdoptedAs(n, e),
           UNCHANGED <<box, adopted>>,
           pass'.at \in {"loop", "observe"} =>
               /\ pass.at \in {"loop", "observe"}
               /\ \A f \in pass.todo : f \in pass'.todo \/ f[1] = n,
           \A x \in Callers : caller'[x].pc = "forget" =>
               caller[x].pc = "forget" /\ caller'[x].tgt = caller[x].tgt
    PROVE  Covered'
<1>1. \A m \in Names : entries[m] # None => entries'[m] # None
  BY ConstantsAssumption DEF AdoptedAs
<1>2. entries'[n] # None
  BY ConstantsAssumption DEF AdoptedAs
<1>3. AdoptionIsComplete'
  BY <1>1 DEF AdoptionIsComplete, Covered
<1>4. (pass.at \in {"loop", "observe"} =>
           \A m \in Names : box[m] # "absent" =>
               entries[m] # None \/ \E f \in pass.todo : f[1] = m)'
  BY <1>1, <1>2 DEF Covered
<1>5. ASSUME NEW c \in Callers, NEW m \in Names, caller'[c].pc = "forget",
             entries'[m] = caller'[c].tgt
      PROVE  box'[m] = "absent"
  BY <1>5 DEF Covered, AdoptedAs, Linked
<1> QED
  BY <1>3, <1>4, <1>5 DEF Covered

\* So does a step in which a caller enters ask or a pass ends in an error.
LEMMA CallerCovered ==
    ASSUME Covered, UNCHANGED <<box, adopted, entries>>,
           pass' = pass \/ pass'.at \notin {"loop", "observe"},
           \A x \in Callers : caller'[x].pc = "forget" => caller'[x] = caller[x]
    PROVE  Covered'
  BY DEF Covered, AdoptionIsComplete

\* No step puts something on the backend, or takes a name off the map, behind the
\* manager's back.
LEMMA CoveredStep == TypeOK /\ Named /\ Linked /\ Covered /\ [Next]_vars => Covered'
<1> SUFFICES ASSUME TypeOK, Named, Linked, Covered, [Next]_vars PROVE Covered'
  OBVIOUS
<1> USE ConstantsAssumption
<1>1. ASSUME NEW c \in Callers, NEW n \in Names, Open(c, n) PROVE Covered'
  <2>1. PICK e \in Entries :
          /\ AdoptedAs(n, e)
          /\ caller' = [caller EXCEPT ![c] = [@ EXCEPT !.handle = e]]
          /\ UNCHANGED <<box, now, closer, known, wakes, adopted, pass>>
    BY <1>1, OpenEffect
  <2>2. \A x \in Callers : caller'[x].pc = caller[x].pc /\ caller'[x].tgt = caller[x].tgt
    BY <2>1 DEF TypeOK, Caller
  <2> QED
    BY <2>1, <2>2, AdoptedCovered
<1>2. ASSUME NEW c \in Callers, NEW n \in Names, Destroy(c, n) PROVE Covered'
  <2>1. PICK e \in Entries :
          /\ AdoptedAs(n, e)
          /\ caller' = asking(c, e, "destroy")
          /\ UNCHANGED <<box, now, closer, known, wakes, adopted, pass>>
    BY <1>2, DestroyEffect
  <2>2. caller \in [Callers -> Caller]
    BY DEF TypeOK
  <2>3. \A x \in Callers : caller'[x].pc = "forget" => caller'[x] = caller[x]
    BY <2>1, <2>2, AskingEffect
  <2> QED
    BY <2>1, <2>3, AdoptedCovered
<1>3. ASSUME NEW c \in Callers, closeHandle(c) PROVE Covered'
  BY <1>3 DEF Covered, AdoptionIsComplete, Linked, OneLifecyclePerName, Named, TypeOK,
     closeHandle, Active, Calls, Caller
<1>4. ASSUME NEW c \in Callers, Exec(c) PROVE Covered'
  BY <1>4 DEF Covered, AdoptionIsComplete, Linked, OneLifecyclePerName, Named, TypeOK, Exec,
     asking, Active, Calls, ready, Caller
<1>5. ASSUME NEW c \in Callers, Reconcile(c) PROVE Covered'
  BY <1>5 DEF Covered, AdoptionIsComplete, Linked, OneLifecyclePerName, Named, TypeOK, Reconcile,
     Active, Calls, ready, Caller
<1>6. ASSUME NEW c \in Callers, askGone(c) PROVE Covered'
  BY <1>6 DEF Covered, AdoptionIsComplete, Linked, OneLifecyclePerName, Named, TypeOK, askGone,
     answer, Active, Calls, Caller
<1>7. ASSUME NEW c \in Callers, forget(c) PROVE Covered'
  BY <1>7 DEF Covered, AdoptionIsComplete, Linked, OneLifecyclePerName, Named, TypeOK, forget,
     answer, Active, Calls, Caller
<1>8. ASSUME NEW c \in Callers, lockAdopt(c) PROVE Covered'
  <2>1. pass' = pass \/ pass'.at \notin {"loop", "observe"}
    BY <1>8 DEF lockAdopt, NoPass
  <2>2. \A x \in Callers : caller'[x].pc = "forget" => caller'[x] = caller[x]
    <3>1. caller \in [Callers -> Caller]
      BY DEF TypeOK
    <3>2. CASE caller[c].op = "exec" /\ adopted
      BY <1>8, <3>1, <3>2, AskingEffect DEF lockAdopt
    <3>3. CASE ~(caller[c].op = "exec" /\ adopted)
      BY <1>8, <3>1, <3>3 DEF lockAdopt, Caller
    <3> QED
      BY <3>2, <3>3
  <2> QED
    BY <1>8, <2>1, <2>2, CallerCovered DEF lockAdopt
<1>9. ASSUME NEW c \in Callers, listReturns(c) PROVE Covered'
  <2>1. CASE passFails(c)
    <3>1. caller \in [Callers -> Caller]
      BY DEF TypeOK
    <3>2. \A x \in Callers : caller'[x].pc = "forget" => caller'[x] = caller[x]
      BY <2>1, <3>1, AfterPassEffect DEF passFails
    <3>3. pass'.at = "free"
      BY <2>1 DEF passFails, NoPass
    <3> QED
      BY <1>9, <2>1, <3>2, <3>3, CallerCovered DEF passFails, listReturns
  <2>2. CASE ~passFails(c)
    <3>1. /\ pass'.todo = {f \in Names \X {"stopped", "running"} : box[f[1]] = f[2]}
          /\ UNCHANGED <<box, adopted, entries, caller>>
      BY <1>9, <2>2 DEF listReturns, TypeOK, Pass
    <3>2. ASSUME NEW n \in Names, box[n] # "absent" PROVE \E f \in pass'.todo : f[1] = n
      <4>1. <<n, box[n]>> \in Names \X {"stopped", "running"}
        BY <3>2 DEF TypeOK, Boxes
      <4> QED
        BY <3>1, <4>1
    <3> QED
      BY <3>1, <3>2 DEF Covered, AdoptionIsComplete
  <2> QED
    BY <2>1, <2>2
<1>10. ASSUME NEW c \in Callers, passAdopts(c) PROVE Covered'
  <2>1. CASE passFails(c)
    <3>1. caller \in [Callers -> Caller]
      BY DEF TypeOK
    <3>2. \A x \in Callers : caller'[x].pc = "forget" => caller'[x] = caller[x]
      BY <2>1, <3>1, AfterPassEffect DEF passFails
    <3>3. pass'.at = "free"
      BY <2>1 DEF passFails, NoPass
    <3> QED
      BY <1>10, <2>1, <3>2, <3>3, CallerCovered, PassAdoptsEffect DEF passFails
  <2>2. ASSUME NEW f \in pass.todo, NEW e \in Entries, f[1] \in Names, AdoptedAs(f[1], e),
               pass'.todo = pass.todo \ {f}, pass.at = "loop", UNCHANGED caller,
               UNCHANGED <<box, now, closer, known, wakes, adopted>>
        PROVE  Covered'
    BY <2>2, AdoptedCovered
  <2> QED
    BY <1>10, <2>1, <2>2, PassAdoptsEffect
<1>11. ASSUME NEW c \in Callers, passGone(c) PROVE Covered'
  BY <1>11, AfterPassEffect DEF Covered, AdoptionIsComplete, Linked, OneLifecyclePerName, Named,
     TypeOK, passGone, passFails, afterPass, asking, answer, NoPass, Active, Calls, Caller
<1>12. ASSUME NEW c \in Callers, passDone(c) PROVE Covered'
  BY <1>12, AfterPassEffect DEF Covered, AdoptionIsComplete, Linked, OneLifecyclePerName, Named,
     TypeOK, passDone, afterPass, asking, answer, NoPass, Active, Calls, Caller
<1>13. ASSUME NEW e \in Entries, NEW c \in Callers, doExec(e, c) PROVE Covered'
  BY <1>13 DEF Covered, AdoptionIsComplete, Linked, OneLifecyclePerName, Named, TypeOK, doExec,
     meet, waiting, begin, commit, stopTimer, Active, Calls, Caller
<1>14. ASSUME NEW e \in Entries, NEW c \in Callers, doDestroy(e, c) PROVE Covered'
  BY <1>14 DEF Covered, AdoptionIsComplete, Linked, OneLifecyclePerName, Named, TypeOK, doDestroy,
     meet, waiting, begin, commit, stopTimer, Active, Calls, Caller
<1>15. ASSUME NEW e \in Entries, NEW w \in wakes, doIdle(e, w) PROVE Covered'
  BY <1>15 DEF Covered, AdoptionIsComplete, Linked, OneLifecyclePerName, Named, TypeOK, doIdle,
     begin, commit, Active, Calls, Caller
<1>16. ASSUME NEW e \in Entries, doObserve(e) PROVE Covered'
  BY <1>16 DEF Covered, AdoptionIsComplete, Linked, OneLifecyclePerName, Named, TypeOK, doObserve,
     armIdle, commit, stopTimer, Active, Calls, Caller
<1>17. ASSUME NEW e \in Entries, execPrepared(e) PROVE Covered'
  <2>1. ent[e].name \in Names /\ entries[ent[e].name] = e
    BY <1>17 DEF Named, Linked, OneLifecyclePerName, execPrepared, Active, Calls
  <2>2. \A x \in Callers : caller[x].pc = "forget" => caller[x].tgt # e
    BY <1>17 DEF Linked, execPrepared
  <2>3. /\ box' = [box EXCEPT ![ent[e].name] = "running"]
        /\ UNCHANGED <<entries, adopted, pass, caller>>
    BY <1>17 DEF execPrepared
  <2>4. e # None
    BY ConstantsAssumption
  <2> QED
    BY <2>1, <2>2, <2>3, <2>4 DEF Covered, AdoptionIsComplete, TypeOK
<1>18. ASSUME NEW e \in Entries, execPrepareFailed(e) PROVE Covered'
  BY <1>18 DEF Covered, AdoptionIsComplete, Linked, OneLifecyclePerName, Named, TypeOK,
     execPrepareFailed, prepareLeaves, rest, commit, answer, Active, Calls, Caller
<1>19. ASSUME NEW e \in Entries, execDone(e) PROVE Covered'
  BY <1>19 DEF Covered, AdoptionIsComplete, Linked, OneLifecyclePerName, Named, TypeOK, execDone,
     rest, armIdle, commit, stopTimer, answer, Active, Calls, Caller
<1>20. ASSUME NEW e \in Entries, stopDone(e) PROVE Covered'
  BY <1>20 DEF Covered, AdoptionIsComplete, Linked, OneLifecyclePerName, Named, TypeOK, stopDone,
     stopped, rest, commit, stopTimer, Active, Calls, Caller
<1>21. ASSUME NEW e \in Entries, stopFailed(e) PROVE Covered'
  BY <1>21 DEF Covered, AdoptionIsComplete, Linked, OneLifecyclePerName, Named, TypeOK,
     stopFailed, stopped, rest, armIdle, commit, stopTimer, Active, Calls, Caller
<1>22. ASSUME NEW e \in Entries, destroyDone(e) PROVE Covered'
  <2>1. PICK c \in Callers : c = ent[e].client /\ caller[c].tgt = e
    BY <1>22 DEF Linked, Served, destroyDone
  <2>2. /\ caller'[c].tgt = e
        /\ \A x \in Callers : x # c => caller'[x] = caller[x]
    BY <1>22, <2>1 DEF TypeOK, destroyDone, Caller
  <2>3. ent[e].name \in Names /\ \A n \in Names : entries[n] = e => n = ent[e].name
    BY <1>22 DEF Named, Linked, destroyDone
  <2>4. /\ box' = [box EXCEPT ![ent[e].name] = "absent"]
        /\ UNCHANGED <<entries, adopted, pass>>
    BY <1>22 DEF destroyDone
  <2> QED
    BY <2>2, <2>3, <2>4 DEF Covered, AdoptionIsComplete, TypeOK
<1>23. ASSUME NEW e \in Entries, destroyFailed(e) PROVE Covered'
  BY <1>23 DEF Covered, AdoptionIsComplete, Linked, OneLifecyclePerName, Named, TypeOK,
     destroyFailed, stopped, rest, armIdle, commit, stopTimer, answer, Active, Calls, Caller
<1>24. ASSUME NEW e \in Entries, exitDestroyed(e) PROVE Covered'
  BY <1>24 DEF Covered, AdoptionIsComplete, Linked, OneLifecyclePerName, Named, TypeOK,
     exitDestroyed, exit, unborn, wakesBut, Active, Calls, Caller
<1>25. ASSUME NEW e \in Entries, exitShutdown(e) PROVE Covered'
  BY <1>25 DEF Covered, AdoptionIsComplete, Linked, OneLifecyclePerName, Named, TypeOK,
     exitShutdown, exit, unborn, wakesBut, Active, Calls, Caller
<1>26. ASSUME NEW e \in Entries, fire(e) PROVE Covered'
  BY <1>26 DEF Covered, AdoptionIsComplete, Linked, OneLifecyclePerName, Named, TypeOK, fire,
     Active, Calls, Caller
<1>27. ASSUME NEW e \in Entries, collect(e) PROVE Covered'
  BY <1>27 DEF Covered, AdoptionIsComplete, Linked, OneLifecyclePerName, Named, TypeOK, collect,
     unborn, Active, Calls, Caller
<1>28. ASSUME Tick PROVE Covered'
  BY <1>28 DEF Covered, AdoptionIsComplete, Linked, OneLifecyclePerName, Named, TypeOK, Tick,
     Active, Calls, Caller
<1>29. ASSUME closeBegin PROVE Covered'
  BY <1>29 DEF Covered, AdoptionIsComplete, Linked, OneLifecyclePerName, Named, TypeOK,
     closeBegin, Active, Calls, Caller
<1>30. ASSUME closeCollect PROVE Covered'
  BY <1>30 DEF Covered, AdoptionIsComplete, Linked, OneLifecyclePerName, Named, TypeOK,
     closeCollect, Active, Calls, Caller
<1>31. ASSUME closeBackend PROVE Covered'
  BY <1>31 DEF Covered, AdoptionIsComplete, Linked, OneLifecyclePerName, Named, TypeOK,
     closeBackend, Active, Calls, Caller
<1>32. CASE UNCHANGED vars
  BY <1>32 DEF vars, Covered, AdoptionIsComplete
<1> QED
  BY <1>1, <1>2, <1>3, <1>4, <1>5, <1>6, <1>7, <1>8, <1>9, <1>10, <1>11, <1>12, <1>13, <1>14,
     <1>15, <1>16, <1>17, <1>18, <1>19, <1>20, <1>21, <1>22, <1>23, <1>24, <1>25, <1>26, <1>27,
     <1>28, <1>29, <1>30, <1>31, <1>32 DEF Next, callerStep, entryStep

-----------------------------------------------------------------------------
(* The theorems *)

IInv == TypeOK /\ Named /\ Linked /\ Closing /\ OnClock /\ Covered

\* The invariant holds before anything ran, whatever the backend holds.
LEMMA InitIInv == Init => IInv
<1> SUFFICES ASSUME Init PROVE IInv
  OBVIOUS
<1> USE ConstantsAssumption DEF Init
<1>1. TypeOK
  <2>1. ent \in [Entries -> Entry]
    BY UnbornType
  <2>2. caller \in [Callers -> Caller]
    BY DEF Caller
  <2>3. /\ box \in [Names -> Boxes] /\ now \in 0..MaxTime /\ known \subseteq Entries
        /\ wakes \subseteq Entries \X Nat
        /\ closer \in {"open", "closing", "waiting", "closed"}
        /\ entries \in [Names -> Entries \cup {None}]
    OBVIOUS
  <2>4. adopted \in BOOLEAN
    BY Zenon
  <2> QED
    BY <2>1, <2>2, <2>3, <2>4, NoPassType DEF TypeOK
<1>2. \A e \in Entries : /\ ent[e].at = "unborn" /\ ent[e].state = "Unknown"
                         /\ ent[e].lastExec = NoTime /\ ent[e].due = NoTime
  BY DEF unborn
<1>3. pass.by = None /\ pass.at = "free"
  BY DEF NoPass
<1>4. Named /\ Linked /\ Closing
  BY <1>2, <1>3
     DEF Named, Linked, Closing, OneLifecyclePerName, CommandsKeepTheBackend, Served, Active,
         Calls
<1>5. OnClock
  BY <1>2 DEF OnClock, ReadyIsOnTheClock, NoTime
<1>6. Covered
  BY <1>3 DEF Covered, AdoptionIsComplete
<1> QED
  BY <1>1, <1>4, <1>5, <1>6 DEF IInv

\* Every step preserves it.
LEMMA NextIInv == IInv /\ [Next]_vars => IInv'
<1> SUFFICES ASSUME IInv, [Next]_vars PROVE IInv'
  OBVIOUS
<1>1. TypeOK' /\ Named'
  BY TypeStep, NamedStep DEF IInv
<1>2. Linked'
  BY <1>1, LinkedStep DEF IInv
<1>3. Closing' /\ OnClock' /\ Covered'
  BY ClosingStep, OnClockStep, CoveredStep DEF IInv
<1> QED
  BY <1>1, <1>2, <1>3 DEF IInv

\* The inductive invariant holds throughout every execution.
THEOREM Invariance == Spec => []IInv
  BY InitIInv, NextIInv, PTL DEF Spec

\* The state of the manager, its entries and its callers stays well formed.
THEOREM TypeCorrect == Spec => []TypeOK
<1>1. IInv => TypeOK
  BY DEF IInv
<1> QED
  BY <1>1, Invariance, PTL

\* However many callers open, destroy and adopt a name at once, at most one
\* goroutine can call the backend for it: the one the name resolves to.
THEOREM OneLifecycle == Spec => []OneLifecyclePerName
<1>1. IInv => OneLifecyclePerName
  BY DEF IInv, Linked
<1> QED
  BY <1>1, Invariance, PTL

\* No goroutine is inside, or can start, a backend call once Close has closed
\* the backend.
THEOREM BackendOutlivesGoroutines == Spec => []CommandsKeepTheBackend
<1>1. IInv => CommandsKeepTheBackend
  BY DEF IInv, Closing
<1> QED
  BY <1>1, Invariance, PTL

\* Compute the manager believes to be running never falls off the idle clock.
THEOREM StaysOnTheClock == Spec => []ReadyIsOnTheClock
<1>1. IInv => ReadyIsOnTheClock
  BY DEF IInv, OnClock
<1> QED
  BY <1>1, Invariance, PTL

\* An idle stop never comes before a full idle window has passed since the last
\* command.
THEOREM NeverStopsEarly == Spec => []NoEarlyStop
<1>1. IInv => NoEarlyStop
  BY DEF IInv, OnClock, NoEarlyStop
<1> QED
  BY <1>1, Invariance, PTL

\* A caller past the rendezvous always has a goroutine working for it.
THEOREM RequestsInHand == Spec => []EveryTakenRequestIsInHand
<1>1. IInv => EveryTakenRequestIsInHand
  BY DEF IInv, Linked, EveryTakenRequestIsInHand, Served, Calls
<1> QED
  BY <1>1, Invariance, PTL

\* After a successful pass there is nothing on the backend the manager does not
\* know of.
THEOREM AdoptionCompletes == Spec => []AdoptionIsComplete
<1>1. IInv => AdoptionIsComplete
  BY DEF IInv, Covered
<1> QED
  BY <1>1, Invariance, PTL

\* Nothing but the goroutine its name resolves to creates a sandbox, so what
\* Destroy removed stays removed until the name is used again.
THEOREM NothingResurrects == Spec => OnlyTheLiveEntryCreates
<1> DEFINE Created(n) == box[n] = "absent" /\ box'[n] # "absent"
           ByLive(n) == entries[n] # None /\ ent[entries[n]].at = "prepare"
<1>1. ASSUME IInv, [Next]_vars, NEW n \in Names, Created(n) PROVE ByLive(n)
  <2> USE DEF Created, ByLive
  <2>1. PICK e \in Entries : execPrepared(e) \/ execPrepareFailed(e)
    <3>1. ASSUME NEW c \in Callers, callerStep(c) PROVE FALSE
      BY <1>1, <3>1
         DEF callerStep, Open, Destroy, closeHandle, Exec, Reconcile, askGone, forget, lockAdopt,
             listReturns, passAdopts, passGone, passDone
    <3>2. ASSUME NEW e \in Entries, entryStep(e), ~execPrepared(e), ~execPrepareFailed(e)
          PROVE  FALSE
      BY <1>1, <3>2
         DEF entryStep, doExec, doDestroy, doIdle, doObserve, execDone, stopDone, stopFailed,
             destroyDone, destroyFailed, exitDestroyed, exitShutdown, fire, collect, stopped,
             IInv, TypeOK
    <3> QED
      BY <1>1, <3>1, <3>2 DEF Next, Tick, closeBegin, closeCollect, closeBackend, vars
  <2>2. ent[e].at = "prepare" /\ n = ent[e].name
    BY <1>1, <2>1 DEF execPrepared, execPrepareFailed, IInv, TypeOK
  <2> QED
    BY <1>1, <2>2, ConstantsAssumption DEF IInv, Linked, OneLifecyclePerName, Active, Calls
<1>2. IInv /\ [Next]_vars =>
        [\A n \in Names :
           box[n] = "absent" /\ box'[n] # "absent" =>
               entries[n] # None /\ ent[entries[n]].at = "prepare"]_vars
  BY <1>1
<1> QED
  BY <1>2, Invariance, PTL DEF Spec, OnlyTheLiveEntryCreates
-----------------------------------------------------------------------------
(* The lifecycle *)

\* What the backend sees of entry r.
Shown(r) == IF r.at \in Calls THEN [kind |-> r.at, by |-> r.client] ELSE Lifecycle!NoCall

\* What the backend sees under a name is what it sees of its entry.
LEMMA CallsShown ==
    ASSUME NEW n \in Names
    PROVE  calls[n] = IF entries[n] = None THEN Lifecycle!NoCall ELSE Shown(ent[entries[n]])
  BY DEF calls, Shown, Lifecycle!NoCall

\* A call that is shown is none but itself.
LEMMA ShownIsACall ==
    ASSUME NEW k \in Calls, NEW c PROVE [kind |-> k, by |-> c] # Lifecycle!NoCall
<1>1. [kind |-> k, by |-> c].kind # Lifecycle!NoCall.kind
  BY DEF Lifecycle!NoCall, Calls
<1> QED
  BY <1>1

\* A name that leaves the map had no call, and an entry that no name resolves to makes
\* none: as long as the goroutines at the names are where they were, the backend sees
\* nothing.
LEMMA NothingShown ==
    ASSUME \A n \in Names :
               \/ entries'[n] = entries[n] /\ (entries[n] # None =>
                      Shown(ent[entries[n]])' = Shown(ent[entries[n]]))
               \/ /\ entries[n] = None \/ Shown(ent[entries[n]]) = Lifecycle!NoCall
                  /\ entries'[n] = None \/ Shown(ent[entries[n]])' = Lifecycle!NoCall
    PROVE  UNCHANGED calls
<1>1. ASSUME NEW n \in Names PROVE calls'[n] = calls[n]
  <2>1. calls'[n] = IF entries'[n] = None THEN Lifecycle!NoCall ELSE Shown(ent[entries[n]])'
    BY DEF calls, Shown, Lifecycle!NoCall
  <2> QED
    BY <2>1, CallsShown
<1>2. calls = [n \in Names |-> calls[n]] /\ calls' = [n \in Names |-> calls'[n]]
  BY DEF calls
<1> QED
  BY <1>1, <1>2

\* One goroutine moves, and it is the one its name resolves to: the backend sees it
\* there and nothing else.
LEMMA OneMoves ==
    ASSUME IInv, NEW e \in Entries, ent[e].at \in Active, UNCHANGED entries,
           \A x \in Entries : x # e => ent'[x] = ent[x]
    PROVE  /\ ent[e].name \in Names
           /\ calls[ent[e].name] = Shown(ent[e])
           /\ calls' = [calls EXCEPT ![ent[e].name] = Shown(ent[e])']
<1> DEFINE n == ent[e].name
<1>1. n \in Names /\ entries[n] = e /\ e # None
  BY ConstantsAssumption DEF IInv, Named, Linked, OneLifecyclePerName, Active, Calls
<1>2. \A m \in Names : entries[m] \in Entries \cup {None}
  BY DEF IInv, TypeOK
<1>3. \A m \in Names \ {n} : entries[m] # None => entries[m] # e /\ ent'[entries[m]] = ent[entries[m]]
  BY <1>1, <1>2 DEF IInv, Linked
<1>4. calls[n] = Shown(ent[e])
  BY <1>1, CallsShown
<1>5. calls'[n] = Shown(ent[e])'
  BY <1>1 DEF calls, Shown, Lifecycle!NoCall
<1>6. ASSUME NEW m \in Names, m # n PROVE calls'[m] = calls[m]
  BY <1>3, <1>6 DEF calls
<1>7. calls = [m \in Names |-> calls[m]] /\ calls' = [m \in Names |-> calls'[m]]
  BY DEF calls
<1> HIDE DEF n
<1>8. calls' = [calls EXCEPT ![n] = Shown(ent[e])']
  BY <1>1, <1>5, <1>6, <1>7
<1> QED
  BY <1>1, <1>4, <1>8 DEF n

\* Nothing that the backend or a caller would notice has happened.
Quiet == UNCHANGED <<box, calls>> /\ (closer' = "closed" <=> closer = "closed")

\* What a step looks like from there.
Follows == [Lifecycle!Next]_Lifecycle!lifecycle

LEMMA QuietFollows == ASSUME Quiet PROVE Follows
<1>1. (closer' = "closed") = (closer = "closed")
  BY DEF Quiet
<1> QED
  BY <1>1 DEF Quiet, Follows, Lifecycle!lifecycle

\* An entry that was found or made is in none of its calls.
LEMMA AdoptedQuiet ==
    ASSUME IInv, NEW n \in Names, NEW e \in Entries, AdoptedAs(n, e), UNCHANGED <<box, closer>>
    PROVE  Quiet
<1>1. \A m \in Names : entries[m] \in Entries \cup {None}
  BY DEF IInv, TypeOK
<1>2. \A m \in Names : entries[m] # None => ent[entries[m]].at # "unborn"
  BY DEF IInv, Linked
<1>3. CASE entries[n] = e /\ ent'[e] = ent[e]
  <2>1. \A m \in Names : entries'[m] = entries[m]
    BY <1>1, <1>3 DEF AdoptedAs
  <2>2. \A m \in Names : entries[m] # None => ent'[entries[m]] = ent[entries[m]]
    BY <1>1, <1>3 DEF AdoptedAs
  <2> QED
    BY <2>1, <2>2, NothingShown DEF Quiet, Shown
<1>4. CASE entries[n] = None /\ ent[e].at = "unborn" /\ ent'[e].at = "select"
  <2>1. \A m \in Names : m # n => entries'[m] = entries[m]
    BY DEF AdoptedAs
  <2>2. \A m \in Names : entries[m] # None => ent'[entries[m]] = ent[entries[m]]
    BY <1>1, <1>2, <1>4 DEF AdoptedAs
  <2>3. Shown(ent[entries[n]])' = Lifecycle!NoCall
    BY <1>4 DEF AdoptedAs, Shown, Calls
  <2> QED
    BY <1>4, <2>1, <2>2, <2>3, NothingShown DEF Quiet, Shown
<1> QED
  BY <1>3, <1>4 DEF AdoptedAs

\* No caller calls the backend itself, and a name is forgotten when its call is over.
LEMMA CallerQuiet ==
    ASSUME IInv, NEW c \in Callers, callerStep(c)
    PROVE  Quiet
<1>t. TypeOK
  BY DEF IInv
<1>1. ASSUME NEW n \in Names, Open(c, n) PROVE Quiet
  BY <1>t, <1>1, OpenEffect, AdoptedQuiet
<1>2. ASSUME NEW n \in Names, Destroy(c, n) PROVE Quiet
  BY <1>t, <1>2, DestroyEffect, AdoptedQuiet
<1>3. ASSUME UNCHANGED <<box, closer, entries, ent>> PROVE Quiet
  BY <1>3 DEF Quiet, calls
<1>4. CASE forget(c)
  <2>1. caller[c].tgt \in Entries /\ ent[caller[c].tgt].at \in {"exiting", "gone"}
    BY <1>4 DEF forget, IInv, Linked
  <2>2. Shown(ent[caller[c].tgt]) = Lifecycle!NoCall
    BY <2>1 DEF Shown, Calls
  <2>3. \A n \in Names : entries'[n] = IF entries[n] = caller[c].tgt THEN None ELSE entries[n]
    BY <1>4 DEF forget
  <2>4. UNCHANGED <<box, closer, ent>>
    BY <1>4 DEF forget
  <2>5. \A n \in Names : entries[n] # caller[c].tgt /\ entries[n] # None =>
            Shown(ent[entries[n]])' = Shown(ent[entries[n]])
    BY <2>3, <2>4 DEF Shown
  <2> QED
    BY <2>2, <2>3, <2>4, <2>5, NothingShown DEF Quiet
<1>5. CASE passAdopts(c)
  <2>1. CASE passFails(c)
    BY <1>3, <1>5, <2>1 DEF passAdopts, passFails
  <2>2. ASSUME NEW f \in pass.todo, NEW e \in Entries, f[1] \in Names, AdoptedAs(f[1], e)
        PROVE  Quiet
    BY <1>5, <2>2, AdoptedQuiet DEF passAdopts
  <2> QED
    BY <1>t, <1>5, <2>1, <2>2, PassAdoptsEffect
<1>6. CASE closeHandle(c) \/ Exec(c) \/ Reconcile(c) \/ askGone(c) \/ lockAdopt(c)
           \/ listReturns(c) \/ passGone(c) \/ passDone(c)
  BY <1>3, <1>6
     DEF closeHandle, Exec, Reconcile, askGone, lockAdopt, listReturns, passGone, passDone, passFails
<1> QED
  BY <1>1, <1>2, <1>4, <1>5, <1>6 DEF callerStep

\* A goroutine that is in its select makes no call, before or after.
LEMMA RestingQuiet ==
    ASSUME IInv, NEW e \in Entries, UNCHANGED <<box, closer, entries>>,
           \A x \in Entries : x # e => ent'[x] = ent[x],
           Shown(ent[e])' = Shown(ent[e])
    PROVE  Quiet
<1>1. \A m \in Names : entries[m] \in Entries \cup {None}
  BY DEF IInv, TypeOK
<1>2. ASSUME NEW m \in Names, entries[m] # None
      PROVE  Shown(ent[entries[m]])' = Shown(ent[entries[m]])
  <2>1. CASE entries[m] = e
    BY <2>1 DEF Shown
  <2>2. CASE entries[m] # e
    BY <1>1, <1>2, <2>2 DEF Shown
  <2> QED
    BY <2>1, <2>2
<1> QED
  BY <1>2, NothingShown DEF Quiet

\* Observations, wakeups that come late, timers, exits and the runtime are not seen.
LEMMA EntryQuiet ==
    ASSUME IInv, NEW e \in Entries,
           \/ doObserve(e) \/ exitDestroyed(e) \/ exitShutdown(e) \/ fire(e) \/ collect(e)
           \/ \E w \in wakes : doIdle(e, w) /\ UNCHANGED ent
    PROVE  Quiet
<1>1. ent \in [Entries -> Entry]
  BY DEF IInv, TypeOK
<1>2. UNCHANGED <<box, closer, entries>>
  BY DEF doObserve, exitDestroyed, exitShutdown, fire, collect, doIdle
<1>3. CASE doObserve(e)
  <2>1. ent[e].at = "select" /\ ent'[e].at = "select"
    BY <1>1, <1>3 DEF doObserve, armIdle, stopTimer, commit, Entry
  <2>2. \A x \in Entries : x # e => ent'[x] = ent[x]
    BY <1>1, <1>3 DEF doObserve
  <2> QED
    BY <1>2, <2>1, <2>2, RestingQuiet DEF Shown, Calls
<1>4. CASE exitDestroyed(e) \/ exitShutdown(e) \/ collect(e)
  <2>0. unborn.at = "unborn" /\ \A w : exit(ent[e], w).at = "gone"
    BY DEF unborn, exit
  <2>1. ent[e].at \in {"exiting", "select", "gone"} /\ ent'[e].at \in {"gone", "unborn"}
    BY <1>1, <1>4, <2>0 DEF exitDestroyed, exitShutdown, collect
  <2>2. \A x \in Entries : x # e => ent'[x] = ent[x]
    BY <1>1, <1>4 DEF exitDestroyed, exitShutdown, collect
  <2> QED
    BY <1>2, <2>1, <2>2, RestingQuiet DEF Shown, Calls
<1>5. CASE fire(e)
  <2>1. ent'[e].at = ent[e].at /\ ent'[e].client = ent[e].client
    BY <1>1, <1>5 DEF fire, Entry
  <2>2. \A x \in Entries : x # e => ent'[x] = ent[x]
    BY <1>1, <1>5 DEF fire
  <2> QED
    BY <1>2, <2>1, <2>2, RestingQuiet DEF Shown
<1>6. CASE UNCHANGED ent
  BY <1>2, <1>6 DEF Quiet, calls
<1> QED
  BY <1>3, <1>4, <1>5, <1>6

\* A call that a caller asked for, of its own: it waits for no other.
LEMMA ServeFollows ==
    ASSUME IInv, NEW e \in Entries, NEW c \in Callers, doExec(e, c) \/ doDestroy(e, c)
    PROVE  Follows
<1> DEFINE n == ent[e].name
<1>1. ent \in [Entries -> Entry]
  BY DEF IInv, TypeOK
<1>2. /\ ent[e].at = "select" /\ caller[c].pc = "ask"
      /\ UNCHANGED <<box, closer, entries>>
      /\ \A x \in Entries : x # e => ent'[x] = ent[x]
  BY <1>1 DEF doExec, doDestroy, meet
<1>3. ent'[e].at \in {"prepare", "exec", "destroy"} /\ ent'[e].client = c
  <2>1. CASE doExec(e, c)
    BY <1>1, <2>1 DEF doExec, begin, commit, stopTimer, Entry
  <2>2. CASE doDestroy(e, c)
    BY <1>1, <2>2 DEF doDestroy, begin, commit, stopTimer, Entry
  <2> QED
    BY <2>1, <2>2
<1>4. /\ n \in Names /\ calls[n] = Lifecycle!NoCall
      /\ calls' = [calls EXCEPT ![n] = Shown(ent[e])']
  BY <1>2, OneMoves DEF Active, Shown, Calls
<1>5. Shown(ent[e])' = [kind |-> ent'[e].at, by |-> c]
  BY <1>3 DEF Shown, Calls
<1>6. closer # "closed" /\ (closer' = "closed") = (closer = "closed")
  BY <1>2 DEF IInv, Closing, CommandsKeepTheBackend, Active
<1>7. ASSUME NEW m \in Names PROVE calls[m].by # c
  <2>1. c # None
    BY ConstantsAssumption
  <2>2. CASE calls[m] = Lifecycle!NoCall
    BY <2>1, <2>2 DEF Lifecycle!NoCall
  <2>3. CASE entries[m] # None /\ ent[entries[m]].at \in Calls
    <3>1. entries[m] \in Entries
      BY <2>3 DEF IInv, TypeOK
    <3>2. calls[m].by = ent[entries[m]].client
      BY <2>3 DEF calls
    <3>3. ent[entries[m]].client # c
      BY <1>2, <2>1, <2>3, <3>1 DEF IInv, Linked, Served, Calls
    <3> QED
      BY <3>2, <3>3
  <2> QED
    BY <2>2, <2>3, CallsShown DEF Shown
<1> HIDE DEF n
<1>8. Lifecycle!Begin(n, ent'[e].at, c)
  BY <1>2, <1>4, <1>5, <1>6 DEF Lifecycle!Begin
<1>9. Lifecycle!Serve(n)
  BY <1>3, <1>7, <1>8 DEF Lifecycle!Serve
<1> QED
  BY <1>4, <1>9 DEF Follows, Lifecycle!Next

\* A stop of what is idle, for nobody.
LEMMA IdleFollows ==
    ASSUME IInv, NEW e \in Entries, NEW w \in wakes, doIdle(e, w)
    PROVE  Follows
<1> DEFINE n == ent[e].name
<1>1. ent \in [Entries -> Entry]
  BY DEF IInv, TypeOK
<1>2. CASE UNCHANGED ent
  BY <1>2, EntryQuiet, QuietFollows
<1>3. CASE ent' = [ent EXCEPT ![e] = commit(begin(@, "stop", None), "Stopping")]
  <2>0. commit(begin(ent[e], "stop", None), "Stopping").at = "stop"
        /\ commit(begin(ent[e], "stop", None), "Stopping").client = None
    BY <1>1 DEF begin, commit, Entry
  <2>1. /\ ent[e].at = "select" /\ UNCHANGED <<box, closer, entries>>
        /\ \A x \in Entries : x # e => ent'[x] = ent[x]
        /\ ent'[e].at = "stop" /\ ent'[e].client = None
    BY <1>1, <1>3, <2>0 DEF doIdle
  <2>2. /\ n \in Names /\ calls[n] = Lifecycle!NoCall
        /\ calls' = [calls EXCEPT ![n] = Shown(ent[e])']
    BY <2>1, OneMoves DEF Active, Shown, Calls
  <2>3. Shown(ent[e])' = [kind |-> "stop", by |-> None]
    BY <2>1 DEF Shown, Calls
  <2>4. closer # "closed" /\ (closer' = "closed") = (closer = "closed")
    BY <2>1 DEF IInv, Closing, CommandsKeepTheBackend, Active
  <2> HIDE DEF n
  <2>5. Lifecycle!StopIdle(n)
    BY <2>1, <2>2, <2>3, <2>4 DEF Lifecycle!Begin, Lifecycle!StopIdle
  <2> QED
    BY <2>2, <2>5 DEF Follows, Lifecycle!Next
<1> QED
  BY <1>2, <1>3 DEF doIdle

\* A preparation that succeeded is followed by the command of the same caller.
LEMMA PreparedFollows ==
    ASSUME IInv, NEW e \in Entries, execPrepared(e)
    PROVE  Follows
<1> DEFINE n == ent[e].name
<1>1. ent \in [Entries -> Entry]
  BY DEF IInv, TypeOK
<1>2. /\ ent[e].at = "prepare" /\ UNCHANGED <<closer, entries>>
      /\ \A x \in Entries : x # e => ent'[x] = ent[x]
      /\ ent'[e].at = "exec" /\ ent'[e].client = ent[e].client
      /\ box' = [box EXCEPT ![n] = "running"]
  BY <1>1 DEF execPrepared, commit, Entry
<1>3. /\ n \in Names /\ calls[n] = [kind |-> "prepare", by |-> ent[e].client]
      /\ calls' = [calls EXCEPT ![n] = Shown(ent[e])']
  BY <1>2, OneMoves DEF Active, Shown, Calls
<1>4. Shown(ent[e])' = [kind |-> "exec", by |-> calls[n].by]
  BY <1>2, <1>3 DEF Shown, Calls
<1>5. (closer' = "closed") = (closer = "closed")
  BY <1>2
<1> HIDE DEF n
<1>6. Lifecycle!Prepared(n)
  BY <1>2, <1>3, <1>4, <1>5 DEF Lifecycle!Prepared
<1> QED
  BY <1>3, <1>6 DEF Follows, Lifecycle!Next

\* A call of goroutine e is over, and leaves b.
LEMMA ReturnFollows ==
    ASSUME IInv, NEW e \in Entries, ent[e].at \in Calls, ent'[e].at \notin Calls,
           UNCHANGED <<closer, entries>>, \A x \in Entries : x # e => ent'[x] = ent[x],
           NEW b \in Lifecycle!Leaves(ent[e].at, box[ent[e].name]),
           box' = [box EXCEPT ![ent[e].name] = b]
    PROVE  Follows
<1> DEFINE n == ent[e].name
<1>1. /\ n \in Names /\ calls[n] = [kind |-> ent[e].at, by |-> ent[e].client]
      /\ calls' = [calls EXCEPT ![n] = Shown(ent[e])']
  BY OneMoves DEF Active, Shown
<1>2. Shown(ent[e])' = Lifecycle!NoCall
  BY DEF Shown
<1>3. calls[n] # Lifecycle!NoCall /\ calls[n].kind = ent[e].at
  BY <1>1, ShownIsACall
<1>4. (closer' = "closed") = (closer = "closed")
  OBVIOUS
<1>5. b \in Lifecycle!Leaves(calls[n].kind, box[n]) /\ box' = [box EXCEPT ![n] = b]
  BY <1>3
<1> HIDE DEF n
<1>6. Lifecycle!Return(n)
  BY <1>1, <1>2, <1>3, <1>4, <1>5 DEF Lifecycle!Return
<1> QED
  BY <1>1, <1>6 DEF Follows, Lifecycle!Next

\* Each call leaves what it may, whether it succeeds or fails.
LEMMA EndFollows ==
    ASSUME IInv, NEW e \in Entries,
           \/ execPrepareFailed(e) \/ execDone(e) \/ stopDone(e) \/ stopFailed(e)
           \/ destroyDone(e) \/ destroyFailed(e)
    PROVE  Follows
<1> DEFINE n == ent[e].name
           Over(k) == /\ ent[e].at = k /\ ent'[e].at \notin Calls
                      /\ UNCHANGED <<closer, entries>>
                      /\ \A x \in Entries : x # e => ent'[x] = ent[x]
           Left == \E b \in Lifecycle!Leaves(ent[e].at, box[n]) : box' = [box EXCEPT ![n] = b]
<1>1. ent \in [Entries -> Entry]
  BY DEF IInv, TypeOK
<1>2. ASSUME NEW k \in Calls, Over(k) PROVE n \in Names /\ box[n] \in Boxes
  BY <1>2 DEF IInv, Named, TypeOK, Calls
<1>3. ASSUME NEW k \in Calls, Over(k), Left PROVE Follows
  BY <1>3, ReturnFollows
<1>b. box \in [Names -> Boxes]
  BY DEF IInv, TypeOK
<1>4. CASE execPrepareFailed(e)
  <2>1. Over("prepare")
    BY <1>1, <1>4 DEF execPrepareFailed, rest, commit, Entry, Calls
  <2>2. PICK b \in prepareLeaves(box[n], ent[e].image) : box' = [box EXCEPT ![n] = b]
    BY <1>4 DEF execPrepareFailed
  <2>3. box[n] \in Boxes
    BY <1>2, <2>1 DEF Calls
  <2>4. b \in Lifecycle!Leaves("prepare", box[n])
    BY <2>2, <2>3 DEF prepareLeaves, Lifecycle!Leaves, Boxes
  <2> QED
    BY <1>3, <2>1, <2>2, <2>4 DEF Calls
<1>5. CASE execDone(e)
  <2>1. Over("exec")
    BY <1>1, <1>5 DEF execDone, rest, armIdle, stopTimer, commit, Entry, Calls
  <2>2. box' = [box EXCEPT ![n] = box[n]] /\ box[n] \in Lifecycle!Leaves("exec", box[n])
    BY <1>b, <1>2, <2>1, <1>5 DEF execDone, Lifecycle!Leaves, Calls
  <2> QED
    BY <1>3, <2>1, <2>2 DEF Calls
<1>6. CASE stopDone(e)
  <2>1. Over("stop")
    BY <1>1, <1>6 DEF stopDone, rest, stopTimer, commit, Entry, Calls
  <2>2. box' = [box EXCEPT ![n] = stopped(box[n])]
    BY <1>6 DEF stopDone
  <2>3. stopped(box[n]) \in Lifecycle!Leaves("stop", box[n])
    BY DEF stopped, Lifecycle!Leaves, Lifecycle!halted
  <2> QED
    BY <1>3, <2>1, <2>2, <2>3 DEF Calls
<1>7. CASE stopFailed(e)
  <2>1. Over("stop")
    BY <1>1, <1>7 DEF stopFailed, rest, armIdle, stopTimer, commit, Entry, Calls
  <2>2. PICK b \in {box[n], stopped(box[n])} : box' = [box EXCEPT ![n] = b]
    BY <1>7 DEF stopFailed
  <2>3. b \in Lifecycle!Leaves("stop", box[n])
    BY <2>2 DEF stopped, Lifecycle!Leaves, Lifecycle!halted
  <2> QED
    BY <1>3, <2>1, <2>2, <2>3 DEF Calls
<1>8. CASE destroyDone(e)
  <2>1. Over("destroy")
    BY <1>1, <1>8 DEF destroyDone, rest, commit, Entry, Calls
  <2>2. box' = [box EXCEPT ![n] = "absent"]
    BY <1>8 DEF destroyDone
  <2>3. "absent" \in Lifecycle!Leaves("destroy", box[n])
    BY DEF Lifecycle!Leaves
  <2> QED
    BY <1>3, <2>1, <2>2, <2>3 DEF Calls
<1>9. CASE destroyFailed(e)
  <2>1. Over("destroy")
    BY <1>1, <1>9 DEF destroyFailed, rest, armIdle, stopTimer, commit, Entry, Calls
  <2>2. PICK b \in {box[n], stopped(box[n]), "absent"} : box' = [box EXCEPT ![n] = b]
    BY <1>9 DEF destroyFailed
  <2>3. b \in Lifecycle!Leaves("destroy", box[n])
    BY <2>2 DEF stopped, Lifecycle!Leaves, Lifecycle!halted
  <2> QED
    BY <1>3, <2>1, <2>2, <2>3 DEF Calls
<1> QED
  BY <1>4, <1>5, <1>6, <1>7, <1>8, <1>9

\* Close hands the backend back when the goroutines it waited for are gone, and those
\* are all that could be in a call.
LEMMA CloseFollows ==
    ASSUME IInv, closeBackend
    PROVE  Follows
<1>1. closer = "waiting" /\ closer' = "closed" /\ UNCHANGED <<box, entries, ent>>
  BY DEF closeBackend
<1>2. \A e \in Entries : ent[e].at \notin Calls
  BY DEF closeBackend, IInv, Closing, Active, Calls
<1>3. \A n \in Names : calls[n] = Lifecycle!NoCall
  BY <1>2 DEF calls, Lifecycle!NoCall, IInv, TypeOK
<1>4. UNCHANGED calls
  BY <1>1 DEF calls
<1>5. Lifecycle!Close
  BY <1>1, <1>3, <1>4 DEF Lifecycle!Close
<1> QED
  BY <1>5 DEF Follows, Lifecycle!Next

\* The manager starts as the lifecycle does.
LEMMA InitFollows == Init => Lifecycle!Init
<1> SUFFICES ASSUME Init PROVE Lifecycle!Init
  OBVIOUS
<1>1. calls = [n \in Names |-> Lifecycle!NoCall]
  BY DEF Init, calls, Lifecycle!NoCall
<1>2. (closer = "closed") = FALSE
  BY DEF Init
<1> QED
  BY <1>1, <1>2 DEF Init, Boxes, Lifecycle!Init

\* Every step of the manager is one of the lifecycle, or none.
LEMMA StepFollows == IInv /\ [Next]_vars => [Lifecycle!Next]_Lifecycle!lifecycle
<1> SUFFICES ASSUME IInv, [Next]_vars PROVE Follows
  BY DEF Follows
<1>1. ASSUME NEW c \in Callers, callerStep(c) PROVE Follows
  BY <1>1, CallerQuiet, QuietFollows
<1>2. ASSUME NEW e \in Entries, entryStep(e) PROVE Follows
  <2>1. CASE \E c \in Callers : doExec(e, c) \/ doDestroy(e, c)
    BY <2>1, ServeFollows
  <2>2. CASE \E w \in wakes : doIdle(e, w)
    BY <2>2, IdleFollows
  <2>3. CASE doObserve(e) \/ exitDestroyed(e) \/ exitShutdown(e) \/ fire(e) \/ collect(e)
    BY <2>3, EntryQuiet, QuietFollows
  <2>4. CASE execPrepared(e)
    BY <2>4, PreparedFollows
  <2>5. CASE \/ execPrepareFailed(e) \/ execDone(e) \/ stopDone(e) \/ stopFailed(e)
             \/ destroyDone(e) \/ destroyFailed(e)
    BY <2>5, EndFollows
  <2> QED
    BY <1>2, <2>1, <2>2, <2>3, <2>4, <2>5 DEF entryStep
<1>3. CASE Tick \/ closeBegin \/ closeCollect \/ UNCHANGED vars
  <2>1. Quiet
    BY <1>3 DEF Tick, closeBegin, closeCollect, vars, Quiet, calls
  <2> QED
    BY <2>1, QuietFollows
<1> QED
  BY <1>1, <1>2, <1>3, CloseFollows DEF Next

\* The manager implements the lifecycle it promises (Manager, entry.run): for any
\* names, callers and entries, whoever opens, destroys, adopts and closes at once, the
\* backend gets one call at a time under a name, for one caller who has no other, and
\* none after it was closed.
THEOREM ImplementsTheLifecycle == Spec => KeepsTheLifecycle
  BY InitFollows, StepFollows, Invariance, PTL DEF Spec, KeepsTheLifecycle, Lifecycle!Spec

=============================================================================
