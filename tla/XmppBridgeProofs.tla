--------------------------- MODULE XmppBridgeProofs ---------------------------
(***************************************************************************)
(* Proofs about XmppBridge for every set of people, every schedule and     *)
(* length of the day, and every bound on stanzas, sessions, lines, time    *)
(* and faults.                                                             *)
(***************************************************************************)
EXTENDS XmppBridge, WellFoundedInduction, TLAPS

\* No session is current, or in the store, that was not started.
Started == current <= sessions.started /\ sessions.stored \subseteq 1..sessions.started

\* What the status message thinks it shows it does show, unless a send failed; it
\* was posted once or not at all; and only at the end of a turn is its trail still
\* there outside it.
Showing ==
    /\ turn.posts = IF turn.status = "posted" THEN 1 ELSE 0
    /\ ~turn.failed => turn.shown = turn.seen
    /\ loop.pc \in {"connect", "select", "pop"} => turn.on = "no"
    /\ TrailIsShown

\* A slot that was served has passed, and the one that the loop waits for is later.
Waiting ==
    /\ \A s \in served : s <= now
    /\ loop.pc = "select" => \A s \in served : s < loop.due

IInv == TypeOK /\ Started /\ OneHandle /\ NoLostWakeup /\ Showing /\ Waiting

-----------------------------------------------------------------------------
(* The next slot *)

\* A set of naturals has a least element.
LEMMA LeastElement ==
    ASSUME NEW S, S \subseteq Nat, S # {}
    PROVE  \E m \in S : \A n \in S : m <= n
<1> DEFINE R == {x \in Nat \X Nat : x[1] < x[2]}
<1>1. IsWellFoundedOn(R, Nat)
  BY NatLessThanWellFounded DEF OpToRel
<1>2. \E m \in S : \A n \in S : ~(<<n, m>> \in R)
  <2> HIDE DEF R
  <2> QED
    BY <1>1, WFMin
<1>3. PICK m \in S : \A n \in S : ~(<<n, m>> \in R)
  BY <1>2
<1>4. ASSUME NEW n \in S PROVE m <= n
  <2>1. n \in Nat /\ m \in Nat /\ ~(<<n, m>> \in R)
    BY <1>3
  <2> QED
    BY <2>1
<1> QED
  BY <1>4

\* A multiple of D that is less than D from zero is zero.
LEMMA SmallMultiple ==
    ASSUME NEW D \in Nat \ {0}, NEW x \in Int, NEW y \in Int, D * x = y, -D < y, y < D
    PROVE  y = 0
<1>1. CASE x >= 1
  <2>1. D * x >= D
    BY <1>1
  <2> QED
    BY <2>1
<1>2. CASE x <= -1
  <2>1. D * x <= -D
    BY <1>2
  <2> QED
    BY <2>1
<1> QED
  BY <1>1, <1>2

\* Division with remainder.
LEMMA Division ==
    ASSUME NEW D \in Nat \ {0}, NEW t \in Int
    PROVE  t = D * (t \div D) + (t % D) /\ t % D \in 0..(D - 1) /\ t \div D \in Int
  OBVIOUS

\* The remainder is the only one.
LEMMA Remainder ==
    ASSUME NEW D \in Nat \ {0}, NEW q \in Int, NEW a \in 0..(D - 1)
    PROVE  (D * q + a) % D = a
<1> DEFINE t == D * q + a
           k == t \div D
           r == t % D
<1>1. t \in Int
  OBVIOUS
<1> HIDE DEF t
<1>2. t = D * k + r /\ r \in 0..(D - 1) /\ k \in Int
  BY <1>1, Division
<1> HIDE DEF k, r
<1>3. D * (q - k) = r - a
  BY <1>2 DEF t
<1>4. q - k \in Int /\ r - a \in Int /\ -D < r - a /\ r - a < D
  BY <1>2
<1>5. r - a = 0
  BY <1>3, <1>4, SmallMultiple
<1> QED
  BY <1>2, <1>5 DEF t, r

\* A day from any moment has a slot, if there are any: today's, or tomorrow's.
LEMMA SlotWithinADay ==
    ASSUME NEW t \in Nat, At # {}
    PROVE  \E d \in (t + 1)..(t + Day) : isSlot(d)
<1> USE XmppAssumption
<1>1. PICK a \in At : a \in 0..(Day - 1)
  OBVIOUS
<1> DEFINE q == t \div Day
           r == t % Day
<1>2. t = Day * q + r /\ r \in 0..(Day - 1) /\ q \in Int
  BY Division
<1> HIDE DEF q, r
<1>3. CASE a > r
  <2>1. Day * q + a \in (t + 1)..(t + Day)
    BY <1>1, <1>2, <1>3
  <2>2. (Day * q + a) % Day = a
    BY <1>1, <1>2, Remainder
  <2> QED
    BY <1>1, <2>1, <2>2 DEF isSlot
<1>4. CASE a <= r
  <2>1. Day * (q + 1) = Day * q + Day
    BY <1>2
  <2>2. Day * (q + 1) + a \in (t + 1)..(t + Day)
    BY <1>1, <1>2, <1>4, <2>1
  <2>3. (Day * (q + 1) + a) % Day = a
    BY <1>1, <1>2, Remainder
  <2> QED
    BY <1>1, <2>2, <2>3 DEF isSlot
<1> QED
  BY <1>1, <1>2, <1>3, <1>4

\* The timer is never set for a moment that is not in the future (nextDue): the
\* first slot after now exists, and is after now.
LEMMA NextDueIsLater ==
    ASSUME NEW t \in 0..MaxTime
    PROVE  nextDue(t) \in Nat /\ nextDue(t) > t
<1> USE XmppAssumption
<1>1. CASE At = {}
  BY <1>1 DEF nextDue, Never
<1>2. CASE At # {}
  <2> DEFINE S == {d \in (t + 1)..(t + Day) : isSlot(d)}
             P(d) == isSlot(d) /\ \A e \in (t + 1)..(d - 1) : ~isSlot(e)
  <2>1. S # {} /\ S \subseteq Nat
    BY <1>2, SlotWithinADay
  <2>2. PICK m \in S : \A n \in S : m <= n
    <3> HIDE DEF S
    <3> QED
      BY <2>1, LeastElement
  <2>3. \A e \in (t + 1)..(m - 1) : ~isSlot(e)
    <3>1. SUFFICES ASSUME NEW e \in (t + 1)..(m - 1), isSlot(e) PROVE FALSE
      OBVIOUS
    <3>2. e \in S
      BY <3>1, <2>2
    <3> QED
      BY <2>2, <3>2
  <2>4. m \in (t + 1)..(t + Day) /\ P(m)
    BY <2>2, <2>3
  <2> HIDE DEF P, S
  <2>5. (CHOOSE d \in (t + 1)..(t + Day) : P(d)) \in (t + 1)..(t + Day)
    BY <2>4
  <2>6. nextDue(t) = CHOOSE d \in (t + 1)..(t + Day) : P(d)
    BY <1>2 DEF nextDue, P
  <2> QED
    BY <2>5, <2>6
<1> QED
  BY <1>1, <1>2

-----------------------------------------------------------------------------
(* A turn and its status message *)

\* What Showing says of a turn by itself.
Honest(t) ==
    /\ t.posts = IF t.status = "posted" THEN 1 ELSE 0
    /\ ~t.failed => t.shown = t.seen

\* No turn.
LEMMA NoTurnEffect == NoTurn \in Turn /\ Honest(NoTurn) /\ NoTurn.on = "no"
  BY XmppAssumption DEF NoTurn, Turn, Honest

\* A failed send, or none.
LEMMA FaultEffect ==
    ASSUME faults \in 0..MaxFaults, fault \/ UNCHANGED faults
    PROVE  faults' \in 0..MaxFaults
  BY XmppAssumption DEF fault

\* start, and a turn nobody watches.
LEMMA RunTurnEffect ==
    ASSUME TypeOK, NEW on \in {"typed", "scheduled"}, runTurn(on)
    PROVE  /\ turn' \in Turn /\ Honest(turn') /\ turn'.on = on
           /\ fault \/ UNCHANGED faults
<1>1. now \in 0..MaxTime
  BY DEF TypeOK
<1>2. ASSUME NEW t, t = [NoTurn EXCEPT !.on = on, !.since = now]
      PROVE  t \in Turn /\ Honest(t) /\ t.on = on
  BY <1>1, <1>2 DEF NoTurn, Turn, Honest
<1>3. ASSUME NEW t, t = [NoTurn EXCEPT !.on = "typed", !.since = now, !.status = "posted",
                                       !.posts = 1]
      PROVE  t \in Turn /\ Honest(t) /\ t.on = "typed"
  BY <1>1, <1>3 DEF NoTurn, Turn, Honest
<1>4. ASSUME NEW t, t = [NoTurn EXCEPT !.on = "typed", !.since = now, !.status = "lost",
                                       !.failed = TRUE]
      PROVE  t \in Turn /\ Honest(t) /\ t.on = "typed"
  BY <1>1, <1>4 DEF NoTurn, Turn, Honest
<1> QED
  BY <1>2, <1>3, <1>4 DEF runTurn, start

\* flush: a send that succeeds leaves nothing unseen, and one message.
LEMMA FlushEffect ==
    ASSUME NEW t \in Turn, Honest(t), flush(t)
    PROVE  /\ turn' \in Turn /\ Honest(turn') /\ turn'.on = t.on
           /\ ~turn'.failed => turn'.seen = turn'.lines
           /\ fault \/ UNCHANGED faults
<1>1. CASE /\ turn' = [t EXCEPT !.shown = t.lines, !.seen = t.lines, !.status = "posted",
                                !.posts = IF t.status = "posted" THEN @ ELSE @ + 1]
           /\ UNCHANGED faults
  <2>1. CASE t.status = "posted"
    <3>1. turn' = [t EXCEPT !.shown = t.lines, !.seen = t.lines, !.status = "posted"]
      BY <1>1, <2>1 DEF Turn
    <3>2. turn' \in Turn
      BY <3>1 DEF Turn
    <3>3. /\ turn'.on = t.on /\ turn'.seen = t.lines /\ turn'.shown = t.lines
          /\ turn'.lines = t.lines /\ turn'.status = "posted" /\ turn'.posts = t.posts
      BY <3>1 DEF Turn
    <3> QED
      BY <1>1, <2>1, <3>2, <3>3 DEF Honest
  <2>2. CASE t.status # "posted"
    <3>1. t.posts + 1 = 1
      BY <2>2 DEF Honest
    <3>2. turn' = [t EXCEPT !.shown = t.lines, !.seen = t.lines, !.status = "posted",
                            !.posts = t.posts + 1]
      BY <1>1, <2>2 DEF Turn
    <3>3. turn' = [t EXCEPT !.shown = t.lines, !.seen = t.lines, !.status = "posted", !.posts = 1]
      BY <3>1, <3>2
    <3>4. turn' \in Turn /\ turn'.on = t.on
      BY <3>3 DEF Turn
    <3>5. /\ turn'.posts = 1 /\ turn'.status = "posted"
          /\ turn'.shown = t.lines /\ turn'.seen = t.lines /\ turn'.lines = t.lines
      BY <3>3 DEF Turn
    <3> QED
      BY <1>1, <3>4, <3>5 DEF Honest
  <2> QED
    BY <2>1, <2>2
<1>2. CASE turn' = [t EXCEPT !.shown = t.lines, !.failed = TRUE] /\ fault
  BY <1>2 DEF Turn, Honest
<1> QED
  BY <1>1, <1>2 DEF flush

\* A step of the agent, sent or held back.
LEMMA ProgressEffect ==
    ASSUME TypeOK, Honest(turn), progress
    PROVE  /\ turn' \in Turn /\ Honest(turn')
           /\ fault \/ UNCHANGED faults
<1> DEFINE t == [turn EXCEPT !.lines = @ + 1]
<1>1. t \in Turn /\ Honest(t)
  <2>1. turn \in Turn
    BY DEF TypeOK
  <2> QED
    BY <2>1 DEF Turn, Honest
<1>2. (turn' = t /\ UNCHANGED faults) \/ flush(t)
  BY DEF progress
<1> HIDE DEF t
<1> QED
  BY <1>1, <1>2, FlushEffect

\* The end of a turn: whoever asked has seen all of the trail, if no send failed.
LEMMA LastFlushEffect ==
    ASSUME TypeOK, Honest(turn), lastFlush
    PROVE  /\ turn' \in Turn /\ Honest(turn')
           /\ turn'.on = "typed" /\ ~turn'.failed => turn'.seen = turn'.lines
           /\ fault \/ UNCHANGED faults
<1>1. turn \in Turn
  BY DEF TypeOK
<1>2. CASE turn.on = "typed" /\ turn.lines # turn.shown
  BY <1>1, <1>2, FlushEffect DEF lastFlush
<1>3. CASE ~(turn.on = "typed" /\ turn.lines # turn.shown)
  BY <1>1, <1>3 DEF lastFlush, Honest
<1> QED
  BY <1>2, <1>3

-----------------------------------------------------------------------------
(* Sessions *)

\* The handle on the next session is there before the last one's is released: there
\* is one at every moment between two steps, on the current session.
LEMMA ReplaceEffect ==
    ASSUME TypeOK, Started, OneHandle, loop.pc # "returned", loop'.pc # "returned",
           NEW id \in Ids, NEW n \in Ids, id # current, id <= n, sessions.started <= n,
           replaceCurrent(id, n)
    PROVE  /\ OneHandle' /\ Started' /\ current' \in Ids
           /\ sessions' \in [started : Ids, stored : SUBSET Ids]
           /\ fault \/ UNCHANGED faults
<1> USE XmppAssumption
<1>1. CASE keepCurrent
  BY <1>1 DEF keepCurrent, sessionVars, OneHandle, Started, TypeOK
<1>2. CASE /\ open' = [open EXCEPT ![id] = @ + 1, ![current] = @ - 1]
           /\ current' = id
           /\ sessions' = [sessions EXCEPT !.started = n]
           /\ UNCHANGED faults
  <2>1. open = [i \in Ids |-> IF i = current THEN 1 ELSE 0] /\ current \in Ids
    BY DEF OneHandle, TypeOK
  <2>2. open' = [i \in Ids |-> IF i = id THEN 1 ELSE 0]
    BY <1>2, <2>1
  <2>3. sessions'.started = n /\ sessions'.stored = sessions.stored
    BY <1>2 DEF TypeOK
  <2>4. 1..sessions.started \subseteq 1..n
    BY DEF TypeOK, Ids
  <2>5. OneHandle'
    BY <1>2, <2>2 DEF OneHandle
  <2>6. Started'
    BY <1>2, <2>3, <2>4 DEF Started
  <2>7. sessions' \in [started : Ids, stored : SUBSET Ids]
    BY <1>2 DEF TypeOK
  <2> QED
    BY <1>2, <2>5, <2>6, <2>7
<1> QED
  BY <1>1, <1>2 DEF replaceCurrent

\* startSession.
LEMMA StartSessionEffect ==
    ASSUME TypeOK, Started, OneHandle, loop.pc # "returned", loop'.pc # "returned", startSession
    PROVE  /\ OneHandle' /\ Started' /\ current' \in Ids
           /\ sessions' \in [started : Ids, stored : SUBSET Ids]
           /\ fault \/ UNCHANGED faults
<1> DEFINE n == sessions.started + 1
<1>1. n \in Ids /\ n # current /\ sessions.started <= n /\ n <= n
  BY XmppAssumption DEF startSession, TypeOK, Started, Ids
<1>2. replaceCurrent(n, n)
  BY DEF startSession
<1> HIDE DEF n
<1> QED
  BY <1>1, <1>2, ReplaceEffect

\* handleCommand.
LEMMA CommandEffect ==
    ASSUME TypeOK, Started, OneHandle, loop.pc # "returned", loop'.pc # "returned",
           NEW m \in Messages, m.body \in Commands, handleCommand(m)
    PROVE  /\ OneHandle' /\ Started' /\ current' \in Ids
           /\ sessions' \in [started : Ids, stored : SUBSET Ids]
           /\ fault \/ UNCHANGED faults
<1>1. ASSUME UNCHANGED <<sessionVars, faults>>
      PROVE  /\ OneHandle' /\ Started' /\ current' \in Ids
             /\ sessions' \in [started : Ids, stored : SUBSET Ids]
             /\ fault \/ UNCHANGED faults
  BY <1>1 DEF sessionVars, OneHandle, Started, TypeOK
<1>2. CASE m.body = "new"
  BY <1>2, StartSessionEffect DEF handleCommand
<1>3. CASE m.body = "resume"
  <2>1. resumeSession(m.arg)
    BY <1>3 DEF handleCommand
  <2>2. CASE m.arg = None \/ m.arg = current \/ m.arg \notin sessions.stored
    BY <1>1, <2>1, <2>2 DEF resumeSession
  <2>3. CASE ~(m.arg = None \/ m.arg = current \/ m.arg \notin sessions.stored)
    <3>1. replaceCurrent(m.arg, sessions.started)
      BY <2>1, <2>3 DEF resumeSession
    <3>2. m.arg \in Ids /\ m.arg # current /\ m.arg <= sessions.started
          /\ sessions.started \in Ids /\ sessions.started <= sessions.started
      BY <2>3 DEF Started, TypeOK, Ids
    <3> QED
      BY <3>1, <3>2, ReplaceEffect
  <2> QED
    BY <2>2, <2>3
<1>4. CASE m.body = "other"
  BY <1>1, <1>4 DEF handleCommand
<1> QED
  BY <1>2, <1>3, <1>4 DEF Commands

-----------------------------------------------------------------------------
(* The steps *)

\* Init has every part of the invariant.
LEMMA InitIInv == Init => IInv
<1> SUFFICES ASSUME Init PROVE IInv
  OBVIOUS
<1> USE XmppAssumption
<1>1. TypeOK
  <2>1. queue \in [items : Seq(Messages), ready : BOOLEAN]
    BY DEF Init
  <2>2. loop \in Loop /\ 1 \in Ids /\ open \in [Ids -> Nat]
    BY DEF Init, Loop, Never, Ids
  <2> QED
    BY <2>1, <2>2, NoTurnEffect DEF Init, TypeOK, Ids
<1>2. Started /\ OneHandle /\ NoLostWakeup
  BY DEF Init, Started, OneHandle, NoLostWakeup, Ids
<1>3. Showing /\ Waiting
  BY NoTurnEffect DEF Init, Showing, Waiting, TrailIsShown, Honest, NoTurn
<1> QED
  BY <1>1, <1>2, <1>3 DEF IInv

\* Where a step of the loop leaves it.
LEMMA LoopStep ==
    ASSUME TypeOK, [Next]_vars
    PROVE  /\ loop' \in Loop
           /\ loop.pc = "returned" => UNCHANGED loop
           /\ loop'.pc \in {"connect", "select", "pop"} => \/ UNCHANGED loop
                                                           \/ arm \/ takeReady
<1>l. loop \in Loop
  BY DEF TypeOK
<1>1. CASE arm
  <2>1. nextDue(now) \in Nat
    BY NextDueIsLater DEF TypeOK
  <2> QED
    BY <1>1, <2>1 DEF arm, Loop
<1>2. CASE stop \/ takeReady \/ turnEnds \/ connect
  BY <1>l, <1>2 DEF stop, takeReady, turnEnds, connect, Loop
<1>3. CASE handleMessage
  <2>1. loop' \in {[loop EXCEPT !.pc = "top"], [loop EXCEPT !.pc = "turn"]} /\ loop.pc = "pop"
    BY <1>3 DEF handleMessage
  <2> QED
    BY <1>l, <2>1 DEF Loop
<1>4. CASE runScheduled
  <2>1. loop' \in {[loop EXCEPT !.pc = "top"], [loop EXCEPT !.pc = "turn"]} /\ loop.pc = "select"
    BY <1>4 DEF runScheduled
  <2> QED
    BY <1>l, <2>1 DEF Loop
<1>5. CASE \/ \E m \in Messages, kind \in {"chat", "other"} : incomingHandler(m, kind)
           \/ signal \/ progress \/ tick \/ cancel \/ streamEnds \/ UNCHANGED vars
  BY <1>l, <1>5 DEF incomingHandler, signal, progress, tick, cancel, streamEnds, vars
<1> QED
  BY <1>1, <1>2, <1>3, <1>4, <1>5 DEF Next, loopStep

\* Every step leaves one handle, on the current session.
LEMMA HandleStep ==
    ASSUME TypeOK, Started, OneHandle, [Next]_vars
    PROVE  /\ OneHandle' /\ Started' /\ current' \in Ids
           /\ sessions' \in [started : Ids, stored : SUBSET Ids]
<1> DEFINE Goal == /\ OneHandle' /\ Started' /\ current' \in Ids
                   /\ sessions' \in [started : Ids, stored : SUBSET Ids]
<1>l. loop \in Loop
  BY DEF TypeOK
<1>u. ASSUME UNCHANGED sessionVars, loop'.pc = "returned" <=> loop.pc = "returned" PROVE Goal
  BY <1>u DEF sessionVars, OneHandle, Started, TypeOK
\* Run returns and releases the current session.
<1>r. ASSUME open' = [open EXCEPT ![current] = @ - 1], UNCHANGED <<current, sessions>>,
             loop.pc # "returned", loop'.pc = "returned"
      PROVE  Goal
  <2>1. open = [i \in Ids |-> IF i = current THEN 1 ELSE 0] /\ current \in Ids
    BY <1>r DEF OneHandle, TypeOK
  <2>2. open' = [i \in Ids |-> 0]
    BY <1>r, <2>1
  <2> QED
    BY <1>r, <2>2 DEF OneHandle, Started, TypeOK
<1>1. CASE connect
  <2>1. CASE loop' = [loop EXCEPT !.pc = "top"] /\ UNCHANGED open
    BY <1>l, <1>1, <1>u, <2>1 DEF connect, sessionVars, Loop
  <2>2. CASE loop' = [loop EXCEPT !.pc = "returned"] /\ open' = [open EXCEPT ![current] = @ - 1]
    <3>1. loop.pc # "returned" /\ loop'.pc = "returned"
      BY <1>l, <1>1, <2>2 DEF connect, Loop
    <3> QED
      BY <1>1, <1>r, <2>2, <3>1 DEF connect
  <2> QED
    BY <1>1, <2>1, <2>2 DEF connect
<1>2. CASE stop
  <2>1. loop.pc # "returned" /\ loop'.pc = "returned"
    BY <1>l, <1>2 DEF stop, Loop
  <2> QED
    BY <1>2, <1>r, <2>1 DEF stop
<1>3. CASE handleMessage
  <2>1. loop.pc # "returned" /\ loop'.pc # "returned"
    <3>1. loop' \in {[loop EXCEPT !.pc = "top"], [loop EXCEPT !.pc = "turn"]} /\ loop.pc = "pop"
      BY <1>3 DEF handleMessage
    <3> QED
      BY <1>l, <3>1 DEF Loop
  <2>2. \/ UNCHANGED sessionVars
        \/ \E m \in Messages : m.body \in Commands /\ handleCommand(m)
    <3>1. queue.items # <<>> => Head(queue.items) \in Messages
      BY DEF TypeOK
    <3> QED
      BY <1>3, <3>1 DEF handleMessage
  <2> QED
    BY <1>u, <2>1, <2>2, CommandEffect
<1>4. CASE runScheduled
  <2>1. loop.pc # "returned" /\ loop'.pc # "returned"
    <3>1. loop' \in {[loop EXCEPT !.pc = "top"], [loop EXCEPT !.pc = "turn"]} /\ loop.pc = "select"
      BY <1>4 DEF runScheduled
    <3> QED
      BY <1>l, <3>1 DEF Loop
  <2>2. UNCHANGED sessionVars \/ startSession
    BY <1>4 DEF runScheduled
  <2> QED
    BY <1>u, <2>1, <2>2, StartSessionEffect
<1>5. CASE turnEnds
  <2>1. loop.pc # "returned" /\ loop'.pc # "returned"
    BY <1>l, <1>5 DEF turnEnds, Loop
  <2>2. OneHandle'
    BY <1>5, <2>1 DEF turnEnds, OneHandle
  <2>3. sessions'.started = sessions.started /\ sessions'.stored \subseteq sessions.stored \cup {current}
    BY <1>5 DEF turnEnds, TypeOK
  <2>4. Started'
    BY <1>5, <2>3, XmppAssumption DEF turnEnds, Started, TypeOK, Ids
  <2>5. sessions' \in [started : Ids, stored : SUBSET Ids]
    BY <1>5 DEF turnEnds, TypeOK
  <2> QED
    BY <1>5, <2>2, <2>4, <2>5 DEF turnEnds, TypeOK
<1>6. CASE arm \/ takeReady
  BY <1>l, <1>6, <1>u DEF arm, takeReady, Loop
<1>7. CASE \/ \E m \in Messages, kind \in {"chat", "other"} : incomingHandler(m, kind)
           \/ signal \/ progress \/ tick \/ cancel \/ streamEnds \/ UNCHANGED vars
  <2>1. UNCHANGED <<sessionVars, loop>>
    BY <1>7 DEF incomingHandler, signal, progress, tick, cancel, streamEnds, vars, sessionVars
  <2> QED
    BY <1>u, <2>1
<1> QED
  BY <1>1, <1>2, <1>3, <1>4, <1>5, <1>6, <1>7 DEF Next, loopStep

\* Every step keeps somebody on the way to what waits in the queue.
LEMMA QueueStep ==
    ASSUME TypeOK, NoLostWakeup, [Next]_vars
    PROVE  /\ NoLostWakeup'
           /\ queue' \in [items : Seq(Messages), ready : BOOLEAN]
           /\ handler' \in {"rest", "signal"} /\ stanzas' \in 0..MaxStanzas
<1> DEFINE Goal == /\ NoLostWakeup'
                   /\ queue' \in [items : Seq(Messages), ready : BOOLEAN]
                   /\ handler' \in {"rest", "signal"} /\ stanzas' \in 0..MaxStanzas
<1>q. queue \in [items : Seq(Messages), ready : BOOLEAN] /\ loop \in Loop
  BY DEF TypeOK
<1>1. ASSUME NEW m \in Messages, NEW kind \in {"chat", "other"}, incomingHandler(m, kind)
      PROVE  Goal
  <2>1. stanzas' \in 0..MaxStanzas /\ UNCHANGED loop
    BY <1>1, XmppAssumption DEF incomingHandler, TypeOK
  <2>2. CASE push(m)
    <3>1. Append(queue.items, m) \in Seq(Messages)
      BY <1>q
    <3> QED
      BY <1>q, <2>1, <2>2, <3>1 DEF push, NoLostWakeup
  <2>3. CASE UNCHANGED <<queue, handler>>
    BY <2>1, <2>3 DEF NoLostWakeup, TypeOK
  <2> QED
    BY <1>1, <2>2, <2>3 DEF incomingHandler
<1>2. CASE signal
  BY <1>q, <1>2 DEF signal, NoLostWakeup, TypeOK
<1>3. CASE takeReady
  BY <1>q, <1>3 DEF takeReady, NoLostWakeup, TypeOK, Loop
<1>4. CASE handleMessage
  <2>1. pop /\ UNCHANGED <<handler, stanzas>>
    BY <1>4 DEF handleMessage
  <2>2. CASE queue.items = <<>>
    <3>1. queue' = [items |-> <<>>, ready |-> queue.ready \/ Len(queue.items) > 1]
      BY <2>1, <2>2 DEF pop
    <3>2. <<>> \in Seq(Messages) /\ queue.ready \in BOOLEAN
      BY <1>q
    <3>3. queue' \in [items : Seq(Messages), ready : BOOLEAN] /\ queue'.items = <<>>
      BY <3>1, <3>2
    <3> QED
      BY <2>1, <3>3 DEF NoLostWakeup, TypeOK
  <2>3. CASE queue.items # <<>>
    <3>1. /\ Tail(queue.items) \in Seq(Messages)
          /\ Tail(queue.items) # <<>> => Len(queue.items) > 1
      BY <1>q, <2>3
    <3>2. queue' = [items |-> Tail(queue.items), ready |-> queue.ready \/ Len(queue.items) > 1]
      BY <2>1, <2>3 DEF pop
    <3> QED
      BY <1>q, <2>1, <3>1, <3>2 DEF NoLostWakeup, TypeOK
  <2> QED
    BY <2>2, <2>3
<1>5. CASE connect \/ arm \/ stop \/ turnEnds \/ runScheduled
  <2>1. UNCHANGED queueVars /\ loop.pc # "pop"
    BY <1>5 DEF connect, arm, stop, turnEnds, runScheduled
  <2> QED
    BY <2>1 DEF queueVars, NoLostWakeup, TypeOK
<1>6. CASE progress \/ tick \/ cancel \/ streamEnds \/ UNCHANGED vars
  <2>1. UNCHANGED <<queueVars, loop>>
    BY <1>6 DEF progress, tick, cancel, streamEnds, vars, queueVars
  <2> QED
    BY <2>1 DEF queueVars, NoLostWakeup, TypeOK
<1> QED
  BY <1>1, <1>2, <1>3, <1>4, <1>5, <1>6 DEF Next, loopStep

\* Every step keeps the trail of a turn in one message, and shown at the end.
LEMMA ShowingStep ==
    ASSUME TypeOK, Showing, [Next]_vars
    PROVE  Showing' /\ turn' \in Turn /\ faults' \in 0..MaxFaults
<1>l. loop \in Loop /\ turn \in Turn /\ faults \in 0..MaxFaults
  BY DEF TypeOK
<1>h. Honest(turn)
  BY DEF Showing, Honest
\* Nothing is shown, or a turn goes on, or nothing of it changed.
<1>s. ASSUME turn' \in Turn, Honest(turn'), fault \/ UNCHANGED faults,
             turn'.on = "no" \/ loop'.pc \notin {"connect", "select", "pop"},
             loop'.pc = "top" /\ turn'.on = "typed" /\ ~turn'.failed => turn'.seen = turn'.lines
      PROVE  Showing' /\ turn' \in Turn /\ faults' \in 0..MaxFaults
  <2>1. turn'.posts \in {0, 1}
    BY <1>s DEF Honest
  <2>2. TrailIsShown'
    BY <1>s, <2>1 DEF TrailIsShown
  <2> QED
    BY <1>l, <1>s, <2>2, FaultEffect DEF Showing, Honest
<1>1. CASE connect
  <2>1. UNCHANGED turn /\ loop'.pc \in {"top", "returned"} /\ turn.on = "no"
    BY <1>1, <1>l DEF connect, Loop, Showing
  <2> QED
    BY <1>1, <1>h, <1>l, <1>s, <2>1 DEF connect
<1>2. CASE arm
  BY <1>2, <1>s, NoTurnEffect DEF arm
<1>3. CASE stop \/ takeReady
  <2>1. UNCHANGED <<turn, faults>> /\ turn.on = "no"
    BY <1>3 DEF stop, takeReady, Showing
  <2> QED
    BY <1>h, <1>l, <1>s, <2>1
<1>4. CASE handleMessage
  <2>1. turn.on = "no" /\ (loop' = [loop EXCEPT !.pc = "top"] \/ loop' = [loop EXCEPT !.pc = "turn"])
    BY <1>4 DEF handleMessage, Showing
  <2>2. CASE UNCHANGED turn /\ (fault \/ UNCHANGED faults)
    BY <1>h, <1>l, <1>s, <2>1, <2>2
  <2>3. CASE runTurn("typed") /\ loop' = [loop EXCEPT !.pc = "turn"]
    BY <1>l, <1>s, <2>3, RunTurnEffect DEF Loop
  <2>4. ASSUME NEW m \in Messages, m.body \in Commands, handleCommand(m)
        PROVE  fault \/ UNCHANGED faults
    BY <2>4 DEF handleCommand, startSession, resumeSession, replaceCurrent, keepCurrent, Commands
  <2>5. queue.items # <<>> => Head(queue.items) \in Messages
    BY DEF TypeOK
  <2> QED
    BY <1>4, <2>2, <2>3, <2>4, <2>5 DEF handleMessage
<1>5. CASE runScheduled
  <2>1. CASE loop' = [loop EXCEPT !.pc = "top"] /\ UNCHANGED turn
    <3>1. turn.on = "no" /\ (fault \/ UNCHANGED faults)
      BY <1>5 DEF runScheduled, startSession, replaceCurrent, keepCurrent, Showing
    <3> QED
      BY <1>h, <1>l, <1>s, <2>1, <3>1
  <2>2. CASE loop' = [loop EXCEPT !.pc = "turn"] /\ runTurn("scheduled")
    BY <1>l, <1>s, <2>2, RunTurnEffect DEF Loop
  <2> QED
    BY <1>5, <2>1, <2>2 DEF runScheduled
<1>6. CASE progress
  <2>1. loop'.pc = "turn"
    BY <1>6 DEF progress
  <2> QED
    BY <1>6, <1>h, <1>s, <2>1, ProgressEffect
<1>7. CASE turnEnds
  <2>1. loop'.pc = "top" /\ lastFlush
    BY <1>7, <1>l DEF turnEnds, Loop
  <2> QED
    BY <1>h, <1>s, <2>1, LastFlushEffect
<1>8. CASE \/ \E m \in Messages, kind \in {"chat", "other"} : incomingHandler(m, kind)
           \/ signal \/ tick \/ cancel \/ streamEnds \/ UNCHANGED vars
  <2>1. UNCHANGED <<turn, loop, faults>>
    BY <1>8 DEF incomingHandler, signal, tick, cancel, streamEnds, vars
  <2> QED
    BY <1>l, <2>1 DEF Showing, TrailIsShown
<1> QED
  BY <1>1, <1>2, <1>3, <1>4, <1>5, <1>6, <1>7, <1>8 DEF Next, loopStep

\* Every step leaves the slots served behind, and the one waited for ahead of them.
LEMMA WaitingStep ==
    ASSUME TypeOK, Waiting, [Next]_vars
    PROVE  Waiting' /\ served' \subseteq 0..MaxTime
<1>l. loop \in Loop /\ now \in Nat /\ now <= MaxTime /\ served \subseteq Nat /\ served \subseteq 0..MaxTime
  BY XmppAssumption DEF TypeOK
<1>1. CASE arm
  <2>1. loop'.due > now /\ loop'.due \in Nat /\ UNCHANGED <<now, served>>
    BY <1>1, NextDueIsLater DEF arm, outside, TypeOK
  <2> QED
    BY <1>l, <2>1 DEF Waiting
<1>2. CASE runScheduled
  <2>1. loop'.pc # "select" /\ UNCHANGED now
    BY <1>l, <1>2 DEF runScheduled, outside, Loop
  <2>2. loop.due <= now /\ loop.due \in Nat /\ \A x \in served' : x \in served \/ x = loop.due
    BY <1>l, <1>2 DEF runScheduled, Loop
  <2>3. loop.due \in 0..MaxTime
    BY <1>l, <2>2, XmppAssumption
  <2>4. \A x \in served' : x <= now /\ x \in 0..MaxTime
    BY <1>l, <2>2, <2>3 DEF Waiting
  <2> QED
    BY <2>1, <2>4 DEF Waiting
<1>3. CASE connect \/ stop \/ takeReady \/ turnEnds
  <2>1. loop'.pc # "select" /\ UNCHANGED <<now, served>>
    BY <1>l, <1>3 DEF connect, stop, takeReady, turnEnds, outside, Loop
  <2> QED
    BY <1>l, <2>1 DEF Waiting
<1>4. CASE handleMessage
  <2>1. loop'.pc # "select" /\ UNCHANGED <<now, served>>
    <3>1. loop' \in {[loop EXCEPT !.pc = "top"], [loop EXCEPT !.pc = "turn"]}
      BY <1>4 DEF handleMessage
    <3> QED
      BY <1>l, <1>4, <3>1 DEF handleMessage, outside, Loop
  <2> QED
    BY <1>l, <2>1 DEF Waiting
<1>5. CASE tick
  BY <1>l, <1>5 DEF tick, Waiting
<1>6. CASE \/ \E m \in Messages, kind \in {"chat", "other"} : incomingHandler(m, kind)
           \/ signal \/ progress \/ cancel \/ streamEnds \/ UNCHANGED vars
  <2>1. UNCHANGED <<loop, now, served>>
    BY <1>6 DEF incomingHandler, signal, progress, cancel, streamEnds, vars, outside
  <2> QED
    BY <1>l, <2>1 DEF Waiting
<1> QED
  BY <1>1, <1>2, <1>3, <1>4, <1>5, <1>6 DEF Next, loopStep

\* The world outside the loop.
LEMMA OutsideStep ==
    ASSUME TypeOK, [Next]_vars
    PROVE  /\ now' \in 0..MaxTime /\ continuing' \in BOOLEAN
           /\ ctx' \in {"live", "done"} /\ stream' \in {"up", "ended"}
<1>1. CASE tick \/ cancel \/ streamEnds \/ UNCHANGED outside
  BY <1>1, XmppAssumption DEF TypeOK, tick, cancel, streamEnds, outside
<1>2. CASE \/ \E m \in Messages, kind \in {"chat", "other"} : incomingHandler(m, kind)
           \/ signal \/ connect \/ loopStep \/ UNCHANGED vars
  <2>1. UNCHANGED outside
    BY <1>2 DEF incomingHandler, signal, connect, loopStep, arm, stop, takeReady, handleMessage,
                runScheduled, progress, turnEnds, vars, outside
  <2> QED
    BY <1>1, <2>1
<1> QED
  BY <1>1, <1>2 DEF Next

\* The invariant is inductive.
LEMMA Inductive == IInv /\ [Next]_vars => IInv'
<1> SUFFICES ASSUME IInv, [Next]_vars PROVE IInv'
  OBVIOUS
<1>1. TypeOK /\ Started /\ OneHandle /\ NoLostWakeup /\ Showing /\ Waiting
  BY DEF IInv
<1>2. /\ OneHandle' /\ Started' /\ current' \in Ids
      /\ sessions' \in [started : Ids, stored : SUBSET Ids]
  BY <1>1, HandleStep
<1>3. open' \in [Ids -> Nat]
  BY <1>2 DEF OneHandle
<1>4. TypeOK'
  BY <1>1, <1>2, <1>3, LoopStep, QueueStep, ShowingStep, WaitingStep, OutsideStep DEF TypeOK
<1> QED
  BY <1>1, <1>2, <1>4, QueueStep, ShowingStep, WaitingStep DEF IInv

-----------------------------------------------------------------------------
(* Theorems *)

\* Every state the bridge reaches has every part of the invariant.
THEOREM Invariance == Spec => []IInv
  BY InitIInv, Inductive, PTL DEF Spec

\* Every variable of the bridge keeps its type.
THEOREM BridgeTypes == Spec => []TypeOK
<1>1. IInv => TypeOK
  BY DEF IInv
<1> QED
  BY <1>1, Invariance, PTL

\* However pushes, signals and pops interleave, a message in the queue has somebody
\* on the way to it (push, pop).
THEOREM MessagesAreWokenFor == Spec => []NoLostWakeup
<1>1. IInv => NoLostWakeup
  BY DEF IInv
<1> QED
  BY <1>1, Invariance, PTL

\* Whatever sessions are started, resumed, refused or fail to open, the bridge holds
\* one handle, on the current session, and none when Run has returned.
THEOREM HandlesAreReleased == Spec => []OneHandle
<1>1. IInv => OneHandle
  BY DEF IInv
<1> QED
  BY <1>1, Invariance, PTL

\* Whichever sends fail, a turn has one status message, and one whose sends all
\* succeeded ends with all of its trail seen (start, flush).
THEOREM TrailsAreShown == Spec => []TrailIsShown
<1>1. IInv => TrailIsShown
  BY DEF IInv, Showing
<1> QED
  BY <1>1, Invariance, PTL

\* For every schedule and however turns and the clock interleave, no slot starts two
\* turns (nextDue, serve).
THEOREM SlotsAreServedOnce == Spec => OneTurnPerSlot
<1>1. ASSUME IInv, [Next]_vars
      PROVE  [loop.pc = "select" /\ loop'.pc = "turn" => loop.due \notin served]_vars
  <2>1. loop \in Loop /\ served \subseteq Nat
    BY <1>1, XmppAssumption DEF IInv, TypeOK
  <2>2. loop.pc = "select" => \A s \in served : s < loop.due
    BY <1>1 DEF IInv, Waiting
  <2> QED
    BY <2>1, <2>2 DEF Loop
<1> QED
  BY <1>1, Invariance, PTL DEF Spec, OneTurnPerSlot

=============================================================================
