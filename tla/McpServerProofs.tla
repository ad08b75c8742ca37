---------------------------- MODULE McpServerProofs ----------------------------
(***************************************************************************)
(* Proofs about McpServer for every set of callers and every bound on      *)
(* sessions, calls, closes and faults, and that it implements the safety   *)
(* part of ToolCalls.                                                      *)
(***************************************************************************)
EXTENDS McpServer, TLAPS

\* A caller's session was dialed, and whoever holds the lock dials.
Placed(c) ==
    /\ caller[c].pc \in {"call", "served", "drop", "close"} =>
           caller[c].sess \in Sessions /\ life[caller[c].sess] # "none"
    /\ mu = c <=> caller[c].pc = "dial"
    /\ caller[c].pc = "close" => session # caller[c].sess

\* The first try runs the tool once at most, and so does the second.
Ran(c) ==
    /\ caller[c].pc # "idle" => caller[c].outcome = "none"
    /\ caller[c].pc \in {"connect", "dial", "call"} => caller[c].ran < caller[c].try
    /\ caller[c].pc \in {"served", "drop", "close"} => caller[c].ran <= caller[c].try
    /\ caller[c].pc = "served" => caller[c].ran >= 1
    /\ caller[c].pc \in {"drop", "close"} => caller[c].try = 1

Broken(s) == s # 0 /\ life[s] # "live"

\* What a call has lost: the session of its first try, the one it uses, and the one
\* that it would find in the cache, each if it is broken.
First(c) == IF caller[c].try = 2 \/ caller[c].pc \in {"drop", "close"} THEN 1 ELSE 0
Using(c) == IF caller[c].pc \in {"call", "served"} /\ Broken(caller[c].sess) THEN 1 ELSE 0
Cached(c) == IF Broken(session) /\ (caller[c].pc \in {"connect", "dial"} \/ session # caller[c].sess)
             THEN 1 ELSE 0

\* A call was hit at least as often as it has lost a session.
Paid(c) == caller[c].pc # "idle" => caller[c].hits >= First(c) + Using(c) + Cached(c)

\* What is cached was dialed, there is nothing cached over a dial, and so with what
\* Close has taken.
Known ==
    /\ session # 0 => life[session] # "none"
    /\ mu # Nobody => session = 0
    /\ closer # 0 => life[closer] # "none"

IInv ==
    /\ TypeOK /\ Known
    /\ \A c \in Callers : Placed(c) /\ Ran(c) /\ Paid(c)
    /\ NoSessionIsLeaked /\ OneLossIsMadeGood

-----------------------------------------------------------------------------
(* The callers' records *)

\* y is caller x with k more hits, if it is in a call.
Hit(x, y, k) ==
    /\ y.pc = x.pc /\ y.kind = x.kind /\ y.sess = x.sess /\ y.try = x.try
    /\ y.ran = x.ran /\ y.outcome = x.outcome
    /\ y.hits = IF x.pc = "idle" THEN x.hits ELSE x.hits + k

\* hit: everybody in a call has one hit more.
LEMMA HitEffect ==
    ASSUME NEW cs \in [Callers -> CallState]
    PROVE  /\ hit(cs) \in [Callers -> CallState]
           /\ \A c \in Callers : Hit(cs[c], hit(cs)[c], 1)
<1>1. ASSUME NEW x \in CallState
      PROVE  /\ [x EXCEPT !.hits = @ + 1] \in CallState
             /\ x.pc # "idle" => Hit(x, [x EXCEPT !.hits = @ + 1], 1)
             /\ x.pc = "idle" => Hit(x, x, 1)
  BY DEF CallState, Hit
<1>2. \A c \in Callers :
         hit(cs)[c] = IF cs[c].pc = "idle" THEN cs[c] ELSE [cs[c] EXCEPT !.hits = @ + 1]
  BY DEF hit
<1>3. \A c \in Callers : hit(cs)[c] \in CallState /\ Hit(cs[c], hit(cs)[c], 1)
  BY <1>1, <1>2
<1> QED
  BY <1>3 DEF hit

\* closed: a hit for everybody if the session was live.
LEMMA ClosedEffect ==
    ASSUME TypeOK, NEW s \in Sessions
    PROVE  /\ closed(caller, s) \in [Callers -> CallState]
           /\ \A c \in Callers :
                 Hit(caller[c], closed(caller, s)[c], IF life[s] = "live" THEN 1 ELSE 0)
<1>1. caller \in [Callers -> CallState]
  BY DEF TypeOK
<1>2. CASE life[s] = "live"
  BY <1>1, <1>2, HitEffect DEF closed
<1>3. CASE life[s] # "live"
  <2>1. \A c \in Callers : caller[c].hits \in Nat
    BY <1>1 DEF CallState
  <2> QED
    BY <1>1, <1>3, <2>1 DEF closed, Hit
<1> QED
  BY <1>2, <1>3

\* y is caller x, but for where it is and its session.
Moved(x, y) ==
    /\ y.kind = x.kind /\ y.try = x.try /\ y.ran = x.ran /\ y.hits = x.hits
    /\ y.outcome = x.outcome

\* A caller moves on.
LEMMA GotoEffect ==
    ASSUME NEW cs \in [Callers -> CallState], NEW ds, NEW c \in Callers,
           NEW k \in {"call", "dial", "served", "drop", "close"},
           ds = [cs EXCEPT ![c].pc = k]
    PROVE  /\ ds \in [Callers -> CallState]
           /\ ds[c].pc = k /\ ds[c].sess = cs[c].sess /\ Moved(cs[c], ds[c])
           /\ \A d \in Callers : d # c => ds[d] = cs[d]
<1> DEFINE x == [cs[c] EXCEPT !.pc = k]
<1>1. cs[c] \in CallState
  OBVIOUS
<1>2. x \in CallState /\ x.pc = k /\ x.sess = cs[c].sess /\ Moved(cs[c], x)
  BY <1>1 DEF CallState, Moved
<1>3. ds = [cs EXCEPT ![c] = x]
  OBVIOUS
<1> HIDE DEF x
<1> QED
  BY <1>2, <1>3

\* A caller gets a session, or the lock.
LEMMA TakeEffect ==
    ASSUME TypeOK, NEW c \in Callers, NEW k \in {"call", "dial"}, NEW s \in 0..MaxSessions,
           caller' = [caller EXCEPT ![c].pc = k, ![c].sess = s]
    PROVE  /\ caller' \in [Callers -> CallState]
           /\ caller'[c].pc = k /\ caller'[c].sess = s /\ Moved(caller[c], caller'[c])
           /\ \A d \in Callers : d # c => caller'[d] = caller[d]
<1> DEFINE x == [caller[c] EXCEPT !.pc = k, !.sess = s]
<1>1. caller \in [Callers -> CallState] /\ caller[c] \in CallState
  BY DEF TypeOK
<1>2. x \in CallState /\ x.pc = k /\ x.sess = s /\ Moved(caller[c], x)
  BY <1>1 DEF CallState, Moved
<1>3. caller' = [caller EXCEPT ![c] = x]
  BY <1>1
<1> HIDE DEF x
<1> QED
  BY <1>1, <1>2, <1>3

\* over: c's call has returned.
LEMMA OverEffect ==
    ASSUME NEW cs \in [Callers -> CallState], NEW ds, NEW c \in Callers,
           NEW o \in {"answer", "noted", "error", "cancelled"},
           ds = over(cs, c, o)
    PROVE  /\ ds \in [Callers -> CallState]
           /\ ds[c].pc = "idle" /\ ds[c].outcome = o /\ ds[c].ran = cs[c].ran
           /\ ds[c].try = cs[c].try /\ ds[c].hits = cs[c].hits /\ ds[c].kind = cs[c].kind
           /\ \A d \in Callers : d # c => ds[d] = cs[d]
<1> DEFINE x == [cs[c] EXCEPT !.pc = "idle", !.sess = 0, !.outcome = o]
<1>1. cs[c] \in CallState /\ 0 \in 0..MaxSessions
  BY McpAssumption
<1>2. x \in CallState
  BY <1>1 DEF CallState
<1>3. /\ x.pc = "idle" /\ x.outcome = o
      /\ x.ran = cs[c].ran /\ x.try = cs[c].try /\ x.hits = cs[c].hits /\ x.kind = cs[c].kind
  BY <1>1 DEF CallState
<1>4. ds = [cs EXCEPT ![c] = x]
  BY DEF over
<1> HIDE DEF x
<1> QED
  BY <1>2, <1>3, <1>4

\* Call and Tools: a call begins.
LEMMA AsksEffect ==
    ASSUME TypeOK, NEW c \in Callers, NEW k \in {"call", "tools"}, asks(c, k)
    PROVE  /\ caller' \in [Callers -> CallState]
           /\ caller'[c].pc = "connect" /\ caller'[c].try = 1 /\ caller'[c].ran = 0
           /\ caller'[c].sess = 0 /\ caller'[c].outcome = "none"
           /\ caller'[c].hits = IF Broken(session) THEN 1 ELSE 0
           /\ \A d \in Callers : d # c => caller'[d] = caller[d]
<1> DEFINE h == IF session # 0 /\ life[session] # "live" THEN 1 ELSE 0
           x == [Resting EXCEPT !.pc = "connect", !.kind = k, !.hits = h]
<1>1. h \in Nat /\ h = IF Broken(session) THEN 1 ELSE 0
  BY DEF Broken
<1>2. caller' = [caller EXCEPT ![c] = x] /\ caller \in [Callers -> CallState]
  BY DEF asks, TypeOK
<1> HIDE DEF h
<1>3. /\ Resting \in CallState
      /\ Resting.try = 1 /\ Resting.ran = 0 /\ Resting.sess = 0 /\ Resting.outcome = "none"
  BY McpAssumption DEF CallState, Resting
<1>4. x = [Resting EXCEPT !.pc = "connect", !.kind = k, !.hits = h]
  OBVIOUS
<1> HIDE DEF x
<1>5. x \in CallState
  BY <1>1, <1>3, <1>4 DEF CallState
<1>6. /\ x.pc = "connect" /\ x.try = 1 /\ x.ran = 0 /\ x.sess = 0
      /\ x.outcome = "none" /\ x.hits = h
  BY <1>1, <1>3, <1>4 DEF CallState
<1> QED
  BY <1>1, <1>2, <1>5, <1>6

\* A call that redials: its session is closed under the others.
LEMMA RedialEffect ==
    ASSUME TypeOK, NEW c \in Callers, caller[c].sess \in Sessions, closesDropped(c)
    PROVE  /\ caller' \in [Callers -> CallState]
           /\ caller'[c].pc = "connect" /\ caller'[c].try = 2
           /\ caller'[c].hits = caller[c].hits /\ caller'[c].ran = caller[c].ran
           /\ caller'[c].outcome = caller[c].outcome
           /\ \A d \in Callers : d # c =>
                 Hit(caller[d], caller'[d], IF life[caller[c].sess] = "live" THEN 1 ELSE 0)
<1> DEFINE cs == closed(caller, caller[c].sess)
           x == [cs[c] EXCEPT !.pc = "connect", !.try = 2, !.hits = caller[c].hits]
<1>1. /\ cs \in [Callers -> CallState]
      /\ \A d \in Callers : Hit(caller[d], cs[d], IF life[caller[c].sess] = "live" THEN 1 ELSE 0)
  BY ClosedEffect
<1>2. caller' = [cs EXCEPT ![c] = x]
  BY DEF closesDropped
<1>3. caller[c].hits \in Nat
  BY DEF TypeOK, CallState
<1> HIDE DEF cs
<1>4. cs[c] \in CallState /\ cs[c].ran = caller[c].ran /\ cs[c].outcome = caller[c].outcome
  BY <1>1 DEF Hit
<1> DEFINE r == cs[c]
           n == caller[c].hits
<1>5. x = [r EXCEPT !.pc = "connect", !.try = 2, !.hits = n] /\ r \in CallState /\ n \in Nat
  BY <1>3, <1>4
<1> HIDE DEF x, r, n
<1>6. x \in CallState
  BY <1>5, 2 \in 1..2 DEF CallState
<1>7. /\ x.pc = "connect" /\ x.try = 2 /\ x.hits = n /\ x.ran = r.ran /\ x.outcome = r.outcome
  BY <1>5 DEF CallState
<1> QED
  BY <1>1, <1>2, <1>4, <1>6, <1>7 DEF r, n

-----------------------------------------------------------------------------
(* What a step does to the callers it is not a step of *)

\* Ways the world of a caller changes: not at all, the cache is emptied, a session is
\* dialed into it, and a session is lost, which hits whoever may be using it.
Same == UNCHANGED <<session, life>>
Emptied == session' = 0 /\ UNCHANGED life
Dialed == /\ session = 0 /\ session' \in Sessions /\ life[session'] = "none"
          /\ life' = [life EXCEPT ![session'] = "live"]
Lost(s, x) == /\ UNCHANGED session /\ life[s] # "none" /\ x \in {"dead", "closed"}
              /\ life' = [life EXCEPT ![s] = x]

\* Where it is, and how often its tool ran.
LEMMA OtherPlaced ==
    ASSUME TypeOK, NEW d \in Callers, Placed(d), Ran(d), NEW k, Hit(caller[d], caller'[d], k),
           mu' = d <=> mu = d,
           Same \/ Emptied \/ Dialed \/ \E s \in Sessions : \E x : Lost(s, x)
    PROVE  Placed(d)' /\ Ran(d)'
<1>0. life \in [Sessions -> {"none", "live", "dead", "closed"}] /\ 0 \notin Sessions
  BY DEF TypeOK, Sessions
<1>1. \A s \in Sessions : life[s] # "none" => life'[s] # "none"
  BY <1>0 DEF Same, Emptied, Dialed, Lost
<1>2. \A s \in Sessions : session # s /\ life[s] # "none" => session' # s
  BY <1>0 DEF Same, Emptied, Dialed, Lost
<1>3. caller[d].pc = "close" => caller[d].sess \in Sessions /\ life[caller[d].sess] # "none"
  BY DEF Placed
<1>4. Placed(d)'
  BY <1>1, <1>2, <1>3 DEF Placed, Hit
<1>5. Ran(d)'
  BY DEF Ran, Hit
<1> QED
  BY <1>4, <1>5

\* A call pays for what it loses.
LEMMA OtherPaid ==
    ASSUME TypeOK, Known, NEW d \in Callers, Placed(d), Paid(d), NEW k \in Nat,
           Hit(caller[d], caller'[d], k),
           \/ Same \/ Emptied \/ Dialed
           \/ \E s \in Sessions : \E x : Lost(s, x) /\ (life[s] = "live" => k >= 1)
    PROVE  Paid(d)'
<1> DEFINE x == caller[d]
           y == caller'[d]
<1>0. /\ life \in [Sessions -> {"none", "live", "dead", "closed"}] /\ 0 \notin Sessions
      /\ session \in Sessions \cup {0}
  BY McpAssumption DEF TypeOK, Sessions
<1>1. y.pc = x.pc /\ y.sess = x.sess /\ y.try = x.try
  BY DEF Hit
<1>2. x.pc # "idle" => y.hits = x.hits + k
  BY DEF Hit
<1>3. x.hits \in Nat
  BY DEF TypeOK, CallState
<1>4. First(d)' = First(d)
  BY <1>1 DEF First
<1>5. First(d) \in Nat /\ Using(d) \in Nat /\ Cached(d) \in Nat
      /\ Using(d)' \in Nat /\ Cached(d)' \in Nat
  BY DEF First, Using, Cached
<1>6. CASE Same
  <2>1. Using(d)' = Using(d) /\ Cached(d)' = Cached(d)
    BY <1>1, <1>6 DEF Same, Using, Cached, Broken
  <2> QED
    BY <1>1, <1>2, <1>3, <1>4, <1>5, <2>1 DEF Paid
<1>7. CASE Emptied
  <2>1. Using(d)' = Using(d) /\ Cached(d)' = 0
    BY <1>1, <1>7 DEF Emptied, Using, Cached, Broken
  <2> QED
    BY <1>1, <1>2, <1>3, <1>4, <1>5, <2>1 DEF Paid
<1>8. CASE Dialed
  <2>1. \A s \in Sessions : s # session' => life'[s] = life[s]
    BY <1>0, <1>8 DEF Dialed
  <2>2. life'[session'] = "live"
    BY <1>0, <1>8 DEF Dialed
  <2>3. x.pc \in {"call", "served"} => x.sess \in Sessions /\ x.sess # session'
    BY <1>8 DEF Placed, Dialed
  <2>4. Using(d)' = Using(d) /\ Cached(d)' = 0
    BY <1>1, <2>1, <2>2, <2>3 DEF Using, Cached, Broken
  <2> QED
    BY <1>1, <1>2, <1>3, <1>4, <1>5, <2>4 DEF Paid
<1>9. ASSUME NEW s \in Sessions, NEW z, Lost(s, z), life[s] = "live" => k >= 1
      PROVE  Paid(d)'
  <2>1. /\ session' = session /\ life'[s] # "live"
        /\ \A t \in Sessions : t # s => life'[t] = life[t]
    BY <1>0, <1>9 DEF Lost
  <2>2. x.pc \in {"call", "served"} => x.sess \in Sessions
    BY DEF Placed
  <2>3. \A t \in Sessions \cup {0} : t # s => (Broken(t)' <=> Broken(t))
    BY <2>1 DEF Broken
  <2>4. CASE life[s] # "live"
    <3>1. \A t \in Sessions \cup {0} : Broken(t)' <=> Broken(t)
      BY <1>0, <2>1, <2>3, <2>4 DEF Broken
    <3>2. Using(d)' = Using(d) /\ Cached(d)' = Cached(d)
      BY <1>0, <1>1, <2>1, <2>2, <3>1 DEF Using, Cached
    <3> QED
      BY <1>1, <1>2, <1>3, <1>4, <1>5, <3>2 DEF Paid
  <2>5. CASE life[s] = "live"
    <3>1. Using(d)' + Cached(d)' <= Using(d) + Cached(d) + 1
      <4>1. CASE x.sess = s /\ x.pc \in {"call", "served"}
        <5>1. Cached(d)' <= Cached(d)
          BY <1>0, <1>1, <2>1, <2>3, <4>1 DEF Cached
        <5> QED
          BY <1>5, <5>1 DEF Using
      <4>2. CASE ~(x.sess = s /\ x.pc \in {"call", "served"})
        <5>1. Using(d)' = Using(d)
          BY <1>1, <2>2, <2>3, <4>2 DEF Using
        <5> QED
          BY <1>5, <5>1 DEF Cached
      <4> QED
        BY <4>1, <4>2
    <3> QED
      BY <1>1, <1>2, <1>3, <1>4, <1>5, <1>9, <2>5, <3>1 DEF Paid
  <2> QED
    BY <2>4, <2>5
<1> QED
  BY <1>6, <1>7, <1>8, <1>9

-----------------------------------------------------------------------------
(* Calls as ToolCalls has them *)

\* What ToolCalls sees of a caller is as it was.
Unseen(c) ==
    /\ caller'[c].pc = "idle" <=> caller[c].pc = "idle"
    /\ caller'[c].ran = caller[c].ran /\ caller'[c].outcome = caller[c].outcome

\* What ToolCalls sees of a caller.
Seen == [waits : BOOLEAN, ran : 0..2, outcome : Promise!Outcomes]

\* Two that look the same are.
LEMMA SeenEqual ==
    ASSUME NEW x \in Seen, NEW y \in Seen,
           x.waits = y.waits, x.ran = y.ran, x.outcome = y.outcome
    PROVE  x = y
  BY DEF Seen

\* The view of ToolCalls, by caller, in one state or the next.
LEMMA ViewType ==
    ASSUME NEW cs \in [Callers -> CallState], NEW ps,
           ps = [c \in Callers |-> [waits |-> cs[c].pc # "idle", ran |-> cs[c].ran,
                                    outcome |-> cs[c].outcome]]
    PROVE  /\ ps \in [Callers -> Seen]
           /\ \A c \in Callers : /\ ps[c].waits = (cs[c].pc # "idle")
                                 /\ ps[c].ran = cs[c].ran
                                 /\ ps[c].outcome = cs[c].outcome
<1>1. \A c \in Callers : cs[c].ran \in 0..2 /\ cs[c].outcome \in Promise!Outcomes
  BY DEF CallState, Promise!Outcomes
<1>2. ASSUME NEW w \in BOOLEAN, NEW n \in 0..2, NEW o \in Promise!Outcomes
      PROVE  [waits |-> w, ran |-> n, outcome |-> o] \in Seen
  BY DEF Seen
<1> QED
  BY <1>1, <1>2

\* What is seen of the callers.
LEMMA PromisedType ==
    /\ caller \in [Callers -> CallState] =>
          /\ promised \in [Callers -> Seen]
          /\ \A c \in Callers : /\ promised[c].waits = (caller[c].pc # "idle")
                                /\ promised[c].ran = caller[c].ran
                                /\ promised[c].outcome = caller[c].outcome
    /\ caller' \in [Callers -> CallState] =>
          /\ promised' \in [Callers -> Seen]
          /\ \A c \in Callers : /\ promised'[c].waits = (caller'[c].pc # "idle")
                                /\ promised'[c].ran = caller'[c].ran
                                /\ promised'[c].outcome = caller'[c].outcome
  BY ViewType DEF promised

\* A step nobody sees is a stutter.
LEMMA PromisedStutter ==
    ASSUME \A d \in Callers : Unseen(d)
    PROVE  promised' = promised
  BY DEF promised, Unseen

\* A step of one caller changes what is seen of no other.
LEMMA PromisedStep ==
    ASSUME caller \in [Callers -> CallState], caller' \in [Callers -> CallState],
           NEW c \in Callers, \A d \in Callers : d # c => Unseen(d),
           NEW x \in Seen, x.waits = (caller'[c].pc # "idle"), x.ran = caller'[c].ran,
           x.outcome = caller'[c].outcome
    PROVE  promised' = [promised EXCEPT ![c] = x]
<1>1. promised \in [Callers -> Seen] /\ promised' \in [Callers -> Seen]
  BY PromisedType
<1>2. ASSUME NEW d \in Callers, d # c PROVE promised'[d] = promised[d]
  BY <1>2 DEF promised, Unseen
<1>3. promised'[c] = x
  <2>1. /\ promised'[c].waits = (caller'[c].pc # "idle") /\ promised'[c].ran = caller'[c].ran
        /\ promised'[c].outcome = caller'[c].outcome
    BY PromisedType
  <2>2. promised'[c] \in Seen
    BY <1>1
  <2> QED
    BY <2>1, <2>2, SeenEqual
<1> QED
  BY <1>1, <1>2, <1>3

\* A call that returns does so as it may.
LEMMA PromisedReturn ==
    ASSUME caller \in [Callers -> CallState], caller' \in [Callers -> CallState],
           NEW c \in Callers, \A d \in Callers : d # c => Unseen(d),
           caller[c].pc # "idle", caller'[c].pc = "idle", caller'[c].ran = caller[c].ran,
           caller'[c].outcome \in {"answer", "noted", "error", "cancelled"},
           caller'[c].outcome = "answer" => caller[c].ran = 1,
           caller'[c].outcome = "noted" => caller[c].ran \in 1..2
    PROVE  Promise!Return(c)
<1> DEFINE o == caller'[c].outcome
           r == promised[c]
           x == [r EXCEPT !.waits = FALSE, !.outcome = o]
<1>1. r \in Seen /\ r.waits /\ r.ran = caller[c].ran
  BY PromisedType
<1>2. o \in Promise!Outcomes \ {"none"}
  BY DEF Promise!Outcomes
<1>3. promised' = [promised EXCEPT ![c].waits = FALSE, ![c].outcome = o]
  <2>1. promised' = [promised EXCEPT ![c] = x]
    <3> HIDE DEF o, r
    <3>1. x \in Seen /\ x.waits = FALSE /\ x.ran = r.ran /\ x.outcome = o
      BY <1>1, <1>2 DEF Seen
    <3> HIDE DEF x
    <3> QED
      BY <1>1, <3>1, PromisedStep DEF o
  <2> QED
    BY <2>1
<1> HIDE DEF o
<1> QED
  BY <1>1, <1>2, <1>3 DEF Promise!Return, o

\* A call that begins.
LEMMA PromisedAsk ==
    ASSUME caller \in [Callers -> CallState], caller' \in [Callers -> CallState],
           NEW c \in Callers, \A d \in Callers : d # c => Unseen(d),
           caller[c].pc = "idle", caller'[c].pc # "idle", caller'[c].ran = 0,
           caller'[c].outcome = "none"
    PROVE  Promise!Ask(c)
<1> DEFINE x == [waits |-> TRUE, ran |-> 0, outcome |-> "none"]
<1>1. x \in Seen /\ x.waits = TRUE /\ x.ran = 0 /\ x.outcome = "none"
  BY DEF Seen, Promise!Outcomes
<1>2. promised' = [promised EXCEPT ![c] = x]
  <2> HIDE DEF x
  <2> QED
    BY <1>1, PromisedStep
<1>3. promised[c].waits = FALSE
  BY PromisedType
<1> QED
  BY <1>2, <1>3 DEF Promise!Ask

\* A tool that runs.
LEMMA PromisedRun ==
    ASSUME caller \in [Callers -> CallState], caller' \in [Callers -> CallState],
           NEW c \in Callers, \A d \in Callers : d # c => Unseen(d),
           caller[c].pc # "idle", caller'[c].pc # "idle", caller'[c].ran = caller[c].ran + 1,
           caller[c].ran < 2, caller'[c].outcome = caller[c].outcome
    PROVE  Promise!RunTool(c)
<1> DEFINE r == promised[c]
           x == [r EXCEPT !.ran = @ + 1]
<1>1. r \in Seen /\ r.waits = TRUE /\ r.ran = caller[c].ran /\ r.outcome = caller[c].outcome
  BY PromisedType
<1>2. promised' = [promised EXCEPT ![c].ran = @ + 1]
  <2>1. promised' = [promised EXCEPT ![c] = x]
    <3> HIDE DEF r
    <3>1. r.ran \in 0..2 /\ r.ran < 2
      BY <1>1 DEF Seen
    <3>2. r.ran + 1 \in 0..2
      BY <3>1
    <3>3. x \in Seen /\ x.waits = TRUE /\ x.ran = r.ran + 1 /\ x.outcome = r.outcome
      BY <1>1, <3>2 DEF Seen
    <3> HIDE DEF x
    <3>4. /\ x.waits = (caller'[c].pc # "idle") /\ x.ran = caller'[c].ran
          /\ x.outcome = caller'[c].outcome
      BY <1>1, <3>3
    <3> QED
      BY <3>3, <3>4, PromisedStep
  <2> QED
    BY <2>1
<1> QED
  BY <1>1, <1>2 DEF Promise!RunTool

-----------------------------------------------------------------------------
(* The steps *)

\* What the invariant says of one caller.
Good(c) == caller[c].kind = "call" /\ caller[c].outcome = "error"
              => caller[c].hits >= 2 \/ caller[c].try = 1

Sound(c) == Placed(c) /\ Ran(c) /\ Paid(c) /\ Good(c)

\* The invariant, by caller.
LEMMA IInvByCaller ==
    /\ IInv <=> TypeOK /\ Known /\ NoSessionIsLeaked /\ \A c \in Callers : Sound(c)
    /\ IInv' <=> TypeOK' /\ Known' /\ NoSessionIsLeaked' /\ \A c \in Callers : Sound(c)'
  BY DEF IInv, OneLossIsMadeGood, Sound, Good

\* A caller that a step is not of stays sound, and its call is seen as it was.
LEMMA OtherStep ==
    ASSUME TypeOK, Known, NEW d \in Callers, Sound(d), NEW k \in Nat,
           Hit(caller[d], caller'[d], k), mu' = d <=> mu = d,
           \/ Same \/ Emptied \/ Dialed
           \/ \E s \in Sessions : \E x : Lost(s, x) /\ (life[s] = "live" => k >= 1)
    PROVE  Sound(d)' /\ Unseen(d)
<1>1. Placed(d)' /\ Ran(d)'
  BY OtherPlaced DEF Sound
<1>2. Paid(d)'
  BY OtherPaid DEF Sound
<1>3. caller[d].hits \in Nat
  BY DEF TypeOK, CallState
<1>4. Good(d)'
  BY <1>3 DEF Good, Sound, Hit
<1> QED
  BY <1>1, <1>2, <1>4 DEF Sound, Unseen, Hit

\* And one it does not touch at all.
LEMMA UntouchedIsHit ==
    ASSUME TypeOK, NEW d \in Callers, caller'[d] = caller[d]
    PROVE  Hit(caller[d], caller'[d], 0)
  BY DEF Hit, TypeOK, CallState

\* All of those, by the way the step hits them.
LEMMA OthersHit ==
    ASSUME TypeOK, Known, \A d \in Callers : Sound(d), NEW c, NEW k \in Nat,
           \A d \in Callers : d # c => Hit(caller[d], caller'[d], k) /\ (mu' = d <=> mu = d),
           \/ Same \/ Emptied \/ Dialed
           \/ \E s \in Sessions : \E x : Lost(s, x) /\ (life[s] = "live" => k >= 1)
    PROVE  \A d \in Callers : d # c => Sound(d)' /\ Unseen(d)
<1>1. ASSUME NEW d \in Callers, d # c PROVE Sound(d)' /\ Unseen(d)
  <2>1. Hit(caller[d], caller'[d], k) /\ (mu' = d <=> mu = d) /\ Sound(d)
    BY <1>1
  <2> QED
    BY <2>1, OtherStep
<1> QED
  BY <1>1

\* A step of one caller leaves the others as they were.
LEMMA OthersUntouched ==
    ASSUME TypeOK, Known, \A d \in Callers : Sound(d), NEW c,
           \A d \in Callers : d # c => caller'[d] = caller[d] /\ (mu' = d <=> mu = d),
           Same \/ Emptied \/ Dialed
    PROVE  \A d \in Callers : d # c => Sound(d)' /\ Unseen(d)
<1>1. \A d \in Callers : d # c => Hit(caller[d], caller'[d], 0) /\ (mu' = d <=> mu = d)
  BY UntouchedIsHit
<1>2. 0 \in Nat
  OBVIOUS
<1> QED
  BY <1>1, <1>2, OthersHit

\* Init has every part of the invariant, and is a beginning of ToolCalls.
LEMMA InitStep == Init => IInv /\ Promise!Init
<1> SUFFICES ASSUME Init PROVE IInv /\ Promise!Init
  OBVIOUS
<1> USE McpAssumption
<1>1. Resting \in CallState /\ Resting.pc = "idle" /\ Resting.outcome = "none" /\ Resting.ran = 0
  BY DEF Resting, CallState
<1>2. TypeOK
  BY <1>1 DEF Init, TypeOK
<1>3. Known /\ NoSessionIsLeaked
  BY DEF Init, Known, NoSessionIsLeaked
<1>4. \A c \in Callers : Sound(c)
  BY <1>1 DEF Init, Sound, Placed, Ran, Paid, Good
<1>5. Promise!Init
  BY <1>1 DEF Init, Promise!Init, promised
<1> QED
  BY <1>2, <1>3, <1>4, <1>5, IInvByCaller

\* Call and Tools.
LEMMA AsksStep ==
    ASSUME TypeOK, Known, NoSessionIsLeaked, \A d \in Callers : Sound(d),
           NEW c \in Callers, NEW k \in {"call", "tools"}, asks(c, k)
    PROVE  IInv' /\ Promise!Ask(c)
<1>e. /\ caller' \in [Callers -> CallState]
      /\ caller'[c].pc = "connect" /\ caller'[c].try = 1 /\ caller'[c].ran = 0
      /\ caller'[c].sess = 0 /\ caller'[c].outcome = "none"
      /\ caller'[c].hits = IF Broken(session) THEN 1 ELSE 0
      /\ \A d \in Callers : d # c => caller'[d] = caller[d]
  BY AsksEffect
<1>u. UNCHANGED <<session, mu, life, closer, closes, faults>> /\ caller[c].pc = "idle"
  BY DEF asks
<1>1. \A d \in Callers : d # c => Sound(d)' /\ Unseen(d)
  BY <1>e, <1>u, OthersUntouched DEF Same
<1>2. Sound(c)'
  <2>1. Placed(c)' /\ Ran(c)' /\ Good(c)'
    BY <1>e, <1>u DEF Placed, Ran, Good, Sound
  <2>2. Paid(c)'
    BY <1>e, <1>u DEF Paid, First, Using, Cached, Broken
  <2> QED
    BY <2>1, <2>2 DEF Sound
<1>3. TypeOK' /\ Known'
  <2>1. calls' \in 0..MaxCalls
    BY McpAssumption DEF asks, TypeOK
  <2>2. TypeOK'
    BY <1>e, <1>u, <2>1 DEF TypeOK
  <2> QED
    BY <1>u, <2>2 DEF Known
<1>4. NoSessionIsLeaked'
  BY <1>e, <1>u DEF NoSessionIsLeaked
<1>5. Promise!Ask(c)
  BY <1>1, <1>e, <1>u, PromisedAsk DEF TypeOK
<1> QED
  BY <1>1, <1>2, <1>3, <1>4, <1>5, IInvByCaller

\* establish, up to the dial.
LEMMA ConnectStep ==
    ASSUME TypeOK, Known, NoSessionIsLeaked, \A d \in Callers : Sound(d),
           NEW c \in Callers, connect(c)
    PROVE  IInv' /\ UNCHANGED promised
<1> DEFINE k == IF session # 0 THEN "call" ELSE "dial"
<1>u. /\ UNCHANGED <<session, life, closer, closes, calls, faults>>
      /\ caller[c].pc = "connect" /\ mu = Nobody /\ mu' = IF session # 0 THEN Nobody ELSE c
  BY DEF connect
<1>e. /\ caller' \in [Callers -> CallState]
      /\ caller'[c].pc = k /\ caller'[c].sess = session /\ Moved(caller[c], caller'[c])
      /\ \A d \in Callers : d # c => caller'[d] = caller[d]
  <2>1. caller' = [caller EXCEPT ![c].pc = k, ![c].sess = session]
    BY DEF connect
  <2>2. k \in {"call", "dial"} /\ session \in 0..MaxSessions /\ caller \in [Callers -> CallState]
    BY DEF TypeOK
  <2> HIDE DEF k
  <2> QED
    BY <2>1, <2>2, TakeEffect
<1>0. session # 0 => session \in Sessions
  BY McpAssumption DEF TypeOK, Sessions
<1>1. \A d \in Callers : d # c => Sound(d)' /\ Unseen(d)
  <2>1. \A d \in Callers : d # c => (mu' = d <=> mu = d)
    BY <1>u, McpAssumption
  <2> QED
    BY <1>e, <1>u, <2>1, OthersUntouched DEF Same
<1>2. Sound(c)' /\ Unseen(c)
  <2>1. Placed(c)'
    BY <1>0, <1>e, <1>u, McpAssumption DEF Placed, Known
  <2>2. Ran(c)' /\ Good(c)' /\ Unseen(c)
    BY <1>e, <1>u DEF Ran, Good, Sound, Moved, Unseen
  <2>3. First(c)' = First(c)
    BY <1>e, <1>u DEF First, Moved
  <2>4. Using(c)' + Cached(c)' = Cached(c)
    BY <1>e, <1>u DEF Using, Cached, Broken
  <2>5. caller[c].hits >= First(c) + Using(c) + Cached(c) /\ Using(c) = 0
    BY <1>u DEF Sound, Paid, Using
  <2>6. caller[c].hits \in Nat /\ First(c) \in Nat /\ Cached(c) \in Nat /\ Using(c)' \in Nat /\ Cached(c)' \in Nat
    BY DEF TypeOK, CallState, First, Using, Cached
  <2>7. Paid(c)'
    BY <1>e, <2>3, <2>4, <2>5, <2>6 DEF Paid, Moved
  <2> QED
    BY <2>1, <2>2, <2>7 DEF Sound
<1>3. TypeOK' /\ Known'
  <2>1. TypeOK'
    BY <1>e, <1>u DEF TypeOK
  <2> QED
    BY <1>u, <2>1 DEF Known
<1>4. NoSessionIsLeaked'
  BY <1>e, <1>u DEF NoSessionIsLeaked
<1> QED
  BY <1>1, <1>2, <1>3, <1>4, IInvByCaller, PromisedStutter

\* dial, and connect again.
LEMMA DialedStep ==
    ASSUME TypeOK, Known, NoSessionIsLeaked, \A d \in Callers : Sound(d),
           NEW c \in Callers, dialed(c)
    PROVE  IInv' /\ UNCHANGED promised
<1>1. PICK s \in Sessions :
          /\ life[s] = "none" /\ life' = [life EXCEPT ![s] = "live"] /\ session' = s
          /\ caller' = [caller EXCEPT ![c].pc = "call", ![c].sess = s]
  BY DEF dialed
<1>u. /\ UNCHANGED <<closer, closes, calls, faults>> /\ mu' = Nobody
      /\ caller[c].pc = "dial" /\ mu = c /\ session = 0
  BY McpAssumption DEF dialed, Sound, Placed, Known
<1>0. s \in 0..MaxSessions /\ life \in [Sessions -> {"none", "live", "dead", "closed"}] /\ s # 0
  BY McpAssumption DEF TypeOK, Sessions
<1>e. /\ caller' \in [Callers -> CallState]
      /\ caller'[c].pc = "call" /\ caller'[c].sess = s /\ Moved(caller[c], caller'[c])
      /\ \A d \in Callers : d # c => caller'[d] = caller[d]
  BY <1>0, <1>1, TakeEffect
<1>l. life'[s] = "live" /\ \A t \in Sessions : t # s => life'[t] = life[t]
  BY <1>0, <1>1
<1>2. \A d \in Callers : d # c => Sound(d)' /\ Unseen(d)
  <2>1. \A d \in Callers : d # c => (mu' = d <=> mu = d)
    BY <1>u, McpAssumption
  <2>2. Dialed
    BY <1>0, <1>1, <1>u DEF Dialed
  <2> QED
    BY <1>e, <2>1, <2>2, OthersUntouched
<1>3. Sound(c)' /\ Unseen(c)
  <2>1. Placed(c)'
    BY <1>0, <1>e, <1>l, <1>u, McpAssumption DEF Placed
  <2>2. Ran(c)' /\ Good(c)' /\ Unseen(c)
    BY <1>e, <1>u DEF Ran, Good, Sound, Moved, Unseen
  <2>3. First(c)' = First(c) /\ Using(c)' = 0 /\ Cached(c)' = 0
    BY <1>1, <1>e, <1>l, <1>u DEF First, Using, Cached, Broken, Moved
  <2>4. caller[c].hits >= First(c) + Using(c) + Cached(c)
    BY <1>u DEF Sound, Paid
  <2>5. caller[c].hits \in Nat /\ First(c) \in Nat /\ Using(c) \in Nat /\ Cached(c) \in Nat
    BY DEF TypeOK, CallState, First, Using, Cached
  <2>6. Paid(c)'
    BY <1>e, <2>3, <2>4, <2>5 DEF Paid, Moved
  <2> QED
    BY <2>1, <2>2, <2>6 DEF Sound
<1>4. TypeOK' /\ Known'
  <2>1. life' \in [Sessions -> {"none", "live", "dead", "closed"}]
    BY <1>0, <1>1
  <2>2. TypeOK'
    BY <1>0, <1>1, <1>e, <1>u, <2>1 DEF TypeOK
  <2>3. closer # 0 => closer \in Sessions
    BY McpAssumption DEF TypeOK, Sessions
  <2> QED
    BY <1>1, <1>u, <1>l, <2>2, <2>3 DEF Known
<1>5. NoSessionIsLeaked'
  <2>1. \A d \in Callers : caller[d].pc \in {"drop", "close"} => caller'[d] = caller[d]
    BY <1>e, <1>u
  <2>2. ASSUME NEW t \in Sessions, t # s, life'[t] \in {"live", "dead"}
        PROVE  \/ t \in {session', closer'}
               \/ \E d \in Callers : caller'[d].sess = t /\ caller'[d].pc \in {"drop", "close"}
    <3>1. life[t] \in {"live", "dead"} /\ t # 0
      BY <1>l, <2>2 DEF Sessions
    <3> QED
      BY <1>u, <2>1, <3>1 DEF NoSessionIsLeaked
  <2> QED
    BY <1>1, <2>2 DEF NoSessionIsLeaked
<1> QED
  BY <1>2, <1>3, <1>4, <1>5, IInvByCaller, PromisedStutter

\* A call returns: one loss has not made an error of it, and its outcome is one it may
\* have.
LEMMA ReturnStep ==
    ASSUME TypeOK, Known, NoSessionIsLeaked, \A d \in Callers : Sound(d),
           NEW c \in Callers, caller[c].pc \in {"dial", "call", "served"},
           caller' \in [Callers -> CallState], caller'[c].pc = "idle",
           caller'[c].ran = caller[c].ran, NEW k \in Nat,
           \A d \in Callers : d # c => Hit(caller[d], caller'[d], k),
           Good(c)', caller'[c].outcome \in {"answer", "noted", "error", "cancelled"},
           caller'[c].outcome = "answer" => caller[c].ran = 1,
           caller'[c].outcome = "noted" => caller[c].ran \in 1..2,
           mu' = IF caller[c].pc = "dial" THEN Nobody ELSE mu,
           UNCHANGED <<session, life, closer, closes, calls>>, faults' \in 0..MaxFaults
    PROVE  IInv' /\ Promise!Return(c)
<1>0. (mu = c <=> caller[c].pc = "dial") /\ Nobody # c
  BY McpAssumption DEF Sound, Placed
<1>1. \A d \in Callers : d # c => Sound(d)' /\ Unseen(d)
  <2>1. \A d \in Callers : d # c => (mu' = d <=> mu = d)
    BY <1>0, McpAssumption
  <2>2. \A d \in Callers : d # c => Hit(caller[d], caller'[d], k) /\ (mu' = d <=> mu = d)
    BY <2>1
  <2>3. Same
    BY DEF Same
  <2> QED
    BY <2>2, <2>3, OthersHit
<1>2. Sound(c)'
  BY <1>0 DEF Sound, Placed, Ran, Paid
<1>3. TypeOK'
  BY McpAssumption DEF TypeOK
<1>4. Known'
  BY DEF Known
<1>5. NoSessionIsLeaked'
  <2>1. \A d \in Callers : caller[d].pc \in {"drop", "close"} =>
            caller'[d].pc = caller[d].pc /\ caller'[d].sess = caller[d].sess
    BY DEF Hit
  <2> QED
    BY <2>1 DEF NoSessionIsLeaked
<1>6. Promise!Return(c)
  <2>1. caller \in [Callers -> CallState] /\ \A d \in Callers : d # c => Unseen(d)
    BY <1>1 DEF TypeOK
  <2> QED
    BY <2>1, PromisedReturn
<1> QED
  BY <1>1, <1>2, <1>3, <1>4, <1>5, <1>6, IInvByCaller

\* The dial fails, or the context ends first.
LEMMA DialFailsStep ==
    ASSUME TypeOK, Known, NoSessionIsLeaked, \A d \in Callers : Sound(d),
           NEW c \in Callers, dialFails(c)
    PROVE  IInv' /\ Promise!Return(c)
<1>0. caller \in [Callers -> CallState] /\ caller[c].hits \in Nat /\ caller[c].try \in 1..2
  BY DEF TypeOK, CallState
<1>u. /\ UNCHANGED <<session, life, closer, closes, calls>> /\ mu' = Nobody
      /\ caller[c].pc = "dial"
  BY DEF dialFails
<1>1. CASE fault /\ caller' = over(hit(caller), c, "error")
  <2> DEFINE cs == hit(caller)
  <2>1. cs \in [Callers -> CallState] /\ \A d \in Callers : Hit(caller[d], cs[d], 1)
    BY <1>0, HitEffect
  <2>2. caller' = over(cs, c, "error")
    BY <1>1
  <2> HIDE DEF cs
  <2>3. /\ caller' \in [Callers -> CallState]
        /\ caller'[c].pc = "idle" /\ caller'[c].outcome = "error" /\ caller'[c].ran = cs[c].ran
        /\ caller'[c].try = cs[c].try /\ caller'[c].hits = cs[c].hits
        /\ \A d \in Callers : d # c => caller'[d] = cs[d]
    BY <2>1, <2>2, OverEffect
  <2>4. /\ cs[c].ran = caller[c].ran /\ cs[c].try = caller[c].try
        /\ cs[c].hits = caller[c].hits + 1
    BY <1>u, <2>1 DEF Hit
  <2>5. \A d \in Callers : d # c => Hit(caller[d], caller'[d], 1)
    BY <2>1, <2>3
  <2>6. caller[c].try = 2 => caller[c].hits >= 1
    <3>1. caller[c].hits >= First(c) + Using(c) + Cached(c)
      BY <1>u DEF Sound, Paid
    <3>2. Using(c) \in Nat /\ Cached(c) \in Nat
      BY DEF Using, Cached
    <3>3. caller[c].try = 2 => First(c) = 1
      BY DEF First
    <3> QED
      BY <1>0, <3>1, <3>2, <3>3
  <2>7. Good(c)'
    BY <1>0, <2>3, <2>4, <2>6 DEF Good
  <2>8. faults' \in 0..MaxFaults /\ 1 \in Nat
    BY <1>1, McpAssumption DEF fault, TypeOK
  <2> QED
    BY <1>u, <2>3, <2>4, <2>5, <2>7, <2>8, ReturnStep
<1>2. CASE returned(c, "cancelled") /\ UNCHANGED faults
  <2>3. /\ caller' \in [Callers -> CallState]
        /\ caller'[c].pc = "idle" /\ caller'[c].outcome = "cancelled"
        /\ caller'[c].ran = caller[c].ran
        /\ \A d \in Callers : d # c => caller'[d] = caller[d]
    BY <1>0, <1>2, OverEffect DEF returned
  <2>5. \A d \in Callers : d # c => Hit(caller[d], caller'[d], 0)
    BY <2>3, UntouchedIsHit
  <2>7. Good(c)'
    BY <2>3 DEF Good
  <2>8. faults' \in 0..MaxFaults /\ 0 \in Nat
    BY <1>2 DEF TypeOK
  <2> QED
    BY <1>u, <2>3, <2>5, <2>7, <2>8, ReturnStep
<1> QED
  BY <1>1, <1>2 DEF dialFails

\* The server's answer, or the end of the context.
LEMMA AnswersStep ==
    ASSUME TypeOK, Known, NoSessionIsLeaked, \A d \in Callers : Sound(d),
           NEW c \in Callers, answers(c) \/ cancelled(c)
    PROVE  IInv' /\ Promise!Return(c)
<1>0. /\ caller \in [Callers -> CallState] /\ caller[c].ran \in 0..2 /\ caller[c].try \in 1..2
      /\ faults \in 0..MaxFaults
  BY DEF TypeOK, CallState
<1>u. /\ UNCHANGED <<session, mu, life, closer, closes, calls, faults>>
      /\ caller[c].pc \in {"call", "served"}
  BY DEF answers, cancelled
<1>1. PICK o \in {"answer", "noted", "cancelled"} :
          /\ caller' = over(caller, c, o)
          /\ o = "answer" => caller[c].pc = "served" /\ caller[c].try = 1
          /\ o = "noted" => caller[c].pc = "served" /\ caller[c].try = 2
  <2>1. CASE cancelled(c)
    BY <2>1 DEF cancelled, returned
  <2>2. CASE answers(c) /\ caller[c].try = 2
    <3>1. caller' = over(caller, c, "noted") /\ caller[c].pc = "served"
      BY <2>2 DEF answers, returned
    <3> QED
      BY <2>2, <3>1
  <2>3. CASE answers(c) /\ caller[c].try = 1
    <3>1. caller' = over(caller, c, "answer") /\ caller[c].pc = "served"
      BY <2>3 DEF answers, returned
    <3> QED
      BY <2>3, <3>1
  <2> QED
    BY <1>0, <2>1, <2>2, <2>3
<1>2. caller[c].pc = "served" => caller[c].ran >= 1 /\ caller[c].ran <= caller[c].try
  BY DEF Sound, Ran
<1>3. /\ caller' \in [Callers -> CallState]
      /\ caller'[c].pc = "idle" /\ caller'[c].outcome = o /\ caller'[c].ran = caller[c].ran
      /\ \A d \in Callers : d # c => caller'[d] = caller[d]
  <2>1. o \in {"answer", "noted", "error", "cancelled"}
    OBVIOUS
  <2>2. caller' = over(caller, c, o)
    BY <1>1
  <2> QED
    BY <1>0, <2>1, <2>2, OverEffect
<1>4. o = "answer" => caller[c].ran = 1
  BY <1>0, <1>1, <1>2
<1>5. o = "noted" => caller[c].ran \in 1..2
  BY <1>0, <1>1, <1>2
<1>6. \A d \in Callers : d # c => Hit(caller[d], caller'[d], 0)
  BY <1>3, UntouchedIsHit
<1>7. Good(c)' /\ 0 \in Nat
  BY <1>3 DEF Good
<1> QED
  BY <1>0, <1>u, <1>3, <1>4, <1>5, <1>6, <1>7, ReturnStep

\* The server runs the tool.
LEMMA ServesStep ==
    ASSUME TypeOK, Known, NoSessionIsLeaked, \A d \in Callers : Sound(d),
           NEW c \in Callers, serves(c)
    PROVE  IInv' /\ Promise!RunTool(c)
<1> DEFINE r == caller[c]
           x == [r EXCEPT !.pc = "served", !.ran = @ + 1]
<1>0. caller \in [Callers -> CallState] /\ r \in CallState
  BY DEF TypeOK
<1>u. /\ UNCHANGED <<session, mu, life, closer, closes, calls, faults>>
      /\ r.pc = "call" /\ life[r.sess] = "live" /\ caller' = [caller EXCEPT ![c] = x]
  BY <1>0 DEF serves
<1>1. r.ran < r.try /\ r.outcome = "none"
  BY <1>u DEF Sound, Ran
<1>2. r.ran \in 0..2 /\ r.try \in 1..2 /\ r.hits \in Nat
  BY <1>0 DEF CallState
<1>3. r.ran + 1 \in 0..2 /\ r.ran < 2
  BY <1>1, <1>2
<1>4. /\ x \in CallState /\ x.pc = "served" /\ x.ran = r.ran + 1
      /\ x.kind = r.kind /\ x.sess = r.sess /\ x.try = r.try /\ x.hits = r.hits
      /\ x.outcome = r.outcome
  <2> HIDE DEF r
  <2>1. x \in CallState
    BY <1>0, <1>3 DEF CallState
  <2> QED
    BY <1>0, <2>1 DEF CallState
<1> HIDE DEF x
<1>e. caller' \in [Callers -> CallState] /\ caller'[c] = x
      /\ \A d \in Callers : d # c => caller'[d] = caller[d]
  BY <1>0, <1>4, <1>u
<1>5. \A d \in Callers : d # c => Sound(d)' /\ Unseen(d)
  BY <1>e, <1>u, OthersUntouched DEF Same
<1>6. Sound(c)'
  <2>1. Placed(c)'
    BY <1>4, <1>e, <1>u DEF Placed, Sound
  <2>2. Ran(c)' /\ Good(c)'
    BY <1>1, <1>2, <1>4, <1>e DEF Ran, Good
  <2>3. First(c)' = First(c)
    BY <1>4, <1>e, <1>u DEF First
  <2>4. Using(c)' = Using(c)
    BY <1>4, <1>e, <1>u DEF Using, Broken
  <2>5. Cached(c)' = Cached(c)
    BY <1>4, <1>e, <1>u DEF Cached, Broken
  <2>6. Paid(c)'
    BY <1>4, <1>e, <1>u, <2>3, <2>4, <2>5 DEF Paid, Sound
  <2> QED
    BY <2>1, <2>2, <2>6 DEF Sound
<1>7. TypeOK'
  BY <1>e, <1>u DEF TypeOK
<1>8. Known'
  BY <1>u DEF Known
<1>9. NoSessionIsLeaked'
  BY <1>4, <1>e, <1>u DEF NoSessionIsLeaked
<1>10. Promise!RunTool(c)
  BY <1>0, <1>1, <1>3, <1>4, <1>5, <1>e, <1>u, PromisedRun
<1> QED
  BY <1>5, <1>6, <1>7, <1>8, <1>9, <1>10, IInvByCaller

\* How a request fails: its connection was broken before (k = 0), or is just now
\* (k = 1), which hits the callers.
Failed(c, k, cs) ==
    /\ \A d \in Callers : Hit(caller[d], cs[d], k)
    /\ k = 0 => Broken(caller[c].sess)
    /\ k = 1 => ~Broken(caller[c].sess)
    /\ caller' = IF caller[c].try = 2 \/ caller[c].kind = "tools" THEN over(cs, c, "error")
                 ELSE [cs EXCEPT ![c].pc = "drop"]
    /\ faults' \in 0..MaxFaults

\* A request whose connection fails.
LEMMA FailsStep ==
    ASSUME TypeOK, Known, NoSessionIsLeaked, \A d \in Callers : Sound(d),
           NEW c \in Callers, fails(c)
    PROVE  IInv' /\ (Promise!Return(c) \/ UNCHANGED promised)
<1> DEFINE r == caller[c]
<1>0. /\ caller \in [Callers -> CallState] /\ r.hits \in Nat /\ r.try \in 1..2
      /\ r.kind \in {"call", "tools"} /\ faults \in 0..MaxFaults
  BY DEF TypeOK, CallState
<1>u. UNCHANGED <<session, mu, life, closer, closes, calls>> /\ r.pc \in {"call", "served"}
  BY DEF fails
<1>s. r.sess \in Sessions /\ r.sess # 0 /\ (Broken(r.sess) <=> life[r.sess] # "live")
  <2>1. r.sess \in Sessions
    BY <1>u DEF Sound, Placed
  <2> QED
    BY <2>1 DEF Sessions, Broken
<1>1. PICK k \in {0, 1}, cs \in [Callers -> CallState] : Failed(c, k, cs)
  <2>1. CASE life[r.sess] # "live" /\ UNCHANGED faults
             /\ caller' = IF r.try = 2 \/ r.kind = "tools" THEN over(caller, c, "error")
                          ELSE [caller EXCEPT ![c].pc = "drop"]
    <3>1. \A d \in Callers : Hit(caller[d], caller[d], 0)
      BY DEF Hit, TypeOK, CallState
    <3>2. Failed(c, 0, caller)
      BY <1>0, <1>s, <2>1, <3>1 DEF Failed
    <3> QED
      BY <1>0, <3>2
  <2>2. CASE life[r.sess] = "live" /\ fault
             /\ caller' = IF r.try = 2 \/ r.kind = "tools" THEN over(hit(caller), c, "error")
                          ELSE [hit(caller) EXCEPT ![c].pc = "drop"]
    <3> DEFINE hs == hit(caller)
    <3>1. hs \in [Callers -> CallState] /\ \A d \in Callers : Hit(caller[d], hs[d], 1)
      BY <1>0, HitEffect
    <3>2. faults' \in 0..MaxFaults
      BY <2>2, McpAssumption DEF fault, TypeOK
    <3>3. caller' = IF r.try = 2 \/ r.kind = "tools" THEN over(hs, c, "error")
                    ELSE [hs EXCEPT ![c].pc = "drop"]
      BY <2>2
    <3> HIDE DEF hs
    <3>4. ~Broken(r.sess)
      BY <1>s, <2>2
    <3>5. Failed(c, 1, hs)
      BY <3>1, <3>2, <3>3, <3>4 DEF Failed
    <3> QED
      BY <3>1, <3>5
  <2> QED
    BY <2>1, <2>2 DEF fails
<1>2. /\ cs[c].pc = r.pc /\ cs[c].kind = r.kind /\ cs[c].sess = r.sess /\ cs[c].try = r.try
      /\ cs[c].ran = r.ran /\ cs[c].outcome = r.outcome /\ cs[c].hits = r.hits + k
  BY <1>1, <1>u DEF Hit, Failed
<1>3. r.hits + k >= First(c) + 1 + Cached(c)
  <2>1. r.hits >= First(c) + Using(c) + Cached(c)
    BY <1>u DEF Sound, Paid
  <2>2. Using(c) = IF Broken(r.sess) THEN 1 ELSE 0
    BY <1>u DEF Using
  <2>3. First(c) \in Nat /\ Cached(c) \in Nat
    BY DEF First, Cached
  <2> QED
    BY <1>0, <1>1, <2>1, <2>2, <2>3 DEF Failed
<1>n. k \in Nat /\ First(c) \in Nat /\ Cached(c) \in Nat
  BY DEF First, Cached
<1>f. faults' \in 0..MaxFaults
  BY <1>1 DEF Failed
<1>4. CASE r.try = 2 \/ r.kind = "tools"
  <2>1. caller' = over(cs, c, "error")
    BY <1>1, <1>4 DEF Failed
  <2>2. /\ caller' \in [Callers -> CallState]
        /\ caller'[c].pc = "idle" /\ caller'[c].outcome = "error" /\ caller'[c].ran = cs[c].ran
        /\ caller'[c].try = cs[c].try /\ caller'[c].hits = cs[c].hits
        /\ caller'[c].kind = cs[c].kind
        /\ \A d \in Callers : d # c => caller'[d] = cs[d]
    BY <2>1, OverEffect
  <2>3. \A d \in Callers : d # c => Hit(caller[d], caller'[d], k)
    BY <1>1, <2>2 DEF Failed
  <2>4. Good(c)'
    <3>1. r.try = 2 => First(c) = 1
      BY DEF First
    <3> QED
      BY <1>0, <1>2, <1>3, <1>4, <1>n, <2>2, <3>1 DEF Good
  <2>5. r.pc # "dial"
    BY <1>u
  <2> QED
    BY <1>2, <1>f, <1>n, <1>u, <2>2, <2>3, <2>4, <2>5, ReturnStep
<1>5. CASE ~(r.try = 2 \/ r.kind = "tools")
  <2>1. caller' = [cs EXCEPT ![c].pc = "drop"]
    BY <1>1, <1>5 DEF Failed
  <2>2. /\ caller' \in [Callers -> CallState]
        /\ caller'[c].pc = "drop" /\ caller'[c].sess = cs[c].sess /\ Moved(cs[c], caller'[c])
        /\ \A d \in Callers : d # c => caller'[d] = cs[d]
    BY <2>1, GotoEffect
  <2>3. \A d \in Callers : d # c => Hit(caller[d], caller'[d], k)
    BY <1>1, <2>2 DEF Failed
  <2>4. \A d \in Callers : d # c => Sound(d)' /\ Unseen(d)
    <3>1. Same /\ \A d \in Callers : d # c => Hit(caller[d], caller'[d], k) /\ (mu' = d <=> mu = d)
      BY <1>u, <2>3 DEF Same
    <3> QED
      BY <1>n, <3>1, OthersHit
  <2>5. Sound(c)' /\ Unseen(c)
    <3>1. Placed(c)'
      BY <1>2, <1>u, <2>2 DEF Placed, Sound
    <3>2. Ran(c)' /\ Good(c)' /\ Unseen(c)
      <4>1. r.ran <= r.try /\ r.outcome = "none" /\ r.ran \in 0..2
        BY <1>0, <1>u DEF Sound, Ran, TypeOK, CallState
      <4>2. r.try = 1
        BY <1>0, <1>5
      <4> QED
        BY <1>2, <1>u, <2>2, <4>1, <4>2 DEF Ran, Good, Moved, Unseen
    <3>3. First(c)' = 1 /\ Using(c)' = 0
      BY <2>2 DEF First, Using
    <3>4. Cached(c)' = Cached(c)
      BY <1>2, <1>u, <2>2 DEF Cached, Broken
    <3>5. Paid(c)'
      BY <1>0, <1>2, <1>3, <1>n, <2>2, <3>3, <3>4 DEF Paid, Moved
    <3> QED
      BY <3>1, <3>2, <3>5 DEF Sound
  <2>6. TypeOK'
    BY <1>f, <1>u, <2>2 DEF TypeOK
  <2>7. Known'
    BY <1>u DEF Known
  <2>8. NoSessionIsLeaked'
    <3>1. \A d \in Callers : caller[d].pc \in {"drop", "close"} =>
            caller'[d].pc = caller[d].pc /\ caller'[d].sess = caller[d].sess
      BY <1>u, <2>3 DEF Hit
    <3> QED
      BY <1>u, <3>1 DEF NoSessionIsLeaked
  <2> QED
    BY <2>4, <2>5, <2>6, <2>7, <2>8, IInvByCaller, PromisedStutter
<1> QED
  BY <1>4, <1>5

\* drop: what is not cached any more is in the caller's hands.
LEMMA DropStep ==
    ASSUME TypeOK, Known, NoSessionIsLeaked, \A d \in Callers : Sound(d),
           NEW c \in Callers, drop(c)
    PROVE  IInv' /\ UNCHANGED promised
<1> DEFINE r == caller[c]
<1>0. caller \in [Callers -> CallState] /\ r.hits \in Nat /\ session \in 0..MaxSessions
  BY DEF TypeOK, CallState
<1>u. /\ UNCHANGED <<mu, life, closer, closes, calls, faults>> /\ r.pc = "drop"
      /\ session' = IF session = r.sess THEN 0 ELSE session
      /\ caller' = [caller EXCEPT ![c].pc = "close"]
  BY DEF drop, goto
<1>s. r.sess \in Sessions /\ r.sess # 0 /\ life[r.sess] # "none"
  BY <1>u DEF Sound, Placed, Sessions
<1>e. /\ caller' \in [Callers -> CallState]
      /\ caller'[c].pc = "close" /\ caller'[c].sess = r.sess /\ Moved(r, caller'[c])
      /\ \A d \in Callers : d # c => caller'[d] = caller[d]
  BY <1>0, <1>u, GotoEffect
<1>1. \A d \in Callers : d # c => Sound(d)' /\ Unseen(d)
  <2>1. Same \/ Emptied
    BY <1>u DEF Same, Emptied
  <2> QED
    BY <1>e, <1>u, <2>1, OthersUntouched
<1>2. Sound(c)' /\ Unseen(c)
  <2>1. Placed(c)'
    BY <1>e, <1>s, <1>u DEF Placed, Sound
  <2>2. Ran(c)' /\ Good(c)' /\ Unseen(c)
    BY <1>e, <1>u DEF Ran, Good, Sound, Moved, Unseen
  <2>3. First(c)' = First(c) /\ Using(c)' = 0 /\ Using(c) = 0
    BY <1>e, <1>u DEF First, Using, Moved
  <2>4. Cached(c)' <= Cached(c)
    BY <1>e, <1>u DEF Cached, Broken
  <2>5. First(c) \in Nat /\ Cached(c) \in Nat /\ Cached(c)' \in Nat
    BY DEF First, Cached
  <2>6. r.hits >= First(c) + Using(c) + Cached(c)
    BY <1>u DEF Sound, Paid
  <2>7. Paid(c)'
    BY <1>0, <1>e, <2>3, <2>4, <2>5, <2>6 DEF Paid, Moved
  <2> QED
    BY <2>1, <2>2, <2>7 DEF Sound
<1>3. TypeOK'
  <2>1. session' \in 0..MaxSessions
    BY <1>0, <1>u, McpAssumption
  <2> QED
    BY <1>e, <1>u, <2>1 DEF TypeOK
<1>4. Known'
  BY <1>u DEF Known
<1>5. NoSessionIsLeaked'
  BY <1>e, <1>u DEF NoSessionIsLeaked
<1> QED
  BY <1>1, <1>2, <1>3, <1>4, <1>5, IInvByCaller, PromisedStutter

\* The dropped session is closed, and the call connects again.
LEMMA ClosesDroppedStep ==
    ASSUME TypeOK, Known, NoSessionIsLeaked, \A d \in Callers : Sound(d),
           NEW c \in Callers, closesDropped(c)
    PROVE  IInv' /\ UNCHANGED promised
<1> DEFINE r == caller[c]
           k == IF life[r.sess] = "live" THEN 1 ELSE 0
<1>0. /\ caller \in [Callers -> CallState] /\ r.hits \in Nat /\ r.ran \in 0..2
      /\ life \in [Sessions -> {"none", "live", "dead", "closed"}]
      /\ session \in Sessions \cup {0} /\ closer \in Sessions \cup {0}
  BY McpAssumption DEF TypeOK, CallState, Sessions
<1>u. /\ UNCHANGED <<session, mu, closer, closes, calls, faults>> /\ r.pc = "close"
      /\ life' = [life EXCEPT ![r.sess] = "closed"]
  BY DEF closesDropped
<1>s. /\ r.sess \in Sessions /\ r.sess # 0 /\ life[r.sess] # "none" /\ session # r.sess
      /\ r.outcome = "none" /\ r.ran <= r.try /\ r.try = 1 /\ mu # c
  BY <1>u DEF Sound, Placed, Ran, Sessions
<1>l. life'[r.sess] = "closed" /\ \A t \in Sessions : t # r.sess => life'[t] = life[t]
  BY <1>0, <1>s, <1>u
<1>e. /\ caller' \in [Callers -> CallState]
      /\ caller'[c].pc = "connect" /\ caller'[c].try = 2
      /\ caller'[c].hits = r.hits /\ caller'[c].ran = r.ran /\ caller'[c].outcome = r.outcome
      /\ \A d \in Callers : d # c => Hit(caller[d], caller'[d], k)
  BY <1>s, RedialEffect
<1>1. \A d \in Callers : d # c => Sound(d)' /\ Unseen(d)
  <2>1. Lost(r.sess, "closed") /\ (life[r.sess] = "live" => k >= 1) /\ k \in Nat
    BY <1>s, <1>u DEF Lost
  <2>2. \A d \in Callers : d # c => Hit(caller[d], caller'[d], k) /\ (mu' = d <=> mu = d)
    BY <1>e, <1>u
  <2> HIDE DEF k
  <2> QED
    BY <1>s, <2>1, <2>2, OthersHit
<1>2. Sound(c)' /\ Unseen(c)
  <2>1. Placed(c)'
    BY <1>e, <1>s, <1>u DEF Placed
  <2>2. Ran(c)' /\ Good(c)' /\ Unseen(c)
    BY <1>0, <1>e, <1>s, <1>u DEF Ran, Good, Unseen
  <2>3. First(c)' = 1 /\ First(c) = 1 /\ Using(c)' = 0 /\ Using(c) = 0
    BY <1>e, <1>u DEF First, Using
  <2>4. Cached(c)' = Cached(c)
    BY <1>0, <1>e, <1>l, <1>s, <1>u DEF Cached, Broken
  <2>5. Cached(c) \in Nat
    BY DEF Cached
  <2>6. r.hits >= First(c) + Using(c) + Cached(c)
    BY <1>u DEF Sound, Paid
  <2>7. Paid(c)'
    BY <1>0, <1>e, <2>3, <2>4, <2>5, <2>6 DEF Paid
  <2> QED
    BY <2>1, <2>2, <2>7 DEF Sound
<1>3. TypeOK'
  <2>1. life' \in [Sessions -> {"none", "live", "dead", "closed"}]
    BY <1>0, <1>u
  <2> QED
    BY <1>e, <1>u, <2>1 DEF TypeOK
<1>4. Known'
  BY <1>0, <1>l, <1>u DEF Known
<1>5. NoSessionIsLeaked'
  <2>1. \A d \in Callers : d # c => caller'[d].sess = caller[d].sess /\ caller'[d].pc = caller[d].pc
    BY <1>e DEF Hit
  <2>2. ASSUME NEW t \in Sessions, life'[t] \in {"live", "dead"}
        PROVE  \/ t \in {session', closer'}
               \/ \E d \in Callers : caller'[d].sess = t /\ caller'[d].pc \in {"drop", "close"}
    <3>1. life[t] \in {"live", "dead"} /\ t # r.sess
      BY <1>l, <2>2
    <3> QED
      BY <1>u, <2>1, <3>1 DEF NoSessionIsLeaked
  <2> QED
    BY <2>2 DEF NoSessionIsLeaked
<1> QED
  BY <1>1, <1>2, <1>3, <1>4, <1>5, IInvByCaller, PromisedStutter

\* Close: what was cached is in its hands.
LEMMA CloseStep ==
    ASSUME TypeOK, Known, NoSessionIsLeaked, \A d \in Callers : Sound(d), Close
    PROVE  IInv' /\ UNCHANGED promised
<1>u. /\ UNCHANGED <<mu, life, caller, calls, faults>> /\ closer = 0 /\ mu = Nobody
      /\ closer' = session /\ session' = 0
  BY DEF Close
<1>1. \A d \in Callers : Sound(d)' /\ Unseen(d)
  <2>1. Emptied /\ \A d \in Callers : d # Nobody => caller'[d] = caller[d] /\ (mu' = d <=> mu = d)
    BY <1>u DEF Emptied
  <2>2. \A d \in Callers : d # Nobody => Sound(d)' /\ Unseen(d)
    BY <2>1, OthersUntouched
  <2> QED
    BY <2>2, McpAssumption
<1>2. TypeOK'
  <2>1. closes' \in 0..MaxCloses /\ session' \in 0..MaxSessions
    BY McpAssumption DEF Close, TypeOK
  <2> QED
    BY <1>u, <2>1 DEF TypeOK
<1>3. Known'
  BY <1>u DEF Known
<1>4. NoSessionIsLeaked'
  <2>1. 0 \notin Sessions
    BY DEF Sessions
  <2> QED
    BY <1>u, <2>1 DEF NoSessionIsLeaked
<1> QED
  BY <1>1, <1>2, <1>3, <1>4, IInvByCaller, PromisedStutter

\* A session is lost: it dies, or Close closes the one it took.
LEMMA LostStep ==
    ASSUME TypeOK, Known, NoSessionIsLeaked, \A d \in Callers : Sound(d),
           NEW s \in Sessions, NEW x, Lost(s, x), NEW k \in Nat, life[s] = "live" => k >= 1,
           caller' \in [Callers -> CallState],
           \A d \in Callers : Hit(caller[d], caller'[d], k),
           UNCHANGED <<mu, closes, calls>>, faults' \in 0..MaxFaults,
           \/ closer' = closer /\ life[s] = "live"
           \/ closer' = 0 /\ s = closer /\ x = "closed"
    PROVE  IInv' /\ UNCHANGED promised
<1>0. /\ life \in [Sessions -> {"none", "live", "dead", "closed"}]
      /\ session \in Sessions \cup {0} /\ closer \in Sessions \cup {0} /\ 0 \in 0..MaxSessions
  BY McpAssumption DEF TypeOK, Sessions
<1>l. /\ life' \in [Sessions -> {"none", "live", "dead", "closed"}] /\ session' = session
      /\ life'[s] = x /\ x # "none" /\ \A t \in Sessions : t # s => life'[t] = life[t]
  BY <1>0 DEF Lost
<1>1. \A d \in Callers : Sound(d)' /\ Unseen(d)
  <2>1. \A d \in Callers : d # Nobody => Hit(caller[d], caller'[d], k) /\ (mu' = d <=> mu = d)
    OBVIOUS
  <2>2. \A d \in Callers : d # Nobody => Sound(d)' /\ Unseen(d)
    BY <2>1, OthersHit
  <2> QED
    BY <2>2, McpAssumption
<1>2. TypeOK'
  BY <1>0, <1>l DEF TypeOK
<1>3. Known'
  BY <1>0, <1>l DEF Known
<1>4. NoSessionIsLeaked'
  <2>1. \A d \in Callers : caller'[d].sess = caller[d].sess /\ caller'[d].pc = caller[d].pc
    BY DEF Hit
  <2>2. ASSUME NEW t \in Sessions, life'[t] \in {"live", "dead"}
        PROVE  \/ t \in {session', closer'}
               \/ \E d \in Callers : caller'[d].sess = t /\ caller'[d].pc \in {"drop", "close"}
    <3>1. life[t] \in {"live", "dead"}
      BY <1>0, <1>l, <2>2 DEF Lost, NoSessionIsLeaked
    <3>2. t = closer => closer' = closer
      BY <1>l, <2>2
    <3> QED
      BY <1>l, <2>1, <3>1, <3>2 DEF NoSessionIsLeaked
  <2> QED
    BY <2>2 DEF NoSessionIsLeaked
<1> QED
  BY <1>1, <1>2, <1>3, <1>4, IInvByCaller, PromisedStutter

\* closeTaken and dies.
LEMMA LosesStep ==
    ASSUME TypeOK, Known, NoSessionIsLeaked, \A d \in Callers : Sound(d),
           closeTaken \/ \E s \in Sessions : dies(s)
    PROVE  IInv' /\ UNCHANGED promised
<1>0. caller \in [Callers -> CallState] /\ faults \in 0..MaxFaults
  BY DEF TypeOK
<1>1. CASE closeTaken
  <2>1. closer \in Sessions /\ closer # 0 /\ life[closer] # "none"
    BY <1>1, McpAssumption DEF closeTaken, TypeOK, Sessions, Known
  <2> DEFINE k == IF life[closer] = "live" THEN 1 ELSE 0
  <2>2. caller' \in [Callers -> CallState] /\ \A d \in Callers : Hit(caller[d], caller'[d], k)
    BY <1>1, <2>1, ClosedEffect DEF closeTaken
  <2>3. Lost(closer, "closed") /\ UNCHANGED <<mu, closes, calls, faults>> /\ closer' = 0
    BY <1>1, <2>1 DEF closeTaken, Lost
  <2>4. k \in Nat /\ (life[closer] = "live" => k >= 1)
    OBVIOUS
  <2> HIDE DEF k
  <2> QED
    BY <1>0, <2>1, <2>2, <2>3, <2>4, LostStep
<1>2. ASSUME NEW s \in Sessions, dies(s) PROVE IInv' /\ UNCHANGED promised
  <2>1. caller' \in [Callers -> CallState] /\ \A d \in Callers : Hit(caller[d], caller'[d], 1)
    BY <1>0, <1>2, HitEffect DEF dies
  <2>2. Lost(s, "dead") /\ UNCHANGED <<mu, closer, closes, calls>> /\ life[s] = "live"
    BY <1>2 DEF dies, Lost
  <2>3. faults' \in 0..MaxFaults
    BY <1>0, <1>2, McpAssumption DEF dies, fault
  <2>4. 1 \in Nat /\ 1 >= 1
    OBVIOUS
  <2> QED
    BY <2>1, <2>2, <2>3, <2>4, LostStep
<1> QED
  BY <1>1, <1>2

-----------------------------------------------------------------------------
(* The invariant, and the promise *)

\* Every step keeps the invariant, and is a step of ToolCalls or none of its business.
LEMMA Inductive == IInv /\ [Next]_vars => IInv' /\ [Promise!Next]_promised
<1> SUFFICES ASSUME IInv, [Next]_vars PROVE IInv' /\ [Promise!Next]_promised
  OBVIOUS
<1>i. TypeOK /\ Known /\ NoSessionIsLeaked /\ \A d \in Callers : Sound(d)
  BY IInvByCaller
<1>1. ASSUME NEW c \in Callers, Call(c) \/ Tools(c)
      PROVE  IInv' /\ Promise!Ask(c)
  <2>1. PICK k \in {"call", "tools"} : asks(c, k)
    BY <1>1 DEF Call, Tools
  <2> QED
    BY <1>i, <2>1, AsksStep
<1>2. ASSUME NEW c \in Callers, step(c)
      PROVE  IInv' /\ (Promise!RunTool(c) \/ Promise!Return(c) \/ UNCHANGED promised)
  <2>1. CASE connect(c) \/ dialed(c) \/ drop(c) \/ closesDropped(c)
    BY <1>i, <2>1, ConnectStep, DialedStep, DropStep, ClosesDroppedStep
  <2>2. CASE dialFails(c) \/ answers(c) \/ cancelled(c)
    BY <1>i, <2>2, DialFailsStep, AnswersStep
  <2>3. CASE serves(c)
    BY <1>i, <2>3, ServesStep
  <2>4. CASE fails(c)
    BY <1>i, <2>4, FailsStep
  <2> QED
    BY <1>2, <2>1, <2>2, <2>3, <2>4 DEF step
<1>3. CASE Close \/ closeTaken \/ \E s \in Sessions : dies(s)
  BY <1>i, <1>3, CloseStep, LosesStep
<1>4. CASE UNCHANGED vars
  <2>1. \A d \in Callers : Sound(d)' /\ Unseen(d)
    <3>1. Same /\ \A d \in Callers : d # Nobody => caller'[d] = caller[d] /\ (mu' = d <=> mu = d)
      BY <1>4 DEF vars, Same
    <3>2. \A d \in Callers : d # Nobody => Sound(d)' /\ Unseen(d)
      BY <1>i, <3>1, OthersUntouched
    <3> QED
      BY <3>2, McpAssumption
  <2>2. TypeOK' /\ Known' /\ NoSessionIsLeaked'
    BY <1>4, <1>i DEF vars, TypeOK, Known, NoSessionIsLeaked
  <2> QED
    BY <2>1, <2>2, IInvByCaller, PromisedStutter
<1> QED
  BY <1>1, <1>2, <1>3, <1>4 DEF Next, Promise!Next

\* The invariant holds throughout.
THEOREM Invariance == Spec => []IInv
<1>1. Init => IInv
  BY InitStep
<1>2. IInv /\ [Next]_vars => IInv'
  BY Inductive
<1> QED
  BY <1>1, <1>2, PTL DEF Spec

\* Every variable has its type, for any number of sessions and of losses.
THEOREM McpTypes == Spec => []TypeOK
<1>1. IInv => TypeOK
  BY DEF IInv
<1> QED
  BY <1>1, Invariance, PTL

\* establish, drop and Close leave no session open that nobody would close.
THEOREM SessionsAreReleased == Spec => []NoSessionIsLeaked
<1>1. IInv => NoSessionIsLeaked
  BY DEF IInv
<1> QED
  BY <1>1, Invariance, PTL

\* callOnce makes good the loss of one session, however many callers notice it and
\* whatever Close does meanwhile.
THEOREM LossIsMadeGood == Spec => []OneLossIsMadeGood
<1>1. IInv => OneLossIsMadeGood
  BY DEF IInv
<1> QED
  BY <1>1, Invariance, PTL

\* The server's callers are callers as ToolCalls has them: the tool of a call runs at
\* most twice, and an answer with no note on it is of a tool that ran once.
THEOREM ImplementsToolCalls == Spec => Promise!Safety
<1>1. Init => IInv /\ Promise!Init
  BY InitStep
<1>2. IInv /\ [Next]_vars => IInv' /\ [Promise!Next]_promised
  BY Inductive
<1> QED
  BY <1>1, <1>2, PTL DEF Spec, Promise!Safety

=============================================================================
