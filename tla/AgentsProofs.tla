----------------------------- MODULE AgentsProofs -----------------------------
(***************************************************************************)
(* Proofs about Agents for any rooms, tasks, pushes, tools, reviews and    *)
(* faults.                                                                 *)
(***************************************************************************)
EXTENDS Agents, FiniteSetTheorems, TLAPS

\* Who mentions dev writes to the room too, so that a new task has something to read.
Heard ==
    /\ \A i \in DOMAIN inbox["dev"] : room[inbox["dev"][i].room] > 0
    /\ dev.pc # "idle" => dev.m \in Mentions /\ room[dev.m.room] > 0
    /\ dev.pc \in {"task", "new"} => rooms[dev.m.room] = NoTask
    /\ dev.pc \in {"read", "model", "act", "opened"} => rooms[dev.m.room].task # 0

\* The task of a room, as dev has it or its database, has a worktree.
Known(r) ==
    /\ rooms[r].task = 0 => rooms[r] = NoTask
    /\ record[r].task = 0 => record[r] = NoTask
    /\ {rooms[r].task, record[r].task} \subseteq worktrees \cup {0}
    /\ rooms[r].seen <= room[r] /\ record[r].seen <= room[r]

\* Tasks are numbered as they are started, and no two rooms share one.
Started ==
    /\ worktrees \subseteq 1..started /\ stored \subseteq worktrees
    /\ \A r, q \in Rooms : \A t \in Tasks :
           t \in {rooms[r].task, record[r].task} \cap {rooms[q].task, record[q].task} => r = q

\* What the database says dev has read is in the session: in the one dev has, which
\* has read at least as far, or in the stored one that it would resume.
Read(r) ==
    /\ rooms[r].task # 0 => 1..rooms[r].seen \subseteq sess[rooms[r].task] \cup cut[r]
    /\ record[r].task # 0 =>
           IF rooms[r].task = record[r].task THEN record[r].seen <= rooms[r].seen
           ELSE 1..record[r].seen \subseteq kept[record[r].task] \cup cut[r]

\* A task whose session is stored is replaced if it could not be read.
Replaced(r) ==
    /\ record[r].task \in stored
    /\ \/ rooms[r].task \notin {0, record[r].task}
       \/ dev.pc = "new" /\ dev.m.room = r
    => faults.read > 0

\* Nothing but a fault can take task t from its room: it is in the database with its
\* session and no other is in its place, or dev is in a turn after which it is.
Safe(t) ==
    \/ \E r \in Rooms :
          /\ record[r].task = t /\ t \in stored /\ rooms[r].task \in {0, t}
          /\ ~(dev.pc = "new" /\ dev.m.room = r)
    \/ /\ dev.pc = "read" /\ rooms[dev.m.room].task = t
       /\ rooms[dev.m.room].seen < room[dev.m.room]
    \/ /\ dev.pc = "model" /\ rooms[dev.m.room].task = t /\ record[dev.m.room].task = t
lost == {t \in worktrees : ~Safe(t)}

\* Once the turn has saved the session, it stays saved.
Saved == dev.pc \in {"act", "opened"} => rooms[dev.m.room].task \in stored

\* Each fault has taken one at most, and each checkout of a review one.
Paid ==
    /\ Cardinality(lost) <= total + releases
    /\ review <= checkouts /\ checkouts <= review + ended + faults.half

\* The last of a PR's heads is h.
endsAt(heads, h) == heads # <<>> /\ heads[Len(heads)] = h

\* What grug reviews is a head of a PR other than the last it wrote down, and what it
\* is to write down is the last it reviewed.
Reviewing ==
    /\ grug.pc # "idle" => grug.m \in Mentions /\ grug.m.pr \in Tasks /\ grug.head > 0
    /\ grug.pc \in {"review", "record"} =>
           Len(reviewed[grug.m.pr]) < maxReviews /\ ~endsAt(reviewed[grug.m.pr], grug.head)
    /\ grug.pc = "record" => endsAt(reviews[grug.m.pr], grug.head)

\* A review is written down, or about to be, or a fault kept it from being.  Only if
\* the last one was not may the next be at its head: that it may is a fault too.
unwritten == ended + faults.write
writing(pr) == IF grug.pc = "record" /\ grug.m.pr = pr THEN 1 ELSE 0
behind(pr) ==
    /\ writing(pr) = 0 /\ reviews[pr] # <<>>
    /\ ~endsAt(reviewed[pr], reviews[pr][Len(reviews[pr])])
Counted(pr) ==
    /\ Len(reviewed[pr]) <= maxReviews
    /\ Len(reviews[pr]) <= Len(reviewed[pr]) + writing(pr) + unwritten
    /\ Cardinality(repeats(reviews[pr])) + (IF behind(pr) THEN 1 ELSE 0) <= unwritten

Dev1 == Heard /\ Saved /\ Started /\ \A r \in Rooms : Known(r) /\ Read(r) /\ Replaced(r)
Grug1 == Reviewing /\ \A pr \in Tasks : Counted(pr)

IInv == TypeOK /\ Dev1 /\ Grug1 /\ Paid

-----------------------------------------------------------------------------
(* Types, faults and messages *)

\* A room's task and how far it is read are numbers.
LEMMA Fields ==
    ASSUME TypeOK, NEW r \in Rooms
    PROVE  /\ rooms[r].task \in 0..MaxTasks /\ rooms[r].seen \in Nat
           /\ record[r].task \in 0..MaxTasks /\ record[r].seen \in Nat
           /\ room[r] \in Nat
  BY DEF TypeOK, RoomTask

\* What dev and grug are doing.
LEMMA States ==
    ASSUME TypeOK
    PROVE  /\ dev.pc \in {"idle", "task", "new", "read", "model", "act", "opened"}
           /\ dev.left \in 0..MaxTools
           /\ grug.pc \in {"idle", "review", "record", "comment", "tell"}
           /\ grug.head \in 0..MaxPushes
  BY DEF TypeOK, DevState, GrugState

\* A mention has a room and perhaps a PR.
LEMMA MentionFacts ==
    ASSUME NEW m \in Mentions
    PROVE  m.room \in Rooms /\ m.pr \in 0..MaxTasks /\ m.by \in {"human", "dev", "grug"}
  BY DEF Mentions

\* The counts of what went wrong are numbers.
LEMMA Counts ==
    ASSUME TypeOK
    PROVE  /\ faults.crash \in Nat /\ faults.read \in Nat /\ faults.write \in Nat
           /\ faults.half \in Nat /\ total \in Nat /\ releases \in Nat
           /\ ended \in Nat /\ unwritten \in Nat /\ review \in {0, 1} /\ checkouts \in Nat
<1>1. /\ faults.crash \in Nat /\ faults.read \in Nat /\ faults.write \in Nat
      /\ faults.half \in Nat /\ releases \in Nat /\ checkouts \in Nat
  BY AgentsAssumption DEF TypeOK, Kinds
<1>2. review \in {0, 1}
  BY DEF review
<1> QED
  BY <1>1, <1>2 DEF total, ended, unwritten

\* A fault is counted as one of its kind.
LEMMA FaultFacts ==
    ASSUME TypeOK, NEW k \in Kinds, fault(k)
    PROVE  /\ faults' \in [Kinds -> 0..MaxFaults] /\ faults'[k] = faults[k] + 1
           /\ \A j \in Kinds \ {k} : faults'[j] = faults[j]
           /\ total' = total + 1
<1>1. /\ faults \in [Kinds -> 0..MaxFaults] /\ faults' = [faults EXCEPT ![k] = @ + 1]
      /\ total < MaxFaults /\ MaxFaults \in Nat
  BY AgentsAssumption DEF TypeOK, fault
<1>2. /\ faults.crash \in Nat /\ faults.read \in Nat /\ faults.write \in Nat
      /\ faults.half \in Nat
  BY Counts
<1>3. faults[k] \in Nat /\ faults[k] <= total
  <2>1. k \in {"crash", "read", "write", "half"}
    BY DEF Kinds
  <2> QED
    BY <1>2, <2>1 DEF total
<1>4. faults[k] + 1 \in 0..MaxFaults
  <2>1. total \in Nat
    BY <1>2 DEF total
  <2> QED
    BY <1>1, <1>3, <2>1
<1>5. /\ faults'[k] = faults[k] + 1 /\ \A j \in Kinds \ {k} : faults'[j] = faults[j]
      /\ faults' \in [Kinds -> 0..MaxFaults]
  BY <1>1, <1>4
<1>6. total' = total + 1
  <2>1. k \in {"crash", "read", "write", "half"}
    BY DEF Kinds
  <2>2. /\ "crash" \in Kinds /\ "read" \in Kinds /\ "write" \in Kinds /\ "half" \in Kinds
    BY DEF Kinds
  <2> QED
    BY <1>2, <1>5, <2>1, <2>2 DEF total
<1> QED
  BY <1>5, <1>6

\* dev hears of a room only once somebody wrote there.
Hears(boxes) == /\ boxes \in [Agents -> Seq(Mentions)]
                /\ \A i \in DOMAIN boxes["dev"] : room[boxes["dev"][i].room] > 0

\* What a post, or the next mention, makes of the rooms and the inboxes.
Talk == /\ room' \in [Rooms -> Nat] /\ \A r \in Rooms : room'[r] >= room[r]
        /\ inbox' \in [Agents -> Seq(Mentions)]
        /\ \A i \in DOMAIN inbox'["dev"] : room'[inbox'["dev"][i].room] > 0

\* Taking a mention leaves the others.
LEMMA TakenFacts ==
    ASSUME IInv, NEW a \in Agents, inbox[a] # <<>>
    PROVE  /\ Hears(taken(a)) /\ Head(inbox[a]) \in Mentions
           /\ a = "dev" => room[Head(inbox[a]).room] > 0
<1>1. inbox \in [Agents -> Seq(Mentions)] /\ inbox[a] \in Seq(Mentions)
  BY DEF IInv, TypeOK
<1>2. /\ Tail(inbox[a]) \in Seq(Mentions) /\ Head(inbox[a]) = inbox[a][1]
      /\ 1 \in DOMAIN inbox[a] /\ Head(inbox[a]) \in Mentions
      /\ \A i \in DOMAIN Tail(inbox[a]) : /\ i + 1 \in DOMAIN inbox[a]
                                          /\ Tail(inbox[a])[i] = inbox[a][i + 1]
  BY <1>1
<1>3. taken(a) \in [Agents -> Seq(Mentions)]
      /\ taken(a)["dev"] = IF a = "dev" THEN Tail(inbox[a]) ELSE inbox["dev"]
  BY <1>1, <1>2 DEF taken, Agents
<1>4. \A i \in DOMAIN inbox["dev"] : room[inbox["dev"][i].room] > 0
  BY DEF IInv, Dev1, Heard
<1> QED
  BY <1>2, <1>3, <1>4 DEF Hears

\* Who is mentioned hears of a room that has a message more, unless dev wrote it,
\* which does not mention itself.
LEMMA PostFacts ==
    ASSUME TypeOK, NEW r \in Rooms, NEW by \in {"human", "dev", "grug"}, NEW at,
           NEW pr \in 0..MaxTasks, NEW boxes, Hears(boxes), post(r, by, at, pr, boxes)
    PROVE  Talk
<1> DEFINE m == [room |-> r, by |-> by, pr |-> pr]
<1>1. m \in Mentions /\ m.room = r
  BY DEF Mentions
<1> HIDE DEF m
<1>2. /\ room \in [Rooms -> Nat] /\ room' = [room EXCEPT ![r] = IF by = "dev" THEN @ ELSE @ + 1]
      /\ inbox' = [a \in Agents |-> IF a \in at \ {by} THEN Append(boxes[a], m) ELSE boxes[a]]
  BY DEF TypeOK, post, m
<1>3. /\ room' \in [Rooms -> Nat] /\ \A q \in Rooms : room'[q] >= room[q]
      /\ by # "dev" => room'[r] > 0
  BY <1>2
<1>4. boxes \in [Agents -> Seq(Mentions)] /\ boxes["dev"] \in Seq(Mentions) /\ "dev" \in Agents
  BY DEF Hears, Agents
<1>5. \A a \in Agents : Append(boxes[a], m) \in Seq(Mentions) /\ boxes[a] \in Seq(Mentions)
  BY <1>1, <1>4
<1>6. inbox' \in [Agents -> Seq(Mentions)]
  BY <1>2, <1>5
<1>7. \A i \in DOMAIN boxes["dev"] : boxes["dev"][i] \in Mentions
  BY <1>4
<1>8. \A i \in DOMAIN boxes["dev"] : room'[boxes["dev"][i].room] > 0
  <2> SUFFICES ASSUME NEW i \in DOMAIN boxes["dev"] PROVE room'[boxes["dev"][i].room] > 0
    OBVIOUS
  <2>1. boxes["dev"][i].room \in Rooms
    BY <1>7, MentionFacts
  <2> QED
    BY <1>2, <1>3, <2>1 DEF Hears
<1>9. \A i \in DOMAIN inbox'["dev"] : room'[inbox'["dev"][i].room] > 0
  <2>1. CASE "dev" \in at \ {by}
    <3>1. inbox'["dev"] = Append(boxes["dev"], m)
      BY <1>2, <1>4, <2>1
    <3>2. \A i \in DOMAIN inbox'["dev"] :
              \/ i \in DOMAIN boxes["dev"] /\ inbox'["dev"][i] = boxes["dev"][i]
              \/ inbox'["dev"][i] = m
      BY <1>1, <1>4, <3>1
    <3> QED
      BY <1>1, <1>3, <1>8, <2>1, <3>2
  <2>2. CASE "dev" \notin at \ {by}
    <3>1. inbox'["dev"] = boxes["dev"]
      BY <1>2, <1>4, <2>2
    <3> QED
      BY <1>8, <3>1
  <2> QED
    BY <2>1, <2>2
<1> QED
  BY <1>3, <1>6, <1>9 DEF Talk

-----------------------------------------------------------------------------
(* What a step leaves as it is *)

\* The tasks that were lost can be counted.
LEMMA LostIsFinite ==
    ASSUME TypeOK
    PROVE  IsFiniteSet(lost) /\ Cardinality(lost) \in Nat
<1>1. IsFiniteSet(Tasks)
  BY FS_Interval, AgentsAssumption DEF Tasks
<1>2. lost \in SUBSET Tasks
  BY DEF lost, TypeOK
<1>3. IsFiniteSet(lost)
  BY <1>1, <1>2, FS_Subset
<1> QED
  BY <1>3, FS_CardinalityType

\* A step without a fault that loses no task.
LEMMA LosesNone ==
    ASSUME IInv, lost' \subseteq lost, total' + releases' = total + releases
    PROVE  Cardinality(lost') <= total' + releases'
<1>1. IsFiniteSet(lost) /\ Cardinality(lost) \in Nat
  BY LostIsFinite DEF IInv
<1>2. lost' \in SUBSET lost
  OBVIOUS
<1>3. IsFiniteSet(lost') /\ Cardinality(lost') <= Cardinality(lost)
  BY <1>1, <1>2, FS_Subset
<1>4. Cardinality(lost') \in Nat
  BY <1>3, FS_CardinalityType
<1>5. total \in Nat /\ releases \in Nat /\ Cardinality(lost) <= total + releases
  BY Counts DEF IInv, Paid
<1>6. Cardinality(lost') <= total + releases
  BY <1>1, <1>3, <1>4, <1>5
<1> QED
  BY <1>6

\* A step with a fault, or an end of the process, that loses one.
LEMMA LosesOne ==
    ASSUME IInv, NEW x, lost' \subseteq lost \cup {x},
           total' + releases' = total + releases + 1
    PROVE  Cardinality(lost') <= total' + releases'
<1>1. IsFiniteSet(lost) /\ Cardinality(lost) \in Nat
  BY LostIsFinite DEF IInv
<1>2. /\ IsFiniteSet(lost \cup {x})
      /\ Cardinality(lost \cup {x}) = IF x \in lost THEN Cardinality(lost) ELSE Cardinality(lost) + 1
  BY <1>1, FS_AddElement
<1>3. lost' \in SUBSET (lost \cup {x})
  OBVIOUS
<1>4. IsFiniteSet(lost') /\ Cardinality(lost') <= Cardinality(lost \cup {x})
  BY <1>2, <1>3, FS_Subset
<1>5. Cardinality(lost \cup {x}) <= Cardinality(lost) + 1 /\ Cardinality(lost \cup {x}) \in Nat
  BY <1>1, <1>2
<1>6. Cardinality(lost') \in Nat
  BY <1>4, FS_CardinalityType
<1>7. total \in Nat /\ releases \in Nat /\ Cardinality(lost) <= total + releases
  BY Counts DEF IInv, Paid
<1>8. Cardinality(lost') <= total + releases + 1
  BY <1>1, <1>4, <1>5, <1>6, <1>7
<1> QED
  BY <1>8

\* dev goes on in its turn or ends it, and something is said perhaps; the tasks, their
\* sessions and their worktrees are as they were.
LEMMA DevGoesOn ==
    ASSUME IInv, Talk, UNCHANGED <<rooms, record, sess, kept, stored, cut, worktrees, started>>,
           faults'.read \in Nat, faults'.read >= faults.read,
           dev'.pc = "idle" \/ (dev'.m = dev.m /\ dev.pc # "idle"),
           dev'.pc \in {"task", "new"} => dev.pc \in {"task", "new"},
           dev'.pc \in {"read", "model", "act", "opened"} =>
               dev.pc \in {"read", "model", "act", "opened"},
           dev'.pc \in {"act", "opened"} => rooms[dev.m.room].task \in stored,
           dev'.pc = "new" /\ record[dev.m.room].task \in stored => faults'.read > 0
    PROVE  Dev1'
<1>1. TypeOK /\ Heard /\ Started /\ \A r \in Rooms : Known(r) /\ Read(r) /\ Replaced(r)
  BY DEF IInv, Dev1
<1>2. dev.pc # "idle" => dev.m.room \in Rooms
  BY <1>1, MentionFacts DEF Heard
<1>3. faults.read \in Nat
  BY <1>1, Counts
<1>4. Heard' /\ Saved'
  <2>1. dev'.pc # "idle" => room'[dev'.m.room] > 0
    <3>1. ASSUME dev'.pc # "idle" PROVE room'[dev'.m.room] > 0
      <4>1. dev'.m = dev.m /\ dev.m.room \in Rooms /\ room[dev.m.room] > 0
        BY <1>1, <1>2, <3>1 DEF Heard
      <4>2. room'[dev.m.room] >= room[dev.m.room] /\ room'[dev.m.room] \in Nat
            /\ room[dev.m.room] \in Nat
        BY <1>1, <4>1 DEF Talk, TypeOK
      <4> QED
        BY <4>1, <4>2
    <3> QED
      BY <3>1
  <2>2. /\ dev'.pc # "idle" => dev'.m \in Mentions
        /\ dev'.pc \in {"task", "new"} => rooms'[dev'.m.room] = NoTask
        /\ dev'.pc \in {"read", "model", "act", "opened"} => rooms'[dev'.m.room].task # 0
        /\ dev'.pc \in {"act", "opened"} => rooms'[dev'.m.room].task \in stored'
    BY <1>1 DEF Heard
  <2> QED
    BY <2>1, <2>2 DEF Heard, Saved, Talk
<1>5. Started'
  BY <1>1 DEF Started
<1>6. ASSUME NEW r \in Rooms PROVE Known(r)' /\ Read(r)' /\ Replaced(r)'
  <2>1. Known(r) /\ Read(r) /\ Replaced(r)
    BY <1>1, <1>6
  <2>2. rooms[r].seen \in Nat /\ record[r].seen \in Nat /\ room[r] \in Nat
        /\ room'[r] \in Nat /\ room'[r] >= room[r]
    BY <1>1, <1>6, Fields DEF Talk
  <2>3. Known(r)' /\ Read(r)'
    BY <2>1, <2>2 DEF Known, Read
  <2>4. Replaced(r)'
    <3>1. dev'.pc = "new" => dev'.m = dev.m
      OBVIOUS
    <3> QED
      BY <1>3, <2>1, <3>1 DEF Replaced
  <2> QED
    BY <2>3, <2>4
<1> QED
  BY <1>4, <1>5, <1>6 DEF Dev1

\* What is said of reviews can be counted.
LEMMA RepeatsFacts ==
    ASSUME NEW s \in Seq(1..MaxPushes)
    PROVE  /\ IsFiniteSet(repeats(s)) /\ Cardinality(repeats(s)) \in Nat
           /\ Len(s) \in Nat /\ DOMAIN s = 1..Len(s)
<1>1. Len(s) \in Int /\ 1 \in Int /\ DOMAIN s = 1..Len(s) /\ Len(s) \in Nat
  OBVIOUS
<1>2. IsFiniteSet(1..Len(s))
  BY <1>1, FS_Interval
<1>3. repeats(s) \in SUBSET (1..Len(s))
  BY <1>1 DEF repeats
<1>4. IsFiniteSet(repeats(s))
  BY <1>2, <1>3, FS_Subset
<1> QED
  BY <1>1, <1>4, FS_CardinalityType

\* The counts of a PR.
LEMMA CountFacts ==
    ASSUME TypeOK, NEW pr \in Tasks
    PROVE  /\ reviews[pr] \in Seq(1..MaxPushes) /\ reviewed[pr] \in Seq(1..MaxPushes)
           /\ Len(reviews[pr]) \in Nat /\ Len(reviewed[pr]) \in Nat
           /\ Cardinality(repeats(reviews[pr])) \in Nat /\ writing(pr) \in {0, 1}
           /\ unwritten \in Nat /\ maxReviews \in Nat
<1>1. reviews[pr] \in Seq(1..MaxPushes) /\ reviewed[pr] \in Seq(1..MaxPushes)
  BY DEF TypeOK
<1>2. writing(pr) \in {0, 1}
  BY DEF writing
<1> QED
  BY <1>1, <1>2, RepeatsFacts, Counts, AgentsAssumption

\* What dev does leaves grug's reviews as they are.
LEMMA GrugStays ==
    ASSUME IInv, UNCHANGED <<grug, reviewed, reviews>>, unwritten' \in Nat, unwritten' >= unwritten
    PROVE  Grug1'
<1>1. TypeOK /\ Reviewing /\ \A pr \in Tasks : Counted(pr)
  BY DEF IInv, Grug1
<1>2. Reviewing'
  BY <1>1 DEF Reviewing
<1>3. ASSUME NEW pr \in Tasks PROVE Counted(pr)'
  <2>1. writing(pr)' = writing(pr) /\ (behind(pr)' <=> behind(pr))
    BY DEF writing, behind
  <2> DEFINE k == IF behind(pr) THEN 1 ELSE 0
  <2>2. k \in {0, 1} /\ (IF behind(pr)' THEN 1 ELSE 0) = k
    BY <2>1
  <2>3. Counted(pr)
    BY <1>1, <1>3
  <2>4. /\ Len(reviewed[pr]) <= maxReviews
        /\ Len(reviews[pr]) <= Len(reviewed[pr]) + writing(pr) + unwritten
        /\ Cardinality(repeats(reviews[pr])) + k <= unwritten
    BY <2>3 DEF Counted
  <2> HIDE DEF k
  <2>5. /\ Len(reviews[pr]) <= Len(reviewed[pr]) + writing(pr) + unwritten'
        /\ Cardinality(repeats(reviews[pr])) + k <= unwritten'
    BY <1>1, <1>3, <2>2, <2>4, CountFacts
  <2> QED
    BY <2>1, <2>2, <2>4, <2>5 DEF Counted
<1> QED
  BY <1>2, <1>3 DEF Grug1

\* A step of dev without a fault, as far as it is paid for and as grug sees it.
LEMMA DevRuns ==
    ASSUME IInv, UNCHANGED <<grug, reviewed, reviews, checkouts, releases, faults>>,
           lost' \subseteq lost
    PROVE  /\ Paid' /\ Grug1'
           /\ faults' \in [Kinds -> 0..MaxFaults] /\ faults'.read \in Nat
           /\ faults'.read >= faults.read
<1>1. /\ faults.read \in Nat /\ unwritten \in Nat /\ total \in Nat /\ releases \in Nat
  BY Counts DEF IInv
<1>2. /\ total' = total /\ ended' = ended /\ unwritten' = unwritten /\ review' = review
  BY DEF total, ended, unwritten, review
<1>3. Cardinality(lost') <= total' + releases'
  BY <1>2, LosesNone
<1>4. Paid'
  BY <1>2, <1>3 DEF IInv, Paid
<1>5. Grug1'
  <2>1. unwritten' \in Nat /\ unwritten' >= unwritten
    BY <1>1, <1>2
  <2> QED
    BY <2>1, GrugStays
<1> QED
  BY <1>1, <1>4, <1>5 DEF IInv, TypeOK

\* The same with a fault.
LEMMA DevErrs ==
    ASSUME IInv, UNCHANGED <<grug, reviewed, reviews, checkouts, releases>>,
           NEW k \in Kinds, fault(k), NEW x, lost' \subseteq lost \cup {x}
    PROVE  /\ Paid' /\ Grug1'
           /\ faults' \in [Kinds -> 0..MaxFaults] /\ faults'.read \in Nat
           /\ faults'.read >= faults.read /\ faults'[k] > 0
<1>1. /\ faults.read \in Nat /\ unwritten \in Nat /\ total \in Nat /\ releases \in Nat
      /\ faults.crash \in Nat /\ faults.write \in Nat /\ faults.half \in Nat
      /\ ended \in Nat /\ checkouts \in Nat /\ review \in {0, 1}
  BY Counts DEF IInv
<1>2. /\ faults' \in [Kinds -> 0..MaxFaults] /\ faults'[k] = faults[k] + 1
      /\ \A j \in Kinds \ {k} : faults'[j] = faults[j]
      /\ total' = total + 1
  BY FaultFacts DEF IInv
<1>3. \A j \in Kinds : faults'[j] = faults[j] + (IF j = k THEN 1 ELSE 0) /\ faults[j] \in Nat
  <2>1. \A j \in Kinds : faults[j] \in Nat
    BY AgentsAssumption DEF IInv, TypeOK
  <2> QED
    BY <1>2, <2>1
<1>4. /\ faults'.read \in {faults.read, faults.read + 1}
      /\ faults'.crash \in {faults.crash, faults.crash + 1}
      /\ faults'.half \in {faults.half, faults.half + 1}
  BY <1>3 DEF Kinds
<1>5. faults'.read \in Nat /\ faults'.read >= faults.read /\ faults'[k] > 0
  BY <1>1, <1>3, <1>4
<1>6. unwritten' \in {unwritten, unwritten + 1}
  <2>1. \/ faults'.crash = faults.crash /\ faults'.write = faults.write
        \/ faults'.crash = faults.crash + 1 /\ faults'.write = faults.write
        \/ faults'.crash = faults.crash /\ faults'.write = faults.write + 1
    BY <1>1, <1>3 DEF Kinds
  <2> QED
    BY <1>1, <2>1 DEF unwritten, ended
<1>7. Grug1'
  <2>1. unwritten' \in Nat /\ unwritten' >= unwritten
    BY <1>1, <1>6
  <2> QED
    BY <2>1, GrugStays
<1>8. Cardinality(lost') <= total' + releases'
  <2>1. total' + releases' = total + releases + 1
    BY <1>1, <1>2
  <2> QED
    BY <2>1, LosesOne
<1>9. review <= checkouts /\ checkouts <= review + ended + faults.half
  BY DEF IInv, Paid
<1>10. review' = review /\ ended' = faults'.crash + releases /\ ended = faults.crash + releases
  BY DEF review, ended
<1>11. review' <= checkouts' /\ checkouts' <= review' + ended' + faults'.half
  BY <1>1, <1>4, <1>9, <1>10
<1> QED
  BY <1>2, <1>5, <1>7, <1>8, <1>11 DEF Paid

\* dev takes a mention: of a room whose task it has, or its database has, or of a new one.
LEMMA DevTakesStep ==
    ASSUME IInv, devTakes
    PROVE  IInv'
<1>1. TypeOK /\ Heard /\ Saved /\ Started /\ \A r \in Rooms : Known(r) /\ Read(r) /\ Replaced(r)
  BY DEF IInv, Dev1
<1> DEFINE m == Head(inbox["dev"])
           known == CASE rooms[m.room] # NoTask -> "read"
                      [] rooms[m.room] = NoTask /\ record[m.room] # NoTask -> "task"
                      [] OTHER -> "new"
<1>2. /\ dev.pc = "idle" /\ inbox["dev"] # <<>> /\ dev' = [pc |-> known, m |-> m, left |-> 0]
      /\ inbox' = taken("dev")
      /\ UNCHANGED <<room, asks, rooms, record, sess, kept, stored, cut, deploying, releases,
                     grug, reviewed, checkouts, reviews, head, worktrees, started, faults>>
  BY DEF devTakes, grugVars, gitVars
<1>3. Hears(taken("dev")) /\ m \in Mentions /\ room[m.room] > 0
  BY <1>2, TakenFacts DEF Agents
<1>4. m.room \in Rooms
  BY <1>3, MentionFacts
<1>5. \/ known = "read" /\ rooms[m.room] # NoTask
      \/ known = "task" /\ rooms[m.room] = NoTask
      \/ known = "new" /\ rooms[m.room] = NoTask /\ record[m.room] = NoTask
  OBVIOUS
<1> HIDE DEF m, known
<1>6. dev' \in DevState /\ dev'.pc = known /\ dev'.m = m
  BY <1>2, <1>3, <1>5, AgentsAssumption DEF DevState
<1>7. Heard' /\ Saved'
  <2>1. rooms[m.room] # NoTask => rooms[m.room].task # 0
    BY <1>1, <1>4 DEF Known
  <2>2. \A i \in DOMAIN inbox'["dev"] : room'[inbox'["dev"][i].room] > 0
    BY <1>2, <1>3 DEF Hears
  <2> QED
    BY <1>2, <1>3, <1>5, <1>6, <2>1, <2>2 DEF Heard, Saved
<1>8. Started' /\ \A r \in Rooms : Known(r)' /\ Read(r)'
  BY <1>1, <1>2 DEF Started, Known, Read
<1>9. NoTask.task = 0 /\ 0 \notin stored
  BY <1>1 DEF NoTask, TypeOK, Tasks
<1>10. \A r \in Rooms : Replaced(r)'
  BY <1>1, <1>2, <1>5, <1>6, <1>9 DEF Replaced
<1>11. lost' \subseteq lost
  <2>1. ASSUME NEW t \in worktrees, Safe(t) PROVE Safe(t)'
    <3>1. PICK r \in Rooms : record[r].task = t /\ t \in stored /\ rooms[r].task \in {0, t}
      BY <1>2, <2>1 DEF Safe
    <3>2. ~(dev'.pc = "new" /\ dev'.m.room = r)
      BY <1>5, <1>6, <1>9, <3>1
    <3> QED
      BY <1>2, <3>1, <3>2 DEF Safe
  <2> QED
    BY <1>2, <2>1 DEF lost
<1>12. TypeOK'
  BY <1>1, <1>2, <1>3, <1>6 DEF TypeOK, Hears
<1>13. Paid' /\ Grug1'
  BY <1>2, <1>11, <1>12, DevRuns DEF TypeOK
<1> QED
  BY <1>7, <1>8, <1>10, <1>12, <1>13 DEF IInv, Dev1

\* dev only goes on.
LEMMA Goes ==
    ASSUME TypeOK, NEW pc \in {"idle", "task", "new", "read", "model", "act", "opened"}, devGoes(pc)
    PROVE  dev' \in DevState /\ dev'.pc = pc /\ dev'.m = dev.m /\ dev'.left = dev.left
<1>1. dev \in DevState /\ dev' = [dev EXCEPT !.pc = pc]
  BY DEF TypeOK, devGoes
<1> QED
  BY <1>1 DEF DevState

\* The task is back, with what was saved of its session.
LEMMA ResumeStep ==
    ASSUME IInv, resume
    PROVE  IInv'
<1>1. TypeOK /\ Heard /\ Saved /\ Started /\ \A r \in Rooms : Known(r) /\ Read(r) /\ Replaced(r)
  BY DEF IInv, Dev1
<1> DEFINE r == dev.m.room
           o == record[r].task
<1>2. /\ dev.pc = "task" /\ o \in worktrees \cap stored
      /\ rooms' = [rooms EXCEPT ![r] = record[r]]
      /\ sess' = [sess EXCEPT ![o] = kept[o]] /\ devGoes("read")
      /\ UNCHANGED <<room, inbox, asks, record, kept, stored, cut, deploying, releases,
                     grug, reviewed, checkouts, reviews, head, worktrees, started, faults>>
  BY DEF resume, remembered, chatVars, grugVars, gitVars
<1>3. dev.m \in Mentions /\ r \in Rooms /\ room[r] > 0 /\ rooms[r] = NoTask
  BY <1>1, <1>2, MentionFacts DEF Heard
<1>4. dev' \in DevState /\ dev'.pc = "read" /\ dev'.m = dev.m
  BY <1>1, <1>2, Goes
<1>5. o \in Tasks /\ record[r] \in RoomTask /\ kept[o] \in SUBSET Nat /\ o # 0
  <2>1. o \in Tasks /\ record[r] \in RoomTask
    BY <1>1, <1>2, <1>3 DEF TypeOK
  <2>2. kept[o] \in SUBSET Nat
    BY <1>1, <2>1 DEF TypeOK
  <2>3. o # 0
    BY <2>1 DEF Tasks
  <2> QED
    BY <2>1, <2>2, <2>3
<1>6. TypeOK'
  BY <1>1, <1>2, <1>4, <1>5 DEF TypeOK
<1>7. rooms'[r] = record[r] /\ \A q \in Rooms \ {r} : rooms'[q] = rooms[q]
  BY <1>1, <1>2, <1>3 DEF TypeOK
<1>8. sess'[o] = kept[o] /\ \A t \in Tasks \ {o} : sess'[t] = sess[t]
  BY <1>1, <1>2, <1>5 DEF TypeOK
<1>9. Heard' /\ Saved'
  BY <1>1, <1>2, <1>3, <1>4, <1>5, <1>7 DEF Heard, Saved
<1>10. Started'
  BY <1>1, <1>2, <1>7 DEF Started
<1>11. ASSUME NEW q \in Rooms PROVE Known(q)' /\ Read(q)' /\ Replaced(q)'
  <2>1. Known(q) /\ Read(q) /\ Replaced(q)
    BY <1>1
  <2>2. CASE q = r
    <3>1. Known(q)'
      BY <1>2, <1>7, <2>1, <2>2 DEF Known
    <3>2. Read(q)'
      <4>1. NoTask.task = 0
        BY DEF NoTask
      <4>2. 1..record[r].seen \subseteq kept[o] \cup cut[r]
        BY <1>3, <1>5, <2>1, <2>2, <4>1 DEF Read
      <4>3. record[r].seen \in Nat
        BY <1>1, <1>3, Fields
      <4>4. record[r].seen <= record[r].seen
        BY <4>3
      <4>5. rooms'[r] = record[r] /\ sess'[o] = kept[o] /\ UNCHANGED <<record, cut>>
        BY <1>2, <1>7, <1>8
      <4> QED
        BY <2>2, <4>2, <4>4, <4>5 DEF Read
    <3> QED
      BY <1>2, <1>4, <1>7, <2>1, <2>2, <3>1, <3>2 DEF Replaced
  <2>3. CASE q # r
    <3>1. rooms'[q] = rooms[q] /\ rooms[q].task \in 0..MaxTasks
      BY <1>1, <1>7, <2>3, Fields
    <3>2. rooms[q].task # o
      BY <1>1, <1>3, <1>5, <2>3 DEF Started
    <3>3. rooms[q].task # 0 => sess'[rooms[q].task] = sess[rooms[q].task]
      BY <1>8, <3>1, <3>2 DEF Tasks
    <3> QED
      BY <1>2, <1>4, <2>1, <3>1, <3>3 DEF Known, Read, Replaced
  <2> QED
    BY <2>2, <2>3
<1>12. lost' \subseteq lost
  <2>1. ASSUME NEW t \in worktrees, Safe(t) PROVE Safe(t)'
    <3>1. PICK q \in Rooms : record[q].task = t /\ t \in stored /\ rooms[q].task \in {0, t}
      BY <1>2, <2>1 DEF Safe
    <3>2. rooms'[q].task \in {0, t}
      BY <1>7, <3>1
    <3> QED
      BY <1>2, <1>4, <3>1, <3>2 DEF Safe
  <2> QED
    BY <1>2, <2>1 DEF lost
<1>13. Paid' /\ Grug1'
  BY <1>1, <1>2, <1>12, DevRuns
<1> QED
  BY <1>6, <1>9, <1>10, <1>11, <1>13 DEF IInv, Dev1

\* What dev says to the room of the mention it handles.
LEMMA DevSays ==
    ASSUME IInv, dev.pc # "idle", NEW at, NEW pr \in 0..MaxTasks, devSays(at, pr)
    PROVE  Talk /\ asks' = asks
<1>1. dev.m.room \in Rooms
  BY MentionFacts DEF IInv, Dev1, Heard
<1>2. Hears(inbox)
  BY DEF IInv, TypeOK, Dev1, Heard, Hears
<1>3. post(dev.m.room, "dev", at, pr, inbox) /\ asks' = asks
  BY DEF devSays
<1> QED
  BY <1>1, <1>2, <1>3, PostFacts DEF IInv

\* Nothing is said and nothing is taken.
LEMMA Silence ==
    ASSUME IInv, UNCHANGED <<room, inbox>>
    PROVE  Talk
<1>1. room \in [Rooms -> Nat] /\ inbox \in [Agents -> Seq(Mentions)]
  BY DEF IInv, TypeOK
<1>2. \A r \in Rooms : room[r] >= room[r]
  BY <1>1
<1> QED
  BY <1>1, <1>2 DEF Talk, IInv, Dev1, Heard

\* dev at rest.
LEMMA Rests ==
    ASSUME devRests
    PROVE  dev' \in DevState /\ dev'.pc = "idle"
  BY AgentsAssumption DEF devRests, Idle, DevState

\* The task is not back, and the room is told: if it was remembered, for a fault.
LEMMA ResumeFailsStep ==
    ASSUME IInv, resumeFails
    PROVE  IInv'
<1>1. TypeOK /\ Heard /\ Saved /\ Started /\ \A r \in Rooms : Known(r) /\ Read(r) /\ Replaced(r)
  BY DEF IInv, Dev1
<1> DEFINE r == dev.m.room
           o == record[r].task
<1>2. /\ dev.pc = "task" /\ (IF remembered(r) THEN fault("read") ELSE UNCHANGED faults)
      /\ devSays({}, 0) /\ devGoes("new")
      /\ UNCHANGED <<rooms, record, sess, kept, stored, cut, deploying, releases,
                     grug, reviewed, checkouts, reviews, head, worktrees, started>>
  BY DEF resumeFails, grugVars, gitVars
<1>3. Talk /\ asks' = asks
  BY <1>2, DevSays, AgentsAssumption
<1>4. dev' \in DevState /\ dev'.pc = "new" /\ dev'.m = dev.m
  BY <1>1, <1>2, Goes
<1>5. r \in Rooms
  BY <1>1, <1>2, MentionFacts DEF Heard
<1>6. ASSUME NEW t \in worktrees, Safe(t), t # o \/ ~remembered(r) PROVE Safe(t)'
  <2>1. PICK q \in Rooms : record[q].task = t /\ t \in stored /\ rooms[q].task \in {0, t}
    BY <1>2, <1>6 DEF Safe
  <2>2. q # r
    BY <1>6, <2>1 DEF remembered
  <2> QED
    BY <1>2, <1>4, <2>1, <2>2 DEF Safe
<1>7. CASE remembered(r)
  <2>1. fault("read")
    BY <1>2, <1>7
  <2>2. lost' \subseteq lost \cup {o}
    BY <1>2, <1>6 DEF lost
  <2>3. /\ Paid' /\ Grug1' /\ faults' \in [Kinds -> 0..MaxFaults] /\ faults'.read \in Nat
        /\ faults'.read >= faults.read /\ faults'.read > 0
    BY <1>2, <2>1, <2>2, DevErrs DEF Kinds
  <2>4. TypeOK'
    BY <1>1, <1>2, <1>3, <1>4, <2>3 DEF TypeOK, Talk
  <2>5. Dev1'
    BY <1>2, <1>3, <1>4, <2>3, DevGoesOn
  <2> QED
    BY <2>3, <2>4, <2>5 DEF IInv
<1>8. CASE ~remembered(r)
  <2>1. UNCHANGED faults
    BY <1>2, <1>8
  <2>2. lost' \subseteq lost
    BY <1>2, <1>6, <1>8 DEF lost
  <2>3. /\ Paid' /\ Grug1' /\ faults' \in [Kinds -> 0..MaxFaults] /\ faults'.read \in Nat
        /\ faults'.read >= faults.read
    BY <1>1, <1>2, <2>1, <2>2, DevRuns
  <2>4. TypeOK'
    BY <1>1, <1>2, <1>3, <1>4, <2>3 DEF TypeOK, Talk
  <2>5. o \notin stored
    BY <1>1, <1>8 DEF remembered, Started
  <2>6. Dev1'
    BY <1>2, <1>3, <1>4, <2>3, <2>5, DevGoesOn
  <2> QED
    BY <2>3, <2>4, <2>6 DEF IInv
<1> QED
  BY <1>7, <1>8

\* dev asks for a workspace, or tells why it could not start.
LEMMA NewFailsStep ==
    ASSUME IInv, newFails
    PROVE  IInv'
<1>1. TypeOK
  BY DEF IInv
<1>2. /\ dev.pc = "new" /\ devSays({}, 0) /\ devRests
      /\ UNCHANGED <<rooms, record, sess, kept, stored, cut, deploying, releases,
                     grug, reviewed, checkouts, reviews, head, worktrees, started, faults>>
  BY DEF newFails, grugVars, gitVars
<1>3. Talk /\ asks' = asks
  BY <1>2, DevSays, AgentsAssumption
<1>4. dev' \in DevState /\ dev'.pc = "idle"
  BY <1>2, Rests
<1>5. lost' \subseteq lost
  <2>1. ASSUME NEW t \in worktrees, Safe(t) PROVE Safe(t)'
    BY <1>2, <1>4, <2>1 DEF Safe
  <2> QED
    BY <1>2, <2>1 DEF lost
<1>6. /\ Paid' /\ Grug1' /\ faults' \in [Kinds -> 0..MaxFaults] /\ faults'.read \in Nat
      /\ faults'.read >= faults.read
  BY <1>1, <1>2, <1>5, DevRuns
<1>7. TypeOK'
  BY <1>1, <1>2, <1>3, <1>4, <1>6 DEF TypeOK, Talk
<1>8. Dev1'
  BY <1>2, <1>3, <1>4, <1>6, DevGoesOn
<1> QED
  BY <1>6, <1>7, <1>8 DEF IInv

\* A worktree that is nobody's.
LEMMA StartStopsStep ==
    ASSUME IInv, startStops
    PROVE  IInv'
<1>1. TypeOK /\ Heard /\ Saved /\ Started /\ \A r \in Rooms : Known(r) /\ Read(r) /\ Replaced(r)
  BY DEF IInv, Dev1
<1> DEFINE n == started + 1
<1>2. /\ dev.pc = "new" /\ started < MaxTasks /\ fault("half") /\ started' = n
      /\ worktrees' = worktrees \cup {n} /\ devSays({}, 0) /\ devRests
      /\ UNCHANGED <<rooms, record, sess, kept, stored, cut, deploying, releases,
                     grug, reviewed, checkouts, reviews, head>>
  BY DEF startStops, grugVars
<1>3. Talk /\ asks' = asks
  BY <1>2, DevSays, AgentsAssumption
<1>4. dev' \in DevState /\ dev'.pc = "idle"
  BY <1>2, Rests
<1>5. n \in Tasks /\ n \in 0..MaxTasks /\ started \in Nat
  BY <1>1, <1>2, AgentsAssumption DEF TypeOK, Tasks
<1>6. lost' \subseteq lost \cup {n}
  <2>1. ASSUME NEW t \in worktrees, Safe(t) PROVE Safe(t)'
    BY <1>2, <1>4, <2>1 DEF Safe
  <2> QED
    BY <1>2, <2>1 DEF lost
<1>7. /\ Paid' /\ Grug1' /\ faults' \in [Kinds -> 0..MaxFaults] /\ faults'.read \in Nat
      /\ faults'.read >= faults.read
  BY <1>2, <1>6, DevErrs DEF Kinds
<1>8. TypeOK'
  BY <1>1, <1>2, <1>3, <1>4, <1>5, <1>7 DEF TypeOK, Talk
<1>9. Heard' /\ Saved'
  BY <1>3, <1>4 DEF Heard, Saved, Talk
<1>10. Started'
  <2>1. worktrees' \subseteq 1..started'
    BY <1>1, <1>2, <1>5 DEF Started
  <2> QED
    BY <1>1, <1>2, <2>1 DEF Started
<1>11. ASSUME NEW r \in Rooms PROVE Known(r)' /\ Read(r)' /\ Replaced(r)'
  <2>1. Known(r) /\ Read(r) /\ Replaced(r)
    BY <1>1
  <2>2. rooms[r].seen \in Nat /\ record[r].seen \in Nat /\ room[r] \in Nat
        /\ room'[r] \in Nat /\ room'[r] >= room[r]
    BY <1>1, <1>11, <1>3, Fields DEF Talk
  <2>3. Known(r)' /\ Read(r)'
    BY <1>2, <2>1, <2>2 DEF Known, Read
  <2>4. faults.read \in Nat
    BY <1>1, Counts
  <2>5. Replaced(r)'
    BY <1>2, <1>4, <1>7, <2>1, <2>4 DEF Replaced
  <2> QED
    BY <2>3, <2>5
<1> QED
  BY <1>7, <1>8, <1>9, <1>10, <1>11 DEF IInv, Dev1

\* A new task, with a number no task had, in a room that has something to read.
LEMMA NewTaskStep ==
    ASSUME IInv, newTask
    PROVE  IInv'
<1>1. TypeOK /\ Heard /\ Saved /\ Started /\ \A r \in Rooms : Known(r) /\ Read(r) /\ Replaced(r)
  BY DEF IInv, Dev1
<1> DEFINE n == started + 1
           r == dev.m.room
           fresh == [task |-> n, seen |-> 0]
<1>2. /\ dev.pc = "new" /\ started < MaxTasks /\ started' = n
      /\ worktrees' = worktrees \cup {n} /\ rooms' = [rooms EXCEPT ![r] = fresh]
      /\ devGoes("read")
      /\ UNCHANGED <<room, inbox, asks, record, sess, kept, stored, cut, deploying, releases,
                     grug, reviewed, checkouts, reviews, head, faults>>
  BY DEF newTask, grugVars, chatVars
<1>3. dev.m \in Mentions /\ r \in Rooms /\ room[r] > 0 /\ rooms[r] = NoTask
  BY <1>1, <1>2, MentionFacts DEF Heard
<1>4. dev' \in DevState /\ dev'.pc = "read" /\ dev'.m = dev.m
  BY <1>1, <1>2, Goes
<1>5. n \in Tasks /\ n \in 0..MaxTasks /\ started \in Nat /\ n # 0 /\ n > started
  BY <1>1, <1>2, AgentsAssumption DEF TypeOK, Tasks
<1> HIDE DEF n
<1>6. fresh \in RoomTask /\ fresh.task = n /\ fresh.seen = 0
  BY <1>5 DEF RoomTask
<1>7. /\ \A t \in worktrees : t # n
      /\ \A q \in Rooms : rooms[q].task # n /\ record[q].task # n
  <2>1. \A t \in worktrees : t <= started /\ t \in Nat
    BY <1>1, <1>5 DEF Started
  <2>2. \A t \in worktrees : t # n
    BY <1>5, <2>1
  <2> QED
    BY <1>1, <1>5, <2>2 DEF Known
<1> HIDE DEF fresh
<1>8. rooms'[r] = fresh /\ \A q \in Rooms \ {r} : rooms'[q] = rooms[q]
  BY <1>1, <1>2, <1>3 DEF TypeOK
<1>9. TypeOK'
  BY <1>1, <1>2, <1>4, <1>5, <1>6 DEF TypeOK
<1>10. Heard' /\ Saved'
  BY <1>1, <1>2, <1>3, <1>4, <1>5, <1>6, <1>8 DEF Heard, Saved
<1>11. Started'
  <2>1. worktrees' \subseteq 1..started'
    <3>1. n \in Int /\ n \in 1..n
      BY <1>5 DEF Tasks
    <3>2. 1..started \subseteq 1..n
      BY <1>5, <3>1
    <3> QED
      BY <1>1, <1>2, <3>1, <3>2 DEF Started
  <2>2. ASSUME NEW p \in Rooms, NEW q \in Rooms, NEW t \in Tasks,
               t \in {rooms'[p].task, record[p].task} \cap {rooms'[q].task, record[q].task}
        PROVE  p = q
    <3>1. CASE t = n
      BY <1>6, <1>7, <1>8, <2>2, <3>1
    <3>2. CASE t # n
      <4>1. t \in {rooms[p].task, record[p].task} \cap {rooms[q].task, record[q].task}
        BY <1>6, <1>8, <2>2, <3>2
      <4> QED
        BY <1>1, <4>1 DEF Started
    <3> QED
      BY <3>1, <3>2
  <2> QED
    BY <1>1, <1>2, <2>1, <2>2 DEF Started
<1>12. ASSUME NEW q \in Rooms PROVE Known(q)' /\ Read(q)' /\ Replaced(q)'
  <2>1. Known(q) /\ Read(q) /\ Replaced(q)
    BY <1>1
  <2>2. CASE q = r
    <3>1. Known(q)'
      <4>1. 0 <= room[r]
        BY <1>1, <1>3, Fields
      <4> QED
        BY <1>2, <1>5, <1>6, <1>8, <2>1, <2>2, <4>1 DEF Known
    <3>2. Read(q)'
      <4>1. NoTask.task = 0 /\ 1..0 = {}
        BY DEF NoTask
      <4>2. record[r].task # 0 => 1..record[r].seen \subseteq kept[record[r].task] \cup cut[r]
        BY <1>3, <2>1, <2>2, <4>1 DEF Read
      <4> QED
        BY <1>2, <1>3, <1>6, <1>7, <1>8, <2>2, <4>1, <4>2 DEF Read
    <3>3. Replaced(q)'
      BY <1>2, <1>4, <2>1, <2>2 DEF Replaced
    <3> QED
      BY <3>1, <3>2, <3>3
  <2>3. CASE q # r
    <3>1. rooms'[q] = rooms[q]
      BY <1>8, <2>3
    <3> QED
      BY <1>2, <1>4, <2>1, <3>1 DEF Known, Read, Replaced
  <2> QED
    BY <2>2, <2>3
<1>13. lost' \subseteq lost
  <2>1. ASSUME NEW t \in worktrees, Safe(t) PROVE Safe(t)'
    <3>1. PICK q \in Rooms : record[q].task = t /\ t \in stored /\ rooms[q].task \in {0, t}
                             /\ ~(dev.pc = "new" /\ dev.m.room = q)
      BY <1>2, <2>1 DEF Safe
    <3>2. rooms'[q] = rooms[q]
      BY <1>2, <1>8, <3>1
    <3> QED
      BY <1>2, <1>4, <3>1, <3>2 DEF Safe
  <2>2. ASSUME NEW t, t = n PROVE Safe(t)'
    BY <1>2, <1>3, <1>4, <1>6, <1>8, <2>2 DEF Safe
  <2> QED
    BY <1>2, <2>1, <2>2 DEF lost
<1>14. Paid' /\ Grug1'
  BY <1>1, <1>2, <1>13, DevRuns
<1> QED
  BY <1>9, <1>10, <1>11, <1>12, <1>14 DEF IInv, Dev1

\* dev reads its room and goes on, or has nothing new to read.
LEMMA DevReadsStep ==
    ASSUME IInv, devReads
    PROVE  IInv'
<1>1. TypeOK /\ Heard /\ Saved /\ Started /\ \A r \in Rooms : Known(r) /\ Read(r) /\ Replaced(r)
  BY DEF IInv, Dev1
<1> DEFINE r == dev.m.room
           t == rooms[r].task
           others == (rooms[r].seen + 1)..room[r]
           now == [task |-> t, seen |-> room[r]]
<1>2. /\ dev.pc = "read" /\ rooms' = [rooms EXCEPT ![r] = now]
      /\ \/ record' = [record EXCEPT ![r] = now] /\ UNCHANGED faults
         \/ UNCHANGED record /\ fault("write")
      /\ sess' = [sess EXCEPT ![t] = @ \cup others]
      /\ dev' = IF others = {} THEN Idle ELSE [dev EXCEPT !.pc = "model", !.left = MaxTools]
      /\ UNCHANGED <<room, inbox, asks, kept, stored, cut, deploying, releases,
                     grug, reviewed, checkouts, reviews, head, worktrees, started>>
  BY DEF devReads, grugVars, gitVars, chatVars
<1>3. dev.m \in Mentions /\ r \in Rooms /\ room[r] > 0 /\ t # 0
  BY <1>1, <1>2, MentionFacts DEF Heard
<1>4. /\ t \in 0..MaxTasks /\ rooms[r].seen \in Nat /\ room[r] \in Nat /\ rooms[r].seen <= room[r]
      /\ record[r].seen \in Nat
  BY <1>1, <1>3, Fields DEF Known
<1>5. t \in Tasks /\ others \in SUBSET Nat /\ sess[t] \in SUBSET Nat
  <2>1. t \in Tasks /\ others \in SUBSET Nat
    BY <1>3, <1>4 DEF Tasks
  <2> QED
    BY <1>1, <2>1 DEF TypeOK
<1>6. now \in RoomTask /\ now.task = t /\ now.seen = room[r]
  BY <1>4 DEF RoomTask
<1>7. others = {} <=> ~(rooms[r].seen < room[r])
  BY <1>4
<1>8. /\ dev' \in DevState /\ dev'.pc \in {"idle", "model"}
      /\ dev'.pc = "model" => dev'.m = dev.m
      /\ rooms[r].seen < room[r] => dev'.pc = "model"
  <2>1. /\ Idle \in DevState /\ Idle.pc = "idle"
    BY AgentsAssumption DEF Idle, DevState
  <2> DEFINE d == [dev EXCEPT !.pc = "model", !.left = MaxTools]
  <2>2. dev \in DevState
    BY <1>1 DEF TypeOK
  <2>t. MaxTools \in 0..MaxTools
    BY AgentsAssumption
  <2>3. d \in DevState /\ d.pc = "model" /\ d.m = dev.m
    BY <2>2, <2>t DEF DevState
  <2> HIDE DEF d
  <2>4. dev' = IF others = {} THEN Idle ELSE d
    BY <1>2 DEF d
  <2> QED
    BY <1>7, <2>1, <2>3, <2>4
<1> HIDE DEF now, others
<1>9. rooms'[r] = now /\ \A q \in Rooms \ {r} : rooms'[q] = rooms[q]
  BY <1>1, <1>2, <1>3 DEF TypeOK
<1>10. sess'[t] = sess[t] \cup others /\ \A x \in Tasks \ {t} : sess'[x] = sess[x]
  BY <1>1, <1>2, <1>5 DEF TypeOK
<1>11. /\ record' \in [Rooms -> RoomTask] /\ record'[r] \in {now, record[r]}
       /\ \A q \in Rooms \ {r} : record'[q] = record[q]
  BY <1>1, <1>2, <1>3, <1>6 DEF TypeOK
<1>12. rooms' \in [Rooms -> RoomTask] /\ sess' \in [Tasks -> SUBSET Nat]
  BY <1>1, <1>2, <1>5, <1>6 DEF TypeOK
<1>13. /\ lost' \subseteq lost \cup {t}
       /\ record'[r] = now => lost' \subseteq lost
  <2>1. ASSUME NEW x \in worktrees, Safe(x), x # t \/ record'[r] = now PROVE Safe(x)'
    <3>1. CASE \E q \in Rooms : record[q].task = x /\ x \in stored /\ rooms[q].task \in {0, x}
      <4>1. PICK q \in Rooms : record[q].task = x /\ x \in stored /\ rooms[q].task \in {0, x}
        BY <3>1
      <4>2. rooms'[q].task \in {0, x} /\ record'[q].task = x
        BY <1>3, <1>6, <1>9, <1>11, <4>1
      <4> QED
        BY <1>2, <1>8, <4>1, <4>2 DEF Safe
    <3>2. CASE t = x /\ rooms[r].seen < room[r]
      BY <1>6, <1>8, <1>9, <2>1, <3>2 DEF Safe
    <3> QED
      BY <1>2, <2>1, <3>1, <3>2 DEF Safe
  <2> QED
    BY <1>2, <2>1 DEF lost
<1>14. /\ Paid' /\ Grug1' /\ faults' \in [Kinds -> 0..MaxFaults] /\ faults'.read \in Nat
       /\ faults'.read >= faults.read
  <2>1. CASE record' = [record EXCEPT ![r] = now] /\ UNCHANGED faults
    <3>1. record'[r] = now
      BY <1>1, <1>3, <2>1 DEF TypeOK
    <3> QED
      BY <1>1, <1>2, <1>13, <2>1, <3>1, DevRuns
  <2>2. CASE fault("write")
    BY <1>2, <1>13, <2>2, DevErrs DEF Kinds
  <2> QED
    BY <1>2, <2>1, <2>2
<1>15. TypeOK'
  BY <1>1, <1>2, <1>8, <1>11, <1>12, <1>14 DEF TypeOK
<1>16. Heard' /\ Saved'
  <2>1. rooms'[r].task = t
    BY <1>6, <1>9
  <2> QED
    BY <1>1, <1>2, <1>3, <1>8, <2>1 DEF Heard, Saved
<1>17. Started'
  <2>1. ASSUME NEW q \in Rooms
        PROVE  {rooms'[q].task, record'[q].task} \subseteq {rooms[q].task, record[q].task}
    BY <1>6, <1>9, <1>11, <2>1
  <2> QED
    BY <1>1, <1>2, <2>1 DEF Started
<1>18. ASSUME NEW q \in Rooms PROVE Known(q)' /\ Read(q)' /\ Replaced(q)'
  <2>1. Known(q) /\ Read(q) /\ Replaced(q)
    BY <1>1
  <2>2. CASE q = r
    <3>1. Known(q)'
      <4>1. rooms'[r] = now /\ record'[r] \in {now, record[r]} /\ UNCHANGED <<room, worktrees>>
        BY <1>2, <1>9, <1>11
      <4>2. /\ t \in worktrees \cup {0} /\ record[r].task \in worktrees \cup {0}
            /\ record[r].task = 0 => record[r] = NoTask
            /\ record[r].seen <= room[r]
        BY <2>1, <2>2 DEF Known
      <4>3. room[r] <= room[r]
        BY <1>4
      <4> QED
        BY <1>3, <1>6, <2>2, <4>1, <4>2, <4>3 DEF Known
    <3>2. Read(q)'
      <4>1. 1..room[r] \subseteq sess'[t] \cup cut[r]
        <5>1. 1..rooms[r].seen \subseteq sess[t] \cup cut[r]
          BY <1>3, <2>1, <2>2 DEF Read
        <5>2. ASSUME NEW i \in 1..room[r] PROVE i \in 1..rooms[r].seen \/ i \in others
          BY <1>4, <5>2 DEF others
        <5> QED
          BY <1>10, <5>1, <5>2
      <4>2. record[r].seen <= room[r]
        BY <2>1, <2>2 DEF Known
      <4>3. CASE record'[r] = now
        <5>1. room[r] <= room[r]
          BY <1>4
        <5> QED
          BY <1>2, <1>6, <1>9, <2>2, <4>1, <4>3, <5>1 DEF Read
      <4>4. CASE record'[r] = record[r]
        BY <1>2, <1>3, <1>6, <1>9, <2>1, <2>2, <4>1, <4>2, <4>4 DEF Read
      <4> QED
        BY <1>11, <4>3, <4>4
    <3>3. Replaced(q)'
      <4>1. faults.read \in Nat
        BY <1>1, Counts
      <4>2. rooms'[r].task = t /\ record'[r].task \in {t, record[r].task} /\ dev'.pc # "new"
        BY <1>6, <1>8, <1>9, <1>11
      <4>3. record[r].task \in stored /\ t \notin {0, record[r].task} => faults.read > 0
        BY <2>1, <2>2 DEF Replaced
      <4>4. faults.read > 0 => faults'.read > 0
        BY <1>14, <4>1
      <4>5. UNCHANGED stored
        BY <1>2
      <4> QED
        BY <2>2, <4>2, <4>3, <4>4, <4>5 DEF Replaced
    <3> QED
      BY <3>1, <3>2, <3>3
  <2>3. CASE q # r
    <3>1. rooms'[q] = rooms[q] /\ record'[q] = record[q] /\ rooms[q].task \in 0..MaxTasks
      BY <1>1, <1>9, <1>11, <2>3, Fields
    <3>2. rooms[q].task # t
      BY <1>1, <1>3, <1>5, <2>3 DEF Started
    <3>3. rooms[q].task # 0 => sess'[rooms[q].task] = sess[rooms[q].task]
      BY <1>10, <3>1, <3>2 DEF Tasks
    <3>4. faults.read \in Nat
      BY <1>1, Counts
    <3>5. Known(q)' /\ Read(q)'
      BY <1>2, <2>1, <3>1, <3>3 DEF Known, Read
    <3>6. Replaced(q)'
      BY <1>2, <1>8, <1>14, <2>1, <3>1, <3>4 DEF Replaced
    <3> QED
      BY <3>5, <3>6
  <2> QED
    BY <2>2, <2>3
<1> QED
  BY <1>14, <1>15, <1>16, <1>17, <1>18 DEF IInv, Dev1

\* The room cannot be read.
LEMMA ReadFailsStep ==
    ASSUME IInv, readFails
    PROVE  IInv'
<1>1. TypeOK
  BY DEF IInv
<1>2. /\ dev.pc = "read" /\ fault("read") /\ devRests
      /\ UNCHANGED <<room, inbox, asks, rooms, record, sess, kept, stored, cut, deploying,
                     releases, grug, reviewed, checkouts, reviews, head, worktrees, started>>
  BY DEF readFails, grugVars, gitVars, chatVars
<1>3. Talk
  BY <1>2, Silence
<1>4. dev' \in DevState /\ dev'.pc = "idle"
  BY <1>2, Rests
<1>5. lost' \subseteq lost \cup {rooms[dev.m.room].task}
  <2>1. ASSUME NEW t \in worktrees, Safe(t), t # rooms[dev.m.room].task PROVE Safe(t)'
    BY <1>2, <1>4, <2>1 DEF Safe
  <2> QED
    BY <1>2, <2>1 DEF lost
<1>6. /\ Paid' /\ Grug1' /\ faults' \in [Kinds -> 0..MaxFaults] /\ faults'.read \in Nat
      /\ faults'.read >= faults.read
  BY <1>2, <1>5, DevErrs DEF Kinds
<1>7. TypeOK'
  BY <1>1, <1>2, <1>4, <1>6 DEF TypeOK
<1>8. Dev1'
  BY <1>2, <1>3, <1>4, <1>6, DevGoesOn
<1> QED
  BY <1>6, <1>7, <1>8 DEF IInv

\* The session of the turn is saved, and the turn goes on or ends.
LEMMA Saves ==
    ASSUME IInv, dev.pc = "model", saved(rooms[dev.m.room].task), Talk,
           UNCHANGED <<rooms, record, sess, cut, worktrees, started, faults>>,
           dev'.pc \in {"idle", "act"}, dev'.pc = "act" => dev'.m = dev.m
    PROVE  /\ Dev1' /\ lost' \subseteq lost
           /\ kept' \in [Tasks -> SUBSET Nat] /\ stored' \subseteq Tasks
<1>1. TypeOK /\ Heard /\ Started /\ \A r \in Rooms : Known(r) /\ Read(r) /\ Replaced(r)
  BY DEF IInv, Dev1
<1> DEFINE r == dev.m.room
           t == rooms[r].task
<1>2. kept' = [kept EXCEPT ![t] = sess[t]] /\ stored' = stored \cup {t}
  BY DEF saved
<1>3. dev.m \in Mentions /\ r \in Rooms /\ t # 0
  BY <1>1, MentionFacts DEF Heard
<1>4. t \in Tasks /\ t \in worktrees
  <2>1. t \in 0..MaxTasks
    BY <1>1, <1>3, Fields
  <2> QED
    BY <1>1, <1>3, <2>1 DEF Tasks, Known
<1>5. /\ kept' \in [Tasks -> SUBSET Nat] /\ stored' \subseteq Tasks
      /\ \A x \in Tasks \ {t} : kept'[x] = kept[x]
  BY <1>1, <1>2, <1>4 DEF TypeOK
<1>6. Heard' /\ Saved'
  <2>1. dev'.pc # "idle" => room'[dev'.m.room] > 0
    <3>1. room[r] > 0 /\ room[r] \in Nat /\ room'[r] \in Nat /\ room'[r] >= room[r]
      BY <1>1, <1>3 DEF Heard, TypeOK, Talk
    <3>2. room'[r] > 0
      BY <3>1
    <3> QED
      BY <3>2
  <2> QED
    BY <1>2, <1>3, <2>1 DEF Heard, Saved, Talk
<1>7. Started'
  BY <1>1, <1>2, <1>4 DEF Started
<1>8. ASSUME NEW q \in Rooms PROVE Known(q)' /\ Read(q)' /\ Replaced(q)'
  <2>1. Known(q) /\ Read(q) /\ Replaced(q)
    BY <1>1
  <2>2. rooms[q].seen \in Nat /\ record[q].seen \in Nat /\ room[q] \in Nat
        /\ room'[q] \in Nat /\ room'[q] >= room[q] /\ record[q].task \in 0..MaxTasks
    BY <1>1, <1>8, Fields DEF Talk
  <2>3. Known(q)'
    BY <2>1, <2>2 DEF Known
  <2>4. record[q].task = t => q = r
    BY <1>1, <1>3, <1>4 DEF Started
  <2>5. record[q].task # 0 /\ rooms[q].task # record[q].task => kept'[record[q].task] = kept[record[q].task]
    BY <1>5, <2>2, <2>4 DEF Tasks
  <2>6. Read(q)'
    BY <2>1, <2>5 DEF Read
  <2>7. Replaced(q)'
    BY <1>2, <2>1, <2>4 DEF Replaced
  <2> QED
    BY <2>3, <2>6, <2>7
<1>9. lost' \subseteq lost
  <2>1. ASSUME NEW x \in worktrees, Safe(x) PROVE Safe(x)'
    <3>1. PICK q \in Rooms : record[q].task = x /\ x \in stored' /\ rooms[q].task \in {0, x}
      BY <1>2, <1>3, <2>1 DEF Safe
    <3> QED
      BY <3>1 DEF Safe
  <2> QED
    BY <2>1 DEF lost
<1> QED
  BY <1>5, <1>6, <1>7, <1>8, <1>9 DEF Dev1

\* The model has answered and the session is saved.
LEMMA DevAnswersStep ==
    ASSUME IInv, devAnswers
    PROVE  IInv'
<1>1. TypeOK
  BY DEF IInv
<1>2. /\ dev.pc = "model" /\ saved(rooms[dev.m.room].task) /\ devGoes("act")
      /\ UNCHANGED <<room, inbox, asks, rooms, record, sess, cut, deploying, releases,
                     grug, reviewed, checkouts, reviews, head, worktrees, started, faults>>
  BY DEF devAnswers, grugVars, gitVars, chatVars
<1>3. Talk
  BY <1>2, Silence
<1>4. dev' \in DevState /\ dev'.pc = "act" /\ dev'.m = dev.m
  BY <1>1, <1>2, Goes
<1>5. /\ Dev1' /\ lost' \subseteq lost
      /\ kept' \in [Tasks -> SUBSET Nat] /\ stored' \subseteq Tasks
  BY <1>2, <1>3, <1>4, Saves
<1>6. Paid' /\ Grug1'
  BY <1>1, <1>2, <1>5, DevRuns
<1>7. TypeOK'
  BY <1>1, <1>2, <1>4, <1>5 DEF TypeOK
<1> QED
  BY <1>5, <1>6, <1>7 DEF IInv

\* The turn ends in an error, saved or for a fault not.
LEMMA DevStopsStep ==
    ASSUME IInv, devStops
    PROVE  IInv'
<1>1. TypeOK
  BY DEF IInv
<1>2. /\ dev.pc = "model" /\ devSays({}, 0) /\ devRests
      /\ \/ saved(rooms[dev.m.room].task) /\ UNCHANGED faults
         \/ fault("write") /\ UNCHANGED <<kept, stored>>
      /\ UNCHANGED <<rooms, record, sess, cut, deploying, releases,
                     grug, reviewed, checkouts, reviews, head, worktrees, started>>
  BY DEF devStops, grugVars, gitVars
<1>3. Talk /\ asks' = asks
  BY <1>2, DevSays, AgentsAssumption
<1>4. dev' \in DevState /\ dev'.pc = "idle"
  BY <1>2, Rests
<1>5. CASE saved(rooms[dev.m.room].task) /\ UNCHANGED faults
  <2>1. /\ Dev1' /\ lost' \subseteq lost
        /\ kept' \in [Tasks -> SUBSET Nat] /\ stored' \subseteq Tasks
    BY <1>2, <1>3, <1>4, <1>5, Saves
  <2>2. Paid' /\ Grug1'
    BY <1>1, <1>2, <1>5, <2>1, DevRuns
  <2>3. TypeOK'
    BY <1>1, <1>2, <1>3, <1>4, <1>5, <2>1 DEF TypeOK, Talk
  <2> QED
    BY <2>1, <2>2, <2>3 DEF IInv
<1>6. CASE fault("write") /\ UNCHANGED <<kept, stored>>
  <2>1. lost' \subseteq lost \cup {rooms[dev.m.room].task}
    <3>1. ASSUME NEW t \in worktrees, Safe(t), t # rooms[dev.m.room].task PROVE Safe(t)'
      BY <1>2, <1>4, <1>6, <3>1 DEF Safe
    <3> QED
      BY <1>2, <3>1 DEF lost
  <2>2. /\ Paid' /\ Grug1' /\ faults' \in [Kinds -> 0..MaxFaults] /\ faults'.read \in Nat
        /\ faults'.read >= faults.read
    BY <1>2, <1>6, <2>1, DevErrs DEF Kinds
  <2>3. TypeOK'
    BY <1>1, <1>2, <1>3, <1>4, <1>6, <2>2 DEF TypeOK, Talk
  <2>4. Dev1'
    BY <1>2, <1>3, <1>4, <1>6, <2>2, DevGoesOn
  <2> QED
    BY <2>2, <2>3, <2>4 DEF IInv
<1> QED
  BY <1>2, <1>5, <1>6

\* dev acts in a turn whose session is saved, or ends it.
LEMMA Acts ==
    ASSUME IInv, dev.pc \in {"act", "opened"}, Talk,
           UNCHANGED <<rooms, record, sess, kept, stored, cut, worktrees, started, releases,
                       grug, reviewed, checkouts, reviews, faults>>,
           dev'.pc \in {"idle", "model", "opened"}, dev'.pc # "idle" => dev'.m = dev.m
    PROVE  Dev1' /\ Grug1' /\ Paid'
<1>1. lost' \subseteq lost
  <2>1. ASSUME NEW t \in worktrees, Safe(t) PROVE Safe(t)'
    BY <2>1 DEF Safe
  <2> QED
    BY <2>1 DEF lost
<1>2. /\ Paid' /\ Grug1' /\ faults'.read \in Nat /\ faults'.read >= faults.read
  BY <1>1, DevRuns
<1>3. rooms[dev.m.room].task \in stored
  BY DEF IInv, Dev1, Saved
<1>4. Dev1'
  BY <1>2, <1>3, DevGoesOn
<1> QED
  BY <1>2, <1>4

\* The task of the room dev works in.
LEMMA TaskOfTheTurn ==
    ASSUME IInv, dev.pc \in {"read", "model", "act", "opened"}
    PROVE  rooms[dev.m.room].task \in Tasks /\ rooms[dev.m.room].task \in 0..MaxTasks
<1>1. dev.m.room \in Rooms /\ rooms[dev.m.room].task # 0
  BY MentionFacts DEF IInv, Dev1, Heard
<1>2. rooms[dev.m.room].task \in 0..MaxTasks
  BY <1>1, Fields DEF IInv
<1> QED
  BY <1>1, <1>2 DEF Tasks

\* The branch is pushed, whatever its head was.
LEMMA OpenPRStep ==
    ASSUME IInv, OpenPR
    PROVE  IInv'
<1>1. TypeOK
  BY DEF IInv
<1> DEFINE t == rooms[dev.m.room].task
           d == [dev EXCEPT !.pc = "opened", !.left = @ - 1]
<1>2. /\ dev.pc = "act" /\ dev.left > 0 /\ dev' = d
      /\ UNCHANGED <<room, inbox, asks, rooms, record, sess, kept, stored, cut, deploying, releases,
                     grug, reviewed, checkouts, reviews, worktrees, started, faults>>
  BY DEF OpenPR, tool, chatVars, grugVars
<1>3. PICK n \in 1..MaxPushes : head' = [head EXCEPT ![t] = n]
  BY DEF OpenPR
<1>4. n \in 0..MaxPushes
  BY AgentsAssumption
<1>5. head' \in [Tasks -> 0..MaxPushes]
  BY <1>1, <1>3, <1>4 DEF TypeOK
<1>6. d \in DevState /\ d.pc = "opened" /\ d.m = dev.m
  <2>1. dev \in DevState
    BY <1>1 DEF TypeOK
  <2>2. dev.left - 1 \in 0..MaxTools
    BY <1>1, <1>2, States, AgentsAssumption
  <2> QED
    BY <2>1, <2>2 DEF DevState
<1> HIDE DEF d
<1>7. Talk
  BY <1>2, Silence
<1>8. Dev1' /\ Grug1' /\ Paid'
  BY <1>2, <1>6, <1>7, Acts
<1>9. TypeOK'
  BY <1>1, <1>2, <1>5, <1>6 DEF TypeOK
<1> QED
  BY <1>8, <1>9 DEF IInv

\* grug is asked for a review.
LEMMA AsksGrugStep ==
    ASSUME IInv, asksGrug
    PROVE  IInv'
<1>1. TypeOK
  BY DEF IInv
<1>2. /\ dev.pc = "opened" /\ devSays({"grug"}, rooms[dev.m.room].task) /\ devGoes("model")
      /\ UNCHANGED <<rooms, record, sess, kept, stored, cut, deploying, releases,
                     grug, reviewed, checkouts, reviews, head, worktrees, started, faults>>
  BY DEF asksGrug, gitVars, grugVars
<1>3. Talk /\ asks' = asks
  BY <1>2, TaskOfTheTurn, DevSays
<1>4. dev' \in DevState /\ dev'.pc = "model" /\ dev'.m = dev.m
  BY <1>1, <1>2, Goes
<1>5. Dev1' /\ Grug1' /\ Paid'
  BY <1>1, <1>2, <1>3, <1>4, Acts
<1>6. TypeOK'
  BY <1>1, <1>2, <1>3, <1>4 DEF TypeOK, Talk
<1> QED
  BY <1>5, <1>6 DEF IInv

\* A release is made for the room.
LEMMA DeployStep ==
    ASSUME IInv, deploy
    PROVE  IInv'
<1>1. TypeOK
  BY DEF IInv
<1> DEFINE d == [dev EXCEPT !.pc = "model", !.left = @ - 1]
<1>2. /\ dev.pc = "act" /\ dev.left > 0 /\ dev' = d /\ deploying' = deploying \cup {dev.m.room}
      /\ UNCHANGED <<room, inbox, asks, rooms, record, sess, kept, stored, cut, releases,
                     grug, reviewed, checkouts, reviews, head, worktrees, started, faults>>
  BY DEF deploy, tool, chatVars, grugVars, gitVars
<1>3. d \in DevState /\ d.pc = "model" /\ d.m = dev.m
  <2>1. dev \in DevState
    BY <1>1 DEF TypeOK
  <2>2. dev.left - 1 \in 0..MaxTools
    BY <1>1, <1>2, States, AgentsAssumption
  <2> QED
    BY <2>1, <2>2 DEF DevState
<1> HIDE DEF d
<1>4. Talk
  BY <1>2, Silence
<1>5. Dev1' /\ Grug1' /\ Paid'
  BY <1>1, <1>2, <1>3, <1>4, Acts
<1>6. deploying' \subseteq Rooms
  BY <1>1, <1>2, MentionFacts DEF TypeOK, IInv, Dev1, Heard
<1>7. TypeOK'
  BY <1>1, <1>2, <1>3, <1>6 DEF TypeOK
<1> QED
  BY <1>5, <1>7 DEF IInv

\* The turn ends.
LEMMA DevRepliesStep ==
    ASSUME IInv, devReplies
    PROVE  IInv'
<1>1. TypeOK
  BY DEF IInv
<1>2. /\ dev.pc = "act" /\ devRests
      /\ devSays({}, 0) \/ devSays({"grug"}, rooms[dev.m.room].task)
      /\ UNCHANGED <<rooms, record, sess, kept, stored, cut, deploying, releases,
                     grug, reviewed, checkouts, reviews, head, worktrees, started, faults>>
  BY DEF devReplies, gitVars, grugVars
<1>3. Talk /\ asks' = asks
  BY <1>2, TaskOfTheTurn, DevSays, AgentsAssumption
<1>4. dev' \in DevState /\ dev'.pc = "idle"
  BY <1>2, Rests
<1>5. Dev1' /\ Grug1' /\ Paid'
  BY <1>1, <1>2, <1>3, <1>4, Acts
<1>6. TypeOK'
  BY <1>1, <1>2, <1>3, <1>4 DEF TypeOK, Talk
<1> QED
  BY <1>5, <1>6 DEF IInv

-----------------------------------------------------------------------------
(* grug and the humans *)

\* What others say leaves dev where it is.
LEMMA DevStays ==
    ASSUME IInv, Talk, faults'.read \in Nat, faults'.read >= faults.read,
           UNCHANGED <<rooms, record, sess, kept, stored, cut, worktrees, started, dev>>
    PROVE  Dev1' /\ lost' \subseteq lost
<1>1. TypeOK /\ Heard /\ Saved /\ Started /\ \A r \in Rooms : Known(r) /\ Read(r) /\ Replaced(r)
  BY DEF IInv, Dev1
<1>2. dev.pc # "idle" => dev.m.room \in Rooms
  BY <1>1, MentionFacts DEF Heard
<1>3. faults.read \in Nat
  BY <1>1, Counts
<1>4. dev'.pc = "new" /\ record[dev.m.room].task \in stored => faults'.read > 0
  <2>1. dev.pc = "new" /\ record[dev.m.room].task \in stored => faults.read > 0
    BY <1>1, <1>2 DEF Replaced
  <2> QED
    BY <1>3, <2>1
<1>5. Dev1'
  BY <1>1, <1>4, DevGoesOn DEF Saved
<1>6. lost' \subseteq lost
  <2>1. ASSUME NEW t \in worktrees, Safe(t) PROVE Safe(t)'
    <3>1. CASE dev.pc = "read" /\ rooms[dev.m.room].seen < room[dev.m.room]
      <4>1. rooms[dev.m.room].seen \in Nat /\ room[dev.m.room] \in Nat
            /\ room'[dev.m.room] \in Nat /\ room'[dev.m.room] >= room[dev.m.room]
        BY <1>1, <1>2, <3>1, Fields DEF Talk
      <4>2. rooms[dev.m.room].seen < room'[dev.m.room]
        BY <3>1, <4>1
      <4> QED
        BY <2>1, <3>1, <4>2 DEF Safe
    <3>2. CASE ~(dev.pc = "read" /\ rooms[dev.m.room].seen < room[dev.m.room])
      BY <2>1, <3>2 DEF Safe
    <3> QED
      BY <3>1, <3>2
  <2> QED
    BY <2>1 DEF lost
<1> QED
  BY <1>5, <1>6

\* A step in which nothing goes wrong and no task is lost.
LEMMA GrugRuns ==
    ASSUME IInv, Talk, UNCHANGED <<rooms, record, sess, kept, stored, cut, worktrees, started,
                                   dev, releases, faults>>
    PROVE  /\ Dev1' /\ Cardinality(lost') <= total' + releases'
           /\ ended' = ended /\ unwritten' = unwritten
<1>1. faults.read \in Nat
  BY Counts DEF IInv
<1>2. Dev1' /\ lost' \subseteq lost
  BY <1>1, DevStays
<1>3. total' = total /\ ended' = ended /\ unwritten' = unwritten
  BY DEF total, ended, unwritten
<1> QED
  BY <1>2, <1>3, LosesNone

\* A step in which something does.
LEMMA GrugErrs ==
    ASSUME IInv, Talk, NEW k \in {"half", "write"}, fault(k),
           UNCHANGED <<rooms, record, sess, kept, stored, cut, worktrees, started, dev, releases>>
    PROVE  /\ Dev1' /\ Cardinality(lost') <= total' + releases' /\ ended' = ended
           /\ unwritten' = unwritten + (IF k = "write" THEN 1 ELSE 0)
           /\ faults'.half = faults.half + (IF k = "half" THEN 1 ELSE 0)
           /\ faults' \in [Kinds -> 0..MaxFaults]
<1>1. /\ faults.read \in Nat /\ faults.write \in Nat /\ faults.crash \in Nat /\ faults.half \in Nat
      /\ total \in Nat /\ releases \in Nat
  BY Counts DEF IInv
<1>2. k \in Kinds /\ "read" \in Kinds /\ "write" \in Kinds /\ "crash" \in Kinds /\ "half" \in Kinds
  BY DEF Kinds
<1>3. /\ faults' \in [Kinds -> 0..MaxFaults] /\ faults'[k] = faults[k] + 1
      /\ \A j \in Kinds \ {k} : faults'[j] = faults[j]
      /\ total' = total + 1
  BY <1>2, FaultFacts DEF IInv
<1>4. faults'.read = faults.read /\ faults'.crash = faults.crash
  BY <1>2, <1>3
<1>5. /\ faults'.write = faults.write + (IF k = "write" THEN 1 ELSE 0)
      /\ faults'.half = faults.half + (IF k = "half" THEN 1 ELSE 0)
  BY <1>1, <1>2, <1>3
<1>6. Dev1' /\ lost' \subseteq lost
  BY <1>1, <1>4, DevStays
<1>7. ended' = ended /\ unwritten' = unwritten + (IF k = "write" THEN 1 ELSE 0)
  BY <1>1, <1>4, <1>5 DEF ended, unwritten
<1>8. Cardinality(lost') <= total' + releases'
  <2>1. total' + releases' = total + releases + 1
    BY <1>1, <1>3
  <2>2. lost' \subseteq lost \cup {0}
    BY <1>6
  <2> QED
    BY <2>1, <2>2, LosesOne
<1> QED
  BY <1>3, <1>5, <1>6, <1>7, <1>8

\* grug goes on, with no review to write down.
LEMMA GrugGoesOn ==
    ASSUME IInv, UNCHANGED <<reviewed, reviews>>, grug.pc # "record", grug'.pc # "record",
           Reviewing', unwritten' = unwritten
    PROVE  Grug1'
<1>1. ASSUME NEW pr \in Tasks PROVE Counted(pr)'
  <2>1. writing(pr) = 0 /\ writing(pr)' = 0
    BY DEF writing
  <2>2. behind(pr)' <=> behind(pr)
    BY <2>1 DEF behind
  <2>3. Counted(pr)
    BY <1>1 DEF IInv, Grug1
  <2> QED
    BY <2>1, <2>2, <2>3 DEF Counted
<1> QED
  BY <1>1 DEF Grug1

\* What grug says to the room of the mention it handles, or of the one it takes.
LEMMA GrugSays ==
    ASSUME IInv, NEW at, \/ grug.pc # "idle" /\ grugSays(at)
                         \/ wakes /\ grugAnswers(at)
    PROVE  Talk /\ asks' = asks
<1>1. CASE grug.pc # "idle" /\ grugSays(at)
  <2>1. grug.m.room \in Rooms
    BY <1>1, MentionFacts DEF IInv, Grug1, Reviewing
  <2>2. Hears(inbox)
    BY DEF IInv, TypeOK, Dev1, Heard, Hears
  <2>3. post(grug.m.room, "grug", at, 0, inbox) /\ asks' = asks
    BY <1>1 DEF grugSays
  <2> QED
    BY <2>1, <2>2, <2>3, PostFacts, AgentsAssumption DEF IInv
<1>2. CASE wakes /\ grugAnswers(at)
  <2>1. Hears(taken("grug")) /\ mention \in Mentions
    BY <1>2, TakenFacts DEF wakes, mention, Agents
  <2>2. mention.room \in Rooms
    BY <2>1, MentionFacts
  <2>3. post(mention.room, "grug", at, 0, taken("grug")) /\ asks' = asks
    BY <1>2 DEF grugAnswers
  <2> QED
    BY <2>1, <2>2, <2>3, PostFacts, AgentsAssumption DEF IInv
<1> QED
  BY <1>1, <1>2

\* A mention that asks for no review is answered.
LEMMA GrugDeclinesStep ==
    ASSUME IInv, grugDeclines
    PROVE  IInv'
<1>1. TypeOK
  BY DEF IInv
<1>2. /\ wakes /\ grugAnswers({})
      /\ UNCHANGED <<rooms, record, sess, kept, stored, dev, cut, deploying, releases,
                     grug, reviewed, checkouts, reviews, head, worktrees, started, faults>>
  BY DEF grugDeclines, devVars, grugVars, gitVars
<1>3. Talk /\ asks' = asks
  BY <1>2, GrugSays
<1>4. /\ Dev1' /\ Cardinality(lost') <= total' + releases'
      /\ ended' = ended /\ unwritten' = unwritten
  BY <1>2, <1>3, GrugRuns
<1>5. unwritten \in Nat
  BY <1>1, Counts
<1>6. Grug1'
  BY <1>1, <1>2, <1>4, <1>5, GrugStays
<1>7. review' = review
  BY <1>2 DEF review
<1>8. Paid'
  BY <1>2, <1>4, <1>7 DEF IInv, Paid
<1>9. TypeOK'
  BY <1>1, <1>2, <1>3 DEF TypeOK, Talk
<1> QED
  BY <1>4, <1>6, <1>8, <1>9 DEF IInv

\* A review begins, at another head than the last that was written down.
LEMMA CheckoutStep ==
    ASSUME IInv, Checkout
    PROVE  IInv'
<1>1. TypeOK
  BY DEF IInv
<1> DEFINE pr == mention.pr
           g == [pc |-> "review", m |-> mention, head |-> head[pr]]
<1>2. /\ wakes /\ pr # 0 /\ head[pr] > 0 /\ ~reviewedAlready(pr) /\ ~reviewedEnough(pr)
      /\ grug' = g /\ inbox' = taken("grug") /\ checkouts' = checkouts + 1
      /\ UNCHANGED <<room, asks, rooms, record, sess, kept, stored, dev, cut, deploying, releases,
                     reviewed, reviews, head, worktrees, started, faults>>
  BY DEF Checkout, toReview, devVars, gitVars
<1>3. Hears(taken("grug")) /\ mention \in Mentions /\ grug.pc = "idle"
  BY <1>2, TakenFacts DEF wakes, mention, Agents
<1>4. Talk
  <2>1. \A r \in Rooms : room[r] >= room[r]
    BY <1>1 DEF TypeOK
  <2> QED
    BY <1>1, <1>2, <1>3, <2>1 DEF Talk, Hears, TypeOK
<1>5. pr \in Tasks
  <2>1. pr \in 0..MaxTasks
    BY <1>3, MentionFacts
  <2> QED
    BY <1>2, <2>1 DEF Tasks
<1>6. /\ Dev1' /\ Cardinality(lost') <= total' + releases'
      /\ ended' = ended /\ unwritten' = unwritten
  BY <1>2, <1>4, GrugRuns
<1>7. /\ g \in GrugState /\ g.pc = "review" /\ g.m = mention /\ g.head = head[pr]
      /\ head[pr] \in 0..MaxPushes
  <2>1. head[pr] \in 0..MaxPushes
    BY <1>1, <1>5 DEF TypeOK
  <2> QED
    BY <1>3, <2>1 DEF GrugState
<1> HIDE DEF g
<1>8. Reviewing'
  <2>1. Len(reviewed[pr]) \in Nat /\ maxReviews \in Nat
    BY <1>1, <1>5, CountFacts
  <2>2. Len(reviewed[pr]) < maxReviews
    BY <1>2, <2>1 DEF reviewedEnough
  <2>3. ~endsAt(reviewed[pr], head[pr])
    BY <1>2 DEF reviewedAlready, endsAt
  <2> QED
    BY <1>2, <1>3, <1>5, <1>7, <2>2, <2>3 DEF Reviewing
<1>9. Grug1'
  BY <1>2, <1>3, <1>6, <1>7, <1>8, GrugGoesOn
<1>10. Paid'
  <2>1. review = 0 /\ review' = 1
    BY <1>2, <1>3, <1>7 DEF review
  <2>2. checkouts \in Nat /\ ended \in Nat /\ faults.half \in Nat
    BY <1>1, Counts
  <2>3. review <= checkouts /\ checkouts <= review + ended + faults.half
    BY DEF IInv, Paid
  <2>4. review' <= checkouts' /\ checkouts' <= review' + ended' + faults'.half
    BY <1>2, <1>6, <2>1, <2>2, <2>3
  <2> QED
    BY <1>6, <2>4 DEF Paid
<1>11. TypeOK'
  <2>1. checkouts' \in Nat
    BY <1>1, <1>2 DEF TypeOK
  <2> QED
    BY <1>1, <1>2, <1>4, <1>7, <2>1 DEF TypeOK, Talk
<1> QED
  BY <1>6, <1>9, <1>10, <1>11 DEF IInv

\* A checkout that stops half-way is left, for a fault.
LEMMA CheckoutStopsStep ==
    ASSUME IInv, checkoutStops
    PROVE  IInv'
<1>1. TypeOK
  BY DEF IInv
<1>2. /\ wakes /\ grugAnswers({}) /\ fault("half") /\ checkouts' = checkouts + 1
      /\ UNCHANGED <<rooms, record, sess, kept, stored, dev, cut, deploying, releases,
                     grug, reviewed, reviews, head, worktrees, started>>
  BY DEF checkoutStops, toReview, devVars, gitVars
<1>3. Talk /\ asks' = asks
  BY <1>2, GrugSays
<1>4. /\ Dev1' /\ Cardinality(lost') <= total' + releases' /\ ended' = ended
      /\ unwritten' = unwritten + 0 /\ faults'.half = faults.half + 1
      /\ faults' \in [Kinds -> 0..MaxFaults]
  BY <1>2, <1>3, GrugErrs
<1>5. unwritten \in Nat
  BY <1>1, Counts
<1>6. unwritten' = unwritten
  BY <1>4, <1>5
<1>7. Grug1'
  BY <1>1, <1>2, <1>5, <1>6, GrugStays
<1>8. Paid'
  <2>1. review' = review /\ review \in {0, 1}
    BY <1>2 DEF review
  <2>2. checkouts \in Nat /\ ended \in Nat /\ faults.half \in Nat
    BY <1>1, Counts
  <2>3. review <= checkouts /\ checkouts <= review + ended + faults.half
    BY DEF IInv, Paid
  <2>4. review' <= checkouts' /\ checkouts' <= review' + ended' + faults'.half
    BY <1>2, <1>4, <2>1, <2>2, <2>3
  <2> QED
    BY <1>4, <2>4 DEF Paid
<1>9. TypeOK'
  <2>1. checkouts' \in Nat
    BY <1>1, <1>2 DEF TypeOK
  <2> QED
    BY <1>1, <1>2, <1>3, <1>4, <2>1 DEF TypeOK, Talk
<1> QED
  BY <1>4, <1>7, <1>8, <1>9 DEF IInv

\* The review grug was to write down is not, for which a fault, or the end of the
\* process, is counted.
LEMMA Forgets ==
    ASSUME IInv, UNCHANGED <<reviewed, reviews>>, grug'.pc # "record",
           Reviewing', unwritten' = unwritten + 1
    PROVE  Grug1'
<1>1. ASSUME NEW pr \in Tasks PROVE Counted(pr)'
  <2> DEFINE k == IF behind(pr) THEN 1 ELSE 0
             j == IF behind(pr)' THEN 1 ELSE 0
             c == Cardinality(repeats(reviews[pr]))
  <2>1. k \in {0, 1} /\ j \in {0, 1} /\ writing(pr)' = 0
    BY DEF writing
  <2>2. /\ Len(reviews[pr]) \in Nat /\ Len(reviewed[pr]) \in Nat /\ c \in Nat
        /\ writing(pr) \in {0, 1} /\ unwritten \in Nat
    BY <1>1, CountFacts DEF IInv
  <2>3. /\ Len(reviewed[pr]) <= maxReviews
        /\ Len(reviews[pr]) <= Len(reviewed[pr]) + writing(pr) + unwritten
        /\ c + k <= unwritten
    BY <1>1 DEF IInv, Grug1, Counted
  <2> HIDE DEF j, k
  <2>4. Len(reviews[pr]) <= Len(reviewed[pr]) + unwritten'
    <3> DEFINE a == Len(reviews[pr])
               b == Len(reviewed[pr])
               w == writing(pr)
               u == unwritten
    <3>1. a \in Nat /\ b \in Nat /\ w \in {0, 1} /\ u \in Nat /\ a <= b + w + u
      BY <2>2, <2>3
    <3>2. unwritten' = u + 1
      OBVIOUS
    <3> HIDE DEF a, b, w, u
    <3>3. a <= b + (u + 1)
      BY <3>1
    <3> QED
      BY <3>2, <3>3 DEF a, b
  <2>5. c + j <= unwritten'
    BY <2>1, <2>2, <2>3
  <2>6. Len(reviewed[pr]) + writing(pr)' = Len(reviewed[pr])
    BY <2>1, <2>2
  <2> QED
    BY <2>3, <2>4, <2>5, <2>6 DEF Counted, j
<1> QED
  BY <1>1 DEF Grug1

\* grug at rest.
LEMMA GrugRests == GrugIdle \in GrugState /\ GrugIdle.pc = "idle"
  BY AgentsAssumption DEF GrugIdle, GrugState

\* The checkout of a review goes with it, or stays for a fault.
LEMMA ReviewEnds ==
    ASSUME IInv, Talk, closes, grug.pc = "review", grug'.pc # "review",
           UNCHANGED <<rooms, record, sess, kept, stored, cut, worktrees, started, dev, releases>>
    PROVE  /\ Dev1' /\ Paid' /\ unwritten' = unwritten
           /\ checkouts' \in Nat /\ faults' \in [Kinds -> 0..MaxFaults]
<1>1. review = 1 /\ review' = 0
  BY DEF review
<1>2. checkouts \in Nat /\ ended \in Nat /\ faults.half \in Nat /\ unwritten \in Nat
  BY Counts DEF IInv
<1>3. review <= checkouts /\ checkouts <= review + ended + faults.half
  BY DEF IInv, Paid
<1>4. CASE checkouts' = checkouts - 1 /\ UNCHANGED faults
  <2>1. /\ Dev1' /\ Cardinality(lost') <= total' + releases'
        /\ ended' = ended /\ unwritten' = unwritten
    BY <1>4, GrugRuns
  <2>2. /\ review' <= checkouts' /\ checkouts' <= review' + ended' + faults'.half
        /\ checkouts' \in Nat
    BY <1>1, <1>2, <1>3, <1>4, <2>1
  <2>3. faults' \in [Kinds -> 0..MaxFaults]
    BY <1>4 DEF IInv, TypeOK
  <2> QED
    BY <2>1, <2>2, <2>3 DEF Paid
<1>5. CASE UNCHANGED checkouts /\ fault("half")
  <2>1. /\ Dev1' /\ Cardinality(lost') <= total' + releases' /\ ended' = ended
        /\ unwritten' = unwritten + 0 /\ faults'.half = faults.half + 1
        /\ faults' \in [Kinds -> 0..MaxFaults]
    BY <1>5, GrugErrs
  <2>2. /\ review' <= checkouts' /\ checkouts' <= review' + ended' + faults'.half
        /\ checkouts' \in Nat
    BY <1>1, <1>2, <1>3, <1>5, <2>1
  <2>3. unwritten' = unwritten
    BY <1>2, <2>1
  <2> QED
    BY <2>1, <2>2, <2>3 DEF Paid
<1> QED
  BY <1>4, <1>5 DEF closes

\* A review that fails takes its checkout along, if it can be removed.
LEMMA ReviewFailsStep ==
    ASSUME IInv, reviewFails
    PROVE  IInv'
<1>1. TypeOK
  BY DEF IInv
<1>2. /\ grug.pc = "review" /\ grugSays({}) /\ closes /\ grug' = GrugIdle
      /\ UNCHANGED <<rooms, record, sess, kept, stored, dev, cut, deploying, releases,
                     reviewed, reviews, head, worktrees, started>>
  BY DEF reviewFails, devVars, gitVars
<1>3. Talk /\ asks' = asks
  BY <1>2, GrugSays
<1>4. grug' \in GrugState /\ grug'.pc = "idle"
  BY <1>2, GrugRests
<1>5. /\ Dev1' /\ Paid' /\ unwritten' = unwritten
      /\ checkouts' \in Nat /\ faults' \in [Kinds -> 0..MaxFaults]
  BY <1>2, <1>3, <1>4, ReviewEnds
<1>6. Reviewing'
  BY <1>4 DEF Reviewing
<1>7. Grug1'
  BY <1>2, <1>4, <1>5, <1>6, GrugGoesOn
<1>8. TypeOK'
  BY <1>1, <1>2, <1>3, <1>4, <1>5 DEF TypeOK, Talk
<1> QED
  BY <1>5, <1>7, <1>8 DEF IInv

\* One more at the end of a sequence repeats the one before or does not.
LEMMA AppendRepeats ==
    ASSUME NEW s \in Seq(1..MaxPushes), NEW x \in 1..MaxPushes
    PROVE  /\ Append(s, x) \in Seq(1..MaxPushes) /\ Len(Append(s, x)) = Len(s) + 1
           /\ endsAt(Append(s, x), x)
           /\ Cardinality(repeats(Append(s, x)))
                = Cardinality(repeats(s)) + (IF endsAt(s, x) THEN 1 ELSE 0)
<1> DEFINE a == Append(s, x)
<1>1. /\ a \in Seq(1..MaxPushes) /\ Len(a) = Len(s) + 1 /\ Len(s) \in Nat
      /\ DOMAIN s = 1..Len(s) /\ DOMAIN a = 1..(Len(s) + 1)
      /\ a[Len(s) + 1] = x /\ \A i \in 1..Len(s) : a[i] = s[i]
  OBVIOUS
<1>2. endsAt(a, x)
  <2>1. a # <<>>
    OBVIOUS
  <2> QED
    BY <1>1, <2>1 DEF endsAt
<1> HIDE DEF a
<1>3. IsFiniteSet(repeats(s)) /\ Cardinality(repeats(s)) \in Nat
  BY RepeatsFacts
<1>4. ASSUME NEW i \in 1..Len(s)
      PROVE  i \in repeats(a) <=> i \in repeats(s)
  <2>1. i > 1 => i - 1 \in 1..Len(s)
    BY <1>1, <1>4
  <2>2. i \in DOMAIN a
    BY <1>1, <1>4
  <2> QED
    BY <1>1, <1>4, <2>1, <2>2 DEF repeats
<1>5. Len(s) + 1 \in repeats(a) <=> endsAt(s, x)
  <2>1. CASE s = <<>>
    <3>1. Len(s) = 0
      BY <2>1
    <3>2. ~(Len(s) + 1 > 1)
      BY <3>1
    <3> QED
      BY <2>1, <3>2 DEF repeats, endsAt
  <2>2. CASE s # <<>>
    <3>1. Len(s) \in 1..Len(s)
      BY <1>1, <2>2
    <3>2. Len(s) + 1 > 1 /\ Len(s) + 1 - 1 = Len(s) /\ Len(s) + 1 \in DOMAIN a
      BY <1>1, <3>1
    <3>3. a[Len(s) + 1] = x /\ a[Len(s) + 1 - 1] = s[Len(s)]
      BY <1>1, <3>1, <3>2
    <3> QED
      BY <2>2, <3>2, <3>3 DEF repeats, endsAt
  <2> QED
    BY <2>1, <2>2
<1>6. \A i : i \in repeats(a) => i \in 1..Len(s) \/ i = Len(s) + 1
  <2>1. \A i \in 1..(Len(s) + 1) : i \in 1..Len(s) \/ i = Len(s) + 1
    BY <1>1
  <2> QED
    BY <1>1, <2>1 DEF repeats
<1>7. \A i : i \in repeats(s) => i \in 1..Len(s)
  BY <1>1 DEF repeats
<1>8. Len(s) + 1 \notin repeats(s)
  <2>1. Len(s) + 1 \notin 1..Len(s)
    BY <1>1
  <2> QED
    BY <1>7, <2>1
<1>9. CASE endsAt(s, x)
  <2>1. repeats(a) = repeats(s) \cup {Len(s) + 1}
    BY <1>4, <1>5, <1>6, <1>7, <1>9
  <2>2. Cardinality(repeats(s) \cup {Len(s) + 1}) = Cardinality(repeats(s)) + 1
    BY <1>3, <1>8, FS_AddElement
  <2> QED
    BY <1>1, <1>2, <1>9, <2>1, <2>2 DEF a
<1>10. CASE ~endsAt(s, x)
  <2>1. repeats(a) = repeats(s)
    BY <1>4, <1>5, <1>6, <1>7, <1>10
  <2> QED
    BY <1>1, <1>2, <1>3, <1>10, <2>1 DEF a
<1> QED
  BY <1>9, <1>10

\* grug goes on with the same mention and head.
LEMMA GrugGoes ==
    ASSUME TypeOK, NEW pc \in {"idle", "review", "record", "comment", "tell"}, grugGoes(pc)
    PROVE  grug' \in GrugState /\ grug'.pc = pc /\ grug'.m = grug.m /\ grug'.head = grug.head
<1>1. grug \in GrugState /\ grug' = [grug EXCEPT !.pc = pc]
  BY DEF TypeOK, grugGoes
<1> QED
  BY <1>1 DEF GrugState

\* What grug reviews.
LEMMA TheReview ==
    ASSUME IInv, grug.pc # "idle"
    PROVE  /\ grug.m \in Mentions /\ grug.m.pr \in Tasks /\ grug.head \in 1..MaxPushes
           /\ grug.head > 0
<1>1. grug.m \in Mentions /\ grug.m.pr \in Tasks /\ grug.head > 0
  BY DEF IInv, Grug1, Reviewing
<1>2. grug.head \in 0..MaxPushes
  BY States DEF IInv
<1> QED
  BY <1>1, <1>2, AgentsAssumption

\* The review is done, and about to be written down.  If it is at the head of the one
\* before, that one was not.
LEMMA ReviewDoneStep ==
    ASSUME IInv, reviewDone
    PROVE  IInv'
<1>1. TypeOK /\ Reviewing /\ \A q \in Tasks : Counted(q)
  BY DEF IInv, Grug1
<1> DEFINE pr == grug.m.pr
           hd == grug.head
<1>2. /\ grug.pc = "review" /\ closes /\ grugGoes("record")
      /\ reviews' = [reviews EXCEPT ![pr] = Append(@, hd)]
      /\ UNCHANGED <<room, inbox, asks, rooms, record, sess, kept, stored, dev, cut, deploying,
                     releases, reviewed, head, worktrees, started>>
  BY DEF reviewDone, chatVars, devVars, gitVars
<1>3. Talk
  BY <1>2, Silence
<1>4. grug' \in GrugState /\ grug'.pc = "record" /\ grug'.m = grug.m /\ grug'.head = hd
  BY <1>1, <1>2, GrugGoes
<1>5. pr \in Tasks /\ hd \in 1..MaxPushes /\ hd > 0 /\ grug.m \in Mentions
  BY <1>2, TheReview
<1>6. /\ Dev1' /\ Paid' /\ unwritten' = unwritten
      /\ checkouts' \in Nat /\ faults' \in [Kinds -> 0..MaxFaults]
  BY <1>2, <1>3, <1>4, ReviewEnds
<1>7. reviews[pr] \in Seq(1..MaxPushes) /\ reviews \in [Tasks -> Seq(1..MaxPushes)]
  BY <1>1, <1>5 DEF TypeOK
<1> DEFINE a == Append(reviews[pr], hd)
<1>8. /\ a \in Seq(1..MaxPushes) /\ Len(a) = Len(reviews[pr]) + 1 /\ endsAt(a, hd)
      /\ Cardinality(repeats(a))
           = Cardinality(repeats(reviews[pr])) + (IF endsAt(reviews[pr], hd) THEN 1 ELSE 0)
  BY <1>5, <1>7, AppendRepeats
<1>9. reviews' = [reviews EXCEPT ![pr] = a]
  BY <1>2
<1> HIDE DEF a
<1>10. /\ reviews' \in [Tasks -> Seq(1..MaxPushes)] /\ reviews'[pr] = a
       /\ \A q \in Tasks \ {pr} : reviews'[q] = reviews[q]
  BY <1>5, <1>7, <1>8, <1>9
<1>11. Len(reviewed[pr]) < maxReviews /\ ~endsAt(reviewed[pr], hd)
  BY <1>1, <1>2 DEF Reviewing
<1>12. Reviewing'
  BY <1>2, <1>4, <1>5, <1>8, <1>10, <1>11 DEF Reviewing
<1>13. ASSUME NEW q \in Tasks PROVE Counted(q)'
  <2>1. /\ writing(q) = 0 /\ writing(q)' = (IF q = pr THEN 1 ELSE 0)
        /\ Len(reviewed[q]) <= maxReviews
        /\ Len(reviews[q]) <= Len(reviewed[q]) + writing(q) + unwritten
        /\ Cardinality(repeats(reviews[q])) + (IF behind(q) THEN 1 ELSE 0) <= unwritten
    BY <1>1, <1>2, <1>4, <1>13 DEF writing, Counted
  <2>2. /\ Len(reviews[q]) \in Nat /\ Len(reviewed[q]) \in Nat /\ unwritten \in Nat
        /\ Cardinality(repeats(reviews[q])) \in Nat
    BY <1>1, <1>13, CountFacts
  <2>3. CASE q = pr
    <3>1. ~behind(q)' /\ writing(q)' = 1
      BY <2>1, <2>3 DEF behind
    <3>2. endsAt(reviews[q], hd) => behind(q)
      BY <1>11, <2>1, <2>3 DEF behind, endsAt
    <3>3. Cardinality(repeats(a)) <= unwritten
      <4>1. CASE endsAt(reviews[q], hd)
        BY <1>8, <2>1, <2>2, <2>3, <3>2, <4>1
      <4>2. CASE ~endsAt(reviews[q], hd)
        BY <1>8, <2>1, <2>2, <2>3, <4>2
      <4> QED
        BY <4>1, <4>2
    <3>4. Cardinality(repeats(a)) \in Nat
      BY <1>8, RepeatsFacts
    <3>5. Cardinality(repeats(a)) + 0 <= unwritten
      BY <3>3, <3>4
    <3>6. Len(a) <= Len(reviewed[q]) + 1 + unwritten
      BY <1>8, <2>1, <2>2, <2>3
    <3> QED
      BY <1>2, <1>6, <1>10, <2>1, <2>3, <3>1, <3>5, <3>6 DEF Counted
  <2>4. CASE q # pr
    <3>1. reviews'[q] = reviews[q] /\ writing(q)' = writing(q)
      BY <1>10, <2>1, <2>4
    <3>2. behind(q)' <=> behind(q)
      BY <1>2, <3>1 DEF behind
    <3> QED
      BY <1>2, <1>6, <2>1, <3>1, <3>2 DEF Counted
  <2> QED
    BY <2>3, <2>4
<1>14. TypeOK'
  BY <1>1, <1>2, <1>4, <1>6, <1>10 DEF TypeOK
<1> QED
  BY <1>6, <1>12, <1>13, <1>14 DEF IInv, Grug1

\* The head that was reviewed is written down, and the last review with it.
LEMMA WritesDown ==
    ASSUME IInv, grug.pc = "record", grug'.pc = "comment", grug'.m = grug.m, grug'.head = grug.head,
           reviewed' = [reviewed EXCEPT ![grug.m.pr] = Append(@, grug.head)],
           UNCHANGED reviews, unwritten' = unwritten
    PROVE  Grug1' /\ reviewed' \in [Tasks -> Seq(1..MaxPushes)]
<1>1. TypeOK /\ Reviewing /\ \A q \in Tasks : Counted(q)
  BY DEF IInv, Grug1
<1> DEFINE pr == grug.m.pr
           hd == grug.head
           a == Append(reviewed[pr], hd)
<1>2. grug.m \in Mentions /\ pr \in Tasks /\ hd \in 1..MaxPushes /\ hd > 0
  BY TheReview
<1>3. reviewed[pr] \in Seq(1..MaxPushes) /\ reviewed \in [Tasks -> Seq(1..MaxPushes)]
  BY <1>1, <1>2 DEF TypeOK
<1>4. a \in Seq(1..MaxPushes) /\ Len(a) = Len(reviewed[pr]) + 1 /\ endsAt(a, hd)
  BY <1>2, <1>3, AppendRepeats
<1>5. reviewed' = [reviewed EXCEPT ![pr] = a]
  OBVIOUS
<1> HIDE DEF a
<1>6. /\ reviewed'[pr] = a /\ \A q \in Tasks \ {pr} : reviewed'[q] = reviewed[q]
      /\ reviewed' \in [Tasks -> Seq(1..MaxPushes)]
  BY <1>2, <1>3, <1>4, <1>5
<1>7. Len(reviewed[pr]) < maxReviews /\ endsAt(reviews[pr], hd)
  BY <1>1 DEF Reviewing
<1>8. Reviewing'
  BY <1>2 DEF Reviewing
<1>9. ASSUME NEW q \in Tasks PROVE Counted(q)'
  <2>1. /\ writing(q)' = 0 /\ writing(q) = (IF q = pr THEN 1 ELSE 0)
        /\ Len(reviewed[q]) <= maxReviews
        /\ Len(reviews[q]) <= Len(reviewed[q]) + writing(q) + unwritten
        /\ Cardinality(repeats(reviews[q])) + (IF behind(q) THEN 1 ELSE 0) <= unwritten
    BY <1>1, <1>9 DEF writing, Counted
  <2>2. /\ Len(reviews[q]) \in Nat /\ Len(reviewed[q]) \in Nat /\ unwritten \in Nat
        /\ Cardinality(repeats(reviews[q])) \in Nat /\ maxReviews \in Nat
    BY <1>1, <1>9, CountFacts
  <2>3. CASE q = pr
    <3>1. ~behind(q)'
      BY <1>4, <1>6, <1>7, <2>3 DEF behind, endsAt
    <3>2. Cardinality(repeats(reviews[q])) + 0 <= unwritten
      BY <2>1, <2>2
    <3>3. Len(a) <= maxReviews /\ Len(reviews[q]) <= Len(a) + 0 + unwritten
      BY <1>4, <1>7, <2>1, <2>2, <2>3
    <3> QED
      BY <1>6, <2>1, <2>3, <3>1, <3>2, <3>3 DEF Counted
  <2>4. CASE q # pr
    <3>1. reviewed'[q] = reviewed[q] /\ writing(q)' = writing(q)
      BY <1>6, <2>1, <2>4
    <3>2. behind(q)' <=> behind(q)
      BY <3>1 DEF behind
    <3> QED
      BY <2>1, <3>1, <3>2 DEF Counted
  <2> QED
    BY <2>3, <2>4
<1> QED
  BY <1>6, <1>8, <1>9 DEF Grug1

\* The review is written down, or for a fault is not.
LEMMA RecordReviewStep ==
    ASSUME IInv, recordReview
    PROVE  IInv'
<1>1. TypeOK /\ Reviewing
  BY DEF IInv, Grug1
<1>2. /\ grug.pc = "record" /\ grugGoes("comment")
      /\ \/ reviewed' = [reviewed EXCEPT ![grug.m.pr] = Append(@, grug.head)] /\ UNCHANGED faults
         \/ UNCHANGED reviewed /\ fault("write")
      /\ UNCHANGED <<room, inbox, asks, rooms, record, sess, kept, stored, dev, cut, deploying,
                     releases, checkouts, reviews, head, worktrees, started>>
  BY DEF recordReview, chatVars, devVars, gitVars
<1>3. Talk
  BY <1>2, Silence
<1>4. grug' \in GrugState /\ grug'.pc = "comment" /\ grug'.m = grug.m /\ grug'.head = grug.head
  BY <1>1, <1>2, GrugGoes
<1>5. review' = 0 /\ review = 0
  BY <1>2, <1>4 DEF review
<1>6. review <= checkouts /\ checkouts <= review + ended + faults.half
  BY DEF IInv, Paid
<1>7. CASE reviewed' = [reviewed EXCEPT ![grug.m.pr] = Append(@, grug.head)] /\ UNCHANGED faults
  <2>1. /\ Dev1' /\ Cardinality(lost') <= total' + releases'
        /\ ended' = ended /\ unwritten' = unwritten
    BY <1>2, <1>3, <1>7, GrugRuns
  <2>2. Grug1' /\ reviewed' \in [Tasks -> Seq(1..MaxPushes)]
    BY <1>2, <1>4, <1>7, <2>1, WritesDown
  <2>3. Paid'
    BY <1>2, <1>5, <1>6, <1>7, <2>1 DEF Paid
  <2>4. TypeOK'
    BY <1>1, <1>2, <1>4, <1>7, <2>2 DEF TypeOK
  <2> QED
    BY <2>1, <2>2, <2>3, <2>4 DEF IInv
<1>8. CASE UNCHANGED reviewed /\ fault("write")
  <2>1. /\ Dev1' /\ Cardinality(lost') <= total' + releases' /\ ended' = ended
        /\ unwritten' = unwritten + 1 /\ faults'.half = faults.half + 0
        /\ faults' \in [Kinds -> 0..MaxFaults]
    BY <1>2, <1>3, <1>8, GrugErrs
  <2>2. Reviewing'
    BY <1>1, <1>2, <1>4 DEF Reviewing
  <2>3. Grug1'
    BY <1>2, <1>4, <1>8, <2>1, <2>2, Forgets
  <2>4. Paid'
    <3>1. faults.half \in Nat
      BY <1>1, Counts
    <3>2. faults'.half = faults.half
      BY <2>1, <3>1
    <3> QED
      BY <1>2, <1>5, <1>6, <2>1, <3>2 DEF Paid
  <2>5. TypeOK'
    BY <1>1, <1>2, <1>4, <1>8, <2>1 DEF TypeOK
  <2> QED
    BY <2>1, <2>3, <2>4, <2>5 DEF IInv
<1> QED
  BY <1>2, <1>7, <1>8

\* The PR could not be commented on, and the room is told.
LEMMA CommentFailsStep ==
    ASSUME IInv, commentFails
    PROVE  IInv'
<1>1. TypeOK /\ Reviewing
  BY DEF IInv, Grug1
<1>2. /\ grug.pc = "comment" /\ grugSays({}) /\ grugGoes("tell")
      /\ UNCHANGED <<rooms, record, sess, kept, stored, dev, cut, deploying, releases,
                     reviewed, checkouts, reviews, head, worktrees, started, faults>>
  BY DEF commentFails, devVars, gitVars
<1>3. Talk /\ asks' = asks
  BY <1>2, GrugSays
<1>4. grug' \in GrugState /\ grug'.pc = "tell" /\ grug'.m = grug.m /\ grug'.head = grug.head
  BY <1>1, <1>2, GrugGoes
<1>5. /\ Dev1' /\ Cardinality(lost') <= total' + releases'
      /\ ended' = ended /\ unwritten' = unwritten
  BY <1>2, <1>3, GrugRuns
<1>6. Reviewing'
  BY <1>1, <1>2, <1>4 DEF Reviewing
<1>7. Grug1'
  BY <1>2, <1>4, <1>5, <1>6, GrugGoesOn
<1>8. review' = review
  BY <1>2, <1>4 DEF review
<1>9. Paid'
  BY <1>2, <1>5, <1>8 DEF IInv, Paid
<1>10. TypeOK'
  BY <1>1, <1>2, <1>3, <1>4 DEF TypeOK, Talk
<1> QED
  BY <1>5, <1>7, <1>9, <1>10 DEF IInv

\* The review goes to the room.
LEMMA TellReviewStep ==
    ASSUME IInv, tellReview
    PROVE  IInv'
<1>1. TypeOK
  BY DEF IInv
<1>2. /\ grug.pc \in {"comment", "tell"} /\ grugSays({grug.m.by} \cap Agents) /\ grug' = GrugIdle
      /\ UNCHANGED <<rooms, record, sess, kept, stored, dev, cut, deploying, releases,
                     reviewed, checkouts, reviews, head, worktrees, started, faults>>
  BY DEF tellReview, devVars, gitVars
<1>3. Talk /\ asks' = asks
  <2>1. grug.pc # "idle"
    BY <1>2
  <2> QED
    BY <1>2, <2>1, GrugSays
<1>4. grug' \in GrugState /\ grug'.pc = "idle"
  BY <1>2, GrugRests
<1>5. /\ Dev1' /\ Cardinality(lost') <= total' + releases'
      /\ ended' = ended /\ unwritten' = unwritten
  BY <1>2, <1>3, GrugRuns
<1>6. Reviewing'
  BY <1>4 DEF Reviewing
<1>7. Grug1'
  <2>1. grug.pc # "record" /\ grug'.pc # "record"
    BY <1>2, <1>4
  <2> QED
    BY <1>2, <1>5, <1>6, <2>1, GrugGoesOn
<1>8. review' = review
  BY <1>2, <1>4 DEF review
<1>9. Paid'
  BY <1>2, <1>5, <1>8 DEF IInv, Paid
<1>10. TypeOK'
  BY <1>1, <1>2, <1>3, <1>4 DEF TypeOK, Talk
<1> QED
  BY <1>5, <1>7, <1>9, <1>10 DEF IInv

-----------------------------------------------------------------------------
(* The humans and the process *)

\* A human posts.
LEMMA AskStep ==
    ASSUME IInv, ask
    PROVE  IInv'
<1>1. TypeOK
  BY DEF IInv
<1>2. PICK r \in Rooms, at \in {{}, {"dev"}, {"grug"}}, pr \in 0..started :
          post(r, "human", at, pr, inbox)
  BY DEF ask
<1>3. /\ asks < MaxAsks /\ asks' = asks + 1
      /\ UNCHANGED <<rooms, record, sess, kept, stored, dev, cut, deploying, releases,
                     grug, reviewed, checkouts, reviews, head, worktrees, started, faults>>
  BY DEF ask, devVars, grugVars, gitVars
<1>4. Talk
  <2>1. Hears(inbox)
    BY DEF IInv, TypeOK, Dev1, Heard, Hears
  <2>2. started \in 0..MaxTasks /\ MaxTasks \in Nat
    BY <1>1, AgentsAssumption DEF TypeOK
  <2>3. pr \in 0..MaxTasks
    BY <2>2
  <2> QED
    BY <1>1, <1>2, <2>1, <2>3, PostFacts
<1>5. /\ Dev1' /\ Cardinality(lost') <= total' + releases'
      /\ ended' = ended /\ unwritten' = unwritten
  BY <1>3, <1>4, GrugRuns
<1>6. unwritten \in Nat
  BY <1>1, Counts
<1>7. Grug1'
  BY <1>1, <1>3, <1>5, <1>6, GrugStays
<1>8. review' = review
  BY <1>3 DEF review
<1>9. Paid'
  BY <1>3, <1>5, <1>8 DEF IInv, Paid
<1>10. TypeOK'
  <2>1. asks' \in 0..MaxAsks
    BY <1>1, <1>3, AgentsAssumption DEF TypeOK
  <2> QED
    BY <1>1, <1>3, <1>4, <2>1 DEF TypeOK, Talk
<1> QED
  BY <1>5, <1>7, <1>9, <1>10 DEF IInv

\* The branch of a PR is pushed to, or forced back.
LEMMA PushedStep ==
    ASSUME IInv, pushed
    PROVE  IInv'
<1>1. TypeOK
  BY DEF IInv
<1>2. /\ \E t \in Tasks : \E n \in 1..MaxPushes : head' = [head EXCEPT ![t] = n]
      /\ UNCHANGED <<room, inbox, asks, rooms, record, sess, kept, stored, dev, cut, deploying,
                     releases, grug, reviewed, checkouts, reviews, worktrees, started, faults>>
  BY DEF pushed, chatVars, devVars, grugVars
<1>3. Talk
  BY <1>2, Silence
<1>4. /\ Dev1' /\ Cardinality(lost') <= total' + releases'
      /\ ended' = ended /\ unwritten' = unwritten
  BY <1>2, <1>3, GrugRuns
<1>5. unwritten \in Nat
  BY <1>1, Counts
<1>6. Grug1'
  BY <1>2, <1>4, <1>5, GrugStays
<1>7. Paid'
  <2>1. review' = review
    BY <1>2 DEF review
  <2> QED
    BY <1>2, <1>4, <2>1 DEF IInv, Paid
<1>8. head' \in [Tasks -> 0..MaxPushes]
  BY <1>1, <1>2, AgentsAssumption DEF TypeOK
<1>9. TypeOK'
  BY <1>1, <1>2, <1>8 DEF TypeOK
<1> QED
  BY <1>4, <1>6, <1>7, <1>9 DEF IInv

\* Each end of the process is counted, as a crash or as a release.
LEMMA Ends ==
    ASSUME TypeOK, \/ releases' = releases + 1 /\ UNCHANGED faults
                   \/ fault("crash") /\ UNCHANGED releases
    PROVE  /\ total' + releases' = total + releases + 1
           /\ ended' = ended + 1 /\ unwritten' = unwritten + 1
           /\ faults'.half = faults.half /\ faults' \in [Kinds -> 0..MaxFaults]
           /\ releases' \in Nat
<1>1. /\ faults.read \in Nat /\ faults.write \in Nat /\ faults.crash \in Nat /\ faults.half \in Nat
      /\ total \in Nat /\ releases \in Nat
  BY Counts
<1>2. CASE releases' = releases + 1 /\ UNCHANGED faults
  <2>1. total' = total /\ faults' \in [Kinds -> 0..MaxFaults]
    BY <1>2 DEF total, TypeOK
  <2> QED
    BY <1>1, <1>2, <2>1 DEF ended, unwritten
<1>3. CASE fault("crash") /\ UNCHANGED releases
  <2>1. "crash" \in Kinds /\ "write" \in Kinds /\ "half" \in Kinds
    BY DEF Kinds
  <2>2. /\ faults' \in [Kinds -> 0..MaxFaults] /\ faults'["crash"] = faults["crash"] + 1
        /\ \A j \in Kinds \ {"crash"} : faults'[j] = faults[j]
        /\ total' = total + 1
    BY <1>3, <2>1, FaultFacts
  <2>3. faults'.crash = faults.crash + 1 /\ faults'.write = faults.write
        /\ faults'.half = faults.half
    BY <2>1, <2>2
  <2> QED
    BY <1>1, <1>3, <2>2, <2>3 DEF ended, unwritten
<1> QED
  BY <1>2, <1>3

\* What dev had read and not saved is what the restart cut off: what its database says
\* it has read is in the stored session but for that.
LEMMA ComesBack ==
    ASSUME IInv, restart
    PROVE  /\ Dev1' /\ room' \in [Rooms -> Nat] /\ cut' \in [Rooms -> SUBSET Nat]
           /\ rooms' \in [Rooms -> RoomTask] /\ sess' \in [Tasks -> SUBSET Nat]
           /\ inbox' \in [Agents -> Seq(Mentions)]
<1>1. TypeOK /\ Heard /\ Started /\ \A r \in Rooms : Known(r) /\ Read(r)
  BY DEF IInv, Dev1
<1>2. /\ cut' = [r \in Rooms |-> LET t == rooms[r].task
                                 IN IF t = 0 THEN cut[r] ELSE cut[r] \cup (sess[t] \ kept[t])]
      /\ rooms' = [r \in Rooms |-> NoTask] /\ sess' = [t \in Tasks |-> {}]
      /\ inbox' = [a \in Agents |-> <<>>] /\ dev' = Idle
      /\ room' = [r \in Rooms |-> IF r \in deploying THEN room[r] + 1 ELSE room[r]]
      /\ UNCHANGED <<record, kept, stored, worktrees, started>>
  BY DEF restart, gitVars
<1>3. NoTask \in RoomTask /\ NoTask.task = 0 /\ NoTask.seen = 0
  BY AgentsAssumption DEF NoTask, RoomTask
<1>4. room' \in [Rooms -> Nat] /\ \A r \in Rooms : room[r] \in Nat /\ room'[r] >= room[r]
  BY <1>1, <1>2 DEF TypeOK
<1>5. \A r \in Rooms : rooms[r].task \in Tasks \cup {0} /\ record[r].task \in Tasks \cup {0}
  BY <1>1, Fields, AgentsAssumption DEF Tasks
<1>6. \A r \in Rooms : cut'[r] = IF rooms[r].task = 0 THEN cut[r]
                                 ELSE cut[r] \cup (sess[rooms[r].task] \ kept[rooms[r].task])
  BY <1>2
<1>7. cut' \in [Rooms -> SUBSET Nat]
  <2>1. ASSUME NEW r \in Rooms PROVE cut'[r] \subseteq Nat
    BY <1>1, <1>5, <1>6, <2>1 DEF TypeOK
  <2> QED
    BY <1>2, <2>1
<1>8. rooms' \in [Rooms -> RoomTask] /\ \A r \in Rooms : rooms'[r] = NoTask
  BY <1>2, <1>3
<1>9. sess' \in [Tasks -> SUBSET Nat]
  BY <1>2
<1>10. inbox' \in [Agents -> Seq(Mentions)] /\ inbox'["dev"] = <<>>
  BY <1>2 DEF Agents
<1>11. dev'.pc = "idle"
  BY <1>2, Rests DEF devRests
<1>12. Heard' /\ Saved'
  BY <1>10, <1>11 DEF Heard, Saved
<1>13. Started'
  <2>1. worktrees' \subseteq 1..started' /\ stored' \subseteq worktrees'
    BY <1>1, <1>2 DEF Started
  <2>2. 0 \notin Tasks
    BY DEF Tasks
  <2>3. ASSUME NEW r \in Rooms, NEW q \in Rooms, NEW t \in Tasks,
               t \in {rooms'[r].task, record'[r].task} \cap {rooms'[q].task, record'[q].task}
        PROVE  r = q
    <3>1. t = record[r].task /\ t = record[q].task
      BY <1>2, <1>3, <1>8, <2>2, <2>3
    <3> QED
      BY <1>1, <2>3, <3>1 DEF Started
  <2> QED
    BY <2>1, <2>3 DEF Started
<1>14. ASSUME NEW r \in Rooms PROVE Known(r)' /\ Read(r)' /\ Replaced(r)'
  <2>1. Known(r) /\ Read(r) /\ rooms'[r] = NoTask
    BY <1>1, <1>8, <1>14
  <2>2. rooms[r].seen \in Nat /\ record[r].seen \in Nat /\ room[r] \in Nat
        /\ room'[r] \in Nat /\ room'[r] >= room[r]
    BY <1>1, <1>4, <1>14, Fields
  <2>3. Known(r)'
    BY <1>2, <1>3, <2>1, <2>2 DEF Known
  <2>4. Read(r)'
    <3>1. ASSUME record[r].task # 0
          PROVE  1..record[r].seen \subseteq kept[record[r].task] \cup cut'[r]
      <4>1. CASE rooms[r].task = record[r].task
        <5>1. 1..rooms[r].seen \subseteq sess[rooms[r].task] \cup cut[r]
          BY <2>1, <3>1, <4>1 DEF Read
        <5>2. record[r].seen <= rooms[r].seen
          BY <2>1, <3>1, <4>1 DEF Read
        <5>3. 1..record[r].seen \subseteq 1..rooms[r].seen
          BY <2>2, <5>2
        <5>4. cut'[r] = cut[r] \cup (sess[rooms[r].task] \ kept[rooms[r].task])
          BY <1>6, <1>14, <3>1, <4>1
        <5> QED
          BY <4>1, <5>1, <5>3, <5>4
      <4>2. CASE rooms[r].task # record[r].task
        <5>1. 1..record[r].seen \subseteq kept[record[r].task] \cup cut[r]
          BY <2>1, <3>1, <4>2 DEF Read
        <5>2. cut[r] \subseteq cut'[r]
          BY <1>6, <1>14
        <5> QED
          BY <5>1, <5>2
      <4> QED
        BY <4>1, <4>2
    <3> QED
      BY <1>2, <1>3, <2>1, <3>1 DEF Read
  <2>5. Replaced(r)'
    BY <1>3, <1>11, <2>1 DEF Replaced
  <2> QED
    BY <2>3, <2>4, <2>5
<1> QED
  BY <1>4, <1>7, <1>8, <1>9, <1>10, <1>12, <1>13, <1>14 DEF Dev1

\* The task of the turn that ends with the process is all a restart can lose.
LEMMA RestartStep ==
    ASSUME IInv, restart
    PROVE  IInv'
<1>1. TypeOK
  BY DEF IInv
<1>2. /\ \/ releases' = releases + 1 /\ UNCHANGED faults
         \/ fault("crash") /\ UNCHANGED releases
      /\ rooms' = [r \in Rooms |-> NoTask] /\ dev' = Idle /\ grug' = GrugIdle /\ deploying' = {}
      /\ UNCHANGED <<asks, record, kept, stored, reviewed, checkouts, reviews, head, worktrees,
                     started>>
  BY DEF restart, gitVars
<1>3. /\ Dev1' /\ room' \in [Rooms -> Nat] /\ cut' \in [Rooms -> SUBSET Nat]
      /\ rooms' \in [Rooms -> RoomTask] /\ sess' \in [Tasks -> SUBSET Nat]
      /\ inbox' \in [Agents -> Seq(Mentions)]
  BY ComesBack
<1>4. /\ total' + releases' = total + releases + 1
      /\ ended' = ended + 1 /\ unwritten' = unwritten + 1
      /\ faults'.half = faults.half /\ faults' \in [Kinds -> 0..MaxFaults]
      /\ releases' \in Nat
  BY <1>1, <1>2, Ends
<1>5. /\ grug' \in GrugState /\ grug'.pc = "idle" /\ dev' \in DevState /\ dev'.pc = "idle"
  BY <1>2, GrugRests, Rests DEF devRests
<1>6. Cardinality(lost') <= total' + releases'
  <2> DEFINE x == rooms[dev.m.room].task
  <2>1. ASSUME NEW t \in worktrees, Safe(t), t # x PROVE Safe(t)'
    <3>1. PICK r \in Rooms : record[r].task = t /\ t \in stored
      BY <2>1 DEF Safe
    <3>2. rooms'[r].task = 0
      BY <1>2, <3>1 DEF NoTask
    <3>3. record'[r].task = t /\ t \in stored' /\ ~(dev'.pc = "new" /\ dev'.m.room = r)
      BY <1>2, <1>5, <3>1
    <3> QED
      BY <3>1, <3>2, <3>3 DEF Safe
  <2>2. lost' \subseteq lost \cup {x}
    BY <1>2, <2>1 DEF lost
  <2> QED
    BY <1>4, <2>2, LosesOne
<1>7. Grug1'
  <2>1. Reviewing'
    BY <1>5 DEF Reviewing
  <2>2. grug'.pc # "record"
    BY <1>5
  <2> QED
    BY <1>2, <1>4, <2>1, <2>2, Forgets
<1>8. Paid'
  <2>1. review \in {0, 1} /\ review' = 0
    BY <1>5 DEF review
  <2>2. checkouts \in Nat /\ ended \in Nat /\ faults.half \in Nat
    BY <1>1, Counts
  <2>3. review <= checkouts /\ checkouts <= review + ended + faults.half
    BY DEF IInv, Paid
  <2>4. review' <= checkouts' /\ checkouts' <= review' + ended' + faults'.half
    BY <1>2, <1>4, <2>1, <2>2, <2>3
  <2> QED
    BY <1>6, <2>4 DEF Paid
<1>9. TypeOK'
  BY <1>1, <1>2, <1>3, <1>4, <1>5 DEF TypeOK
<1> QED
  BY <1>3, <1>7, <1>8, <1>9 DEF IInv

\* Nothing happens.
LEMMA QuietStep ==
    ASSUME IInv, UNCHANGED vars
    PROVE  IInv'
<1>1. TypeOK /\ Paid
  BY DEF IInv
<1>2. UNCHANGED <<room, inbox, asks, rooms, record, sess, kept, stored, dev, cut, deploying,
                  releases, grug, reviewed, checkouts, reviews, head, worktrees, started, faults>>
  BY DEF vars, chatVars, devVars, grugVars, gitVars
<1>3. Talk
  BY <1>2, Silence
<1>4. /\ Dev1' /\ Cardinality(lost') <= total' + releases'
      /\ ended' = ended /\ unwritten' = unwritten
  BY <1>2, <1>3, GrugRuns
<1>5. unwritten \in Nat
  BY <1>1, Counts
<1>6. Grug1'
  BY <1>1, <1>2, <1>4, <1>5, GrugStays
<1>7. review' = review
  BY <1>2 DEF review
<1>8. Paid'
  BY <1>1, <1>2, <1>4, <1>7 DEF Paid
<1>9. TypeOK'
  BY <1>1, <1>2 DEF TypeOK
<1> QED
  BY <1>4, <1>6, <1>8, <1>9 DEF IInv

-----------------------------------------------------------------------------
(* The theorems *)

\* At first there are no messages, no tasks and no reviews.
LEMMA StartStep ==
    ASSUME Init
    PROVE  IInv
<1>1. /\ room = [r \in Rooms |-> 0] /\ inbox = [a \in Agents |-> <<>>] /\ asks = 0
      /\ rooms = [r \in Rooms |-> NoTask] /\ record = [r \in Rooms |-> NoTask]
      /\ sess = [t \in Tasks |-> {}] /\ kept = [t \in Tasks |-> {}] /\ stored = {}
      /\ dev = Idle /\ grug = GrugIdle /\ deploying = {}
      /\ head = [t \in Tasks |-> 0] /\ worktrees = {} /\ started = 0
      /\ reviewed = [t \in Tasks |-> <<>>] /\ checkouts = 0
      /\ cut = [r \in Rooms |-> {}] /\ releases = 0
      /\ faults = [k \in Kinds |-> 0]
      /\ reviews = [t \in Tasks |-> <<>>]
  BY DEF Init
<1>2. NoTask \in RoomTask /\ NoTask.task = 0 /\ NoTask.seen = 0
  BY AgentsAssumption DEF NoTask, RoomTask
<1>3. Idle \in DevState /\ Idle.pc = "idle"
  BY AgentsAssumption DEF Idle, DevState
<1>4. faults \in [Kinds -> 0..MaxFaults]
  BY <1>1, AgentsAssumption
<1>5. /\ head \in [Tasks -> 0..MaxPushes] /\ started \in 0..MaxTasks /\ asks \in 0..MaxAsks
  BY <1>1, AgentsAssumption
<1>6. TypeOK
  BY <1>1, <1>2, <1>3, <1>4, <1>5, GrugRests DEF TypeOK
<1>7. \A r \in Rooms : rooms[r] = NoTask /\ record[r] = NoTask /\ room[r] = 0
  BY <1>1
<1>8. Heard /\ Saved
  <2>1. inbox["dev"] = <<>>
    BY <1>1 DEF Agents
  <2> QED
    BY <1>1, <1>3, <2>1 DEF Heard, Saved
<1>9. Started
  <2>1. 0 \notin Tasks
    BY DEF Tasks
  <2> QED
    BY <1>1, <1>2, <1>7, <2>1 DEF Started
<1>10. ASSUME NEW r \in Rooms PROVE Known(r) /\ Read(r) /\ Replaced(r)
  BY <1>1, <1>2, <1>7, <1>10 DEF Known, Read, Replaced
<1>11. Reviewing
  BY <1>1, GrugRests DEF Reviewing
<1>12. /\ faults.crash = 0 /\ faults.read = 0 /\ faults.write = 0 /\ faults.half = 0
  BY <1>1 DEF Kinds
<1>13. ended = 0 /\ total = 0 /\ unwritten = 0 /\ review = 0
  BY <1>1, <1>12, GrugRests DEF ended, total, unwritten, review
<1>14. ASSUME NEW pr \in Tasks PROVE Counted(pr)
  <2>1. reviewed[pr] = <<>> /\ reviews[pr] = <<>>
    BY <1>1, <1>14
  <2>2. repeats(reviews[pr]) = {}
    BY <2>1 DEF repeats
  <2>3. Cardinality(repeats(reviews[pr])) = 0 /\ Len(reviews[pr]) = 0 /\ Len(reviewed[pr]) = 0
    BY <2>1, <2>2, FS_EmptySet
  <2>4. writing(pr) = 0 /\ ~behind(pr) /\ maxReviews \in Nat
    BY <1>1, <2>1, GrugRests, AgentsAssumption DEF writing, behind
  <2> QED
    BY <1>13, <2>3, <2>4 DEF Counted
<1>15. Paid
  <2>1. lost = {}
    BY <1>1 DEF lost
  <2>2. Cardinality(lost) = 0
    BY <2>1, FS_EmptySet
  <2> QED
    BY <1>1, <1>12, <1>13, <2>2 DEF Paid
<1> QED
  BY <1>6, <1>8, <1>9, <1>10, <1>11, <1>14, <1>15 DEF IInv, Dev1, Grug1

\* Every step of the agents, of the humans and of the process keeps the invariant.
LEMMA Inductive ==
    ASSUME IInv, [Next]_vars
    PROVE  IInv'
<1>1. CASE Dev
  BY <1>1, DevTakesStep, ResumeStep, ResumeFailsStep, NewFailsStep, StartStopsStep, NewTaskStep,
     DevReadsStep, ReadFailsStep, DevAnswersStep, DevStopsStep, OpenPRStep, AsksGrugStep,
     DeployStep, DevRepliesStep
     DEF Dev
<1>2. CASE Grug
  BY <1>2, GrugDeclinesStep, CheckoutStep, CheckoutStopsStep, ReviewFailsStep, ReviewDoneStep,
     RecordReviewStep, CommentFailsStep, TellReviewStep
     DEF Grug
<1>3. CASE ask
  BY <1>3, AskStep
<1>4. CASE pushed
  BY <1>4, PushedStep
<1>5. CASE restart
  BY <1>5, RestartStep
<1>6. CASE UNCHANGED vars
  BY <1>6, QuietStep
<1> QED
  BY <1>1, <1>2, <1>3, <1>4, <1>5, <1>6 DEF Next

\* The rooms, the tasks and sessions of dev and the reviews of grug are in step in
\* every state of the two agents, whatever the humans ask and whatever fails.
THEOREM Invariance == Spec => []IInv
<1>1. Init => IInv
  BY StartStep
<1>2. IInv /\ [Next]_vars => IInv'
  BY Inductive
<1> QED
  BY <1>1, <1>2, PTL DEF Spec

\* The state of the two agents, of their databases and of git stays well formed.
THEOREM AgentsTypes == Spec => []TypeOK
<1>1. IInv => TypeOK
  BY DEF IInv
<1> QED
  BY <1>1, Invariance, PTL

\* What others wrote in a room up to where dev has read is in the session dev works
\* with, over every restart, but for what a restart took from a turn before the
\* session was saved.
THEOREM NothingIsForgotten == Spec => []NothingReadIsForgotten
<1>1. ASSUME IInv PROVE NothingReadIsForgotten
  BY <1>1 DEF IInv, Dev1, Known, Read, NothingReadIsForgotten
<1> QED
  BY <1>1, Invariance, PTL

\* However often the process ends and commands fail half-way, each costs one worktree
\* at most that no room's task, nor a review, is known to own.
THEOREM WorktreesHaveOwners == Spec => []WorktreesAreOwned
<1>1. ASSUME IInv PROVE WorktreesAreOwned
  <2>1. TypeOK /\ Paid /\ Heard
    BY <1>1 DEF IInv, Dev1
  <2>2. dev.pc # "idle" => dev.m.room \in Rooms
    BY <2>1, MentionFacts DEF Heard
  <2>3. ASSUME NEW t, Safe(t) PROVE t \in owned
    BY <2>2, <2>3 DEF Safe, owned
  <2>4. (worktrees \ owned) \in SUBSET lost
    BY <2>3 DEF lost
  <2>5. IsFiniteSet(lost) /\ Cardinality(lost) \in Nat
    BY <2>1, LostIsFinite
  <2>6. /\ IsFiniteSet(worktrees \ owned)
        /\ Cardinality(worktrees \ owned) <= Cardinality(lost)
    BY <2>4, <2>5, FS_Subset
  <2>7. Cardinality(worktrees \ owned) \in Nat
    BY <2>6, FS_CardinalityType
  <2>8. total \in Nat /\ releases \in Nat
    BY <2>1, Counts
  <2>9. Cardinality(worktrees \ owned) <= total + releases
    BY <2>1, <2>5, <2>6, <2>7, <2>8 DEF Paid
  <2> QED
    BY <2>1, <2>9 DEF Paid, WorktreesAreOwned
<1> QED
  BY <1>1, Invariance, PTL

\* grug reviews a PR maxReviews times, and never twice in a row at one head, but for one
\* review more for each end of the process and each failed write, however the branch is
\* pushed to or forced back and whoever asks again.
THEOREM ReviewsEnd == Spec => []ReviewsAreBounded
<1>1. ASSUME IInv PROVE ReviewsAreBounded
  <2>1. TypeOK /\ Reviewing /\ \A pr \in Tasks : Counted(pr)
    BY <1>1 DEF IInv, Grug1
  <2>2. ASSUME NEW pr \in Tasks
        PROVE  /\ Cardinality(repeats(reviews[pr])) <= unwritten
               /\ Len(reviews[pr]) <= maxReviews + unwritten
    <3>1. /\ Len(reviews[pr]) \in Nat /\ Len(reviewed[pr]) \in Nat /\ writing(pr) \in {0, 1}
          /\ unwritten \in Nat /\ Cardinality(repeats(reviews[pr])) \in Nat /\ maxReviews \in Nat
      BY <2>1, <2>2, CountFacts
    <3> DEFINE k == IF behind(pr) THEN 1 ELSE 0
    <3>2. /\ Len(reviewed[pr]) <= maxReviews /\ k \in {0, 1}
          /\ Len(reviews[pr]) <= Len(reviewed[pr]) + writing(pr) + unwritten
          /\ Cardinality(repeats(reviews[pr])) + k <= unwritten
      BY <2>1, <2>2 DEF Counted
    <3> HIDE DEF k
    <3>3. writing(pr) = 1 => Len(reviewed[pr]) < maxReviews
      BY <2>1 DEF writing, Reviewing
    <3> QED
      BY <3>1, <3>2, <3>3
  <2> QED
    BY <2>2 DEF ReviewsAreBounded, unwritten
<1> QED
  BY <1>1, Invariance, PTL

\* Only reading a room writes its task down.
LEMMA OnlyReadingWrites ==
    ASSUME [Next]_vars
    PROVE  devReads \/ record' = record
<1>1. CASE Dev
  BY <1>1 DEF Dev, devTakes, resume, resumeFails, newFails, startStops, newTask, readFails,
              devAnswers, devStops, OpenPR, asksGrug, deploy, devReplies
<1>2. CASE Grug
  BY <1>2 DEF Grug, grugDeclines, Checkout, checkoutStops, reviewFails, reviewDone, recordReview,
              commentFails, tellReview, devVars
<1>3. CASE ask \/ pushed \/ restart \/ UNCHANGED vars
  BY <1>3 DEF ask, pushed, restart, vars, devVars
<1> QED
  BY <1>1, <1>2, <1>3 DEF Next

\* A room whose task has a stored session keeps that task, over every restart, unless
\* the database could not be read.
THEOREM TasksAreKept == Spec => RoomsKeepTheirTask
<1>1. ASSUME IInv, [Next]_vars
      PROVE  \A r \in Rooms : /\ record[r].task \in stored
                              /\ record'[r].task # record[r].task
                              => faults.read > 0
  <2>1. CASE devReads
    <3> SUFFICES ASSUME NEW r \in Rooms, record[r].task \in stored,
                        record'[r].task # record[r].task
                 PROVE  faults.read > 0
      OBVIOUS
    <3> DEFINE q == dev.m.room
    <3>1. TypeOK /\ Heard /\ Replaced(r)
      BY <1>1 DEF IInv, Dev1
    <3>2. /\ dev.pc = "read"
          /\ \/ record' = [record EXCEPT ![q] = [task |-> rooms[q].task, seen |-> room[q]]]
             \/ record' = record
      BY <2>1 DEF devReads
    <3>3. r = q /\ record'[r].task = rooms[r].task
      BY <3>1, <3>2 DEF TypeOK
    <3>4. rooms[r].task # 0
      BY <3>1, <3>2, <3>3 DEF Heard
    <3> QED
      BY <3>1, <3>3, <3>4 DEF Replaced
  <2>2. CASE record' = record
    BY <2>2
  <2> QED
    BY <1>1, <2>1, <2>2, OnlyReadingWrites
<1>2. IInv /\ [Next]_vars => [\A r \in Rooms : /\ record[r].task \in stored
                                               /\ record'[r].task # record[r].task
                                               => faults.read > 0]_vars
  BY <1>1
<1> QED
  BY <1>2, Invariance, PTL DEF Spec, RoomsKeepTheirTask

=============================================================================
