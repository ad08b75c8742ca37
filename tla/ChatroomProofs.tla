----------------------------- MODULE ChatroomProofs -----------------------------
(***************************************************************************)
(* Proofs about Chatroom for every set of agents, people, readers and      *)
(* rooms, and every bound on inboxes and messages.                         *)
(***************************************************************************)
EXTENDS Chatroom, FiniteSetTheorems, WellFoundedInduction, TLAPS

\* What a sequence of ids holds, and that it holds nothing twice.
Held(s) == {s[k] : k \in DOMAIN s}
Distinct(s) == \A j, k \in DOMAIN s : s[j] = s[k] => j = k

\* A post under way is of a message in the table, by its author.
Posting ==
    \A a \in Authors : posting[a] # NoId =>
        posting[a] \in DOMAIN messages /\ messages[posting[a]].author = a

\* Service.changed was replaced once for every message announced.
Announced == {i \in DOMAIN messages : announced(i)}
Changes == changed = Cardinality(Announced)

\* Wait has no channel that is not there yet.
Waiting == \A w \in Readers : reader[w].changed <= changed

\* Whom message i was for, and what became of it: three places, of which it is in one.
Due(m, i) == announced(i) /\ m \in messages[i].mentions /\ m # messages[i].author

HandedTo(m) ==
    /\ Distinct(inbox[m]) /\ Distinct(ran[m])
    /\ Held(inbox[m]) \cap Held(ran[m]) = {}
    /\ dropped[m] \cap (Held(inbox[m]) \cup Held(ran[m])) = {}
    /\ \A i \in Ids : i \in Held(inbox[m]) \cup Held(ran[m]) \cup dropped[m] <=> Due(m, i)

Handed == \A m \in Members : HandedTo(m)

IInv == TypeOK /\ Posting /\ Changes /\ Waiting /\ NoMissedNews /\ Handed

-----------------------------------------------------------------------------
(* Sequences of ids, and numbers *)

\* Append: one more, at the end.
LEMMA AppendHeld ==
    ASSUME NEW S, NEW s \in Seq(S), NEW x \in S
    PROVE  /\ Append(s, x) \in Seq(S) /\ Len(Append(s, x)) = Len(s) + 1
           /\ Held(Append(s, x)) = Held(s) \cup {x}
           /\ Distinct(s) /\ x \notin Held(s) => Distinct(Append(s, x))
<1> DEFINE t == Append(s, x)
<1>1. /\ t \in Seq(S) /\ Len(t) = Len(s) + 1 /\ Len(s) \in Nat
      /\ DOMAIN t = 1..(Len(s) + 1) /\ DOMAIN s = 1..Len(s)
  OBVIOUS
<1>2. t[Len(s) + 1] = x /\ \A k \in 1..Len(s) : t[k] = s[k]
  OBVIOUS
<1> HIDE DEF t
<1>3. Held(t) = Held(s) \cup {x}
  <2>1. ASSUME NEW y \in Held(t) PROVE y \in Held(s) \cup {x}
    BY <1>1, <1>2 DEF Held
  <2>2. ASSUME NEW y \in Held(s) PROVE y \in Held(t)
    <3>1. PICK k \in 1..Len(s) : y = s[k]
      BY <1>1 DEF Held
    <3>2. k \in DOMAIN t /\ t[k] = y
      BY <1>1, <1>2, <3>1
    <3> QED
      BY <3>2 DEF Held
  <2>3. x \in Held(t)
    <3>1. Len(s) + 1 \in DOMAIN t
      BY <1>1
    <3> QED
      BY <1>2, <3>1 DEF Held
  <2> QED
    BY <2>1, <2>2, <2>3
<1>4. ASSUME Distinct(s), x \notin Held(s) PROVE Distinct(t)
  <2>1. \A k \in 1..Len(s) : s[k] # x
    BY <1>1, <1>4 DEF Held
  <2> QED
    BY <1>1, <1>2, <1>4, <2>1 DEF Distinct
<1> QED
  BY <1>1, <1>3, <1>4 DEF t

\* Head and Tail: the first is taken out.
LEMMA TailHeld ==
    ASSUME NEW S, NEW s \in Seq(S), s # <<>>
    PROVE  /\ Tail(s) \in Seq(S) /\ Len(Tail(s)) = Len(s) - 1
           /\ Head(s) \in S /\ Head(s) \in Held(s)
           /\ Distinct(s) => Distinct(Tail(s)) /\ Held(Tail(s)) = Held(s) \ {Head(s)}
<1> DEFINE t == Tail(s)
<1>1. /\ t \in Seq(S) /\ Len(t) = Len(s) - 1 /\ Len(s) \in Nat /\ Len(s) >= 1
      /\ DOMAIN t = 1..(Len(s) - 1) /\ DOMAIN s = 1..Len(s) /\ Head(s) = s[1] /\ Head(s) \in S
  OBVIOUS
<1>2. \A k \in 1..(Len(s) - 1) : t[k] = s[k + 1]
  OBVIOUS
<1> HIDE DEF t
<1>3. 1 \in DOMAIN s
  BY <1>1
<1>4. Head(s) \in Held(s)
  BY <1>1, <1>3 DEF Held
<1>5. ASSUME Distinct(s) PROVE Distinct(t) /\ Held(t) = Held(s) \ {Head(s)}
  <2>1. ASSUME NEW j \in DOMAIN t, NEW k \in DOMAIN t, t[j] = t[k] PROVE j = k
    <3>1. j + 1 \in DOMAIN s /\ k + 1 \in DOMAIN s /\ s[j + 1] = s[k + 1]
      BY <1>1, <1>2, <2>1
    <3>2. j + 1 = k + 1
      BY <1>5, <3>1 DEF Distinct
    <3> QED
      BY <1>1, <3>2
  <2>2. ASSUME NEW y \in Held(t) PROVE y \in Held(s) /\ y # Head(s)
    <3>1. PICK k \in DOMAIN t : y = t[k]
      BY DEF Held
    <3>2. k + 1 \in DOMAIN s /\ y = s[k + 1] /\ k + 1 # 1
      BY <1>1, <1>2, <3>1
    <3> QED
      BY <1>1, <1>3, <1>5, <3>2 DEF Held, Distinct
  <2>3. ASSUME NEW y \in Held(s), y # Head(s) PROVE y \in Held(t)
    <3>1. PICK k \in DOMAIN s : y = s[k]
      BY DEF Held
    <3>2. k # 1
      BY <1>1, <2>3, <3>1
    <3>3. k - 1 \in DOMAIN t /\ t[k - 1] = s[(k - 1) + 1]
      BY <1>1, <1>2, <3>2
    <3>4. (k - 1) + 1 = k
      BY <1>1
    <3> QED
      BY <3>1, <3>3, <3>4 DEF Held
  <2> QED
    BY <2>1, <2>2, <2>3 DEF Distinct
<1> QED
  BY <1>1, <1>4, <1>5 DEF t

\* Of ids there is a last one.
LEMMA GreatestId ==
    ASSUME NEW S, NEW n \in Nat, S \subseteq 1..n, S # {}
    PROVE  (CHOOSE i \in S : \A j \in S : j <= i) \in S
<1> DEFINE R == {x \in Nat \X Nat : x[1] < x[2]}
           T == {m \in 0..n : n - m \in S}
<1>1. IsWellFoundedOn(R, Nat)
  BY NatLessThanWellFounded DEF OpToRel
<1>2. T \subseteq Nat /\ T # {}
  <2>1. PICK i \in S : i \in 1..n
    OBVIOUS
  <2>2. n - i \in 0..n /\ n - (n - i) = i
    BY <2>1
  <2>3. n - i \in T
    BY <2>1, <2>2
  <2>4. T \subseteq Nat
    OBVIOUS
  <2> HIDE DEF T
  <2> QED
    BY <2>3, <2>4
<1>3. PICK m \in T : \A k \in T : ~(<<k, m>> \in R)
  <2> HIDE DEF R, T
  <2> QED
    BY <1>1, <1>2, WFMin
<1>4. ASSUME NEW j \in S PROVE j <= n - m
  <2>0. j \in 1..n /\ m \in 0..n
    OBVIOUS
  <2>1. n - j \in T /\ n - j \in Nat /\ m \in Nat
    <3>1. n - (n - j) = j /\ n - j \in 0..n
      BY <2>0
    <3> QED
      BY <2>0, <3>1
  <2>2. ~(n - j < m)
    BY <1>3, <2>1
  <2> QED
    BY <2>0, <2>2
<1>5. n - m \in S
  OBVIOUS
<1> QED
  BY <1>4, <1>5

-----------------------------------------------------------------------------
(* The steps, by what they touch *)

\* The ids in use.
LEMMA MessageIds ==
    ASSUME TypeOK
    PROVE  /\ Len(messages) \in 0..MaxMessages /\ DOMAIN messages = 1..Len(messages)
           /\ DOMAIN messages \subseteq Ids /\ NoId \notin Ids
           /\ Announced \subseteq 1..Len(messages)
  BY ChatroomAssumption DEF TypeOK, Ids, NoId, Announced

\* How many messages are announced.
LEMMA AnnouncedCount ==
    ASSUME TypeOK
    PROVE  /\ IsFiniteSet(Announced) /\ Cardinality(Announced) \in 0..Len(messages)
<1>1. Len(messages) \in Nat /\ Announced \subseteq 1..Len(messages)
  BY MessageIds
<1>2. IsFiniteSet(1..Len(messages)) /\ Cardinality(1..Len(messages)) = Len(messages)
  BY <1>1, FS_Interval
<1>3. IsFiniteSet(Announced) /\ Cardinality(Announced) <= Len(messages)
  BY <1>1, <1>2, FS_Subset
<1>4. Cardinality(Announced) \in Nat
  BY <1>3, FS_CardinalityType
<1> QED
  BY <1>1, <1>3, <1>4

\* Steps that leave the messages and the posts under way.
LEMMA Quiet ==
    ASSUME UNCHANGED <<messages, posting>>
    PROVE  /\ Posting => Posting'
           /\ Announced' = Announced
           /\ \A i : announced(i)' <=> announced(i)
           /\ \A m, i : Due(m, i)' <=> Due(m, i)
<1>1. \A i : announced(i)' <=> announced(i)
  BY DEF announced
<1>2. Announced' = Announced
  BY <1>1 DEF Announced
<1>3. \A m, i : Due(m, i)' <=> Due(m, i)
  BY <1>1 DEF Due
<1>4. Posting => Posting'
  BY DEF Posting
<1> QED
  BY <1>1, <1>2, <1>3, <1>4

\* Steps that leave the inboxes, too.
LEMMA HandedStays ==
    ASSUME Handed, UNCHANGED <<inbox, ran, dropped>>,
           \A m \in Members : \A i \in Ids : Due(m, i)' <=> Due(m, i)
    PROVE  Handed'
  BY DEF Handed, HandedTo

\* insert: the new message is not announced, and nothing else is.
LEMMA InsertStep ==
    ASSUME IInv, NEW a \in Authors, NEW r \in Rooms, NEW ms \in SUBSET Members, insert(a, r, ms)
    PROVE  IInv'
<1> DEFINE row == [room |-> r, author |-> a, mentions |-> ms]
           n == Len(messages) + 1
<1>u. /\ UNCHANGED <<changed, inbox, handling, ran, dropped, reader, service>>
      /\ Len(messages) < MaxMessages /\ posting[a] = NoId
      /\ messages' = Append(messages, row) /\ posting' = [posting EXCEPT ![a] = n]
  BY DEF insert
<1>i. TypeOK /\ Posting /\ Changes /\ Waiting /\ NoMissedNews /\ Handed
  BY DEF IInv
<1>0. /\ messages \in Seq(Row) /\ posting \in [Authors -> Ids \cup {NoId}]
      /\ row \in Row /\ row.author = a
  BY <1>i DEF TypeOK, Row
<1>1. /\ Len(messages) \in 0..MaxMessages /\ DOMAIN messages = 1..Len(messages)
      /\ NoId \notin Ids /\ n \in Ids /\ n \notin DOMAIN messages /\ NoId \notin DOMAIN messages
  BY <1>i, <1>u, MessageIds, ChatroomAssumption DEF Ids, NoId
<1> HIDE DEF row
<1>2. /\ messages' \in Seq(Row) /\ Len(messages') = n /\ DOMAIN messages' = 1..n
      /\ messages'[n] = row /\ \A i \in DOMAIN messages : messages'[i] = messages[i]
  BY <1>0, <1>1, <1>u
<1>3. /\ posting' \in [Authors -> Ids \cup {NoId}] /\ posting'[a] = n
      /\ \A b \in Authors : b # a => posting'[b] = posting[b]
  BY <1>0, <1>1, <1>u
<1>d. DOMAIN messages' = DOMAIN messages \cup {n}
  BY <1>1, <1>2
<1> HIDE DEF n
<1>4. ASSUME NEW i PROVE announced(i)' <=> announced(i)
  BY <1>1, <1>3, <1>d, <1>u DEF announced
<1>5. Announced' = Announced
  <2>1. \A i \in Announced' : i \in Announced
    BY <1>4 DEF Announced, announced
  <2>2. \A i \in Announced : i \in Announced'
    BY <1>4 DEF Announced, announced
  <2> QED
    BY <2>1, <2>2
<1>6. TypeOK'
  <2>1. Len(messages') <= MaxMessages
    BY <1>1, <1>2, ChatroomAssumption DEF Ids
  <2> QED
    BY <1>2, <1>3, <1>i, <1>u, <2>1 DEF TypeOK
<1>7. Posting'
  BY <1>0, <1>2, <1>3, <1>d, <1>i DEF Posting
<1>8. Changes' /\ Waiting'
  BY <1>5, <1>i, <1>u DEF Changes, Waiting
<1>9. NoMissedNews'
  <2>1. ASSUME NEW w \in Readers, NEW i \in unread(reader[w])', announced(i)'
        PROVE  i \in unread(reader[w]) /\ announced(i)
    BY <1>2, <1>4, <1>u, <2>1 DEF unread, announced
  <2> QED
    BY <1>i, <1>u, <2>1 DEF NoMissedNews
<1>10. Handed'
  <2>1. \A m \in Members : \A i \in Ids : Due(m, i)' <=> Due(m, i)
    BY <1>2, <1>4 DEF Due, announced
  <2> QED
    BY <1>i, <1>u, <2>1, HandedStays
<1> QED
  BY <1>6, <1>7, <1>8, <1>9, <1>10 DEF IInv

\* announce: whoever blocked before is to be woken, and each agent has the message
\* in its inbox or not at all.
LEMMA AnnounceStep ==
    ASSUME IInv, NEW a \in Authors, announce(a)
    PROVE  IInv'
<1> DEFINE id == posting[a]
           woken == messages[id].mentions \ {a}
           full == {m \in woken : Len(inbox[m]) >= InboxCap}
<1>u. /\ UNCHANGED <<messages, handling, ran, reader, service>>
      /\ id # NoId /\ changed' = changed + 1 /\ posting' = [posting EXCEPT ![a] = NoId]
      /\ inbox' = [m \in Members |-> IF m \in woken \ full THEN Append(inbox[m], id) ELSE inbox[m]]
      /\ dropped' = [m \in Members |-> IF m \in full THEN dropped[m] \cup {id} ELSE dropped[m]]
  BY DEF announce
<1>i. TypeOK /\ Posting /\ Changes /\ Waiting /\ NoMissedNews /\ Handed
  BY DEF IInv
<1>0. /\ messages \in Seq(Row) /\ posting \in [Authors -> Ids \cup {NoId}]
      /\ inbox \in [Members -> Seq(Ids)] /\ dropped \in [Members -> SUBSET Ids]
  BY <1>i DEF TypeOK
<1>1. id \in Ids /\ id \in DOMAIN messages /\ messages[id].author = a
  BY <1>0, <1>i, <1>u DEF Posting
<1>f. full \subseteq woken /\ \A m \in woken \ full : ~(Len(inbox[m]) >= InboxCap)
  OBVIOUS
<1>w. \A m \in Members : m \in woken <=> m \in messages[id].mentions /\ m # messages[id].author
  BY <1>1
<1> HIDE DEF id, woken, full
<1>2. /\ posting' \in [Authors -> Ids \cup {NoId}] /\ posting'[a] = NoId /\ posting[a] = id
      /\ \A b \in Authors : b # a => posting'[b] = posting[b] /\ posting[b] # id
  BY <1>0, <1>1, <1>i, <1>u DEF Posting, id
<1>3. ASSUME NEW i \in DOMAIN messages PROVE announced(i)' <=> announced(i) \/ i = id
  <2>1. NoId # i
    BY <1>i, MessageIds
  <2> QED
    BY <1>1, <1>2, <1>u, <2>1 DEF announced
<1>4. Announced' = Announced \cup {id} /\ ~announced(id)
  <2>1. ~announced(id)
    BY <1>2 DEF announced
  <2>2. ASSUME NEW i PROVE i \in Announced' <=> i \in Announced \cup {id}
    BY <1>1, <1>3, <1>u DEF Announced
  <2> QED
    BY <2>1, <2>2
<1>5. Changes' /\ changed' \in 0..MaxMessages
  <2>1. IsFiniteSet(Announced) /\ id \notin Announced
    BY <1>4, <1>i, AnnouncedCount DEF Announced
  <2>2. Changes'
    BY <1>4, <1>i, <1>u, <2>1, FS_AddElement DEF Changes
  <2>3. Announced' \subseteq 1..Len(messages) /\ Len(messages) \in 0..MaxMessages
    BY <1>1, <1>4, <1>i, MessageIds
  <2>4. IsFiniteSet(1..Len(messages)) /\ Cardinality(1..Len(messages)) = Len(messages)
    BY <2>3, FS_Interval
  <2>5. Cardinality(Announced') <= Len(messages) /\ Cardinality(Announced') \in Nat
    BY <2>3, <2>4, FS_Subset, FS_CardinalityType
  <2> QED
    BY <2>2, <2>3, <2>5, ChatroomAssumption DEF Changes
<1>6. ASSUME NEW m \in Members
      PROVE  /\ inbox'[m] \in Seq(Ids) /\ Len(inbox'[m]) <= InboxCap
             /\ dropped'[m] \in SUBSET Ids /\ HandedTo(m)'
  <2>0. inbox[m] \in Seq(Ids) /\ Len(inbox[m]) <= InboxCap /\ HandedTo(m) /\ Len(inbox[m]) \in Nat
    BY <1>0, <1>i DEF TypeOK, Handed
  <2>1. id \notin Held(inbox[m]) /\ id \notin Held(ran[m]) /\ id \notin dropped[m]
    BY <1>1, <1>4, <2>0 DEF HandedTo, Due
  <2>2. ASSUME NEW i \in Ids PROVE Due(m, i)' <=> Due(m, i) \/ (i = id /\ m \in woken)
    <3>1. CASE i \in DOMAIN messages
      BY <1>3, <1>4, <1>u, <1>w, <3>1 DEF Due
    <3>2. CASE i \notin DOMAIN messages
      BY <1>1, <1>u, <3>2 DEF Due, announced
    <3> QED
      BY <3>1, <3>2
  <2>3. CASE m \in woken \ full
    <3>1. /\ inbox'[m] = Append(inbox[m], id) /\ dropped'[m] = dropped[m] /\ ran'[m] = ran[m]
          /\ m \in woken
      BY <1>f, <1>u, <2>3
    <3>2. /\ inbox'[m] \in Seq(Ids) /\ Len(inbox'[m]) = Len(inbox[m]) + 1
          /\ Held(inbox'[m]) = Held(inbox[m]) \cup {id} /\ Distinct(inbox'[m])
      BY <1>1, <2>0, <2>1, <3>1, AppendHeld DEF HandedTo
    <3>3. Len(inbox'[m]) <= InboxCap
      BY <1>f, <2>0, <2>3, <3>2, ChatroomAssumption
    <3>4. HandedTo(m)'
      BY <2>0, <2>1, <2>2, <3>1, <3>2 DEF HandedTo
    <3> QED
      BY <1>0, <3>1, <3>2, <3>3, <3>4
  <2>4. CASE m \in full
    <3>1. /\ inbox'[m] = inbox[m] /\ dropped'[m] = dropped[m] \cup {id} /\ ran'[m] = ran[m]
          /\ m \in woken
      BY <1>f, <1>u, <2>4
    <3>2. HandedTo(m)'
      BY <2>0, <2>1, <2>2, <3>1 DEF HandedTo
    <3> QED
      BY <1>0, <1>1, <2>0, <3>1, <3>2
  <2>5. CASE m \notin woken
    <3>1. inbox'[m] = inbox[m] /\ dropped'[m] = dropped[m] /\ ran'[m] = ran[m]
      BY <1>f, <1>u, <2>5
    <3>2. HandedTo(m)'
      BY <2>0, <2>2, <2>5, <3>1 DEF HandedTo
    <3> QED
      BY <1>0, <2>0, <3>1, <3>2
  <2> QED
    BY <2>3, <2>4, <2>5
<1>7. TypeOK'
  <2>1. inbox' \in [Members -> Seq(Ids)] /\ dropped' \in [Members -> SUBSET Ids]
    <3>1. DOMAIN inbox' = Members /\ DOMAIN dropped' = Members
      BY <1>u
    <3> QED
      BY <1>6, <1>u, <3>1
  <2> QED
    BY <1>2, <1>5, <1>6, <1>i, <1>u, <2>1 DEF TypeOK
<1>8. Posting'
  BY <1>2, <1>i, <1>u DEF Posting
<1>9. Waiting' /\ NoMissedNews'
  <2>1. \A w \in Readers : reader'[w] = reader[w] /\ reader[w].changed <= changed
    BY <1>i, <1>u DEF Waiting
  <2>2. changed \in Nat /\ \A w \in Readers : reader[w].changed \in Nat
    BY <1>i, ChatroomAssumption DEF TypeOK, WaitCall
  <2> QED
    BY <1>u, <2>1, <2>2 DEF Waiting, NoMissedNews
<1> QED
  BY <1>5, <1>6, <1>7, <1>8, <1>9 DEF IInv, Handed

\* wake: a mention goes from the inbox to the handler.
LEMMA WakeStep ==
    ASSUME IInv, NEW m \in Members, wake(m)
    PROVE  IInv'
<1> DEFINE s == inbox[m]
<1>u. /\ UNCHANGED <<messages, posting, changed, dropped, reader, service>> /\ s # <<>>
      /\ handling' = [handling EXCEPT ![m] = Head(s)]
      /\ ran' = [ran EXCEPT ![m] = Append(ran[m], Head(s))]
      /\ inbox' = [inbox EXCEPT ![m] = Tail(s)]
  BY DEF wake
<1>i. TypeOK /\ Posting /\ Changes /\ Waiting /\ NoMissedNews /\ Handed
  BY DEF IInv
<1>0. /\ inbox \in [Members -> Seq(Ids)] /\ ran \in [Members -> Seq(Ids)]
      /\ handling \in [Members -> Ids \cup {NoId}] /\ Len(s) <= InboxCap /\ HandedTo(m)
      /\ s \in Seq(Ids) /\ ran[m] \in Seq(Ids)
  BY <1>i DEF TypeOK, Handed
<1>1. /\ Tail(s) \in Seq(Ids) /\ Len(Tail(s)) = Len(s) - 1 /\ Head(s) \in Ids
      /\ Head(s) \in Held(s) /\ Distinct(Tail(s)) /\ Held(Tail(s)) = Held(s) \ {Head(s)}
  BY <1>0, <1>u, TailHeld DEF HandedTo
<1>2. /\ Append(ran[m], Head(s)) \in Seq(Ids)
      /\ Held(Append(ran[m], Head(s))) = Held(ran[m]) \cup {Head(s)}
      /\ Distinct(Append(ran[m], Head(s)))
  <2>1. Head(s) \notin Held(ran[m]) /\ Distinct(ran[m])
    BY <1>0, <1>1 DEF HandedTo
  <2> QED
    BY <1>0, <1>1, <2>1, AppendHeld
<1>3. \A k, i : Due(k, i)' <=> Due(k, i)
  BY <1>u, Quiet
<1>4. HandedTo(m)'
  <2>1. inbox'[m] = Tail(s) /\ ran'[m] = Append(ran[m], Head(s)) /\ dropped'[m] = dropped[m]
    BY <1>0, <1>u
  <2> QED
    BY <1>0, <1>1, <1>2, <1>3, <2>1 DEF HandedTo
<1>5. ASSUME NEW k \in Members, k # m PROVE HandedTo(k)' /\ inbox'[k] = inbox[k]
  <2>1. inbox'[k] = inbox[k] /\ ran'[k] = ran[k] /\ dropped'[k] = dropped[k]
    BY <1>0, <1>5, <1>u
  <2> QED
    BY <1>3, <1>i, <2>1 DEF Handed, HandedTo
<1>6. TypeOK'
  <2>1. /\ inbox' \in [Members -> Seq(Ids)] /\ ran' \in [Members -> Seq(Ids)]
        /\ handling' \in [Members -> Ids \cup {NoId}]
    BY <1>0, <1>1, <1>2, <1>u
  <2>2. Len(inbox'[m]) <= InboxCap
    <3>1. Len(s) \in Nat /\ inbox'[m] = Tail(s)
      BY <1>0, <1>u
    <3> QED
      BY <1>0, <1>1, <3>1, ChatroomAssumption
  <2>3. \A k \in Members : Len(inbox'[k]) <= InboxCap
    BY <1>5, <1>i, <2>2 DEF TypeOK
  <2> QED
    BY <1>i, <1>u, <2>1, <2>3 DEF TypeOK
<1>7. Posting' /\ Changes' /\ Waiting'
  BY <1>i, <1>u, Quiet DEF Changes, Waiting
<1>8. NoMissedNews'
  <2>1. \A w \in Readers : unread(reader[w])' = unread(reader[w])
    BY <1>u DEF unread
  <2> QED
    BY <1>i, <1>u, <2>1, Quiet DEF NoMissedNews
<1> QED
  BY <1>4, <1>5, <1>6, <1>7, <1>8 DEF IInv, Handed

\* Steps of the handlers and of Close that touch nothing the others see.
LEMMA OwnStep ==
    ASSUME IInv, UNCHANGED <<messages, posting, changed, inbox, ran, dropped, reader>>,
           handling' \in [Members -> Ids \cup {NoId}], service' \in {"open", "closing", "closed"}
    PROVE  IInv'
<1>i. TypeOK /\ Posting /\ Changes /\ Waiting /\ NoMissedNews /\ Handed
  BY DEF IInv
<1>1. TypeOK'
  BY <1>i DEF TypeOK
<1>2. Posting' /\ Changes' /\ Waiting'
  BY <1>i, Quiet DEF Changes, Waiting
<1>3. NoMissedNews'
  <2>1. \A w \in Readers : unread(reader[w])' = unread(reader[w])
    BY DEF unread
  <2> QED
    BY <1>i, <2>1, Quiet DEF NoMissedNews
<1>4. Handed'
  BY <1>i, Quiet, HandedStays
<1> QED
  BY <1>1, <1>2, <1>3, <1>4 DEF IInv

\* Steps of Wait: a reader that blocks had nothing to read.
LEMMA ReaderStep ==
    ASSUME IInv, UNCHANGED <<messages, posting, changed, inbox, handling, ran, dropped, service>>,
           NEW w \in Readers, NEW x \in WaitCall, reader' = [reader EXCEPT ![w] = x],
           x.changed <= changed, x.pc = "blocked" => unread(x) = {}
    PROVE  IInv'
<1>i. TypeOK /\ Posting /\ Changes /\ Waiting /\ NoMissedNews /\ Handed
  BY DEF IInv
<1>0. /\ reader \in [Readers -> WaitCall] /\ reader' \in [Readers -> WaitCall]
      /\ reader'[w] = x /\ \A v \in Readers : v # w => reader'[v] = reader[v]
  BY <1>i DEF TypeOK
<1>1. TypeOK'
  BY <1>0, <1>i DEF TypeOK
<1>2. Posting' /\ Changes'
  BY <1>i, Quiet DEF Changes
<1>3. Waiting'
  BY <1>0, <1>i DEF Waiting
<1>4. NoMissedNews'
  <2>1. ASSUME NEW v \in Readers, v # w PROVE unread(reader[v])' = unread(reader[v])
    BY <1>0, <2>1 DEF unread
  <2>2. reader'[w].pc = "blocked" => unread(reader[w])' = {}
    BY <1>0 DEF unread
  <2>3. \A v \in Readers : v # w => reader'[v] = reader[v]
    BY <1>0
  <2> QED
    BY <1>i, <2>1, <2>2, <2>3, Quiet DEF NoMissedNews
<1>5. Handed'
  BY <1>i, Quiet, HandedStays
<1> QED
  BY <1>1, <1>2, <1>3, <1>4, <1>5 DEF IInv

\* Wait, from its call to its return.
LEMMA WaitStep ==
    ASSUME IInv, NEW w \in Readers,
           (\E r \in Rooms : Wait(w, r)) \/ waitReads(w) \/ waitWoken(w) \/ waitDone(w)
    PROVE  IInv'
<1> DEFINE rd == reader[w]
<1>u. UNCHANGED <<messages, posting, changed, inbox, handling, ran, dropped, service>>
  BY DEF Wait, waitReads, waitWoken, waitDone
<1>0. /\ rd \in WaitCall /\ changed \in 0..MaxMessages /\ rd.changed <= changed
      /\ reader \in [Readers -> WaitCall]
  BY DEF IInv, TypeOK, Waiting
<1>1. ASSUME NEW r \in Rooms, Wait(w, r) PROVE IInv'
  <2> DEFINE n == IF rd.room = r THEN rd.after ELSE 0
             x == [rd EXCEPT !.pc = "read", !.changed = changed, !.room = r, !.after = n]
  <2>1. reader' = [reader EXCEPT ![w] = x]
    BY <1>1 DEF Wait
  <2>2. n \in 0..MaxMessages
    BY <1>0, ChatroomAssumption DEF WaitCall
  <2> HIDE DEF n, rd
  <2>3. x \in WaitCall /\ x.pc = "read" /\ x.changed = changed
    BY <1>0, <2>2 DEF WaitCall
  <2> HIDE DEF x
  <2>4. x.changed <= changed /\ x.pc # "blocked"
    BY <1>0, <2>3, ChatroomAssumption
  <2> QED
    BY <1>u, <2>1, <2>3, <2>4, ReaderStep
<1>2. CASE waitReads(w) /\ unread(rd) = {}
  <2> DEFINE x == [rd EXCEPT !.pc = "blocked"]
  <2>1. reader' = [reader EXCEPT ![w] = x]
    BY <1>2 DEF waitReads
  <2>2. unread(rd) = {}
    BY <1>2
  <2> HIDE DEF rd
  <2>3. /\ x \in WaitCall /\ x.changed = rd.changed /\ x.pc = "blocked"
        /\ x.after = rd.after /\ x.room = rd.room
    BY <1>0 DEF WaitCall
  <2>4. unread(x) = {}
    BY <2>2, <2>3 DEF unread
  <2> HIDE DEF x
  <2> QED
    BY <1>0, <1>u, <2>1, <2>3, <2>4, ReaderStep
<1>3. CASE waitReads(w) /\ unread(rd) # {}
  <2> DEFINE n == CHOOSE i \in unread(rd) : \A j \in unread(rd) : j <= i
             x == [rd EXCEPT !.pc = "rest", !.after = n]
  <2>1. reader' = [reader EXCEPT ![w] = x]
    BY <1>3 DEF waitReads
  <2>2. n \in 0..MaxMessages
    <3>1. /\ unread(rd) \subseteq 1..Len(messages) /\ Len(messages) \in Nat
          /\ Len(messages) <= MaxMessages
      BY MessageIds, ChatroomAssumption DEF unread, IInv
    <3>2. n \in unread(rd)
      BY <1>3, <3>1, GreatestId
    <3> QED
      BY <3>1, <3>2, ChatroomAssumption
  <2> HIDE DEF n, rd
  <2>3. x \in WaitCall /\ x.pc = "rest" /\ x.changed = rd.changed
    BY <1>0, <2>2 DEF WaitCall
  <2> HIDE DEF x
  <2> QED
    BY <1>0, <1>u, <2>1, <2>3, ReaderStep
<1>4. CASE waitWoken(w)
  <2> DEFINE x == [rd EXCEPT !.pc = "read", !.changed = changed]
  <2>1. reader' = [reader EXCEPT ![w] = x]
    BY <1>4 DEF waitWoken
  <2> HIDE DEF rd
  <2>2. x \in WaitCall /\ x.pc = "read" /\ x.changed = changed
    BY <1>0 DEF WaitCall
  <2> HIDE DEF x
  <2>3. x.changed <= changed /\ x.pc # "blocked"
    BY <1>0, <2>2, ChatroomAssumption
  <2> QED
    BY <1>u, <2>1, <2>2, <2>3, ReaderStep
<1>5. CASE waitDone(w)
  <2> DEFINE x == [rd EXCEPT !.pc = "rest"]
  <2>1. reader' = [reader EXCEPT ![w] = x]
    BY <1>0, <1>5 DEF waitDone
  <2> HIDE DEF rd
  <2>2. x \in WaitCall /\ x.pc = "rest" /\ x.changed = rd.changed
    BY <1>0 DEF WaitCall
  <2> HIDE DEF x
  <2> QED
    BY <1>0, <1>u, <2>1, <2>2, ReaderStep
<1> QED
  BY <1>1, <1>2, <1>3, <1>4, <1>5

\* The empty service.
LEMMA InitStep == Init => IInv
<1> SUFFICES ASSUME Init PROVE IInv
  OBVIOUS
<1> USE ChatroomAssumption
<1>1. messages = <<>> /\ DOMAIN messages = {} /\ Len(messages) = 0
  BY DEF Init
<1>2. TypeOK
  <2>1. [pc |-> "rest", room |-> None, after |-> 0, changed |-> 0] \in WaitCall
    BY DEF WaitCall
  <2>2. reader \in [Readers -> WaitCall]
    BY <2>1 DEF Init
  <2> QED
    BY <1>1, <2>2 DEF Init, TypeOK
<1>3. Posting /\ NoMissedNews
  BY <1>1 DEF Init, Posting, NoMissedNews, unread
<1>4. Changes
  <2>1. Announced = {}
    BY <1>1 DEF Announced
  <2> QED
    BY <2>1, FS_EmptySet DEF Init, Changes
<1>5. Waiting
  BY DEF Init, Waiting
<1>6. Handed
  <2>1. Held(<<>>) = {} /\ Distinct(<<>>)
    BY DEF Held, Distinct
  <2>2. \A m \in Members : \A i \in Ids : ~Due(m, i)
    BY <1>1 DEF Due, announced
  <2>3. \A m \in Members : inbox[m] = <<>> /\ ran[m] = <<>> /\ dropped[m] = {}
    BY DEF Init
  <2> QED
    BY <2>1, <2>2, <2>3 DEF Handed, HandedTo
<1> QED
  BY <1>2, <1>3, <1>4, <1>5, <1>6 DEF IInv

\* Every step keeps the invariant.
LEMMA Inductive == IInv /\ [Next]_vars => IInv'
<1> SUFFICES ASSUME IInv, [Next]_vars PROVE IInv'
  OBVIOUS
<1>0. handling \in [Members -> Ids \cup {NoId}] /\ service \in {"open", "closing", "closed"}
  BY DEF IInv, TypeOK
<1>1. ASSUME NEW a \in Authors, NEW r \in Rooms, NEW ms \in SUBSET Members, insert(a, r, ms)
      PROVE  IInv'
  BY <1>1, InsertStep
<1>2. ASSUME NEW a \in Authors, announce(a) PROVE IInv'
  BY <1>2, AnnounceStep
<1>3. ASSUME NEW m \in Members, wake(m) PROVE IInv'
  BY <1>3, WakeStep
<1>4. ASSUME NEW m \in Members, handlerReturns(m) PROVE IInv'
  <2>1. handling' \in [Members -> Ids \cup {NoId}]
    BY <1>0, <1>4 DEF handlerReturns
  <2> QED
    BY <1>0, <1>4, <2>1, OwnStep DEF handlerReturns
<1>5. ASSUME NEW w \in Readers,
             (\E r \in Rooms : Wait(w, r)) \/ waitReads(w) \/ waitWoken(w) \/ waitDone(w)
      PROVE  IInv'
  BY <1>5, WaitStep
<1>6. CASE closeBegins \/ closeEnds
  BY <1>0, <1>6, OwnStep DEF closeBegins, closeEnds
<1>7. CASE UNCHANGED vars
  BY <1>0, <1>7, OwnStep DEF vars
<1> QED
  BY <1>1, <1>2, <1>3, <1>4, <1>5, <1>6, <1>7 DEF Next

-----------------------------------------------------------------------------
(* What it shows *)

\* How often an id is in a sequence that holds nothing twice.
LEMMA Times ==
    ASSUME NEW S, NEW s \in Seq(S), Distinct(s), NEW i
    PROVE  Cardinality({k \in DOMAIN s : s[k] = i}) = IF i \in Held(s) THEN 1 ELSE 0
<1> DEFINE T == {k \in DOMAIN s : s[k] = i}
<1>1. CASE i \in Held(s)
  <2>1. PICK k \in DOMAIN s : s[k] = i
    BY <1>1 DEF Held
  <2>2. T = {k}
    BY <2>1 DEF Distinct
  <2> QED
    BY <1>1, <2>2, FS_Singleton
<1>2. CASE i \notin Held(s)
  <2>1. T = {}
    BY <1>2 DEF Held
  <2> QED
    BY <1>2, <2>1, FS_EmptySet
<1> QED
  BY <1>1, <1>2

\* A mention is in one place, once.
LEMMA Accounted == IInv => MentionsAreAccountedFor
<1> SUFFICES ASSUME IInv, NEW m \in Members, NEW i \in DOMAIN messages
             PROVE  (Cardinality({k \in DOMAIN inbox[m] : inbox[m][k] = i})
                      + Cardinality({k \in DOMAIN ran[m] : ran[m][k] = i})
                      + (IF i \in dropped[m] THEN 1 ELSE 0))
                    = IF (m \in messages[i].mentions /\ m # messages[i].author) /\ announced(i)
                      THEN 1 ELSE 0
  BY DEF MentionsAreAccountedFor
<1>1. HandedTo(m) /\ i \in Ids /\ inbox[m] \in Seq(Ids) /\ ran[m] \in Seq(Ids)
  BY MessageIds DEF IInv, TypeOK, Handed
<1>2. /\ Cardinality({k \in DOMAIN inbox[m] : inbox[m][k] = i}) = IF i \in Held(inbox[m]) THEN 1 ELSE 0
      /\ Cardinality({k \in DOMAIN ran[m] : ran[m][k] = i}) = IF i \in Held(ran[m]) THEN 1 ELSE 0
  BY <1>1, Times DEF HandedTo
<1>3. i \in Held(inbox[m]) \cup Held(ran[m]) \cup dropped[m] <=> Due(m, i)
  BY <1>1 DEF HandedTo
<1>4. /\ ~(i \in Held(inbox[m]) /\ i \in Held(ran[m]))
      /\ ~(i \in dropped[m] /\ (i \in Held(inbox[m]) \/ i \in Held(ran[m])))
  BY <1>1 DEF HandedTo
<1>5. Due(m, i) <=> (m \in messages[i].mentions /\ m # messages[i].author) /\ announced(i)
  BY DEF Due
<1> QED
  BY <1>2, <1>3, <1>4, <1>5

\* The invariant holds throughout.
THEOREM Invariance == Spec => []IInv
  BY InitStep, Inductive, PTL DEF Spec

\* Every variable has its type, and Service.changed is replaced no more often than
\* there are messages.
THEOREM ChatroomTypes == Spec => []TypeOK
<1>1. IInv => TypeOK
  BY DEF IInv
<1> QED
  BY <1>1, Invariance, PTL

\* Wait, which takes its channel before it reads, misses no Post, which inserts
\* before it replaces the channel.
THEOREM NewsIsNotMissed == Spec => []NoMissedNews
<1>1. IInv => NoMissedNews
  BY DEF IInv
<1> QED
  BY <1>1, Invariance, PTL

\* Post and Join hand every mention over once, for any capacity of the inboxes.
THEOREM MentionsAreHandedOver == Spec => []MentionsAreAccountedFor
<1>1. IInv => MentionsAreAccountedFor
  BY Accounted
<1> QED
  BY <1>1, Invariance, PTL

=============================================================================
