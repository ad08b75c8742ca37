---------------------------- MODULE MailRelayProofs ----------------------------
(***************************************************************************)
(* Proofs about MailRelay for any laptops, rooms, lines, messages and      *)
(* faults.                                                                 *)
(***************************************************************************)
EXTENDS MailRelay, FiniteSetTheorems, WellFoundedInduction, TLAPS

\* The two halves of a pass.
Receiving == {"get", "post", "room", "saveIn", "query"}
Sending == {"next", "send", "saveOut", "saveSeen"}

\* There is something at every number below n.
Below(n, box) == 0..(n - 1) \subseteq DOMAIN box

\* A cursor of a box has no free number below it.
Boxes ==
    /\ BoxesHaveNoGaps
    /\ Below(cursor.in, toHost) /\ Below(relay.in, toHost)
    /\ Below(cursor.out, toLaptop) /\ Below(relay.out, toLaptop)

\* Nor has a laptop's, and what it has read it has printed.
Chatting(l) ==
    /\ laptop[l].pc = "send" => laptop[l].line \in Line
    /\ Below(laptop[l].cur.toHost, toHost) /\ Below(file[l].toHost, toHost)
    /\ 0..(laptop[l].cur.toLaptop - 1) \subseteq shown[l]
    /\ 0..(file[l].toLaptop - 1) \subseteq shown[l]

\* Where the pass is in the to-host box, and what it does there.
At ==
    /\ relay.pc \in Receiving => cursor.in <= relay.in
    /\ relay.pc \in {"post", "room", "saveIn"} =>
           relay.in \in DOMAIN toHost /\ toHost[relay.in].from \in Trusted
    /\ relay.pc \in {"room", "saveIn"} => relay.in \in posted
    /\ relay.pc = "saveIn" => toHost[relay.in].room \in mailRooms
    /\ relay.pc = "query" => \A n \in posted : n < relay.in

\* What was posted is mail from a trusted laptop, whose room the relay remembers, or
\* will when it comes to it again.
Posted ==
    \A i \in fromMail :
        LET n == messages[i].re IN
        /\ n \in DOMAIN toHost /\ toHost[n].from \in Trusted
        /\ messages[i].room = toHost[n].room
        /\ \/ messages[i].room \in mailRooms
           \/ n >= cursor.in /\ (relay.pc \in Receiving => n >= relay.in)

\* Mail that is to be posted is posted in order: what the cursor has passed, nothing
\* that the pass has skipped, and nothing before what was posted.
InOrder ==
    \A n \in DOMAIN toHost : toHost[n].from \in Trusted =>
        /\ n < cursor.in => n \in posted
        /\ relay.pc \in Receiving /\ n < relay.in => n < cursor.in
        /\ \A m \in posted : n < m => n < cursor.in

\* What is in the to-laptop box, or was passed.
Mailed ==
    /\ cursor.seen <= Len(messages) /\ relay.seen <= Len(messages)
    /\ relay.pc # "idle" /\ cursor.seen # Absent => relay.seen = cursor.seen
    /\ \A i \in DOMAIN messages : messages[i].by = "agent" =>
           /\ messages[i].re \in DOMAIN messages
           /\ messages[messages[i].re].room = messages[i].room
    /\ \A i \in mailed : i \in DOMAIN messages /\ messages[i].room \in mailRooms
    /\ \A i \in DOMAIN messages :
           isReply(i) /\ base < i /\ (i <= cursor.seen \/ i <= relay.seen) => i \in mailed

\* What the pass has yet to go through is all that was mailed, and all replies, since
\* what it has seen, up to where it asked for them.
ToGo ==
    relay.pc \in Sending =>
        /\ \A i \in relay.msgs :
               i \in DOMAIN messages /\ i > relay.seen /\ messages[i].room \in mailRooms
        /\ \A i \in mailed : i <= relay.seen \/ i \in relay.msgs
        /\ \A i \in DOMAIN messages : isReply(i) =>
               i <= relay.seen \/ i \in relay.msgs \/ \A j \in relay.msgs : j < i
        /\ relay.pc # "next" => relay.msgs # {}
        /\ \/ relay.pc = "saveOut"
           \/ relay.pc = "saveSeen" /\ messages[first(relay.msgs)].by = "agent"
           => first(relay.msgs) \in mailed

\* What will be done a second time: the mail that was posted where the pass, or the
\* next one, is yet to be, and the messages that were mailed after what it has seen.
received ==
    IF relay.pc \in {"room", "saveIn"} THEN relay.in + 1
    ELSE IF relay.pc \in Receiving THEN relay.in ELSE cursor.in
seenTo ==
    IF relay.pc \in {"saveOut", "saveSeen"} THEN first(relay.msgs)
    ELSE IF relay.pc # "idle" THEN relay.seen
    ELSE IF cursor.seen = Absent THEN Len(messages) ELSE cursor.seen
again == IF \E n \in posted : received <= n THEN 1 ELSE 0
toRepeat == {i \in mailed : i > seenTo}

\* A fault has paid for it.
Budget ==
      (Cardinality(fromMail) - Cardinality(posted))
    + (Cardinality(DOMAIN toLaptop) - Cardinality(mailed))
    + again + Cardinality(toRepeat) <= faults

Finite == /\ IsFiniteSet(fromMail) /\ IsFiniteSet(posted)
          /\ IsFiniteSet(DOMAIN toLaptop) /\ IsFiniteSet(mailed)

IInv ==
    /\ TypeOK /\ Boxes
    /\ \A l \in Laptops : Chatting(l)
    /\ At /\ Posted /\ InOrder
    /\ Mailed /\ ToGo
    /\ Finite /\ Budget

-----------------------------------------------------------------------------
(* Numbers, boxes and messages *)

\* There is a least number in a set of numbers that has any.
LEMMA LeastElement ==
    ASSUME NEW S, S \subseteq Nat, S # {}
    PROVE  \E m \in S : \A n \in S : m <= n
<1> DEFINE R == {x \in Nat \X Nat : x[1] < x[2]}
<1>1. IsWellFoundedOn(R, Nat)
  BY NatLessThanWellFounded DEF OpToRel
<1>2. \E m \in S : \A n \in S : ~(<<n, m>> \in R)
  <2> HIDE DEF R
  <2> QED
    BY <1>1, WFMin
<1>3. PICK m \in S : \A n \in S : ~(<<n, m>> \in R)
  BY <1>2
<1>4. ASSUME NEW n \in S PROVE m <= n
  <2>1. n \in Nat /\ m \in Nat /\ ~(<<n, m>> \in R)
    BY <1>3
  <2> QED
    BY <2>1
<1> QED
  BY <1>4

\* And first takes it.
LEMMA FirstFacts ==
    ASSUME NEW S, S \subseteq Nat, S # {}
    PROVE  first(S) \in S /\ first(S) \in Nat /\ \A j \in S : first(S) <= j
<1>1. \E i \in S : \A j \in S : i <= j
  BY LeastElement
<1>2. first(S) \in S /\ \A j \in S : first(S) <= j
  BY <1>1 DEF first
<1> QED
  BY <1>2

\* Messages are numbered from 1 on, and one more leaves the others.
LEMMA AppendFacts ==
    ASSUME TypeOK, NEW m \in Message, messages' = Append(messages, m)
    PROVE  /\ Len(messages) \in Nat /\ DOMAIN messages = 1..Len(messages)
           /\ messages' \in Seq(Message) /\ Len(messages') = Len(messages) + 1
           /\ DOMAIN messages' = DOMAIN messages \cup {Len(messages) + 1}
           /\ Len(messages) + 1 \notin DOMAIN messages
           /\ \A i \in DOMAIN messages : messages'[i] = messages[i]
           /\ messages'[Len(messages) + 1] = m
<1>1. messages \in Seq(Message) /\ Len(messages) \in Nat /\ DOMAIN messages = 1..Len(messages)
  BY DEF TypeOK
<1>2. /\ messages' \in Seq(Message) /\ Len(messages') = Len(messages) + 1
      /\ \A i \in 1..Len(messages) : messages'[i] = messages[i]
      /\ messages'[Len(messages) + 1] = m
  BY <1>1
<1>3. DOMAIN messages' = 1..(Len(messages) + 1)
  BY <1>2
<1> QED
  BY <1>1, <1>2, <1>3

\* The types of what the relay knows.
LEMMA Types ==
    ASSUME TypeOK
    PROVE  /\ relay.seen \in Nat /\ relay.in \in Nat /\ relay.out \in Nat /\ relay.msgs \subseteq Nat
           /\ cursor.in \in Nat /\ cursor.out \in Nat /\ cursor.seen \in Nat \cup {Absent}
           /\ cursor.seen \in Int /\ base \in Nat
           /\ relay.pc \in Receiving \cup Sending \cup {"idle"}
           /\ Len(messages) \in Nat /\ DOMAIN messages = 1..Len(messages)
           /\ \A i \in DOMAIN messages : messages[i] \in Message /\ messages[i].re \in Nat
           /\ \A n \in DOMAIN toHost : n \in Nat /\ toHost[n] \in Line
           /\ \A n \in DOMAIN toLaptop : n \in Nat /\ toLaptop[n] \in Nat
           /\ \A i \in mailed : i \in Nat
           /\ \A n \in posted : n \in Nat
<1>1. relay \in Pass /\ cursor \in MailCursors
  BY DEF TypeOK
<1>2. /\ relay.seen \in Nat /\ relay.in \in Nat /\ relay.out \in Nat /\ relay.msgs \subseteq Nat
      /\ relay.pc \in Receiving \cup Sending \cup {"idle"}
  BY <1>1 DEF Pass, Receiving, Sending
<1>3. /\ cursor.in \in Nat /\ cursor.out \in Nat /\ cursor.seen \in Nat \cup {Absent}
      /\ cursor.seen \in Int
  BY <1>1 DEF MailCursors, Absent
<1>4. /\ Len(messages) \in Nat /\ DOMAIN messages = 1..Len(messages)
      /\ \A i \in DOMAIN messages : messages[i] \in Message
  BY DEF TypeOK
<1>5. \A i \in DOMAIN messages : messages[i].re \in Nat
  BY <1>4 DEF Message
<1>6. \A n \in posted : n \in Nat
  BY <1>5 DEF posted, fromMail
<1>7. /\ \A n \in DOMAIN toHost : n \in Nat /\ toHost[n] \in Line
      /\ \A n \in DOMAIN toLaptop : n \in Nat /\ toLaptop[n] \in Nat
  BY DEF TypeOK
<1>8. \A i \in mailed : i \in Nat
  BY <1>7 DEF mailed
<1> QED
  BY <1>2, <1>3, <1>4, <1>5, <1>6, <1>7, <1>8 DEF TypeOK

\* A box that has no gap gets none when the next number is created.
LEMMA NoNewGap ==
    ASSUME NEW D, NEW n \in Nat, D \subseteq Nat, 0..(n - 1) \subseteq D,
           \A m \in D : 0..m \subseteq D
    PROVE  \A m \in D \cup {n} : 0..m \subseteq D \cup {n}
<1>1. 0..n \subseteq D \cup {n}
  <2>1. \A k \in 0..n : k \in 0..(n - 1) \/ k = n
    OBVIOUS
  <2> QED
    BY <2>1
<1> QED
  BY <1>1

\* A cursor goes past a number where there is something.
LEMMA BelowNext ==
    ASSUME NEW box, NEW n \in Nat, Below(n, box), n \in DOMAIN box
    PROVE  Below(n + 1, box)
<1>1. \A k \in 0..(n + 1 - 1) : k \in 0..(n - 1) \/ k = n
  OBVIOUS
<1> QED
  BY <1>1 DEF Below

\* Nothing is below zero.
LEMMA BelowZero ==
    ASSUME NEW box PROVE Below(0, box)
  BY DEF Below

-----------------------------------------------------------------------------
(* What a step leaves *)

\* Nothing is repeated by a step that neither posts nor mails, and owes no more.
LEMMA CountsStay ==
    ASSUME IInv, fromMail' = fromMail, posted' = posted, mailed' = mailed,
           DOMAIN toLaptop' = DOMAIN toLaptop, again' <= again, toRepeat' \subseteq toRepeat,
           faults <= faults', faults' \in Nat
    PROVE  Finite' /\ Budget'
<1>1. Finite /\ Budget /\ faults \in Nat
  BY MailAssumption DEF IInv, TypeOK
<1>2. IsFiniteSet(toRepeat)
  <2>1. toRepeat \in SUBSET mailed
    BY DEF toRepeat
  <2> QED
    BY <1>1, <2>1, FS_Subset DEF Finite
<1>3. /\ IsFiniteSet(toRepeat') /\ Cardinality(toRepeat') <= Cardinality(toRepeat)
  <2>1. toRepeat' \in SUBSET toRepeat
    OBVIOUS
  <2> QED
    BY <1>2, <2>1, FS_Subset
<1>4. Finite'
  BY <1>1 DEF Finite
<1>5. /\ Cardinality(fromMail) \in Nat /\ Cardinality(posted) \in Nat
      /\ Cardinality(DOMAIN toLaptop) \in Nat /\ Cardinality(mailed) \in Nat
      /\ Cardinality(toRepeat) \in Nat /\ Cardinality(toRepeat') \in Nat
  BY <1>1, <1>2, <1>3, FS_CardinalityType DEF Finite
<1>6. again \in Nat /\ again' \in Nat
  BY DEF again
<1>7. Budget'
  BY <1>1, <1>3, <1>5, <1>6 DEF Budget
<1> QED
  BY <1>4, <1>7

\* A step outside the first half of a pass leaves the mail.
LEMMA InStays ==
    ASSUME IInv, UNCHANGED <<toHost, messages, mailRooms>>, cursor'.in = cursor.in,
           relay'.pc \notin Receiving
    PROVE  At' /\ Posted' /\ InOrder'
<1>1. At /\ Posted /\ InOrder
  BY DEF IInv
<1>2. fromMail' = fromMail /\ posted' = posted
  BY DEF fromMail, posted
<1>3. At'
  BY DEF At, Receiving
<1>4. Posted'
  BY <1>1, <1>2 DEF Posted
<1>5. InOrder'
  BY <1>1, <1>2 DEF InOrder
<1> QED
  BY <1>3, <1>4, <1>5

\* A step of the first half leaves the replies.
LEMMA OutStays ==
    ASSUME IInv, UNCHANGED <<toLaptop, messages, base>>, mailRooms \subseteq mailRooms',
           cursor'.seen = cursor.seen, relay'.seen = relay.seen, relay.pc # "idle",
           relay'.pc \in Receiving
    PROVE  Mailed' /\ ToGo'
<1>1. Mailed
  BY DEF IInv
<1>2. mailed' = mailed /\ \A i : isReply(i)' <=> isReply(i)
  BY DEF mailed, isReply
<1>3. Mailed'
  BY <1>1, <1>2 DEF Mailed
<1>4. ToGo'
  BY DEF ToGo, Receiving, Sending
<1> QED
  BY <1>3, <1>4

\* And so does a message that is no reply that was passed.
LEMMA AppendStays ==
    ASSUME IInv, NEW m \in Message, messages' = Append(messages, m),
           UNCHANGED <<toLaptop, mailRooms, cursor, base>>,
           relay'.seen = relay.seen, relay'.msgs = relay.msgs,
           relay'.pc = relay.pc \/ (relay.pc \in Receiving /\ relay'.pc \in Receiving),
           m.by = "agent" => m.re \in DOMAIN messages /\ messages[m.re].room = m.room
    PROVE  Mailed' /\ ToGo' /\ mailed' = mailed /\ toRepeat' \subseteq toRepeat
<1>1. TypeOK /\ Mailed /\ ToGo
  BY DEF IInv
<1>2. /\ Len(messages) \in Nat /\ DOMAIN messages = 1..Len(messages)
      /\ Len(messages') = Len(messages) + 1
      /\ DOMAIN messages' = DOMAIN messages \cup {Len(messages) + 1}
      /\ Len(messages) + 1 \notin DOMAIN messages
      /\ \A i \in DOMAIN messages : messages'[i] = messages[i]
      /\ messages'[Len(messages) + 1] = m
  BY <1>1, AppendFacts
<1>3. mailed' = mailed /\ \A i \in mailed : i \in DOMAIN messages
  BY <1>1 DEF mailed, Mailed
<1>t. /\ cursor.seen \in Int /\ relay.seen \in Nat /\ relay.msgs \subseteq Nat /\ base \in Nat
      /\ cursor.seen <= Len(messages) /\ relay.seen <= Len(messages)
  BY <1>1, Types DEF Mailed
<1>4. \A i \in DOMAIN messages : isReply(i)' <=> isReply(i)
  BY <1>1, <1>2 DEF isReply, Mailed
<1>5. Mailed'
  <2>1. cursor'.seen <= Len(messages') /\ relay'.seen <= Len(messages')
    BY <1>2, <1>t
  <2>2. relay'.pc # "idle" /\ cursor'.seen # Absent => relay'.seen = cursor'.seen
    BY <1>1 DEF Mailed, Receiving
  <2>3. \A i \in DOMAIN messages' : messages'[i].by = "agent" =>
           /\ messages'[i].re \in DOMAIN messages'
           /\ messages'[messages'[i].re].room = messages'[i].room
    BY <1>1, <1>2 DEF Mailed
  <2>4. \A i \in mailed' : i \in DOMAIN messages' /\ messages'[i].room \in mailRooms'
    BY <1>1, <1>2, <1>3 DEF Mailed
  <2>5. \A i \in DOMAIN messages' :
           isReply(i)' /\ base' < i /\ (i <= cursor'.seen \/ i <= relay'.seen) => i \in mailed'
    BY <1>1, <1>2, <1>3, <1>4, <1>t DEF Mailed
  <2> QED
    BY <2>1, <2>2, <2>3, <2>4, <2>5 DEF Mailed
<1>6. ToGo'
  <2>1. SUFFICES ASSUME relay'.pc \in Sending PROVE ToGo'
    BY DEF ToGo
  <2>2. relay'.pc = relay.pc
    BY <2>1 DEF Receiving, Sending
  <2>3. \A i \in relay.msgs : i \in DOMAIN messages
    BY <1>1, <2>1, <2>2 DEF ToGo
  <2>4. \A i \in DOMAIN messages' : isReply(i)' =>
           i <= relay.seen \/ i \in relay.msgs \/ \A j \in relay.msgs : j < i
    <3>1. \A j \in relay.msgs : j < Len(messages) + 1
      BY <1>2, <2>3
    <3> QED
      BY <1>1, <1>2, <1>4, <2>1, <2>2, <3>1 DEF ToGo
  <2>5. relay.pc # "next" => first(relay.msgs) \in DOMAIN messages
    <3>1. relay.pc # "next" => relay.msgs # {}
      BY <1>1, <2>1, <2>2 DEF ToGo
    <3> QED
      BY <1>t, <2>3, <3>1, FirstFacts
  <2> QED
    BY <1>1, <1>2, <1>3, <2>1, <2>2, <2>3, <2>4, <2>5 DEF ToGo
<1>7. toRepeat' \subseteq toRepeat
  <2>1. ASSUME NEW i \in mailed, i > seenTo' PROVE i > seenTo
    <3>1. i \in 1..Len(messages)
      BY <1>2, <1>3
    <3>2. CASE relay.pc = "idle" /\ cursor.seen = Absent
      <4>1. relay'.pc = "idle" /\ seenTo' = Len(messages')
        BY <3>2 DEF seenTo, Receiving
      <4> QED
        BY <1>2, <2>1, <3>1, <4>1
    <3>3. CASE ~(relay.pc = "idle" /\ cursor.seen = Absent)
      <4>1. seenTo' = seenTo
        BY <3>3 DEF seenTo, Receiving
      <4> QED
        BY <2>1, <4>1
    <3> QED
      BY <3>2, <3>3
  <2> QED
    BY <1>3, <2>1 DEF toRepeat
<1> QED
  BY <1>3, <1>5, <1>6, <1>7

-----------------------------------------------------------------------------
(* The steps of garage remote chat *)

\* What a laptop's Create may do to the to-host box.
Extended ==
    \E n \in Nat, line \in Line :
        n \notin DOMAIN toHost /\ Below(n, toHost) /\ toHost' = create(toHost, n, line)

\* It adds the next number.
LEMMA MailGrows ==
    ASSUME IInv, toHost' = toHost \/ Extended
    PROVE  /\ DOMAIN toHost' \subseteq Nat /\ toHost' \in [DOMAIN toHost' -> Line]
           /\ DOMAIN toHost \subseteq DOMAIN toHost'
           /\ \A m \in DOMAIN toHost : toHost'[m] = toHost[m]
           /\ \A m \in DOMAIN toHost' : 0..m \subseteq DOMAIN toHost'
           /\ \A m \in DOMAIN toHost', k \in DOMAIN toHost : m \in DOMAIN toHost \/ k < m
<1>1. /\ DOMAIN toHost \subseteq Nat /\ toHost \in [DOMAIN toHost -> Line]
      /\ \A m \in DOMAIN toHost : 0..m \subseteq DOMAIN toHost
  BY DEF IInv, TypeOK, Boxes, BoxesHaveNoGaps
<1>2. CASE toHost' = toHost
  BY <1>1, <1>2
<1>3. CASE Extended
  <2>1. PICK n \in Nat, line \in Line :
            n \notin DOMAIN toHost /\ Below(n, toHost) /\ toHost' = create(toHost, n, line)
    BY <1>3 DEF Extended
  <2>2. /\ DOMAIN toHost' = DOMAIN toHost \cup {n}
        /\ \A m \in DOMAIN toHost : toHost'[m] = toHost[m]
        /\ toHost' \in [DOMAIN toHost' -> Line]
    BY <1>1, <2>1 DEF create
  <2>3. \A m \in DOMAIN toHost' : 0..m \subseteq DOMAIN toHost'
    BY <1>1, <2>1, <2>2, NoNewGap DEF Below
  <2>4. ASSUME NEW k \in DOMAIN toHost PROVE k < n
    <3>1. n \notin 0..k
      BY <1>1, <2>1
    <3> QED
      BY <1>1, <3>1
  <2> QED
    BY <1>1, <2>2, <2>3, <2>4
<1> QED
  BY <1>2, <1>3

\* A step of one laptop.
LEMMA LaptopStep ==
    ASSUME IInv, NEW l \in Laptops,
           UNCHANGED <<toLaptop, messages, mailRooms, cursor, relay, base>>,
           toHost' = toHost \/ Extended,
           laptop' \in [Laptops -> RemoteChat], file' \in [Laptops -> Cursors],
           shown' \in [Laptops -> SUBSET Nat],
           \A k \in Laptops : k # l =>
               laptop'[k] = laptop[k] /\ file'[k] = file[k] /\ shown'[k] = shown[k],
           lines' \in 0..MaxLines, faults' \in 0..MaxFaults, faults <= faults',
           Chatting(l)'
    PROVE  IInv'
<1>1. /\ TypeOK /\ Boxes /\ At /\ Posted /\ InOrder /\ Mailed /\ ToGo
      /\ \A k \in Laptops : Chatting(k)
  BY DEF IInv
<1>g. /\ DOMAIN toHost' \subseteq Nat /\ toHost' \in [DOMAIN toHost' -> Line]
      /\ DOMAIN toHost \subseteq DOMAIN toHost'
      /\ \A m \in DOMAIN toHost : toHost'[m] = toHost[m]
      /\ \A m \in DOMAIN toHost' : 0..m \subseteq DOMAIN toHost'
      /\ \A m \in DOMAIN toHost', k \in DOMAIN toHost : m \in DOMAIN toHost \/ k < m
  BY MailGrows
<1>p. fromMail' = fromMail /\ posted' = posted /\ mailed' = mailed
  BY DEF fromMail, posted, mailed
<1>t. relay.in \in Nat /\ cursor.in \in Nat /\ \A n \in posted : n \in Nat
  BY <1>1, Types
<1>q. posted \subseteq DOMAIN toHost
  BY <1>1 DEF Posted, posted
<1>2. TypeOK'
  BY <1>1, <1>g DEF TypeOK
<1>3. Boxes'
  BY <1>1, <1>g DEF Boxes, BoxesHaveNoGaps, Below
<1>4. ASSUME NEW k \in Laptops PROVE Chatting(k)'
  BY <1>1, <1>g DEF Chatting, Below
<1>5. At'
  BY <1>1, <1>g, <1>p DEF At
<1>6. Posted'
  BY <1>1, <1>g, <1>p DEF Posted
<1>7. InOrder'
  <2>1. SUFFICES ASSUME NEW n \in DOMAIN toHost', toHost'[n].from \in Trusted
                 PROVE  /\ n < cursor.in => n \in posted
                        /\ relay.pc \in Receiving /\ n < relay.in => n < cursor.in
                        /\ \A m \in posted : n < m => n < cursor.in
    BY <1>p DEF InOrder
  <2>2. CASE n \in DOMAIN toHost
    BY <1>1, <1>g, <2>1, <2>2 DEF InOrder
  <2>3. CASE n \notin DOMAIN toHost
    <3>1. n \in Nat /\ n \notin 0..(cursor.in - 1) /\ n \notin 0..(relay.in - 1)
      BY <1>1, <1>g, <2>3 DEF Boxes, Below
    <3>2. ~(n < cursor.in) /\ ~(n < relay.in)
      BY <1>t, <3>1
    <3>3. \A m \in posted : ~(n < m)
      BY <1>g, <1>q, <1>t, <2>3, <3>1
    <3> QED
      BY <3>2, <3>3
  <2> QED
    BY <2>2, <2>3
<1>8. Mailed' /\ ToGo'
  <2>1. \A i : isReply(i)' <=> isReply(i)
    BY DEF isReply
  <2> QED
    BY <1>1, <1>p, <2>1 DEF Mailed, ToGo
<1>9. Finite' /\ Budget'
  <2>1. again' = again /\ toRepeat' = toRepeat
    BY <1>p DEF again, received, toRepeat, seenTo
  <2>2. again \in Nat /\ faults' \in Nat
    BY MailAssumption DEF again
  <2> QED
    BY <1>p, <2>1, <2>2, CountsStay
<1> QED
  BY <1>2, <1>3, <1>4, <1>5, <1>6, <1>7, <1>8, <1>9 DEF IInv

\* The types of what a laptop knows.
LEMMA ChatTypes ==
    ASSUME TypeOK, NEW l \in Laptops
    PROVE  /\ laptop[l] \in RemoteChat /\ laptop[l].cur \in Cursors /\ file[l] \in Cursors
           /\ laptop[l].cur.toHost \in Nat /\ laptop[l].cur.toLaptop \in Nat
           /\ file[l].toHost \in Nat /\ file[l].toLaptop \in Nat
           /\ shown[l] \subseteq Nat /\ lines \in Nat /\ faults \in Nat
           /\ lines \in 0..MaxLines /\ faults \in 0..MaxFaults
<1>1. laptop[l] \in RemoteChat /\ file[l] \in Cursors /\ shown[l] \subseteq Nat
  BY DEF TypeOK
<1>2. laptop[l].cur \in Cursors
  BY <1>1 DEF RemoteChat
<1> QED
  BY <1>1, <1>2, MailAssumption DEF Cursors, TypeOK

\* A laptop in its next state, and the others as they were.
LEMMA ChatUpdate ==
    ASSUME TypeOK, NEW l \in Laptops, NEW c \in RemoteChat, laptop' = [laptop EXCEPT ![l] = c]
    PROVE  /\ laptop' \in [Laptops -> RemoteChat] /\ laptop'[l] = c
           /\ \A k \in Laptops : k # l => laptop'[k] = laptop[k]
  BY DEF TypeOK

\* It goes on, to another place than a send.
LEMMA GoesOn ==
    ASSUME TypeOK, NEW l \in Laptops, NEW pc \in {"rest", "saveSent", "get", "saveRead"},
           laptop' = step(l, pc)
    PROVE  /\ laptop' \in [Laptops -> RemoteChat] /\ laptop'[l].pc = pc
           /\ laptop'[l].cur = laptop[l].cur
           /\ \A k \in Laptops : k # l => laptop'[k] = laptop[k]
<1> DEFINE c == [laptop[l] EXCEPT !.pc = pc]
<1>1. laptop[l] \in RemoteChat
  BY ChatTypes
<1>2. c \in RemoteChat /\ c.pc = pc /\ c.cur = laptop[l].cur
  BY <1>1 DEF RemoteChat
<1>3. laptop' = [laptop EXCEPT ![l] = c]
  BY DEF step, TypeOK
<1> HIDE DEF c
<1> QED
  BY <1>2, <1>3, ChatUpdate

\* A check begins, its Get fails, or its save: the cursors stay.
LEMMA PlainStep ==
    ASSUME IInv, NEW l \in Laptops, check(l) \/ showFails(l) \/ saveFails(l)
    PROVE  IInv'
<1>1. TypeOK /\ Chatting(l)
  BY DEF IInv
<1>2. /\ UNCHANGED <<toHost, toLaptop, messages, mailRooms, cursor, relay, base, file, shown, lines>>
      /\ \E pc \in {"rest", "saveSent", "get", "saveRead"} : laptop' = step(l, pc)
      /\ faults' = faults \/ fault
  BY DEF check, showFails, saveFails, hostVars
<1>3. PICK pc \in {"rest", "saveSent", "get", "saveRead"} : laptop' = step(l, pc)
  BY <1>2
<1>4. /\ laptop' \in [Laptops -> RemoteChat] /\ laptop'[l].pc = pc
      /\ laptop'[l].cur = laptop[l].cur
      /\ \A k \in Laptops : k # l => laptop'[k] = laptop[k]
  BY <1>1, <1>3, GoesOn
<1>5. Chatting(l)'
  BY <1>1, <1>2, <1>4 DEF Chatting, Below
<1>6. /\ file' \in [Laptops -> Cursors] /\ shown' \in [Laptops -> SUBSET Nat]
      /\ lines' \in 0..MaxLines
  BY <1>1, <1>2 DEF TypeOK
<1>7. faults' \in 0..MaxFaults /\ faults <= faults'
  BY <1>1, <1>2, ChatTypes, MailAssumption DEF fault
<1> QED
  BY <1>2, <1>4, <1>5, <1>6, <1>7, LaptopStep

\* The cursors file is written.
LEMMA SaveStep ==
    ASSUME IInv, NEW l \in Laptops, save(l)
    PROVE  IInv'
<1>1. TypeOK /\ Chatting(l) /\ laptop[l].cur \in Cursors
  BY ChatTypes DEF IInv
<1>2. /\ UNCHANGED <<toHost, toLaptop, messages, mailRooms, cursor, relay, base, shown, lines, faults>>
      /\ laptop' = step(l, "rest") /\ file' = [file EXCEPT ![l] = laptop[l].cur]
  BY DEF save, hostVars
<1>4. /\ laptop' \in [Laptops -> RemoteChat] /\ laptop'[l].pc = "rest"
      /\ laptop'[l].cur = laptop[l].cur
      /\ \A k \in Laptops : k # l => laptop'[k] = laptop[k]
  BY <1>1, <1>2, GoesOn
<1>5. /\ file' \in [Laptops -> Cursors] /\ file'[l] = laptop[l].cur
      /\ \A k \in Laptops : k # l => file'[k] = file[k]
  BY <1>1, <1>2 DEF TypeOK
<1>6. Chatting(l)'
  BY <1>1, <1>2, <1>4, <1>5 DEF Chatting, Below
<1>7. /\ shown' \in [Laptops -> SUBSET Nat] /\ lines' \in 0..MaxLines
      /\ faults' \in 0..MaxFaults /\ faults <= faults'
  BY <1>1, <1>2, ChatTypes DEF TypeOK
<1> QED
  BY <1>2, <1>4, <1>5, <1>6, <1>7, LaptopStep

\* A line is typed.
LEMMA TypeLineStep ==
    ASSUME IInv, NEW l \in Laptops, NEW r \in Rooms, typeLine(l, r)
    PROVE  IInv'
<1> DEFINE n == lines + 1
           line == [from |-> l, room |-> r, n |-> n]
           c == [laptop[l] EXCEPT !.pc = "send", !.line = line]
<1>1. TypeOK /\ Chatting(l) /\ laptop[l] \in RemoteChat /\ lines \in Nat
  BY ChatTypes DEF IInv
<1>2. /\ UNCHANGED <<toHost, toLaptop, messages, mailRooms, cursor, relay, base, file, shown, faults>>
      /\ laptop' = [laptop EXCEPT ![l] = c] /\ lines' = n /\ lines < MaxLines
  BY DEF typeLine, hostVars
<1>3. n \in 1..MaxLines
  BY <1>1, <1>2, MailAssumption
<1> HIDE DEF n
<1>4. line \in Line
  BY <1>3 DEF Line
<1> HIDE DEF line
<1>5. c \in RemoteChat /\ c.pc = "send" /\ c.line = line /\ c.cur = laptop[l].cur
  BY <1>1, <1>4 DEF RemoteChat
<1> HIDE DEF c
<1>6. /\ laptop' \in [Laptops -> RemoteChat] /\ laptop'[l] = c
      /\ \A k \in Laptops : k # l => laptop'[k] = laptop[k]
  BY <1>1, <1>2, <1>5, ChatUpdate
<1>7. Chatting(l)'
  BY <1>1, <1>2, <1>4, <1>5, <1>6 DEF Chatting, Below
<1>8. /\ file' \in [Laptops -> Cursors] /\ shown' \in [Laptops -> SUBSET Nat]
      /\ lines' \in 0..MaxLines /\ faults' \in 0..MaxFaults /\ faults <= faults'
  BY <1>1, <1>2, <1>3, ChatTypes, MailAssumption DEF TypeOK
<1> QED
  BY <1>2, <1>6, <1>7, <1>8, LaptopStep

\* A line is sent at the first number that may be free, or the next one is tried.
LEMMA SendLineStep ==
    ASSUME IInv, NEW l \in Laptops, sendLine(l)
    PROVE  IInv'
<1> DEFINE n == laptop[l].cur.toHost
           cur == [laptop[l].cur EXCEPT !.toHost = n + 1]
           tried == [laptop[l] EXCEPT !.cur = cur]
           sent == [laptop[l] EXCEPT !.pc = "saveSent", !.cur = cur, !.line = None]
<1>1. /\ TypeOK /\ Chatting(l) /\ laptop[l] \in RemoteChat /\ laptop[l].cur \in Cursors
      /\ n \in Nat /\ laptop[l].line \in Line /\ Below(n, toHost)
  BY ChatTypes DEF IInv, sendLine, Chatting
<1>2. /\ UNCHANGED <<toLaptop, messages, mailRooms, cursor, relay, base, file, shown, lines, faults>>
      /\ \/ n \in DOMAIN toHost /\ laptop' = [laptop EXCEPT ![l] = tried] /\ toHost' = toHost
         \/ /\ n \notin DOMAIN toHost /\ laptop' = [laptop EXCEPT ![l] = sent]
            /\ toHost' = create(toHost, n, laptop[l].line)
  BY <1>1 DEF sendLine, hostVars, TypeOK
<1> HIDE DEF n
<1>3. cur \in Cursors /\ cur.toHost = n + 1 /\ cur.toLaptop = laptop[l].cur.toLaptop
  BY <1>1 DEF Cursors
<1> HIDE DEF cur
<1>4. /\ tried \in RemoteChat /\ tried.cur = cur /\ tried.pc = laptop[l].pc
      /\ tried.line = laptop[l].line
      /\ sent \in RemoteChat /\ sent.cur = cur /\ sent.pc = "saveSent"
  BY <1>1, <1>3 DEF RemoteChat
<1> HIDE DEF tried, sent
<1>5. toHost' = toHost \/ Extended
  BY <1>1, <1>2 DEF Extended
<1>6. DOMAIN toHost \subseteq DOMAIN toHost' /\ n \in DOMAIN toHost'
  BY <1>2, <1>5, MailGrows DEF create
<1>7. Below(n + 1, toHost') /\ Below(file[l].toHost, toHost')
  <2>1. Below(n, toHost') /\ Below(file[l].toHost, toHost')
    BY <1>1, <1>6 DEF Below, Chatting
  <2> QED
    BY <1>1, <1>6, <2>1, BelowNext
<1>8. PICK c \in {tried, sent} : laptop' = [laptop EXCEPT ![l] = c]
  BY <1>2
<1>9. /\ laptop' \in [Laptops -> RemoteChat] /\ laptop'[l] = c
      /\ \A k \in Laptops : k # l => laptop'[k] = laptop[k]
  BY <1>1, <1>4, <1>8, ChatUpdate
<1>10. Chatting(l)'
  BY <1>1, <1>2, <1>3, <1>4, <1>7, <1>9 DEF Chatting
<1>11. /\ file' \in [Laptops -> Cursors] /\ shown' \in [Laptops -> SUBSET Nat]
       /\ lines' \in 0..MaxLines /\ faults' \in 0..MaxFaults /\ faults <= faults'
  BY <1>1, <1>2, ChatTypes DEF TypeOK
<1> QED
  BY <1>2, <1>5, <1>9, <1>10, <1>11, LaptopStep

\* The next reply is printed, or there is none.
LEMMA ShowMailStep ==
    ASSUME IInv, NEW l \in Laptops, showMail(l)
    PROVE  IInv'
<1> DEFINE n == laptop[l].cur.toLaptop
           cur == [laptop[l].cur EXCEPT !.toLaptop = n + 1]
           c == [laptop[l] EXCEPT !.cur = cur]
<1>1. /\ TypeOK /\ Chatting(l) /\ laptop[l] \in RemoteChat /\ laptop[l].cur \in Cursors
      /\ n \in Nat /\ laptop[l].pc = "get" /\ shown[l] \subseteq Nat
  BY ChatTypes DEF IInv, showMail
<1>2. /\ UNCHANGED <<toHost, toLaptop, messages, mailRooms, cursor, relay, base, file, lines, faults>>
      /\ \/ laptop' = step(l, "saveRead") /\ shown' = shown
         \/ /\ laptop' = [laptop EXCEPT ![l] = c]
            /\ shown' = [shown EXCEPT ![l] = shown[l] \cup {n}]
  BY <1>1 DEF showMail, hostVars, TypeOK
<1>3. /\ file' \in [Laptops -> Cursors]
      /\ lines' \in 0..MaxLines /\ faults' \in 0..MaxFaults /\ faults <= faults'
  BY <1>1, <1>2, ChatTypes DEF TypeOK
<1>4. CASE laptop' = step(l, "saveRead") /\ shown' = shown
  <2>1. /\ laptop' \in [Laptops -> RemoteChat] /\ laptop'[l].pc = "saveRead"
        /\ laptop'[l].cur = laptop[l].cur
        /\ \A k \in Laptops : k # l => laptop'[k] = laptop[k]
    BY <1>1, <1>4, GoesOn
  <2>2. Chatting(l)'
    BY <1>1, <1>2, <1>4, <2>1 DEF Chatting, Below
  <2>3. shown' \in [Laptops -> SUBSET Nat]
    BY <1>1, <1>4 DEF TypeOK
  <2> QED
    BY <1>2, <1>3, <1>4, <2>1, <2>2, <2>3, LaptopStep
<1>5. CASE /\ laptop' = [laptop EXCEPT ![l] = c]
           /\ shown' = [shown EXCEPT ![l] = shown[l] \cup {n}]
  <2> HIDE DEF n
  <2>1. cur \in Cursors /\ cur.toLaptop = n + 1 /\ cur.toHost = laptop[l].cur.toHost
    BY <1>1 DEF Cursors
  <2> HIDE DEF cur
  <2>2. c \in RemoteChat /\ c.cur = cur /\ c.pc = "get"
    BY <1>1, <2>1 DEF RemoteChat
  <2> HIDE DEF c
  <2>3. /\ laptop' \in [Laptops -> RemoteChat] /\ laptop'[l] = c
        /\ \A k \in Laptops : k # l => laptop'[k] = laptop[k]
    BY <1>1, <1>5, <2>2, ChatUpdate
  <2>4. /\ shown' \in [Laptops -> SUBSET Nat] /\ shown'[l] = shown[l] \cup {n}
        /\ \A k \in Laptops : k # l => shown'[k] = shown[k]
    BY <1>1, <1>5 DEF TypeOK
  <2>5. 0..(n + 1 - 1) \subseteq shown'[l] /\ 0..(file[l].toLaptop - 1) \subseteq shown'[l]
    <3>1. 0..(n - 1) \subseteq shown[l] /\ 0..(file[l].toLaptop - 1) \subseteq shown[l]
      BY <1>1 DEF Chatting, n
    <3>2. \A k \in 0..(n + 1 - 1) : k \in 0..(n - 1) \/ k = n
      BY <1>1
    <3> QED
      BY <2>4, <3>1, <3>2
  <2>6. Chatting(l)'
    BY <1>1, <1>2, <2>1, <2>2, <2>3, <2>5 DEF Chatting, Below
  <2> QED
    BY <1>2, <1>3, <2>3, <2>4, <2>6, LaptopStep
<1> QED
  BY <1>2, <1>4, <1>5

\* The command is started again from its file, its line sent or not.
LEMMA RestartStep ==
    ASSUME IInv, NEW l \in Laptops, restart(l)
    PROVE  IInv'
<1> DEFINE n == laptop[l].cur.toHost
           c == [pc |-> "rest", cur |-> file[l], line |-> None]
<1>1. /\ TypeOK /\ Chatting(l) /\ file[l] \in Cursors /\ n \in Nat
  BY ChatTypes DEF IInv
<1>2. /\ UNCHANGED <<toLaptop, messages, mailRooms, cursor, relay, base, file, shown, lines>>
      /\ laptop' = [laptop EXCEPT ![l] = c] /\ fault
      /\ \/ toHost' = toHost
         \/ /\ laptop[l].pc = "send" /\ n \notin DOMAIN toHost
            /\ toHost' = create(toHost, n, laptop[l].line)
  BY DEF restart, hostVars
<1>3. toHost' = toHost \/ Extended
  BY <1>1, <1>2 DEF Extended, Chatting
<1>4. DOMAIN toHost \subseteq DOMAIN toHost'
  BY <1>3, MailGrows
<1>5. c \in RemoteChat /\ c.pc = "rest" /\ c.cur = file[l]
  BY <1>1 DEF RemoteChat
<1> HIDE DEF c, n
<1>6. /\ laptop' \in [Laptops -> RemoteChat] /\ laptop'[l] = c
      /\ \A k \in Laptops : k # l => laptop'[k] = laptop[k]
  BY <1>1, <1>2, <1>5, ChatUpdate
<1>7. Chatting(l)'
  BY <1>1, <1>2, <1>4, <1>5, <1>6 DEF Chatting, Below
<1>8. /\ file' \in [Laptops -> Cursors] /\ shown' \in [Laptops -> SUBSET Nat]
      /\ lines' \in 0..MaxLines
  BY <1>1, <1>2 DEF TypeOK
<1>9. faults' \in 0..MaxFaults /\ faults <= faults'
  BY <1>1, <1>2, ChatTypes, MailAssumption DEF fault
<1> QED
  BY <1>2, <1>3, <1>6, <1>7, <1>8, <1>9, LaptopStep

\* The file is lost.
LEMMA LoseFileStep ==
    ASSUME IInv, NEW l \in Laptops, loseFile(l)
    PROVE  IInv'
<1> DEFINE zero == [toHost |-> 0, toLaptop |-> 0]
           c == [laptop[l] EXCEPT !.cur = zero]
<1>1. TypeOK /\ laptop[l] \in RemoteChat /\ laptop[l].pc = "rest"
  BY ChatTypes DEF IInv, loseFile
<1>2. /\ UNCHANGED <<toHost, toLaptop, messages, mailRooms, cursor, relay, base, shown, lines>>
      /\ laptop' = [laptop EXCEPT ![l] = c] /\ file' = [file EXCEPT ![l] = zero] /\ fault
  BY <1>1 DEF loseFile, hostVars, TypeOK
<1>3. zero \in Cursors /\ zero.toHost = 0 /\ zero.toLaptop = 0
  BY DEF Cursors
<1> HIDE DEF zero
<1>4. c \in RemoteChat /\ c.pc = "rest" /\ c.cur = zero
  BY <1>1, <1>3 DEF RemoteChat
<1> HIDE DEF c
<1>5. /\ laptop' \in [Laptops -> RemoteChat] /\ laptop'[l] = c
      /\ \A k \in Laptops : k # l => laptop'[k] = laptop[k]
  BY <1>1, <1>2, <1>4, ChatUpdate
<1>6. /\ file' \in [Laptops -> Cursors] /\ file'[l] = zero
      /\ \A k \in Laptops : k # l => file'[k] = file[k]
  BY <1>1, <1>2, <1>3 DEF TypeOK
<1>7. Chatting(l)'
  BY <1>3, <1>4, <1>5, <1>6 DEF Chatting, Below
<1>8. shown' \in [Laptops -> SUBSET Nat] /\ lines' \in 0..MaxLines
  BY <1>1, <1>2 DEF TypeOK
<1>9. faults' \in 0..MaxFaults /\ faults <= faults'
  BY <1>1, <1>2, ChatTypes, MailAssumption DEF fault
<1> QED
  BY <1>2, <1>5, <1>6, <1>7, <1>8, <1>9, LaptopStep

-----------------------------------------------------------------------------
(* The rooms on the host *)

\* An agent or a person posts.
LEMMA PostStep ==
    ASSUME IInv, NEW m \in Message, messages' = Append(messages, m), m.by # "laptop",
           UNCHANGED <<toHost, toLaptop, mailRooms, cursor, relay, base, laptopVars, faults>>,
           m.by = "agent" => m.re \in DOMAIN messages /\ messages[m.re].room = m.room
    PROVE  IInv'
<1>1. TypeOK /\ Boxes /\ At /\ Posted /\ InOrder /\ \A l \in Laptops : Chatting(l)
  BY DEF IInv
<1>2. /\ messages' \in Seq(Message)
      /\ DOMAIN messages' = DOMAIN messages \cup {Len(messages) + 1}
      /\ \A i \in DOMAIN messages : messages'[i] = messages[i]
      /\ messages'[Len(messages) + 1] = m
  BY <1>1, AppendFacts
<1>3. fromMail' = fromMail
  BY <1>2 DEF fromMail
<1>4. \A i \in fromMail : messages'[i] = messages[i]
  BY <1>2 DEF fromMail
<1>5. posted' = posted
  BY <1>3, <1>4 DEF posted
<1>6. TypeOK' /\ Boxes' /\ \A l \in Laptops : Chatting(l)'
  BY <1>1, <1>2 DEF TypeOK, Boxes, BoxesHaveNoGaps, Below, Chatting, laptopVars
<1>7. At' /\ Posted' /\ InOrder'
  BY <1>1, <1>3, <1>4, <1>5 DEF At, Posted, InOrder
<1>8. Mailed' /\ ToGo' /\ mailed' = mailed /\ toRepeat' \subseteq toRepeat
  BY AppendStays
<1>9. Finite' /\ Budget'
  <2>1. again' = again /\ again \in Nat
    BY <1>5 DEF again, received
  <2>2. faults' \in Nat /\ faults <= faults'
    BY <1>1, MailAssumption DEF TypeOK
  <2> QED
    BY <1>3, <1>5, <1>8, <2>1, <2>2, CountsStay
<1> QED
  BY <1>6, <1>7, <1>8, <1>9 DEF IInv

\* An agent posts, which takes a new number and moves no cursor.
LEMMA AgentAnswersStep ==
    ASSUME IInv, NEW i \in DOMAIN messages, agentAnswers(i)
    PROVE  IInv'
<1> DEFINE m == [room |-> messages[i].room, by |-> "agent", re |-> i]
<1>1. TypeOK /\ i \in Nat /\ messages[i] \in Message
  BY Types DEF IInv
<1>2. m \in Message /\ m.by = "agent" /\ m.re = i /\ m.room = messages[i].room
  BY <1>1 DEF Message
<1>3. /\ messages' = Append(messages, m)
      /\ UNCHANGED <<toHost, toLaptop, mailRooms, cursor, relay, base, laptopVars, faults>>
  BY DEF agentAnswers
<1> HIDE DEF m
<1> QED
  BY <1>2, <1>3, PostStep

\* A person posts in the garage itself.
LEMMA HumanPostsStep ==
    ASSUME IInv, NEW r \in Rooms, humanPosts(r)
    PROVE  IInv'
<1> DEFINE m == [room |-> r, by |-> "human", re |-> 0]
<1>2. m \in Message /\ m.by = "human"
  BY DEF Message
<1>3. /\ messages' = Append(messages, m)
      /\ UNCHANGED <<toHost, toLaptop, mailRooms, cursor, relay, base, laptopVars, faults>>
  BY DEF humanPosts
<1> HIDE DEF m
<1> QED
  BY <1>2, <1>3, PostStep

-----------------------------------------------------------------------------
(* The first half of a pass *)

\* A step of it that posts nothing owes no more than before.
LEMMA ReceivingCounts ==
    ASSUME IInv, UNCHANGED <<messages, toLaptop, faults>>, cursor'.seen = cursor.seen,
           relay'.seen = relay.seen, relay.pc \in Receiving, relay'.pc \in Receiving,
           received \in Nat, received' \in Nat, received <= received'
    PROVE  Finite' /\ Budget'
<1>1. TypeOK
  BY DEF IInv
<1>2. fromMail' = fromMail /\ posted' = posted /\ mailed' = mailed
  BY DEF fromMail, posted, mailed
<1>3. \A n \in posted : n \in Nat
  BY <1>1, Types
<1>4. again' <= again
  BY <1>2, <1>3 DEF again
<1>5. seenTo' = seenTo
  BY DEF seenTo, Receiving
<1>6. toRepeat' \subseteq toRepeat
  BY <1>2, <1>5 DEF toRepeat
<1>7. faults' \in Nat /\ faults <= faults'
  BY <1>1, MailAssumption DEF TypeOK
<1> QED
  BY <1>2, <1>4, <1>6, <1>7, CountsStay

\* A pass begins.
LEMMA RelayMailStep ==
    ASSUME IInv, RelayMail
    PROVE  IInv'
<1> DEFINE seen == IF cursor.seen = Absent THEN Len(messages) ELSE cursor.seen
           x == [Idle EXCEPT !.pc = "get", !.seen = seen, !.in = cursor.in]
<1>1. /\ TypeOK /\ Boxes /\ At /\ Posted /\ InOrder /\ Mailed
      /\ \A l \in Laptops : Chatting(l)
  BY DEF IInv
<1>2. /\ UNCHANGED <<toHost, toLaptop, messages, mailRooms, cursor, laptopVars, faults>>
      /\ relay.pc = "idle" /\ relay' = x
      /\ base' = IF cursor.seen = Absent THEN seen ELSE base
  BY DEF RelayMail
<1>t. /\ cursor.in \in Nat /\ cursor.seen \in Nat \cup {Absent} /\ Len(messages) \in Nat
      /\ base \in Nat /\ cursor.seen \in Int /\ DOMAIN messages = 1..Len(messages)
      /\ \A n \in posted : n \in Nat
  BY <1>1, Types
<1>s. /\ seen \in Nat /\ seen <= Len(messages) /\ base' \in Nat
      /\ cursor.seen = Absent => seen = Len(messages) /\ base' = seen
      /\ cursor.seen # Absent => seen = cursor.seen /\ base' = base
  BY <1>1, <1>2, <1>t DEF Mailed
<1> HIDE DEF seen
<1>3. x \in Pass /\ x.pc = "get" /\ x.seen = seen /\ x.in = cursor.in /\ x.out = 0
  BY <1>s, <1>t DEF Pass, Idle
<1> HIDE DEF x
<1>p. fromMail' = fromMail /\ posted' = posted /\ mailed' = mailed /\ \A i : isReply(i)' <=> isReply(i)
  BY <1>2 DEF fromMail, posted, mailed, isReply
<1>4. TypeOK'
  BY <1>1, <1>2, <1>3, <1>s DEF TypeOK, laptopVars
<1>5. Boxes' /\ \A l \in Laptops : Chatting(l)'
  <2>1. Below(0, toLaptop)
    BY BelowZero
  <2> QED
    BY <1>1, <1>2, <1>3, <2>1 DEF Boxes, BoxesHaveNoGaps, Below, Chatting, laptopVars
<1>6. At' /\ Posted' /\ InOrder'
  BY <1>1, <1>2, <1>3, <1>p, <1>t DEF At, Posted, InOrder, Receiving
<1>7. Mailed'
  <2>1. \A i \in DOMAIN messages :
           isReply(i) /\ base' < i /\ (i <= cursor.seen \/ i <= seen) => i \in mailed
    <3>1. CASE cursor.seen = Absent
      BY <1>s, <1>t, <3>1 DEF Absent
    <3>2. CASE cursor.seen # Absent
      BY <1>1, <1>s, <1>t, <3>2 DEF Mailed
    <3> QED
      BY <3>1, <3>2
  <2> QED
    BY <1>1, <1>2, <1>3, <1>p, <1>s, <2>1 DEF Mailed
<1>8. ToGo'
  BY <1>2, <1>3 DEF ToGo, Sending
<1>9. Finite' /\ Budget'
  <2>1. again' = again /\ again \in Nat
    BY <1>2, <1>3, <1>p DEF again, received, Receiving
  <2>2. seenTo' = seenTo
    BY <1>2, <1>3 DEF seenTo, seen
  <2>3. toRepeat' = toRepeat
    BY <1>p, <2>2 DEF toRepeat
  <2>4. faults' \in Nat /\ faults <= faults'
    BY <1>1, <1>2, MailAssumption DEF TypeOK
  <2> QED
    BY <1>2, <1>p, <2>1, <2>3, <2>4, CountsStay
<1> QED
  BY <1>4, <1>5, <1>6, <1>7, <1>8, <1>9 DEF IInv

\* The next mail: there is none, it is skipped, or it is to be posted.
LEMMA ReceiveStep ==
    ASSUME IInv, receive
    PROVE  IInv'
<1> DEFINE n == relay.in
<1>1. /\ TypeOK /\ Boxes /\ At /\ Posted /\ InOrder /\ Mailed
      /\ \A l \in Laptops : Chatting(l)
  BY DEF IInv
<1>2. /\ UNCHANGED <<toHost, toLaptop, messages, mailRooms, cursor, base, laptopVars, faults>>
      /\ relay.pc = "get"
      /\ relay' = IF n \notin DOMAIN toHost THEN [relay EXCEPT !.pc = "query"]
                  ELSE IF toHost[n].from \notin Trusted THEN [relay EXCEPT !.in = n + 1]
                  ELSE [relay EXCEPT !.pc = "post"]
  BY DEF receive
<1>t. /\ relay \in Pass /\ n \in Nat /\ cursor.in \in Nat
      /\ \A k \in posted : k \in Nat
      /\ \A k \in DOMAIN toHost : k \in Nat
  BY <1>1, Types DEF TypeOK
<1>3. /\ relay' \in Pass /\ relay'.seen = relay.seen /\ relay'.out = relay.out
      /\ \/ relay'.pc = "query" /\ relay'.in = n /\ n \notin DOMAIN toHost
         \/ relay'.pc = "get" /\ relay'.in = n + 1 /\ n \in DOMAIN toHost /\ toHost[n].from \notin Trusted
         \/ relay'.pc = "post" /\ relay'.in = n /\ n \in DOMAIN toHost /\ toHost[n].from \in Trusted
  <2>1. n + 1 \in Nat
    BY <1>t
  <2> QED
    BY <1>2, <1>t, <2>1 DEF Pass
<1>p. fromMail' = fromMail /\ posted' = posted /\ posted \subseteq DOMAIN toHost
  BY <1>1, <1>2 DEF fromMail, posted, Posted
<1> HIDE DEF n
<1>4. TypeOK'
  BY <1>1, <1>2, <1>3 DEF TypeOK, laptopVars
<1>5. Boxes' /\ \A l \in Laptops : Chatting(l)'
  <2>1. Below(n, toHost) /\ (n \in DOMAIN toHost => Below(n + 1, toHost))
    BY <1>1, <1>t, BelowNext DEF Boxes, n
  <2>2. Below(relay'.in, toHost')
    BY <1>2, <1>3, <2>1
  <2>3. Boxes'
    BY <1>1, <1>2, <1>3, <2>2 DEF Boxes, BoxesHaveNoGaps, Below
  <2> QED
    BY <1>1, <1>2, <2>3 DEF Chatting, Below, laptopVars
<1>6. At'
  <2>1. n \notin DOMAIN toHost => \A k \in posted : k < n
    <3>1. \A k \in posted : n \notin DOMAIN toHost => n \notin 0..k
      BY <1>1, <1>p DEF Boxes, BoxesHaveNoGaps
    <3> QED
      BY <1>t, <3>1
  <2>2. cursor.in <= n
    BY <1>1, <1>2 DEF At, Receiving, n
  <2>3. cursor.in <= relay'.in
    BY <1>3, <1>t, <2>2
  <2> QED
    BY <1>2, <1>3, <1>p, <2>1, <2>3 DEF At
<1>7. Posted'
  <2>1. ASSUME NEW i \in fromMail
        PROVE  LET k == messages[i].re IN
               /\ k \in DOMAIN toHost /\ toHost[k].from \in Trusted
               /\ messages[i].room = toHost[k].room
               /\ messages[i].room \in mailRooms \/ (k >= cursor.in /\ k >= relay'.in)
    <3> DEFINE k == messages[i].re
    <3>1. /\ k \in DOMAIN toHost /\ toHost[k].from \in Trusted
          /\ messages[i].room = toHost[k].room
          /\ messages[i].room \in mailRooms \/ (k >= cursor.in /\ k >= n)
      BY <1>1, <1>2 DEF Posted, Receiving, n
    <3> HIDE DEF k
    <3>2. k >= n => k >= relay'.in
      BY <1>3, <1>t, <3>1
    <3> QED
      BY <3>1, <3>2 DEF k
  <2> QED
    BY <1>2, <1>p, <2>1 DEF Posted
<1>8. InOrder'
  <2>1. ASSUME NEW k \in DOMAIN toHost, toHost[k].from \in Trusted, k < relay'.in
        PROVE  k < cursor.in
    <3>1. k < n
      BY <1>3, <1>t, <2>1
    <3> QED
      BY <1>1, <1>2, <2>1, <3>1 DEF InOrder, Receiving, n
  <2> QED
    BY <1>1, <1>2, <1>p, <2>1 DEF InOrder
<1>9. Mailed' /\ ToGo'
  BY <1>2, <1>3, OutStays DEF Receiving
<1>10. Finite' /\ Budget'
  <2>1. received = n /\ received' = relay'.in
    BY <1>2, <1>3 DEF received, Receiving, n
  <2> QED
    BY <1>2, <1>3, <1>t, <2>1, ReceivingCounts DEF Receiving
<1> QED
  BY <1>4, <1>5, <1>6, <1>7, <1>8, <1>9, <1>10 DEF IInv

\* It is posted.  What is posted a second time was owed.
LEMMA PostMailStep ==
    ASSUME IInv, postMail
    PROVE  IInv'
<1> DEFINE n == relay.in
           m == [room |-> toHost[n].room, by |-> "laptop", re |-> n]
           k == Len(messages) + 1
           x == [relay EXCEPT !.pc = "room"]
<1>1. /\ TypeOK /\ Boxes /\ At /\ Posted /\ InOrder /\ Finite /\ Budget
      /\ \A l \in Laptops : Chatting(l)
  BY DEF IInv
<1>2. /\ UNCHANGED <<toHost, toLaptop, mailRooms, cursor, base, laptopVars, faults>>
      /\ relay.pc = "post" /\ messages' = Append(messages, m) /\ relay' = x
  BY DEF postMail
<1>t. /\ relay \in Pass /\ n \in Nat /\ cursor.in \in Nat /\ n \in DOMAIN toHost
      /\ toHost[n].from \in Trusted /\ toHost[n] \in Line
      /\ \A j \in posted : j \in Nat
      /\ \A j \in DOMAIN toHost : j \in Nat
  BY <1>1, <1>2, Types DEF TypeOK, At
<1>3. /\ m \in Message /\ m.by = "laptop" /\ m.re = n /\ m.room = toHost[n].room
  BY <1>t DEF Message, Line
<1> HIDE DEF n, m
<1>4. /\ x \in Pass /\ x.pc = "room" /\ x.in = n /\ x.seen = relay.seen /\ x.out = relay.out
      /\ x.msgs = relay.msgs
  BY <1>t DEF Pass, n
<1> HIDE DEF x
<1>5. /\ messages' \in Seq(Message) /\ DOMAIN messages' = DOMAIN messages \cup {k}
      /\ k \notin DOMAIN messages
      /\ \A i \in DOMAIN messages : messages'[i] = messages[i]
      /\ messages'[k] = m
  BY <1>1, <1>2, <1>3, AppendFacts
<1> HIDE DEF k
<1>6. /\ fromMail' = fromMail \cup {k} /\ k \notin fromMail
      /\ \A i \in fromMail : messages'[i] = messages[i]
  BY <1>3, <1>5 DEF fromMail
<1>7. posted' = posted \cup {n}
  BY <1>3, <1>5, <1>6 DEF posted
<1>o. \A j \in posted : j <= n
  <2>1. cursor.in <= n
    BY <1>1, <1>2 DEF At, Receiving, n
  <2>2. \A j \in posted : n < j => n < cursor.in
    BY <1>1, <1>t DEF InOrder
  <2> QED
    BY <1>t, <2>1, <2>2
<1>8. TypeOK' /\ Boxes' /\ \A l \in Laptops : Chatting(l)'
  <2>1. TypeOK'
    BY <1>1, <1>2, <1>4, <1>5 DEF TypeOK, laptopVars
  <2>2. Boxes'
    BY <1>1, <1>2, <1>4 DEF Boxes, BoxesHaveNoGaps, Below, n
  <2> QED
    BY <1>1, <1>2, <2>1, <2>2 DEF Chatting, Below, laptopVars
<1>9. At'
  BY <1>1, <1>2, <1>4, <1>7, <1>t DEF At, Receiving, n
<1>10. Posted'
  <2>1. ASSUME NEW i \in fromMail
        PROVE  LET j == messages[i].re IN
               /\ j \in DOMAIN toHost /\ toHost[j].from \in Trusted
               /\ messages[i].room = toHost[j].room
               /\ messages[i].room \in mailRooms \/ (j >= cursor.in /\ j >= n)
    BY <1>1, <1>2 DEF Posted, Receiving, n
  <2>2. n >= cursor.in /\ n >= n
    BY <1>1, <1>2, <1>t DEF At, Receiving, n
  <2>3. ASSUME NEW i \in fromMail'
        PROVE  LET j == messages'[i].re IN
               /\ j \in DOMAIN toHost /\ toHost[j].from \in Trusted
               /\ messages'[i].room = toHost[j].room
               /\ messages'[i].room \in mailRooms \/ (j >= cursor.in /\ j >= n)
    <3>1. CASE i = k
      BY <1>3, <1>5, <1>t, <2>2, <3>1
    <3>2. CASE i \in fromMail
      BY <1>6, <2>1, <3>2
    <3> QED
      BY <1>6, <3>1, <3>2
  <2> QED
    BY <1>2, <1>4, <2>3 DEF Posted
<1>11. InOrder'
  <2>1. ASSUME NEW j \in DOMAIN toHost, toHost[j].from \in Trusted, j < n PROVE j < cursor.in
    BY <1>1, <1>2, <2>1 DEF InOrder, Receiving, n
  <2> QED
    BY <1>1, <1>2, <1>4, <1>7, <2>1 DEF InOrder, Receiving
<1>12. Mailed' /\ ToGo' /\ mailed' = mailed /\ toRepeat' \subseteq toRepeat
  BY <1>2, <1>3, <1>4, AppendStays DEF Receiving
<1>13. Finite' /\ Budget'
  <2>1. /\ IsFiniteSet(fromMail') /\ Cardinality(fromMail') = Cardinality(fromMail) + 1
    BY <1>1, <1>6, FS_AddElement DEF Finite
  <2>2. /\ IsFiniteSet(posted')
        /\ Cardinality(posted') = IF n \in posted THEN Cardinality(posted) ELSE Cardinality(posted) + 1
    BY <1>1, <1>7, FS_AddElement DEF Finite
  <2>3. Finite'
    BY <1>1, <1>2, <1>12, <2>1, <2>2 DEF Finite
  <2>4. IsFiniteSet(toRepeat)
    <3>1. toRepeat \in SUBSET mailed
      BY DEF toRepeat
    <3> QED
      BY <1>1, <3>1, FS_Subset DEF Finite
  <2>5. IsFiniteSet(toRepeat') /\ Cardinality(toRepeat') <= Cardinality(toRepeat)
    <3>1. toRepeat' \in SUBSET toRepeat
      BY <1>12
    <3> QED
      BY <2>4, <3>1, FS_Subset
  <2>6. /\ Cardinality(fromMail) \in Nat /\ Cardinality(posted) \in Nat
        /\ Cardinality(DOMAIN toLaptop) \in Nat /\ Cardinality(mailed) \in Nat
        /\ Cardinality(toRepeat) \in Nat /\ Cardinality(toRepeat') \in Nat /\ faults \in Nat
    BY <1>1, <2>4, <2>5, FS_CardinalityType, MailAssumption DEF Finite, TypeOK
  <2>7. again' = 0
    <3>1. received' = n + 1
      BY <1>2, <1>4 DEF received
    <3>2. \A j \in posted' : ~(received' <= j)
      BY <1>7, <1>o, <1>t, <3>1
    <3> QED
      BY <3>2 DEF again
  <2>8. again \in Nat /\ (n \in posted => again = 1)
    <3>1. received = n
      BY <1>2 DEF received, Receiving, n
    <3>2. n <= n
      BY <1>t
    <3> QED
      BY <3>1, <3>2 DEF again
  <2>9. Budget'
    <3>1. Cardinality(fromMail') - Cardinality(posted')
             <= Cardinality(fromMail) - Cardinality(posted) + again
      BY <2>1, <2>2, <2>6, <2>8
    <3>2. Cardinality(posted') \in Nat /\ Cardinality(fromMail') \in Nat
      BY <2>1, <2>2, FS_CardinalityType
    <3>3. /\ Cardinality(DOMAIN toLaptop') = Cardinality(DOMAIN toLaptop)
          /\ Cardinality(mailed') = Cardinality(mailed) /\ faults' = faults
      BY <1>2, <1>12
    <3> QED
      BY <1>1, <2>5, <2>6, <2>7, <2>8, <3>1, <3>2, <3>3 DEF Budget
  <2> QED
    BY <2>3, <2>9
<1> QED
  BY <1>8, <1>9, <1>10, <1>11, <1>12, <1>13 DEF IInv

\* Its room is remembered.
LEMMA RememberRoomStep ==
    ASSUME IInv, rememberRoom
    PROVE  IInv'
<1> DEFINE x == [relay EXCEPT !.pc = "saveIn"]
           r == toHost[relay.in].room
<1>1. /\ TypeOK /\ Boxes /\ At /\ Posted /\ InOrder
      /\ \A l \in Laptops : Chatting(l)
  BY DEF IInv
<1>2. /\ UNCHANGED <<toHost, toLaptop, messages, cursor, base, laptopVars, faults>>
      /\ relay.pc = "room" /\ mailRooms' = mailRooms \cup {r} /\ relay' = x
  BY DEF rememberRoom
<1>t. relay \in Pass /\ relay.in \in Nat /\ toHost[relay.in] \in Line
  BY <1>1, <1>2, Types DEF TypeOK, At
<1>3. r \in Rooms
  BY <1>t DEF Line
<1>4. /\ x \in Pass /\ x.pc = "saveIn" /\ x.in = relay.in /\ x.seen = relay.seen
      /\ x.out = relay.out
  BY <1>t DEF Pass
<1> HIDE DEF x, r
<1>5. fromMail' = fromMail /\ posted' = posted
  BY <1>2 DEF fromMail, posted
<1>6. TypeOK' /\ Boxes' /\ \A l \in Laptops : Chatting(l)'
  <2>1. TypeOK'
    BY <1>1, <1>2, <1>3, <1>4 DEF TypeOK, laptopVars
  <2> QED
    BY <1>1, <1>2, <1>4, <2>1 DEF Boxes, BoxesHaveNoGaps, Below, Chatting, laptopVars
<1>7. At'
  BY <1>1, <1>2, <1>4, <1>5 DEF At, Receiving, r
<1>8. Posted' /\ InOrder'
  BY <1>1, <1>2, <1>4, <1>5 DEF Posted, InOrder, Receiving
<1>9. Mailed' /\ ToGo'
  BY <1>2, <1>4, OutStays DEF Receiving
<1>10. Finite' /\ Budget'
  <2>1. received = relay.in + 1 /\ received' = relay.in + 1
    BY <1>2, <1>4 DEF received
  <2> QED
    BY <1>2, <1>4, <1>t, <2>1, ReceivingCounts DEF Receiving
<1> QED
  BY <1>6, <1>7, <1>8, <1>9, <1>10 DEF IInv

\* The cursor goes past it.
LEMMA SaveInStep ==
    ASSUME IInv, saveIn
    PROVE  IInv'
<1> DEFINE n == relay.in + 1
           x == [relay EXCEPT !.pc = "get", !.in = n]
           c == [cursor EXCEPT !.in = n]
<1>1. /\ TypeOK /\ Boxes /\ At /\ Posted /\ InOrder
      /\ \A l \in Laptops : Chatting(l)
  BY DEF IInv
<1>2. /\ UNCHANGED <<toHost, toLaptop, messages, mailRooms, base, laptopVars, faults>>
      /\ relay.pc = "saveIn" /\ cursor' = c /\ relay' = x
  BY DEF saveIn
<1>t. /\ relay \in Pass /\ cursor \in MailCursors /\ relay.in \in Nat /\ n \in Nat
      /\ n = relay.in + 1 /\ cursor.in \in Nat /\ cursor.in <= relay.in
      /\ relay.in \in DOMAIN toHost /\ relay.in \in posted
      /\ toHost[relay.in].room \in mailRooms
      /\ \A j \in DOMAIN toHost : j \in Nat
  BY <1>1, <1>2, Types DEF TypeOK, At, Receiving
<1> HIDE DEF n
<1>4. /\ x \in Pass /\ x.pc = "get" /\ x.in = n /\ x.seen = relay.seen /\ x.out = relay.out
  BY <1>t DEF Pass
<1>5. /\ c \in MailCursors /\ c.in = n /\ c.seen = cursor.seen /\ c.out = cursor.out
  BY <1>t DEF MailCursors
<1> HIDE DEF x, c
<1>6. fromMail' = fromMail /\ posted' = posted
  BY <1>2 DEF fromMail, posted
<1>7. TypeOK' /\ Boxes' /\ \A l \in Laptops : Chatting(l)'
  <2>1. TypeOK'
    BY <1>1, <1>2, <1>4, <1>5 DEF TypeOK, laptopVars
  <2>2. Below(n, toHost)
    BY <1>1, <1>t, BelowNext DEF Boxes
  <2> QED
    BY <1>1, <1>2, <1>4, <1>5, <2>1, <2>2 DEF Boxes, BoxesHaveNoGaps, Below, Chatting, laptopVars
<1>8. At'
  BY <1>2, <1>4, <1>5, <1>t DEF At
<1>9. Posted'
  <2>1. ASSUME NEW i \in fromMail
        PROVE  LET j == messages[i].re IN
               /\ j \in DOMAIN toHost /\ toHost[j].from \in Trusted
               /\ messages[i].room = toHost[j].room
               /\ messages[i].room \in mailRooms \/ j >= n
    <3> DEFINE j == messages[i].re
    <3>1. /\ j \in DOMAIN toHost /\ toHost[j].from \in Trusted
          /\ messages[i].room = toHost[j].room
          /\ messages[i].room \in mailRooms \/ j >= relay.in
      BY <1>1, <1>2 DEF Posted, Receiving
    <3> HIDE DEF j
    <3>2. j >= relay.in => j = relay.in \/ j >= n
      BY <1>t, <3>1
    <3> QED
      BY <1>t, <3>1, <3>2 DEF j
  <2> QED
    BY <1>2, <1>4, <1>5, <1>6, <2>1 DEF Posted
<1>10. InOrder'
  <2>1. SUFFICES ASSUME NEW j \in DOMAIN toHost, toHost[j].from \in Trusted
                 PROVE  /\ j < n => j \in posted
                        /\ \A k \in posted : j < k => j < n
    BY <1>2, <1>4, <1>5, <1>6 DEF InOrder
  <2>2. /\ j < cursor.in => j \in posted
        /\ j < relay.in => j < cursor.in
        /\ \A k \in posted : j < k => j < cursor.in
    BY <1>1, <1>2, <2>1 DEF InOrder, Receiving
  <2>3. j < n => j < relay.in \/ j = relay.in
    BY <1>t
  <2> QED
    BY <1>t, <2>2, <2>3
<1>11. Mailed' /\ ToGo'
  BY <1>2, <1>4, <1>5, OutStays DEF Receiving
<1>12. Finite' /\ Budget'
  <2>1. received = n /\ received' = n
    BY <1>2, <1>4, <1>t DEF received, Receiving
  <2> QED
    BY <1>2, <1>4, <1>5, <1>t, <2>1, ReceivingCounts DEF Receiving
<1> QED
  BY <1>7, <1>8, <1>9, <1>10, <1>11, <1>12 DEF IInv

\* All mail was read, and what is to be mailed is asked for.
LEMMA QueryStep ==
    ASSUME IInv, queryMessages
    PROVE  IInv'
<1> DEFINE rows == {i \in DOMAIN messages : i > relay.seen /\ messages[i].room \in mailRooms}
           x == [relay EXCEPT !.pc = "next", !.out = cursor.out, !.msgs = rows]
           c == [cursor EXCEPT !.in = relay.in]
<1>1. /\ TypeOK /\ Boxes /\ At /\ Posted /\ InOrder /\ Mailed
      /\ \A l \in Laptops : Chatting(l)
  BY DEF IInv
<1>2. /\ UNCHANGED <<toHost, toLaptop, messages, mailRooms, base, laptopVars, faults>>
      /\ relay.pc = "query" /\ cursor' = c /\ relay' = x
  BY DEF queryMessages
<1>t. /\ relay \in Pass /\ cursor \in MailCursors /\ relay.in \in Nat /\ relay.seen \in Nat
      /\ cursor.in \in Nat /\ cursor.in <= relay.in /\ cursor.out \in Nat
      /\ DOMAIN messages = 1..Len(messages)
      /\ \A i \in DOMAIN messages : messages[i].re \in Nat
      /\ \A j \in DOMAIN toHost : j \in Nat
      /\ \A j \in posted : j \in Nat /\ j < relay.in
      /\ \A i \in mailed : i \in Nat
  BY <1>1, <1>2, Types DEF TypeOK, At, Receiving
<1>r. /\ rows \in SUBSET Nat
      /\ \A i : i \in rows <=> i \in DOMAIN messages /\ i > relay.seen /\ messages[i].room \in mailRooms
  BY <1>t
<1> HIDE DEF rows
<1>4. /\ x \in Pass /\ x.pc = "next" /\ x.in = relay.in /\ x.seen = relay.seen
      /\ x.out = cursor.out /\ x.msgs = rows
  BY <1>r, <1>t DEF Pass
<1>5. /\ c \in MailCursors /\ c.in = relay.in /\ c.seen = cursor.seen /\ c.out = cursor.out
  BY <1>t DEF MailCursors
<1> HIDE DEF x, c
<1>6. /\ fromMail' = fromMail /\ posted' = posted /\ mailed' = mailed
      /\ \A i : isReply(i)' <=> isReply(i)
  BY <1>2 DEF fromMail, posted, mailed, isReply
<1>7. TypeOK' /\ Boxes' /\ \A l \in Laptops : Chatting(l)'
  <2>1. TypeOK'
    BY <1>1, <1>2, <1>4, <1>5 DEF TypeOK, laptopVars
  <2> QED
    BY <1>1, <1>2, <1>4, <1>5, <2>1 DEF Boxes, BoxesHaveNoGaps, Below, Chatting, laptopVars
<1>8. At'
  BY <1>2, <1>4 DEF At, Receiving
<1>9. \A i \in fromMail : messages[i].room \in mailRooms
  <2>1. ASSUME NEW i \in fromMail PROVE messages[i].room \in mailRooms
    <3>1. messages[i].re \in posted
      BY DEF posted
    <3>2. messages[i].re < relay.in /\ messages[i].re \in Nat
      BY <1>t, <3>1
    <3>3. messages[i].room \in mailRooms \/ messages[i].re >= relay.in
      BY <1>1, <1>2 DEF Posted, Receiving
    <3> QED
      BY <1>t, <3>2, <3>3
  <2> QED
    BY <2>1
<1>10. Posted' /\ InOrder'
  <2>1. Posted'
    BY <1>1, <1>2, <1>6, <1>9 DEF Posted
  <2>2. SUFFICES ASSUME NEW j \in DOMAIN toHost, toHost[j].from \in Trusted
                 PROVE  /\ j < relay.in => j \in posted
                        /\ \A k \in posted : j < k => j < relay.in
    BY <1>2, <1>4, <1>5, <1>6, <2>1 DEF InOrder, Receiving
  <2>3. /\ j < cursor.in => j \in posted
        /\ j < relay.in => j < cursor.in
        /\ \A k \in posted : j < k => j < cursor.in
    BY <1>1, <1>2, <2>2 DEF InOrder, Receiving
  <2> QED
    BY <1>t, <2>3
<1>11. Mailed'
  BY <1>1, <1>2, <1>4, <1>5, <1>6 DEF Mailed
<1>12. ToGo'
  <2>1. \A i \in mailed : i <= relay.seen \/ i \in rows
    <3>1. \A i \in mailed : i \in DOMAIN messages /\ messages[i].room \in mailRooms
      BY <1>1 DEF Mailed
    <3> QED
      BY <1>r, <1>t, <3>1
  <2>2. ASSUME NEW i \in DOMAIN messages, isReply(i) PROVE i <= relay.seen \/ i \in rows
    <3>1. /\ messages[i].re \in DOMAIN messages /\ messages[messages[i].re].by = "laptop"
          /\ messages[messages[i].re].room = messages[i].room
      BY <1>1, <2>2 DEF Mailed, isReply
    <3>2. messages[i].re \in fromMail
      BY <3>1 DEF fromMail
    <3>3. messages[i].room \in mailRooms
      BY <1>9, <3>1, <3>2
    <3> QED
      BY <1>r, <1>t, <3>3
  <2> QED
    BY <1>2, <1>4, <1>6, <1>r, <2>1, <2>2 DEF ToGo
<1>13. Finite' /\ Budget'
  <2>1. again' = again /\ again \in Nat
    BY <1>2, <1>4, <1>5, <1>6 DEF again, received, Receiving
  <2>2. seenTo' = seenTo
    BY <1>2, <1>4 DEF seenTo
  <2>3. toRepeat' = toRepeat
    BY <1>6, <2>2 DEF toRepeat
  <2>4. faults' \in Nat /\ faults <= faults'
    BY <1>1, <1>2, MailAssumption DEF TypeOK
  <2> QED
    BY <1>2, <1>6, <2>1, <2>3, <2>4, CountsStay
<1> QED
  BY <1>7, <1>8, <1>10, <1>11, <1>12, <1>13 DEF IInv

-----------------------------------------------------------------------------
(* The second half of a pass *)

\* The message it is at.
LEMMA TheFirst ==
    ASSUME IInv, relay.pc \in Sending, relay.msgs # {}
    PROVE  /\ first(relay.msgs) \in relay.msgs /\ first(relay.msgs) \in Nat
           /\ \A j \in relay.msgs : j \in Nat /\ first(relay.msgs) <= j
           /\ first(relay.msgs) \in DOMAIN messages /\ first(relay.msgs) > relay.seen
           /\ messages[first(relay.msgs)].room \in mailRooms
           /\ first(relay.msgs) <= Len(messages)
<1>1. TypeOK /\ relay.msgs \subseteq Nat /\ DOMAIN messages = 1..Len(messages) /\ Len(messages) \in Nat
  BY Types DEF IInv
<1>2. /\ first(relay.msgs) \in relay.msgs /\ first(relay.msgs) \in Nat
      /\ \A j \in relay.msgs : first(relay.msgs) <= j
  BY <1>1, FirstFacts
<1>3. \A i \in relay.msgs :
          i \in DOMAIN messages /\ i > relay.seen /\ messages[i].room \in mailRooms
  BY DEF IInv, ToGo
<1> QED
  BY <1>1, <1>2, <1>3

\* Nothing of the mail changes in it, nor when the pass ends there.
LEMMA SendingIn ==
    ASSUME IInv, UNCHANGED <<toHost, messages, mailRooms>>, cursor'.in = cursor.in,
           relay.pc \notin Receiving, relay'.pc \notin Receiving
    PROVE  /\ At' /\ Posted' /\ InOrder' /\ fromMail' = fromMail /\ posted' = posted
           /\ again' = again /\ again \in Nat
<1>1. At' /\ Posted' /\ InOrder'
  BY InStays
<1>2. fromMail' = fromMail /\ posted' = posted
  BY DEF fromMail, posted
<1>3. received' = received
  BY DEF received, Receiving
<1>4. again' = again /\ again \in Nat
  BY <1>2, <1>3 DEF again
<1> QED
  BY <1>1, <1>2, <1>4

\* The next message is taken, or there is none left.
LEMMA NextMessageStep ==
    ASSUME IInv, nextMessage
    PROVE  IInv'
<1> DEFINE f == first(relay.msgs)
           x == [relay EXCEPT !.pc = IF messages[f].by = "agent" THEN "send" ELSE "saveSeen"]
           c == [cursor EXCEPT !.seen = relay.seen]
<1>1. /\ TypeOK /\ Boxes /\ Mailed /\ ToGo
      /\ \A l \in Laptops : Chatting(l)
  BY DEF IInv
<1>2. /\ UNCHANGED <<toHost, toLaptop, messages, mailRooms, base, laptopVars, faults>>
      /\ relay.pc = "next"
      /\ \/ relay.msgs = {} /\ relay' = Idle /\ cursor' = c
         \/ relay.msgs # {} /\ relay' = x /\ cursor' = cursor
  BY DEF nextMessage
<1>t. /\ relay \in Pass /\ cursor \in MailCursors /\ relay.seen \in Nat /\ relay.seen # Absent
      /\ relay.pc \in Sending /\ relay.pc \notin Receiving
      /\ faults \in Nat /\ \A i \in mailed : i \in Nat
      /\ DOMAIN messages = 1..Len(messages) /\ Len(messages) \in Nat /\ base \in Nat
  <2>1. relay \in Pass /\ cursor \in MailCursors
    BY <1>1 DEF TypeOK
  <2>2. /\ relay.seen \in Nat /\ \A i \in mailed : i \in Nat
        /\ DOMAIN messages = 1..Len(messages) /\ Len(messages) \in Nat /\ base \in Nat
    BY <1>1, Types
  <2>3. relay.seen # Absent
    BY <2>2 DEF Absent
  <2>4. relay.pc \in Sending /\ relay.pc \notin Receiving
    BY <1>2 DEF Sending, Receiving
  <2>5. faults \in Nat
    BY <1>1, MailAssumption DEF TypeOK
  <2> QED
    BY <2>1, <2>2, <2>3, <2>4, <2>5
<1>p. mailed' = mailed /\ \A i : isReply(i)' <=> isReply(i)
  BY <1>2 DEF mailed, isReply
<1>3. CASE relay.msgs = {} /\ relay' = Idle /\ cursor' = c
  <2>1. /\ c \in MailCursors /\ c.in = cursor.in /\ c.seen = relay.seen /\ c.out = cursor.out
    BY <1>t DEF MailCursors
  <2>2. /\ Idle \in Pass /\ Idle.pc = "idle" /\ Idle.seen = 0 /\ Idle.in = 0 /\ Idle.out = 0
    BY DEF Idle, Pass
  <2> HIDE DEF c
  <2>3. /\ At' /\ Posted' /\ InOrder' /\ fromMail' = fromMail /\ posted' = posted
        /\ again' = again /\ again \in Nat
    BY <1>2, <1>3, <1>t, <2>1, <2>2, SendingIn DEF Receiving
  <2>4. TypeOK' /\ Boxes' /\ \A l \in Laptops : Chatting(l)'
    <3>1. TypeOK'
      BY <1>1, <1>2, <1>3, <2>1, <2>2 DEF TypeOK, laptopVars
    <3>2. Below(0, toHost) /\ Below(0, toLaptop)
      BY BelowZero
    <3> QED
      BY <1>1, <1>2, <1>3, <2>1, <2>2, <3>1, <3>2 DEF Boxes, BoxesHaveNoGaps, Below, Chatting, laptopVars
  <2>5. Mailed'
    BY <1>1, <1>2, <1>3, <1>p, <1>t, <2>1, <2>2 DEF Mailed
  <2>6. ToGo'
    BY <1>3, <2>2 DEF ToGo, Sending
  <2>7. toRepeat' = toRepeat
    <3>1. seenTo' = seenTo
      BY <1>2, <1>3, <1>t, <2>1, <2>2 DEF seenTo
    <3> QED
      BY <1>p, <3>1 DEF toRepeat
  <2>8. Finite' /\ Budget'
    BY <1>2, <1>p, <1>t, <2>3, <2>7, CountsStay
  <2> QED
    BY <2>3, <2>4, <2>5, <2>6, <2>8 DEF IInv
<1>4. CASE relay.msgs # {} /\ relay' = x /\ cursor' = cursor
  <2>1. /\ f \in relay.msgs /\ f \in Nat /\ f > relay.seen
    BY <1>4, <1>t, TheFirst
  <2> HIDE DEF f
  <2>2. /\ x \in Pass /\ x.pc = (IF messages[f].by = "agent" THEN "send" ELSE "saveSeen")
        /\ x.in = relay.in /\ x.seen = relay.seen /\ x.out = relay.out /\ x.msgs = relay.msgs
    BY <1>t DEF Pass
  <2> HIDE DEF x
  <2>3. /\ At' /\ Posted' /\ InOrder' /\ fromMail' = fromMail /\ posted' = posted
        /\ again' = again /\ again \in Nat
    BY <1>2, <1>4, <1>t, <2>2, SendingIn DEF Receiving
  <2>4. TypeOK' /\ Boxes' /\ \A l \in Laptops : Chatting(l)'
    <3>1. TypeOK'
      BY <1>1, <1>2, <1>4, <2>2 DEF TypeOK, laptopVars
    <3> QED
      BY <1>1, <1>2, <1>4, <2>2, <3>1 DEF Boxes, BoxesHaveNoGaps, Below, Chatting, laptopVars
  <2>5. Mailed'
    BY <1>1, <1>2, <1>4, <1>p, <2>2 DEF Mailed
  <2>6. ToGo'
    BY <1>1, <1>2, <1>4, <1>p, <1>t, <2>2 DEF ToGo, Sending, f
  <2>7. toRepeat' \subseteq toRepeat
    <3>1. seenTo = relay.seen /\ seenTo' \in {relay.seen, f}
      BY <1>2, <1>4, <2>2 DEF seenTo, f
    <3> QED
      BY <1>p, <1>t, <2>1, <3>1 DEF toRepeat
  <2>8. Finite' /\ Budget'
    BY <1>2, <1>p, <1>t, <2>3, <2>7, CountsStay
  <2> QED
    BY <2>3, <2>4, <2>5, <2>6, <2>8 DEF IInv
<1> QED
  BY <1>2, <1>3, <1>4

\* A reply is created at the next number of its box.
LEMMA Mails ==
    ASSUME IInv, relay.pc = "send", relay.out \notin DOMAIN toLaptop,
           toLaptop' = create(toLaptop, relay.out, first(relay.msgs))
    PROVE  /\ DOMAIN toLaptop' \subseteq Nat /\ toLaptop' \in [DOMAIN toLaptop' -> Nat]
           /\ mailed' = mailed \cup {first(relay.msgs)}
           /\ \A m \in DOMAIN toLaptop' : 0..m \subseteq DOMAIN toLaptop'
           /\ DOMAIN toLaptop \subseteq DOMAIN toLaptop' /\ relay.out \in DOMAIN toLaptop'
           /\ IsFiniteSet(DOMAIN toLaptop') /\ IsFiniteSet(mailed')
           /\ Cardinality(DOMAIN toLaptop') = Cardinality(DOMAIN toLaptop) + 1
           /\ Cardinality(mailed') = Cardinality(mailed)
                                        + (IF first(relay.msgs) \in mailed THEN 0 ELSE 1)
<1> DEFINE f == first(relay.msgs)
           n == relay.out
<1>1. TypeOK /\ Boxes /\ Finite /\ n \in Nat /\ Below(n, toLaptop)
  BY Types DEF IInv, Boxes
<1>2. f \in Nat
  BY TheFirst DEF IInv, ToGo, Sending
<1>3. /\ DOMAIN toLaptop \subseteq Nat /\ toLaptop \in [DOMAIN toLaptop -> Nat]
      /\ \A m \in DOMAIN toLaptop : 0..m \subseteq DOMAIN toLaptop
  BY <1>1 DEF TypeOK, Boxes, BoxesHaveNoGaps
<1> HIDE DEF f, n
<1>4. /\ DOMAIN toLaptop' = DOMAIN toLaptop \cup {n} /\ toLaptop'[n] = f
      /\ \A m \in DOMAIN toLaptop : toLaptop'[m] = toLaptop[m]
      /\ toLaptop' \in [DOMAIN toLaptop' -> Nat] /\ n \notin DOMAIN toLaptop
  BY <1>2, <1>3 DEF create, f, n
<1>5. mailed' = mailed \cup {f}
  BY <1>4 DEF mailed
<1>6. \A m \in DOMAIN toLaptop' : 0..m \subseteq DOMAIN toLaptop'
  BY <1>1, <1>3, <1>4, NoNewGap DEF Below
<1>7. /\ IsFiniteSet(DOMAIN toLaptop')
      /\ Cardinality(DOMAIN toLaptop') = Cardinality(DOMAIN toLaptop) + 1
  BY <1>1, <1>4, FS_AddElement DEF Finite
<1>8. /\ IsFiniteSet(mailed')
      /\ Cardinality(mailed') = IF f \in mailed THEN Cardinality(mailed) ELSE Cardinality(mailed) + 1
  BY <1>1, <1>5, FS_AddElement DEF Finite
<1>9. Cardinality(mailed) \in Nat
  BY <1>1, FS_CardinalityType DEF Finite
<1>10. Cardinality(mailed') = Cardinality(mailed) + (IF f \in mailed THEN 0 ELSE 1)
  BY <1>8, <1>9
<1> QED
  BY <1>1, <1>3, <1>4, <1>5, <1>6, <1>7, <1>8, <1>10 DEF f, n

\* One try of Send.  What is mailed a second time was owed.
LEMMA SendOutStep ==
    ASSUME IInv, sendOut
    PROVE  IInv'
<1> DEFINE f == first(relay.msgs)
           n == relay.out + 1
           tried == [relay EXCEPT !.out = n]
           sent == [relay EXCEPT !.pc = "saveOut", !.out = n]
<1>1. /\ TypeOK /\ Boxes /\ Mailed /\ ToGo /\ Finite /\ Budget
      /\ \A l \in Laptops : Chatting(l)
  BY DEF IInv
<1>2. /\ UNCHANGED <<toHost, messages, mailRooms, cursor, base, laptopVars, faults>>
      /\ relay.pc = "send"
      /\ \/ relay.out \in DOMAIN toLaptop /\ relay' = tried /\ toLaptop' = toLaptop
         \/ /\ relay.out \notin DOMAIN toLaptop /\ relay' = sent
            /\ toLaptop' = create(toLaptop, relay.out, f)
  BY DEF sendOut
<1>t. /\ relay \in Pass /\ relay.out \in Nat /\ n \in Nat /\ n = relay.out + 1
      /\ relay.pc \in Sending /\ relay.pc \notin Receiving /\ relay.msgs # {}
      /\ faults \in Nat /\ relay.seen \in Nat /\ \A i \in mailed : i \in Nat
  <2>1. relay.pc \in Sending /\ relay.pc \notin Receiving /\ relay.pc # "next"
    BY <1>2 DEF Sending, Receiving
  <2>2. relay.msgs # {}
    BY <1>1, <2>1 DEF ToGo
  <2>3. /\ relay \in Pass /\ relay.out \in Nat /\ relay.seen \in Nat
        /\ \A i \in mailed : i \in Nat
    BY <1>1, Types DEF TypeOK
  <2>4. faults \in Nat
    BY <1>1, MailAssumption DEF TypeOK
  <2> QED
    BY <2>1, <2>2, <2>3, <2>4
<1>f. /\ f \in relay.msgs /\ f \in Nat /\ \A j \in relay.msgs : j \in Nat /\ f <= j
      /\ f \in DOMAIN messages /\ f > relay.seen /\ messages[f].room \in mailRooms
  BY <1>t, TheFirst
<1> HIDE DEF n
<1>3. /\ tried \in Pass /\ tried.pc = "send" /\ tried.in = relay.in /\ tried.seen = relay.seen
      /\ tried.out = n /\ tried.msgs = relay.msgs
      /\ sent \in Pass /\ sent.pc = "saveOut" /\ sent.in = relay.in /\ sent.seen = relay.seen
      /\ sent.out = n /\ sent.msgs = relay.msgs
  BY <1>2, <1>t DEF Pass
<1> HIDE DEF f, tried, sent
<1>4. /\ At' /\ Posted' /\ InOrder' /\ fromMail' = fromMail /\ posted' = posted
      /\ again' = again /\ again \in Nat
  BY <1>2, <1>3, <1>t, SendingIn DEF Receiving
<1>r. \A i : isReply(i)' <=> isReply(i)
  BY <1>2 DEF isReply
<1>c. \A l \in Laptops : Chatting(l)'
  BY <1>1, <1>2 DEF Chatting, Below, laptopVars
<1>5. CASE relay.out \in DOMAIN toLaptop /\ relay' = tried /\ toLaptop' = toLaptop
  <2>1. TypeOK' /\ Boxes'
    <3>1. TypeOK'
      BY <1>1, <1>2, <1>3, <1>5 DEF TypeOK, laptopVars
    <3>2. Below(n, toLaptop)
      BY <1>1, <1>5, <1>t, BelowNext DEF Boxes
    <3> QED
      BY <1>1, <1>2, <1>3, <1>5, <3>1, <3>2 DEF Boxes, BoxesHaveNoGaps, Below
  <2>2. mailed' = mailed
    BY <1>5 DEF mailed
  <2>3. Mailed' /\ ToGo'
    BY <1>1, <1>2, <1>3, <1>5, <1>r, <2>2 DEF Mailed, ToGo
  <2>4. toRepeat' = toRepeat
    BY <1>2, <1>3, <1>5, <2>2 DEF toRepeat, seenTo
  <2>5. Finite' /\ Budget'
    BY <1>2, <1>4, <1>5, <1>t, <2>2, <2>4, CountsStay
  <2> QED
    BY <1>4, <1>c, <2>1, <2>3, <2>5 DEF IInv
<1>6. CASE /\ relay.out \notin DOMAIN toLaptop /\ relay' = sent
           /\ toLaptop' = create(toLaptop, relay.out, f)
  <2>1. /\ DOMAIN toLaptop' \subseteq Nat /\ toLaptop' \in [DOMAIN toLaptop' -> Nat]
        /\ mailed' = mailed \cup {f}
        /\ \A m \in DOMAIN toLaptop' : 0..m \subseteq DOMAIN toLaptop'
        /\ DOMAIN toLaptop \subseteq DOMAIN toLaptop' /\ relay.out \in DOMAIN toLaptop'
        /\ IsFiniteSet(DOMAIN toLaptop') /\ IsFiniteSet(mailed')
        /\ Cardinality(DOMAIN toLaptop') = Cardinality(DOMAIN toLaptop) + 1
        /\ Cardinality(mailed') = Cardinality(mailed) + (IF f \in mailed THEN 0 ELSE 1)
    BY <1>2, <1>6, Mails DEF f
  <2>2. TypeOK' /\ Boxes'
    <3>1. TypeOK'
      BY <1>1, <1>2, <1>3, <1>6, <2>1 DEF TypeOK, laptopVars
    <3>2. Below(cursor.out, toLaptop') /\ Below(relay.out, toLaptop')
      BY <1>1, <2>1 DEF Boxes, Below
    <3>3. Below(n, toLaptop')
      BY <1>t, <2>1, <3>2, BelowNext
    <3> QED
      BY <1>1, <1>2, <1>3, <1>6, <2>1, <3>1, <3>2, <3>3 DEF Boxes, BoxesHaveNoGaps
  <2>3. Mailed'
    BY <1>1, <1>2, <1>3, <1>6, <1>f, <1>r, <2>1 DEF Mailed
  <2>4. ToGo'
    <3>1. first(relay'.msgs) = f
      BY <1>3, <1>6 DEF f
    <3> QED
      BY <1>1, <1>2, <1>3, <1>6, <1>f, <1>r, <1>t, <2>1, <3>1 DEF ToGo
  <2>5. /\ toRepeat' \subseteq toRepeat \ {f} /\ (f \in mailed => f \in toRepeat)
    <3>1. seenTo = relay.seen /\ seenTo' = f
      BY <1>2, <1>3, <1>6 DEF seenTo, f
    <3> QED
      BY <1>f, <1>t, <2>1, <3>1 DEF toRepeat
  <2>6. IsFiniteSet(toRepeat) /\ Cardinality(toRepeat) \in Nat
    <3>1. toRepeat \in SUBSET mailed
      BY DEF toRepeat
    <3> QED
      BY <1>1, <3>1, FS_Subset, FS_CardinalityType DEF Finite
  <2>7. /\ IsFiniteSet(toRepeat \ {f})
        /\ Cardinality(toRepeat \ {f}) = IF f \in toRepeat THEN Cardinality(toRepeat) - 1
                                         ELSE Cardinality(toRepeat)
    BY <2>6, FS_RemoveElement
  <2>8. /\ IsFiniteSet(toRepeat') /\ Cardinality(toRepeat') <= Cardinality(toRepeat \ {f})
    <3>1. toRepeat' \in SUBSET (toRepeat \ {f})
      BY <2>5
    <3> QED
      BY <2>7, <3>1, FS_Subset
  <2>9. Finite'
    BY <1>1, <1>4, <2>1 DEF Finite
  <2>10. /\ Cardinality(fromMail) \in Nat /\ Cardinality(posted) \in Nat
         /\ Cardinality(DOMAIN toLaptop) \in Nat /\ Cardinality(mailed) \in Nat
         /\ Cardinality(toRepeat') \in Nat /\ Cardinality(toRepeat \ {f}) \in Nat
    BY <1>1, <2>7, <2>8, FS_CardinalityType DEF Finite
  <2>11. (Cardinality(DOMAIN toLaptop') - Cardinality(mailed')) + Cardinality(toRepeat')
            <= (Cardinality(DOMAIN toLaptop) - Cardinality(mailed)) + Cardinality(toRepeat)
    <3>1. CASE f \in mailed
      BY <2>1, <2>5, <2>6, <2>7, <2>8, <2>10, <3>1
    <3>2. CASE f \notin mailed
      <4>1. Cardinality(toRepeat \ {f}) <= Cardinality(toRepeat)
        BY <2>6, <2>7
      <4> QED
        BY <2>1, <2>6, <2>8, <2>10, <3>2, <4>1
    <3> QED
      BY <3>1, <3>2
  <2>12. Budget'
    <3>1. /\ Cardinality(fromMail') = Cardinality(fromMail)
          /\ Cardinality(posted') = Cardinality(posted) /\ faults' = faults /\ again' = again
      BY <1>2, <1>4
    <3>2. Cardinality(DOMAIN toLaptop') \in Nat /\ Cardinality(mailed') \in Nat
      BY <2>1, FS_CardinalityType
    <3> QED
      BY <1>1, <1>4, <1>t, <2>6, <2>10, <2>11, <3>1, <3>2 DEF Budget
  <2> QED
    BY <1>4, <1>c, <2>2, <2>3, <2>4, <2>9, <2>12 DEF IInv
<1> QED
  BY <1>2, <1>5, <1>6

\* The to-laptop cursor goes past it.
LEMMA SaveOutStep ==
    ASSUME IInv, saveOut
    PROVE  IInv'
<1> DEFINE x == [relay EXCEPT !.pc = "saveSeen"]
           c == [cursor EXCEPT !.out = relay.out]
<1>1. /\ TypeOK /\ Boxes /\ Mailed /\ ToGo
      /\ \A l \in Laptops : Chatting(l)
  BY DEF IInv
<1>2. /\ UNCHANGED <<toHost, toLaptop, messages, mailRooms, base, laptopVars, faults>>
      /\ relay.pc = "saveOut" /\ relay' = x /\ cursor' = c
  BY DEF saveOut
<1>t. /\ relay \in Pass /\ cursor \in MailCursors /\ relay.out \in Nat
      /\ relay.pc \in Sending /\ relay.pc \notin Receiving
  BY <1>1, <1>2, Types DEF TypeOK, Sending, Receiving
<1>n. faults \in Nat
  BY <1>1, MailAssumption DEF TypeOK
<1>3. /\ x \in Pass /\ x.pc = "saveSeen" /\ x.in = relay.in /\ x.seen = relay.seen
      /\ x.out = relay.out /\ x.msgs = relay.msgs
  BY <1>t DEF Pass
<1>4. /\ c \in MailCursors /\ c.in = cursor.in /\ c.seen = cursor.seen /\ c.out = relay.out
  BY <1>t DEF MailCursors
<1> HIDE DEF x, c
<1>5. /\ At' /\ Posted' /\ InOrder' /\ fromMail' = fromMail /\ posted' = posted
      /\ again' = again /\ again \in Nat
  BY <1>2, <1>3, <1>4, <1>t, SendingIn DEF Receiving
<1>6. TypeOK' /\ Boxes' /\ \A l \in Laptops : Chatting(l)'
  <2>1. TypeOK'
    BY <1>1, <1>2, <1>3, <1>4 DEF TypeOK, laptopVars
  <2> QED
    BY <1>1, <1>2, <1>3, <1>4, <2>1 DEF Boxes, BoxesHaveNoGaps, Below, Chatting, laptopVars
<1>7. mailed' = mailed /\ \A i : isReply(i)' <=> isReply(i)
  BY <1>2 DEF mailed, isReply
<1>8. Mailed' /\ ToGo'
  <2>1. Mailed'
    BY <1>1, <1>2, <1>3, <1>4, <1>7 DEF Mailed
  <2>2. ToGo'
    BY <1>1, <1>2, <1>3, <1>7, <1>t DEF ToGo
  <2> QED
    BY <2>1, <2>2
<1>9. toRepeat' = toRepeat
  BY <1>2, <1>3, <1>7 DEF toRepeat, seenTo
<1>10. Finite' /\ Budget'
  BY <1>2, <1>5, <1>7, <1>9, <1>n, CountsStay
<1> QED
  BY <1>5, <1>6, <1>8, <1>10 DEF IInv

\* What was seen goes past a message that was mailed, or was not to be.
LEMMA SaveSeenStep ==
    ASSUME IInv, saveSeen
    PROVE  IInv'
<1> DEFINE f == first(relay.msgs)
           rest == relay.msgs \ {f}
           x == [relay EXCEPT !.pc = "next", !.seen = f, !.msgs = rest]
           c == [cursor EXCEPT !.seen = f]
<1>1. /\ TypeOK /\ Boxes /\ Mailed /\ ToGo
      /\ \A l \in Laptops : Chatting(l)
  BY DEF IInv
<1>2. /\ UNCHANGED <<toHost, toLaptop, messages, mailRooms, base, laptopVars, faults>>
      /\ relay.pc = "saveSeen" /\ relay' = x /\ cursor' = c
  BY DEF saveSeen
<1>t. /\ relay \in Pass /\ cursor \in MailCursors /\ relay.msgs \subseteq Nat
      /\ relay.pc \in Sending /\ relay.pc \notin Receiving /\ relay.seen \in Nat
      /\ \A i \in mailed : i \in Nat
      /\ DOMAIN messages = 1..Len(messages) /\ Len(messages) \in Nat /\ base \in Nat
  BY <1>1, <1>2, Types DEF TypeOK, Sending, Receiving
<1>n. faults \in Nat
  BY <1>1, MailAssumption DEF TypeOK
<1>m. relay.msgs # {}
  BY <1>1, <1>2, <1>t DEF ToGo
<1>f. /\ f \in relay.msgs /\ f \in Nat /\ \A j \in relay.msgs : j \in Nat /\ f <= j
      /\ f \in DOMAIN messages /\ f > relay.seen /\ f <= Len(messages)
  BY <1>m, <1>t, TheFirst
<1>a. messages[f].by = "agent" => f \in mailed
  BY <1>1, <1>2, <1>t DEF ToGo
<1> HIDE DEF f
<1>r. rest \in SUBSET Nat /\ \A i : i \in rest <=> i \in relay.msgs /\ i # f
  BY <1>t
<1> HIDE DEF rest
<1>3. /\ x \in Pass /\ x.pc = "next" /\ x.in = relay.in /\ x.seen = f
      /\ x.out = relay.out /\ x.msgs = rest
  BY <1>f, <1>r, <1>t DEF Pass
<1>4. /\ c \in MailCursors /\ c.in = cursor.in /\ c.seen = f /\ c.out = cursor.out
  BY <1>f, <1>t DEF MailCursors
<1> HIDE DEF x, c
<1>5. /\ At' /\ Posted' /\ InOrder' /\ fromMail' = fromMail /\ posted' = posted
      /\ again' = again /\ again \in Nat
  BY <1>2, <1>3, <1>4, <1>t, SendingIn DEF Receiving
<1>6. TypeOK' /\ Boxes' /\ \A l \in Laptops : Chatting(l)'
  <2>1. TypeOK'
    BY <1>1, <1>2, <1>3, <1>4 DEF TypeOK, laptopVars
  <2> QED
    BY <1>1, <1>2, <1>3, <1>4, <2>1 DEF Boxes, BoxesHaveNoGaps, Below, Chatting, laptopVars
<1>7. mailed' = mailed /\ \A i : isReply(i)' <=> isReply(i)
  BY <1>2 DEF mailed, isReply
<1>8. Mailed'
  <2>1. ASSUME NEW i \in DOMAIN messages, isReply(i), base < i, i <= f PROVE i \in mailed
    <3>1. i <= relay.seen \/ i \in relay.msgs \/ \A j \in relay.msgs : j < i
      BY <1>1, <1>t, <2>1 DEF ToGo
    <3>2. CASE i <= relay.seen
      BY <1>1, <2>1, <3>2 DEF Mailed
    <3>3. CASE ~(i <= relay.seen)
      <4>1. i = f
        BY <1>f, <1>t, <2>1, <3>1, <3>3
      <4> QED
        BY <1>a, <2>1, <4>1 DEF isReply
    <3> QED
      BY <3>2, <3>3
  <2> QED
    BY <1>1, <1>2, <1>3, <1>4, <1>7, <1>f, <2>1 DEF Mailed
<1>9. ToGo'
  <2>1. \A i \in rest : i \in DOMAIN messages /\ i > f /\ messages[i].room \in mailRooms
    BY <1>1, <1>f, <1>r, <1>t DEF ToGo
  <2>2. \A i \in mailed : i <= f \/ i \in rest
    BY <1>1, <1>f, <1>r, <1>t DEF ToGo
  <2>3. \A i \in DOMAIN messages : isReply(i) =>
           i <= f \/ i \in rest \/ \A j \in rest : j < i
    BY <1>1, <1>f, <1>r, <1>t DEF ToGo
  <2> QED
    BY <1>2, <1>3, <1>7, <2>1, <2>2, <2>3 DEF ToGo
<1>10. toRepeat' = toRepeat
  <2>1. seenTo = f /\ seenTo' = f
    BY <1>2, <1>3 DEF seenTo, f
  <2> QED
    BY <1>7, <2>1 DEF toRepeat
<1>11. Finite' /\ Budget'
  BY <1>2, <1>5, <1>7, <1>10, <1>n, CountsStay
<1> QED
  BY <1>5, <1>6, <1>8, <1>9, <1>11 DEF IInv

\* The pass is given up.  The fault pays for what the next one repeats: the mail that
\* was posted and not yet passed, or the message that was mailed and not yet passed.
LEMMA PassFailsStep ==
    ASSUME IInv, passFails
    PROVE  IInv'
<1> DEFINE f == first(relay.msgs)
           creates == /\ relay.pc = "send" /\ relay.out \notin DOMAIN toLaptop
                      /\ toLaptop' = create(toLaptop, relay.out, f)
<1>1. /\ TypeOK /\ Boxes /\ Mailed /\ ToGo /\ Finite /\ Budget
      /\ \A l \in Laptops : Chatting(l)
  BY DEF IInv
<1>2. /\ UNCHANGED <<toHost, messages, mailRooms, cursor, base, laptopVars>>
      /\ relay.pc # "idle" /\ fault /\ relay' = Idle /\ (toLaptop' = toLaptop \/ creates)
  BY DEF passFails
<1>t. /\ relay.seen \in Nat /\ cursor.seen \in Int /\ relay.pc \in Receiving \cup Sending
      /\ \A i \in mailed : i \in Nat
      /\ DOMAIN messages = 1..Len(messages) /\ Len(messages) \in Nat /\ base \in Nat
  BY <1>1, <1>2, Types
<1>n. faults \in Nat /\ faults' = faults + 1 /\ faults' \in 0..MaxFaults
  BY <1>1, <1>2, MailAssumption DEF TypeOK, fault
<1>3. /\ Idle \in Pass /\ Idle.pc = "idle" /\ Idle.seen = 0 /\ Idle.in = 0 /\ Idle.out = 0
  BY DEF Idle, Pass
<1>4. At' /\ Posted' /\ InOrder'
  BY <1>2, <1>3, InStays DEF Receiving
<1>5. fromMail' = fromMail /\ posted' = posted /\ \A i : isReply(i)' <=> isReply(i)
  BY <1>2 DEF fromMail, posted, isReply
<1>6. ToGo' /\ \A l \in Laptops : Chatting(l)'
  BY <1>1, <1>2, <1>3 DEF ToGo, Sending, Chatting, Below, laptopVars
<1>7. /\ seenTo' = IF cursor.seen = Absent THEN Len(messages) ELSE relay.seen
  BY <1>1, <1>2, <1>3 DEF seenTo, Mailed
<1>r. IsFiniteSet(toRepeat) /\ Cardinality(toRepeat) \in Nat
  <2>1. toRepeat \in SUBSET mailed
    BY DEF toRepeat
  <2> QED
    BY <1>1, <2>1, FS_Subset, FS_CardinalityType DEF Finite
<1>c. /\ Cardinality(fromMail) \in Nat /\ Cardinality(posted) \in Nat
      /\ Cardinality(DOMAIN toLaptop) \in Nat /\ Cardinality(mailed) \in Nat
      /\ again \in {0, 1} /\ again' \in {0, 1}
  BY <1>1, FS_CardinalityType DEF Finite, again
<1>s. relay.pc \in Sending /\ relay.pc # "next" =>
          /\ f \in Nat /\ f > relay.seen /\ f \in DOMAIN messages
          /\ messages[f].room \in mailRooms
          /\ \A i \in mailed : i <= relay.seen \/ f <= i
  <2>1. SUFFICES ASSUME relay.pc \in Sending, relay.pc # "next"
                 PROVE  /\ f \in Nat /\ f > relay.seen /\ f \in DOMAIN messages
                        /\ messages[f].room \in mailRooms
                        /\ \A i \in mailed : i <= relay.seen \/ f <= i
    OBVIOUS
  <2>2. relay.msgs # {} /\ \A i \in mailed : i <= relay.seen \/ i \in relay.msgs
    BY <1>1, <2>1 DEF ToGo
  <2> QED
    BY <2>1, <2>2, TheFirst
<1>k. relay.pc \in Sending => again' = again
  <2>1. relay.pc \in Sending => received' = received
    BY <1>2, <1>3 DEF received, Receiving, Sending
  <2> QED
    BY <1>5, <2>1 DEF again
<1>8. CASE toLaptop' = toLaptop
  <2>1. mailed' = mailed
    BY <1>8 DEF mailed
  <2>2. TypeOK' /\ Boxes'
    <3>1. TypeOK'
      BY <1>1, <1>2, <1>3, <1>8, <1>n DEF TypeOK, laptopVars
    <3>2. Below(0, toHost) /\ Below(0, toLaptop)
      BY BelowZero
    <3> QED
      BY <1>1, <1>2, <1>3, <1>8, <3>1, <3>2 DEF Boxes, BoxesHaveNoGaps, Below
  <2>3. Mailed'
    BY <1>1, <1>2, <1>3, <1>5, <1>t, <2>1 DEF Mailed
  <2>4. \A i \in mailed : i <= Len(messages)
    BY <1>1, <1>t DEF Mailed
  <2>5. ASSUME relay.pc \in Receiving \/ relay.pc \in {"next", "send"}
        PROVE  toRepeat' \subseteq toRepeat
    <3>1. seenTo = relay.seen
      BY <1>2, <2>5 DEF seenTo, Receiving
    <3>2. ASSUME NEW i \in mailed, i > seenTo' PROVE i > seenTo
      BY <1>7, <1>t, <2>4, <3>1, <3>2
    <3> QED
      BY <2>1, <3>2 DEF toRepeat
  <2>6. ASSUME relay.pc \in {"saveOut", "saveSeen"}
        PROVE  toRepeat' \subseteq toRepeat \cup {f}
    <3>1. seenTo = f /\ f \in Nat /\ \A i \in mailed : i <= relay.seen \/ f <= i
      BY <1>s, <2>6 DEF seenTo, Sending
    <3>2. ASSUME NEW i \in mailed, i > seenTo' PROVE i > seenTo \/ i = f
      BY <1>7, <1>t, <2>4, <3>1, <3>2
    <3> QED
      BY <2>1, <3>2 DEF toRepeat
  <2>7. /\ IsFiniteSet(toRepeat') /\ Cardinality(toRepeat') \in Nat
        /\ again' + Cardinality(toRepeat') <= again + Cardinality(toRepeat) + 1
    <3>1. CASE relay.pc \in Receiving \/ relay.pc \in {"next", "send"}
      <4>1. toRepeat' \in SUBSET toRepeat
        BY <2>5, <3>1
      <4>2. IsFiniteSet(toRepeat') /\ Cardinality(toRepeat') <= Cardinality(toRepeat)
        BY <1>r, <4>1, FS_Subset
      <4>3. Cardinality(toRepeat') \in Nat
        BY <4>2, FS_CardinalityType
      <4> QED
        BY <1>c, <1>r, <4>2, <4>3
    <3>2. CASE relay.pc \in {"saveOut", "saveSeen"}
      <4>1. toRepeat' \in SUBSET (toRepeat \cup {f})
        BY <2>6, <3>2
      <4>2. /\ IsFiniteSet(toRepeat \cup {f})
            /\ Cardinality(toRepeat \cup {f}) <= Cardinality(toRepeat) + 1
        <5>1. /\ IsFiniteSet(toRepeat \cup {f})
              /\ Cardinality(toRepeat \cup {f}) = IF f \in toRepeat THEN Cardinality(toRepeat)
                                                  ELSE Cardinality(toRepeat) + 1
          BY <1>r, FS_AddElement
        <5> QED
          BY <1>r, <5>1
      <4>3. IsFiniteSet(toRepeat') /\ Cardinality(toRepeat') <= Cardinality(toRepeat \cup {f})
        BY <4>1, <4>2, FS_Subset
      <4>4. Cardinality(toRepeat') \in Nat /\ Cardinality(toRepeat \cup {f}) \in Nat
        BY <4>2, <4>3, FS_CardinalityType
      <4>5. again' = again
        BY <1>k, <3>2 DEF Sending
      <4> QED
        BY <1>c, <1>r, <4>2, <4>3, <4>4, <4>5
    <3> QED
      BY <1>t, <3>1, <3>2 DEF Sending
  <2>8. Finite' /\ Budget'
    <3>1. Finite'
      BY <1>1, <1>5, <1>8, <2>1 DEF Finite
    <3>2. /\ Cardinality(fromMail') = Cardinality(fromMail)
          /\ Cardinality(posted') = Cardinality(posted)
          /\ Cardinality(DOMAIN toLaptop') = Cardinality(DOMAIN toLaptop)
          /\ Cardinality(mailed') = Cardinality(mailed)
      BY <1>5, <1>8, <2>1
    <3> QED
      BY <1>1, <1>c, <1>n, <1>r, <2>7, <3>1, <3>2 DEF Budget
  <2> QED
    BY <1>4, <1>6, <2>2, <2>3, <2>8 DEF IInv
<1>9. CASE creates
  <2>1. /\ DOMAIN toLaptop' \subseteq Nat /\ toLaptop' \in [DOMAIN toLaptop' -> Nat]
        /\ mailed' = mailed \cup {f}
        /\ \A m \in DOMAIN toLaptop' : 0..m \subseteq DOMAIN toLaptop'
        /\ DOMAIN toLaptop \subseteq DOMAIN toLaptop'
        /\ IsFiniteSet(DOMAIN toLaptop') /\ IsFiniteSet(mailed')
        /\ Cardinality(DOMAIN toLaptop') = Cardinality(DOMAIN toLaptop) + 1
        /\ Cardinality(mailed') = Cardinality(mailed) + (IF f \in mailed THEN 0 ELSE 1)
    BY <1>9, Mails
  <2>2. /\ f \in Nat /\ f > relay.seen /\ f \in DOMAIN messages /\ messages[f].room \in mailRooms
        /\ relay.pc = "send" /\ relay.pc \in Sending
    BY <1>9, <1>s DEF Sending
  <2> HIDE DEF f
  <2>3. TypeOK' /\ Boxes'
    <3>1. TypeOK'
      BY <1>1, <1>2, <1>3, <1>n, <2>1 DEF TypeOK, laptopVars
    <3>2. Below(cursor.out, toLaptop') /\ Below(0, toHost) /\ Below(0, toLaptop')
      BY <1>1, <2>1, BelowZero DEF Boxes, Below
    <3> QED
      BY <1>1, <1>2, <1>3, <2>1, <3>1, <3>2 DEF Boxes, BoxesHaveNoGaps
  <2>4. Mailed'
    BY <1>1, <1>2, <1>3, <1>5, <1>t, <2>1, <2>2 DEF Mailed
  <2>5. toRepeat' \subseteq toRepeat \cup {f} /\ (f \in mailed => f \in toRepeat)
    <3>1. seenTo = relay.seen
      BY <2>2 DEF seenTo
    <3>2. \A i \in mailed : i <= Len(messages)
      BY <1>1, <1>t DEF Mailed
    <3>3. ASSUME NEW i \in mailed, i > seenTo' PROVE i > seenTo
      BY <1>7, <1>t, <3>1, <3>2, <3>3
    <3> QED
      BY <1>t, <2>1, <2>2, <3>1, <3>3 DEF toRepeat
  <2>6. /\ IsFiniteSet(toRepeat \cup {f})
        /\ Cardinality(toRepeat \cup {f}) = IF f \in toRepeat THEN Cardinality(toRepeat)
                                            ELSE Cardinality(toRepeat) + 1
    BY <1>r, FS_AddElement
  <2>7. IsFiniteSet(toRepeat') /\ Cardinality(toRepeat') <= Cardinality(toRepeat \cup {f})
    <3>1. toRepeat' \in SUBSET (toRepeat \cup {f})
      BY <2>5
    <3> QED
      BY <2>6, <3>1, FS_Subset
  <2>8. /\ Cardinality(toRepeat') \in Nat /\ Cardinality(toRepeat \cup {f}) \in Nat
        /\ Cardinality(DOMAIN toLaptop') \in Nat /\ Cardinality(mailed') \in Nat
    BY <2>1, <2>6, <2>7, FS_CardinalityType
  <2>9. (Cardinality(DOMAIN toLaptop') - Cardinality(mailed')) + Cardinality(toRepeat')
            <= (Cardinality(DOMAIN toLaptop) - Cardinality(mailed)) + Cardinality(toRepeat) + 1
    <3>1. CASE f \in mailed
      BY <1>c, <1>r, <2>1, <2>5, <2>6, <2>7, <2>8, <3>1
    <3>2. CASE f \notin mailed
      <4>1. Cardinality(toRepeat \cup {f}) <= Cardinality(toRepeat) + 1
        BY <1>r, <2>6
      <4> QED
        BY <1>c, <1>r, <2>1, <2>7, <2>8, <3>2, <4>1
    <3> QED
      BY <3>1, <3>2
  <2>10. Finite' /\ Budget'
    <3>1. Finite'
      BY <1>1, <1>5, <2>1 DEF Finite
    <3>2. /\ Cardinality(fromMail') = Cardinality(fromMail)
          /\ Cardinality(posted') = Cardinality(posted) /\ again' = again
      BY <1>5, <1>k, <2>2
    <3> QED
      BY <1>1, <1>c, <1>n, <1>r, <2>8, <2>9, <3>1, <3>2 DEF Budget
  <2> QED
    BY <1>4, <1>6, <2>3, <2>4, <2>10 DEF IInv
<1> QED
  BY <1>2, <1>8, <1>9

-----------------------------------------------------------------------------
(* The invariant *)

\* At first both boxes are empty and nothing is posted.
LEMMA StartStep == Init => IInv
<1> SUFFICES ASSUME Init PROVE IInv
  OBVIOUS
<1>1. /\ toHost = [n \in {} |-> None] /\ toLaptop = [n \in {} |-> None]
      /\ DOMAIN toHost = {} /\ DOMAIN toLaptop = {}
      /\ messages = <<>> /\ mailRooms = {} /\ cursor = [seen |-> Absent, in |-> 0, out |-> 0]
      /\ relay = Idle /\ base = 0 /\ lines = 0 /\ faults = 0
      /\ shown = [l \in Laptops |-> {}]
  BY DEF Init
<1>2. DOMAIN messages = {} /\ Len(messages) = 0 /\ messages \in Seq(Message)
  BY <1>1
<1>3. /\ Idle \in Pass /\ Idle.pc = "idle" /\ Idle.seen = 0 /\ Idle.in = 0 /\ Idle.out = 0
  BY DEF Idle, Pass
<1>4. /\ cursor \in MailCursors /\ cursor.seen = Absent /\ cursor.in = 0 /\ cursor.out = 0
  BY <1>1 DEF MailCursors
<1>5. fromMail = {} /\ posted = {} /\ mailed = {} /\ toRepeat = {} /\ again = 0
  <2>1. fromMail = {} /\ mailed = {}
    BY <1>1, <1>2 DEF fromMail, mailed
  <2>2. posted = {} /\ toRepeat = {}
    BY <2>1 DEF posted, toRepeat
  <2> QED
    BY <2>1, <2>2 DEF again
<1>6. [toHost |-> 0, toLaptop |-> 0] \in Cursors
  BY DEF Cursors
<1>7. /\ laptop \in [Laptops -> RemoteChat] /\ file \in [Laptops -> Cursors]
      /\ \A l \in Laptops : /\ laptop[l].pc = "rest" /\ laptop[l].cur.toHost = 0
                            /\ laptop[l].cur.toLaptop = 0
                            /\ file[l].toHost = 0 /\ file[l].toLaptop = 0
  BY <1>6 DEF Init, RemoteChat
<1>8. TypeOK
  <2>1. toHost \in [DOMAIN toHost -> Line] /\ toLaptop \in [DOMAIN toLaptop -> Nat]
    BY <1>1
  <2>2. lines \in 0..MaxLines /\ faults \in 0..MaxFaults
    BY <1>1, MailAssumption
  <2> QED
    BY <1>1, <1>2, <1>3, <1>4, <1>7, <2>1, <2>2 DEF TypeOK
<1>9. Boxes /\ \A l \in Laptops : Chatting(l)
  <2>1. Below(0, toHost) /\ Below(0, toLaptop) /\ 0..(0 - 1) = {}
    BY BelowZero
  <2> QED
    BY <1>1, <1>3, <1>4, <1>7, <2>1 DEF Boxes, Chatting, BoxesHaveNoGaps
<1>10. At /\ Posted /\ InOrder /\ ToGo
  BY <1>1, <1>3, <1>5 DEF At, Posted, InOrder, ToGo, Receiving, Sending
<1>11. Mailed
  BY <1>1, <1>2, <1>3, <1>4, <1>5 DEF Mailed, Absent
<1>12. Finite /\ Budget
  <2>1. IsFiniteSet({}) /\ Cardinality({}) = 0
    BY FS_EmptySet
  <2> QED
    BY <1>1, <1>5, <2>1 DEF Finite, Budget
<1> QED
  BY <1>8, <1>9, <1>10, <1>11, <1>12 DEF IInv

\* Nothing happens.
LEMMA QuietStep == IInv /\ UNCHANGED vars => IInv'
<1> SUFFICES ASSUME IInv, UNCHANGED vars PROVE IInv'
  OBVIOUS
<1>1. UNCHANGED <<toHost, toLaptop, messages, mailRooms, cursor, relay, laptop, file, shown,
                  lines, base, faults>>
  BY DEF vars, hostVars, laptopVars
<1>2. fromMail' = fromMail /\ posted' = posted /\ mailed' = mailed
      /\ \A i : isReply(i)' <=> isReply(i)
  BY <1>1 DEF fromMail, posted, mailed, isReply
<1>3. received' = received /\ seenTo' = seenTo
  BY <1>1 DEF received, seenTo
<1>4. again' = again /\ toRepeat' = toRepeat
  BY <1>2, <1>3 DEF again, toRepeat
<1>5. TypeOK' /\ Boxes' /\ \A l \in Laptops : Chatting(l)'
  BY <1>1 DEF IInv, TypeOK, Boxes, BoxesHaveNoGaps, Below, Chatting
<1>6. At' /\ Posted' /\ InOrder'
  BY <1>1, <1>2 DEF IInv, At, Posted, InOrder
<1>7. Mailed' /\ ToGo'
  BY <1>1, <1>2 DEF IInv, Mailed, ToGo
<1>8. Finite' /\ Budget'
  BY <1>1, <1>2, <1>4 DEF IInv, Finite, Budget
<1> QED
  BY <1>5, <1>6, <1>7, <1>8 DEF IInv

\* Every step of the laptops, of the relay and of the garage keeps the invariant.
LEMMA Inductive == IInv /\ [Next]_vars => IInv'
<1> SUFFICES ASSUME IInv, [Next]_vars PROVE IInv'
  OBVIOUS
<1>1. CASE relayStep
  BY <1>1, RelayMailStep, ReceiveStep, PostMailStep, RememberRoomStep, SaveInStep, QueryStep,
     NextMessageStep, SendOutStep, SaveOutStep, SaveSeenStep DEF relayStep
<1>2. CASE passFails
  BY <1>2, PassFailsStep
<1>3. ASSUME NEW i \in DOMAIN messages, agentAnswers(i) PROVE IInv'
  BY <1>3, AgentAnswersStep
<1>4. ASSUME NEW r \in Rooms, humanPosts(r) PROVE IInv'
  BY <1>4, HumanPostsStep
<1>5. ASSUME NEW l \in Laptops, NEW r \in Rooms, typeLine(l, r) PROVE IInv'
  BY <1>5, TypeLineStep
<1>6. ASSUME NEW l \in Laptops, laptopStep(l) PROVE IInv'
  BY <1>6, SendLineStep, ShowMailStep, SaveStep DEF laptopStep
<1>7. ASSUME NEW l \in Laptops, check(l) \/ showFails(l) \/ saveFails(l) PROVE IInv'
  BY <1>7, PlainStep
<1>8. ASSUME NEW l \in Laptops, restart(l) \/ loseFile(l) PROVE IInv'
  BY <1>8, RestartStep, LoseFileStep
<1>9. CASE UNCHANGED vars
  BY <1>9, QuietStep
<1> QED
  BY <1>1, <1>2, <1>3, <1>4, <1>5, <1>6, <1>7, <1>8, <1>9 DEF Next

\* Mail is passed on by the invariant: cursors below which nothing is free, mail posted
\* in order, replies that are mailed or in the list of the pass, and the repeats that
\* a failed pass leaves, each paid for.
THEOREM Invariance == Spec => []IInv
  BY StartStep, Inductive, PTL DEF Spec

\* The boxes, the database, the pass and the laptops keep their types.
THEOREM MailTypes == Spec => []TypeOK
<1>1. IInv => TypeOK
  BY DEF IInv
<1> QED
  BY <1>1, Invariance, PTL

\* No number below a used one is ever free, whoever raced whom to a number and
\* wherever a sender or a pass stopped (mail.Send).
THEOREM NoGapsAppear == Spec => []BoxesHaveNoGaps
<1>1. IInv => BoxesHaveNoGaps
  BY DEF IInv, Boxes
<1> QED
  BY <1>1, Invariance, PTL

\* No cursor passes what was not delivered, for any number of laptops and wherever
\* passes fail (RelayMail, and check in remoteChat).
THEOREM NothingIsPassedOver == Spec => []PassedIsDelivered
<1>1. IInv => PassedIsDelivered
  BY DEF IInv, InOrder, Mailed, Chatting, PassedIsDelivered
<1> QED
  BY <1>1, Invariance, PTL

\* One fault repeats one message at most, and without a fault none is repeated: what
\* was done twice and what will be is paid for by a fault (the order of effect and
\* cursor in RelayMail).
THEOREM FaultsPayForRepeats == Spec => []RepeatsCostAFault
<1>1. IInv => RepeatsCostAFault
  <2> SUFFICES ASSUME IInv PROVE RepeatsCostAFault
    OBVIOUS
  <2>1. toRepeat \in SUBSET mailed
    BY DEF toRepeat
  <2>2. IsFiniteSet(toRepeat)
    BY <2>1, FS_Subset DEF IInv, Finite
  <2>3. /\ Cardinality(fromMail) \in Nat /\ Cardinality(posted) \in Nat
        /\ Cardinality(DOMAIN toLaptop) \in Nat /\ Cardinality(mailed) \in Nat
        /\ Cardinality(toRepeat) \in Nat
    BY <2>2, FS_CardinalityType DEF IInv, Finite
  <2>4. again \in {0, 1} /\ faults \in Nat
    BY MailAssumption DEF again, IInv, TypeOK
  <2> QED
    BY <2>3, <2>4 DEF IInv, Budget, RepeatsCostAFault
<1> QED
  BY <1>1, Invariance, PTL

=============================================================================
