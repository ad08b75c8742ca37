-------------------------------- MODULE Chatroom --------------------------------
(***************************************************************************)
(* The chatroom service (chatroom/chatroom.go): people and agents post,    *)
(* each agent's goroutine is handed the mentions of it through a bounded   *)
(* inbox, readers wait for news, and Close ends it all.                    *)
(*                                                                         *)
(* Post is two steps, the INSERT and what it does under Service.mu; so is  *)
(* a turn of Wait, which takes the channel `changed' before it reads.  A   *)
(* channel that is closed and replaced is a generation number.             *)
(***************************************************************************)
EXTENDS Naturals, Sequences, FiniteSets

CONSTANTS
    Members,     \* the agents that joined
    People,      \* who posts over HTTP or mail
    Readers,     \* calls of Wait
    Rooms,
    None,        \* no message
    InboxCap,    \* capacity of an inbox, 100 in the code
    MaxMessages  \* bound on messages posted

ASSUME ChatroomAssumption ==
    /\ Members \cap People = {}
    /\ InboxCap \in Nat \ {0} /\ MaxMessages \in Nat

VARIABLES
    messages,    \* the table, by id
    posting,     \* the message each author has inserted and not yet announced
    changed,     \* the generation of Service.changed
    inbox,       \* Service.members
    handling,    \* the mention each agent's handler runs for
    ran,         \* the mentions each agent's handler has been called for
    dropped,     \* the mentions each agent's full inbox turned away
    reader,      \* the calls of Wait
    service      \* "open", "closing" once cancelled, "closed"

vars == <<messages, posting, changed, inbox, handling, ran, dropped, reader, service>>

-----------------------------------------------------------------------------

Authors == Members \cup People
Ids == 1..MaxMessages
NoId == 0

\* A row of the table, and a call of Wait.
Row == [room : Rooms, author : Authors, mentions : SUBSET Members]
WaitCall == [pc : {"rest", "read", "blocked"}, room : Rooms \cup {None},
             after : 0..MaxMessages, changed : 0..MaxMessages]

TypeOK ==
    /\ messages \in Seq(Row)
    /\ Len(messages) <= MaxMessages
    /\ posting \in [Authors -> Ids \cup {NoId}]
    /\ changed \in 0..MaxMessages
    /\ inbox \in [Members -> Seq(Ids)]
    /\ \A m \in Members : Len(inbox[m]) <= InboxCap
    /\ handling \in [Members -> Ids \cup {NoId}]
    /\ ran \in [Members -> Seq(Ids)]
    /\ dropped \in [Members -> SUBSET Ids]
    /\ reader \in [Readers -> WaitCall]
    /\ service \in {"open", "closing", "closed"}

-----------------------------------------------------------------------------
(* Post *)

\* The message is in the room.  An agent posts from its handler.
insert(a, r, ms) ==
    /\ service # "closed" /\ Len(messages) < MaxMessages
    /\ posting[a] = NoId
    /\ a \in Members => handling[a] # NoId
    /\ messages' = Append(messages, [room |-> r, author |-> a, mentions |-> ms])
    /\ posting' = [posting EXCEPT ![a] = Len(messages) + 1]
    /\ UNCHANGED <<changed, inbox, handling, ran, dropped, reader, service>>

\* Mutant: a full inbox is waited for, with the lock held.
announceBlocks(a) ==
    /\ posting[a] # NoId
    /\ LET woken == messages[posting[a]].mentions \ {a} IN
       /\ \A m \in woken : Len(inbox[m]) < InboxCap
       /\ inbox' = [m \in Members |-> IF m \in woken THEN Append(inbox[m], posting[a]) ELSE inbox[m]]
    /\ changed' = changed + 1
    /\ posting' = [posting EXCEPT ![a] = NoId]
    /\ UNCHANGED <<messages, handling, ran, dropped, reader, service>>

\* Mutant: an agent that names itself wakes itself.
announceAuthorToo(a) ==
    /\ posting[a] # NoId
    /\ LET id == posting[a]
           woken == messages[id].mentions
           full == {m \in woken : Len(inbox[m]) >= InboxCap}
       IN  /\ inbox' = [m \in Members |-> IF m \in woken \ full THEN Append(inbox[m], id)
                                         ELSE inbox[m]]
           /\ dropped' = [m \in Members |-> IF m \in full THEN dropped[m] \cup {id} ELSE dropped[m]]
    /\ changed' = changed + 1
    /\ posting' = [posting EXCEPT ![a] = NoId]
    /\ UNCHANGED <<messages, handling, ran, reader, service>>

\* Under Service.mu: whoever waits is woken, and the message is put in the inbox
\* of every agent it mentions, except its author, or dropped where there is no
\* room.
announce(a) ==
    /\ posting[a] # NoId
    /\ LET id == posting[a]
           woken == messages[id].mentions \ {a}
           full == {m \in woken : Len(inbox[m]) >= InboxCap}
       IN  /\ inbox' = [m \in Members |-> IF m \in woken \ full THEN Append(inbox[m], id)
                                         ELSE inbox[m]]
           /\ dropped' = [m \in Members |-> IF m \in full THEN dropped[m] \cup {id} ELSE dropped[m]]
    /\ changed' = changed + 1
    /\ posting' = [posting EXCEPT ![a] = NoId]
    /\ UNCHANGED <<messages, handling, ran, reader, service>>

-----------------------------------------------------------------------------
(* An agent's goroutine, Join *)

wake(m) ==
    /\ service # "closed" /\ handling[m] = NoId /\ inbox[m] # <<>>
    /\ handling' = [handling EXCEPT ![m] = Head(inbox[m])]
    /\ ran' = [ran EXCEPT ![m] = Append(@, Head(inbox[m]))]
    /\ inbox' = [inbox EXCEPT ![m] = Tail(@)]
    /\ UNCHANGED <<messages, posting, changed, dropped, reader, service>>

handlerReturns(m) ==
    /\ handling[m] # NoId /\ posting[m] = NoId
    /\ handling' = [handling EXCEPT ![m] = NoId]
    /\ UNCHANGED <<messages, posting, changed, inbox, ran, dropped, reader, service>>

-----------------------------------------------------------------------------
(* Wait *)

unread(rd) == {i \in DOMAIN messages : i > rd.after /\ messages[i].room = rd.room}

Wait(w, r) ==
    /\ reader[w].pc = "rest" /\ service = "open"
    /\ LET rd == reader[w] IN
       reader' = [reader EXCEPT ![w] = [rd EXCEPT !.pc = "read", !.changed = changed, !.room = r,
                                          !.after = IF rd.room = r THEN rd.after ELSE 0]]
    /\ UNCHANGED <<messages, posting, changed, inbox, handling, ran, dropped, service>>

\* Mutant: the channel is taken now, and the messages were read before.
waitReadsFirst(w) ==
    /\ reader[w].pc = "read"
    /\ LET news == IF reader[w].changed = changed THEN unread(reader[w]) ELSE {} IN
       reader' = [reader EXCEPT ![w] =
                    IF news = {} THEN [@ EXCEPT !.pc = "blocked", !.changed = changed]
                    ELSE [@ EXCEPT !.pc = "rest",
                                   !.after = CHOOSE i \in news : \A j \in news : j <= i]]
    /\ UNCHANGED <<messages, posting, changed, inbox, handling, ran, dropped, service>>

\* Read: what is there is returned, or the call blocks on the channel it took.
waitReads(w) ==
    /\ reader[w].pc = "read"
    /\ LET news == unread(reader[w]) IN
       reader' = [reader EXCEPT ![w] =
                    IF news = {} THEN [@ EXCEPT !.pc = "blocked"]
                    ELSE [@ EXCEPT !.pc = "rest",
                                   !.after = CHOOSE i \in news : \A j \in news : j <= i]]
    /\ UNCHANGED <<messages, posting, changed, inbox, handling, ran, dropped, service>>

waitWoken(w) ==
    /\ reader[w].pc = "blocked" /\ reader[w].changed # changed
    /\ reader' = [reader EXCEPT ![w] = [@ EXCEPT !.pc = "read", !.changed = changed]]
    /\ UNCHANGED <<messages, posting, changed, inbox, handling, ran, dropped, service>>

\* The caller's context is done.
waitDone(w) ==
    /\ reader[w].pc = "blocked"
    /\ reader' = [reader EXCEPT ![w].pc = "rest"]
    /\ UNCHANGED <<messages, posting, changed, inbox, handling, ran, dropped, service>>

-----------------------------------------------------------------------------
(* Close *)

closeBegins ==
    /\ service = "open"
    /\ service' = "closing"
    /\ UNCHANGED <<messages, posting, changed, inbox, handling, ran, dropped, reader>>

\* Every agent's goroutine has returned, and the database is closed.
closeEnds ==
    /\ service = "closing" /\ \A m \in Members : handling[m] = NoId
    /\ service' = "closed"
    /\ UNCHANGED <<messages, posting, changed, inbox, handling, ran, dropped, reader>>

-----------------------------------------------------------------------------

Init ==
    /\ messages = <<>>
    /\ posting = [a \in Authors |-> NoId]
    /\ changed = 0
    /\ inbox = [m \in Members |-> <<>>]
    /\ handling = [m \in Members |-> NoId]
    /\ ran = [m \in Members |-> <<>>]
    /\ dropped = [m \in Members |-> {}]
    /\ reader = [w \in Readers |-> [pc |-> "rest", room |-> None, after |-> 0, changed |-> 0]]
    /\ service = "open"

Next ==
    \/ \E a \in Authors, r \in Rooms, ms \in SUBSET Members : insert(a, r, ms)
    \/ \E a \in Authors : announce(a)
    \/ \E m \in Members : wake(m) \/ handlerReturns(m)
    \/ \E w \in Readers : \/ \E r \in Rooms : Wait(w, r)
                          \/ waitReads(w) \/ waitWoken(w) \/ waitDone(w)
    \/ closeBegins \/ closeEnds

Spec == Init /\ [][Next]_vars

-----------------------------------------------------------------------------
(* Safety *)

announced(i) == i \in DOMAIN messages /\ \A a \in Authors : posting[a] # i

\* A reader that is blocked and will not be woken has nothing to read: no post
\* slips between its read and its wait (Wait, Post).
NoMissedNews ==
    \A w \in Readers :
        reader[w].pc = "blocked" /\ reader[w].changed = changed =>
            \A i \in unread(reader[w]) : ~announced(i)

\* A mention is handed over exactly once: it waits in the inbox, or the handler
\* was called for it, or the inbox was full when it was announced (Post, Join).
MentionsAreAccountedFor ==
    \A m \in Members : \A i \in DOMAIN messages :
        LET times == Cardinality({k \in DOMAIN inbox[m] : inbox[m][k] = i})
                     + Cardinality({k \in DOMAIN ran[m] : ran[m][k] = i})
                     + (IF i \in dropped[m] THEN 1 ELSE 0)
            mentioned == m \in messages[i].mentions /\ m # messages[i].author
        IN  times = IF mentioned /\ announced(i) THEN 1 ELSE 0

-----------------------------------------------------------------------------
(* Liveness *)

\* Goroutines run and the model behind a handler answers.  A closing service may
\* take a mention or leave it.
FairSpec ==
    /\ Spec
    /\ \A a \in Authors : WF_vars(announce(a))
    /\ \A m \in Members : WF_vars(service = "open" /\ wake(m)) /\ WF_vars(handlerReturns(m))
    /\ \A w \in Readers : WF_vars(waitReads(w) \/ waitWoken(w))

\* Post always returns, whoever's inbox is full and although agents post from the
\* handlers that empty them (Post).
PostsReturn == \A a \in Authors : posting[a] # NoId ~> posting[a] = NoId
=============================================================================
