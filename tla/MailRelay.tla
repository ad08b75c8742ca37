------------------------------- MODULE MailRelay -------------------------------
(***************************************************************************)
(* Chat between laptops and the host through the bucket: numbered,         *)
(* create-only objects in two boxes (bucket/mail), the host's relay pass   *)
(* between them and the chatroom's database (chatroom/mail.go), and        *)
(* garage remote chat on a laptop (cmd/garage/remote.go).                  *)
(*                                                                         *)
(* Every database statement and bucket call of a pass is a step, so that a *)
(* pass can fail, or its process end, between any two of them.  A failed   *)
(* Create may have had its effect: the answer is lost and not asked again. *)
(* Mail is identified by the laptop's line, a reply by what it answers.    *)
(***************************************************************************)
EXTENDS Integers, Sequences, FiniteSets

CONSTANTS
    Laptops,   \* laptops that write to the bucket
    Trusted,   \* the ones whose key the host trusts
    Readers,   \* bound: the ones that look for replies, which none notices of another
    Rooms,
    None,      \* no line that is being sent
    MaxLines,  \* bound on lines typed
    MaxPosts,  \* bound on messages agents and people post on the host
    MaxFaults  \* bound on failed calls and crashes

ASSUME MailAssumption ==
    /\ Trusted \subseteq Laptops /\ Readers \subseteq Laptops
    /\ MaxLines \in Nat /\ MaxPosts \in Nat /\ MaxFaults \in Nat

VARIABLES
    toHost,    \* mail/to-host/<n>: number -> what was created there
    toLaptop,  \* mail/to-laptop/<n>
    messages,  \* the chatroom's messages, by id
    mailRooms, \* mail_rooms
    cursor,    \* mail_cursors
    relay,     \* the pass in progress, and its locals
    laptop,    \* garage remote chat on each laptop
    file,      \* its cursors file
    shown,     \* the to-laptop numbers each laptop has printed
    lines,     \* lines typed so far
    base,      \* where the last first pass started from, for the properties
    faults

hostVars == <<messages, mailRooms, cursor, relay, base>>
laptopVars == <<laptop, file, shown, lines>>
vars == <<toHost, toLaptop, hostVars, laptopVars, faults>>

-----------------------------------------------------------------------------

Absent == -1

Line == [from : Laptops, room : Rooms, n : 1..MaxLines]
Message == [room : Rooms, by : {"laptop", "agent", "human"}, re : Nat]
Cursors == [toHost : Nat, toLaptop : Nat]
MailCursors == [seen : Nat \cup {Absent}, in : Nat, out : Nat]

\* A pass, with the ids it has yet to go through.
Pass == [pc : {"idle", "get", "post", "room", "saveIn", "query", "next", "send", "saveOut",
               "saveSeen"},
         seen : Nat, in : Nat, out : Nat, msgs : SUBSET Nat]

RemoteChat == [pc : {"rest", "send", "saveSent", "get", "saveRead"}, cur : Cursors,
               line : Line \cup {None}]

TypeOK ==
    /\ DOMAIN toHost \subseteq Nat /\ toHost \in [DOMAIN toHost -> Line]
    /\ DOMAIN toLaptop \subseteq Nat /\ toLaptop \in [DOMAIN toLaptop -> Nat]
    /\ messages \in Seq(Message) /\ mailRooms \subseteq Rooms
    /\ cursor \in MailCursors /\ relay \in Pass
    /\ laptop \in [Laptops -> RemoteChat] /\ file \in [Laptops -> Cursors]
    /\ shown \in [Laptops -> SUBSET Nat]
    /\ lines \in 0..MaxLines /\ base \in Nat /\ faults \in 0..MaxFaults

fault == faults < MaxFaults /\ faults' = faults + 1

\* Create in a box, at a number where there is nothing.
create(box, n, what) == [m \in DOMAIN box \cup {n} |-> IF m = n THEN what ELSE box[m]]

-----------------------------------------------------------------------------
(* The host's relay pass *)

Idle == [pc |-> "idle", seen |-> 0, in |-> 0, out |-> 0, msgs |-> {}]

\* The pass reads its cursors; without one for seen it starts after everything
\* that is there.
RelayMail ==
    /\ relay.pc = "idle"
    /\ LET seen == IF cursor.seen = Absent THEN Len(messages) ELSE cursor.seen IN
       /\ relay' = [Idle EXCEPT !.pc = "get", !.seen = seen, !.in = cursor.in]
       /\ base' = IF cursor.seen = Absent THEN seen ELSE base
    /\ UNCHANGED <<toHost, toLaptop, messages, mailRooms, cursor, laptopVars, faults>>

\* Mutant: mail that can't be verified ends the loop.
receiveStopsAtForged ==
    /\ relay.pc = "get"
    /\ LET n == relay.in IN
       relay' = IF n \notin DOMAIN toHost \/ toHost[n].from \notin Trusted
                THEN [relay EXCEPT !.pc = "query"] ELSE [relay EXCEPT !.pc = "post"]
    /\ UNCHANGED <<toHost, toLaptop, messages, mailRooms, cursor, base, laptopVars, faults>>

\* mail.Receive: the next mail, until one is missing; what was not signed by a
\* trusted key is skipped.
receive ==
    /\ relay.pc = "get"
    /\ LET n == relay.in IN
       relay' = IF n \notin DOMAIN toHost THEN [relay EXCEPT !.pc = "query"]
                ELSE IF toHost[n].from \notin Trusted THEN [relay EXCEPT !.in = n + 1]
                ELSE [relay EXCEPT !.pc = "post"]
    /\ UNCHANGED <<toHost, toLaptop, messages, mailRooms, cursor, base, laptopVars, faults>>

postMail ==
    /\ relay.pc = "post"
    /\ messages' = Append(messages, [room |-> toHost[relay.in].room, by |-> "laptop",
                                     re |-> relay.in])
    /\ relay' = [relay EXCEPT !.pc = "room"]
    /\ UNCHANGED <<toHost, toLaptop, mailRooms, cursor, base, laptopVars, faults>>

rememberRoom ==
    /\ relay.pc = "room"
    /\ mailRooms' = mailRooms \cup {toHost[relay.in].room}
    /\ relay' = [relay EXCEPT !.pc = "saveIn"]
    /\ UNCHANGED <<toHost, toLaptop, messages, cursor, base, laptopVars, faults>>

\* Mutant: the cursor is saved once, when all mail is read.
saveInLater ==
    /\ relay.pc = "saveIn"
    /\ relay' = [relay EXCEPT !.pc = "get", !.in = @ + 1]
    /\ UNCHANGED <<toHost, toLaptop, messages, mailRooms, cursor, base, laptopVars, faults>>

saveIn ==
    /\ relay.pc = "saveIn"
    /\ cursor' = [cursor EXCEPT !.in = relay.in + 1]
    /\ relay' = [relay EXCEPT !.pc = "get", !.in = @ + 1]
    /\ UNCHANGED <<toHost, toLaptop, messages, mailRooms, base, laptopVars, faults>>

\* The to-host cursor is saved past skipped mail too, and what is to be mailed
\* out is read.
queryMessages ==
    /\ relay.pc = "query"
    /\ cursor' = [cursor EXCEPT !.in = relay.in]
    /\ relay' = [relay EXCEPT !.pc = "next", !.out = cursor.out,
                   !.msgs = {i \in DOMAIN messages :
                                i > relay.seen /\ messages[i].room \in mailRooms}]
    /\ UNCHANGED <<toHost, toLaptop, messages, mailRooms, base, laptopVars, faults>>

\* The rows come in the order of their ids.
first(msgs) == CHOOSE i \in msgs : \A j \in msgs : i <= j

\* The loop over the messages: an agent's is sent, the others are passed over.
\* At its end seen is saved once more.
nextMessage ==
    /\ relay.pc = "next"
    /\ IF relay.msgs = {}
       THEN relay' = Idle /\ cursor' = [cursor EXCEPT !.seen = relay.seen]
       ELSE /\ relay' = [relay EXCEPT !.pc = IF messages[first(relay.msgs)].by = "agent"
                                             THEN "send" ELSE "saveSeen"]
            /\ UNCHANGED cursor
    /\ UNCHANGED <<toHost, toLaptop, messages, mailRooms, base, laptopVars, faults>>

\* mail.Send: one try of its loop, at the first number that may be free.
sendOut ==
    /\ relay.pc = "send"
    /\ IF relay.out \in DOMAIN toLaptop
       THEN relay' = [relay EXCEPT !.out = @ + 1] /\ UNCHANGED toLaptop
       ELSE /\ toLaptop' = create(toLaptop, relay.out, first(relay.msgs))
            /\ relay' = [relay EXCEPT !.pc = "saveOut", !.out = @ + 1]
    /\ UNCHANGED <<toHost, messages, mailRooms, cursor, base, laptopVars, faults>>

saveOut ==
    /\ relay.pc = "saveOut"
    /\ cursor' = [cursor EXCEPT !.out = relay.out]
    /\ relay' = [relay EXCEPT !.pc = "saveSeen"]
    /\ UNCHANGED <<toHost, toLaptop, messages, mailRooms, base, laptopVars, faults>>

saveSeen ==
    /\ relay.pc = "saveSeen"
    /\ cursor' = [cursor EXCEPT !.seen = first(relay.msgs)]
    /\ relay' = [relay EXCEPT !.pc = "next", !.seen = first(relay.msgs),
                              !.msgs = @ \ {first(relay.msgs)}]
    /\ UNCHANGED <<toHost, toLaptop, messages, mailRooms, base, laptopVars, faults>>

\* A statement or a call of the pass fails, or the process ends: the pass is
\* given up, and the next one starts from what was saved.  A Create may have
\* been carried out.
passFails ==
    /\ relay.pc # "idle" /\ fault
    /\ relay' = Idle
    /\ \/ UNCHANGED toLaptop
       \/ /\ relay.pc = "send" /\ relay.out \notin DOMAIN toLaptop
          /\ toLaptop' = create(toLaptop, relay.out, first(relay.msgs))
    /\ UNCHANGED <<toHost, messages, mailRooms, cursor, base, laptopVars>>

-----------------------------------------------------------------------------
(* The rooms on the host *)

posts == Cardinality({i \in DOMAIN messages : messages[i].by # "laptop"})

\* An agent answers message i, or a person writes.
agentAnswers(i) ==
    /\ posts < MaxPosts /\ messages[i].by # "agent"
    /\ \A j \in DOMAIN messages : ~(messages[j].by = "agent" /\ messages[j].re = i)
    /\ messages' = Append(messages, [room |-> messages[i].room, by |-> "agent", re |-> i])
    /\ UNCHANGED <<toHost, toLaptop, mailRooms, cursor, relay, base, laptopVars, faults>>

humanPosts(r) ==
    /\ posts < MaxPosts
    /\ messages' = Append(messages, [room |-> r, by |-> "human", re |-> 0])
    /\ UNCHANGED <<toHost, toLaptop, mailRooms, cursor, relay, base, laptopVars, faults>>

-----------------------------------------------------------------------------
(* garage remote chat.  A mutex keeps a line being sent and a check apart. *)

step(l, pc) == [laptop EXCEPT ![l].pc = pc]

typeLine(l, r) ==
    /\ laptop[l].pc = "rest" /\ lines < MaxLines
    /\ lines' = lines + 1
    /\ laptop' = [laptop EXCEPT ![l] = [@ EXCEPT !.pc = "send",
                                          !.line = [from |-> l, room |-> r, n |-> lines + 1]]]
    /\ UNCHANGED <<toHost, toLaptop, hostVars, file, shown, faults>>

\* Mutant: the number after the last one sent is not tried first.
sendLineAhead(l) ==
    LET n == laptop[l].cur.toHost + 1 IN
    /\ laptop[l].pc = "send" /\ n \notin DOMAIN toHost
    /\ toHost' = create(toHost, n, laptop[l].line)
    /\ laptop' = [laptop EXCEPT ![l] = [@ EXCEPT !.pc = "saveSent", !.cur.toHost = n,
                                          !.line = None]]
    /\ UNCHANGED <<toLaptop, hostVars, file, shown, lines, faults>>

\* mail.Send of the line: one try of its loop.
sendLine(l) ==
    LET n == laptop[l].cur.toHost IN
    /\ laptop[l].pc = "send"
    /\ IF n \in DOMAIN toHost
       THEN laptop' = [laptop EXCEPT ![l].cur.toHost = n + 1] /\ UNCHANGED toHost
       ELSE /\ toHost' = create(toHost, n, laptop[l].line)
            /\ laptop' = [laptop EXCEPT ![l] = [@ EXCEPT !.pc = "saveSent",
                                                  !.cur.toHost = n + 1, !.line = None]]
    /\ UNCHANGED <<toLaptop, hostVars, file, shown, lines, faults>>

\* The ticker's check of the mail.
check(l) ==
    /\ laptop[l].pc = "rest" /\ l \in Readers
    /\ laptop' = step(l, "get")
    /\ UNCHANGED <<toHost, toLaptop, hostVars, file, shown, lines, faults>>

\* mail.Receive: the next reply is printed, until one is missing.
showMail(l) ==
    LET n == laptop[l].cur.toLaptop IN
    /\ laptop[l].pc = "get"
    /\ IF n \notin DOMAIN toLaptop
       THEN laptop' = step(l, "saveRead") /\ UNCHANGED shown
       ELSE /\ shown' = [shown EXCEPT ![l] = @ \cup {n}]
            /\ laptop' = [laptop EXCEPT ![l].cur.toLaptop = n + 1]
    /\ UNCHANGED <<toHost, toLaptop, hostVars, file, lines, faults>>

\* Mutant: a Get that fails counts as read.
showFailsAndSkips(l) ==
    /\ laptop[l].pc = "get" /\ fault
    /\ laptop' = [laptop EXCEPT ![l] = [@ EXCEPT !.pc = "saveRead", !.cur.toLaptop = @ + 1]]
    /\ UNCHANGED <<toHost, toLaptop, hostVars, file, shown, lines>>

\* A Get fails: what was read so far is saved all the same.
showFails(l) ==
    /\ laptop[l].pc = "get" /\ fault
    /\ laptop' = step(l, "saveRead")
    /\ UNCHANGED <<toHost, toLaptop, hostVars, file, shown, lines>>

save(l) ==
    /\ laptop[l].pc \in {"saveSent", "saveRead"}
    /\ file' = [file EXCEPT ![l] = laptop[l].cur]
    /\ laptop' = step(l, "rest")
    /\ UNCHANGED <<toHost, toLaptop, hostVars, shown, lines, faults>>

\* The cursors file can't be written after a check.
saveFails(l) ==
    /\ laptop[l].pc = "saveRead" /\ fault
    /\ laptop' = step(l, "rest")
    /\ UNCHANGED <<toHost, toLaptop, hostVars, file, shown, lines>>

\* A line's Create or its save fails, which ends the command, or it crashes, and
\* it is started again from its file.  A Create may have been carried out.
restart(l) ==
    /\ fault
    /\ laptop' = [laptop EXCEPT ![l] = [pc |-> "rest", cur |-> file[l], line |-> None]]
    /\ LET n == laptop[l].cur.toHost IN
       \/ UNCHANGED toHost
       \/ /\ laptop[l].pc = "send" /\ n \notin DOMAIN toHost
          /\ toHost' = create(toHost, n, laptop[l].line)
    /\ UNCHANGED <<toLaptop, hostVars, file, shown, lines>>

\* The cursors file is lost: "starting again from zero".
loseFile(l) ==
    /\ laptop[l].pc = "rest" /\ fault
    /\ file' = [file EXCEPT ![l] = [toHost |-> 0, toLaptop |-> 0]]
    /\ laptop' = [laptop EXCEPT ![l].cur = [toHost |-> 0, toLaptop |-> 0]]
    /\ UNCHANGED <<toHost, toLaptop, hostVars, shown, lines>>

-----------------------------------------------------------------------------

Init ==
    /\ toHost = [n \in {} |-> None]
    /\ toLaptop = [n \in {} |-> None]
    /\ messages = <<>>
    /\ mailRooms = {}
    /\ cursor = [seen |-> Absent, in |-> 0, out |-> 0]
    /\ relay = Idle
    /\ base = 0
    /\ laptop = [l \in Laptops |-> [pc |-> "rest", cur |-> [toHost |-> 0, toLaptop |-> 0],
                                    line |-> None]]
    /\ file = [l \in Laptops |-> [toHost |-> 0, toLaptop |-> 0]]
    /\ shown = [l \in Laptops |-> {}]
    /\ lines = 0
    /\ faults = 0

relayStep ==
    \/ RelayMail \/ receive \/ postMail \/ rememberRoom \/ saveIn \/ queryMessages
    \/ nextMessage \/ sendOut \/ saveOut \/ saveSeen

laptopStep(l) == sendLine(l) \/ showMail(l) \/ save(l)

Next ==
    \/ relayStep \/ passFails
    \/ \E i \in DOMAIN messages : agentAnswers(i)
    \/ \E r \in Rooms : humanPosts(r)
    \/ \E l \in Laptops :
         \/ \E r \in Rooms : typeLine(l, r)
         \/ laptopStep(l) \/ check(l) \/ showFails(l) \/ saveFails(l)
         \/ restart(l) \/ loseFile(l)

Spec == Init /\ [][Next]_vars

-----------------------------------------------------------------------------
(* Safety *)

mailed == {toLaptop[n] : n \in DOMAIN toLaptop}
fromMail == {i \in DOMAIN messages : messages[i].by = "laptop"}
posted == {messages[i].re : i \in fromMail}

\* An agent's answer to a message that came by mail.
isReply(i) ==
    /\ messages[i].by = "agent" /\ messages[messages[i].re].by = "laptop"

\* No number below a used one is free: a reader stops at the first missing number,
\* so a gap would hide everything after it for ever, whoever raced whom to a
\* number and wherever a sender stopped (Send, Receive).
BoxesHaveNoGaps ==
    /\ \A n \in DOMAIN toHost : 0..n \subseteq DOMAIN toHost
    /\ \A n \in DOMAIN toLaptop : 0..n \subseteq DOMAIN toLaptop

\* No cursor passes what was not delivered, although each is saved after its effect
\* and a pass may stop between any two statements: what the to-host cursor has
\* passed is in its room if it was signed by a trusted key, a reply that seen has
\* passed since the first pass began has been mailed (RelayMail), and what a laptop's
\* file has passed was printed there (check in remoteChat).
PassedIsDelivered ==
    /\ \A n \in DOMAIN toHost : n < cursor.in /\ toHost[n].from \in Trusted => n \in posted
    /\ \A i \in DOMAIN messages : isReply(i) /\ base < i /\ i <= cursor.seen => i \in mailed
    /\ \A l \in Laptops : 0..(file[l].toLaptop - 1) \subseteq shown[l]

\* Nothing is posted or mailed twice without a fault, and one fault repeats one
\* message at most (the order of effect and cursor in RelayMail).
RepeatsCostAFault ==
      (Cardinality(fromMail) - Cardinality(posted))
    + (Cardinality(DOMAIN toLaptop) - Cardinality(mailed)) <= faults

-----------------------------------------------------------------------------
(* Liveness *)

\* The loop of garage serve makes its passes, a garage remote chat its checks.
Fairness ==
    /\ WF_vars(relayStep)
    /\ \A l \in Laptops : WF_vars(laptopStep(l)) /\ WF_vars(check(l))

FairSpec == Spec /\ Fairness

\* Again and again all mail from trusted laptops has been posted, past mail that is
\* not to be and passes that failed, and every reply to it has been shown on the
\* laptops that look for it, but for those from before a first pass that failed was
\* begun again (Receive, RelayMail, check in remoteChat).
MailArrives ==
    /\ []<>(\A n \in DOMAIN toHost : toHost[n].from \in Trusted => n \in posted)
    /\ []<>(cursor.seen = Absent \/
              \A i \in DOMAIN messages : isReply(i) /\ base < i =>
                  \A l \in Readers : \E n \in shown[l] : toLaptop[n] = i)

=============================================================================
