----------------------------- MODULE TelegramBot -----------------------------
(***************************************************************************)
(* The personal Telegram bot (metaharness/bridge/telegram) over the        *)
(* agent's turns (AgentRun).  One worker takes the updates in turn: a      *)
(* command starts, resumes or shows a session, a prompt runs a turn whose  *)
(* events it reads, shows as one message it edits, and answers at the end. *)
(*                                                                         *)
(* The holders of AgentRun are the bots, each a process that may be        *)
(* stopped, crash and start again over the same database.  A send to       *)
(* Telegram may fail at any time, before or after the message is in the    *)
(* chat, and does once the context is done; the bot goes on as if it had   *)
(* not.                                                                    *)
(***************************************************************************)
EXTENDS AgentRun, FiniteSets

CONSTANTS
    MaxUpdates,    \* bound on the updates sent by people
    MaxUnanswered, \* bound on the progress messages of a turn whose answer is lost
    TextMax,       \* telegramMaxMessage
    Texts          \* what an answer may say

\* A newline, a space, or a rune of a word.
Separators == {"n", " "}
Runes == Separators \cup {"w"}

ASSUME BotAssumption ==
    /\ MaxUpdates \in Nat /\ MaxUnanswered \in Nat /\ TextMax \in Nat /\ TextMax > 1
    /\ Texts # {} /\ Texts \subseteq Seq(Runes)

VARIABLES
    bot,     \* bot -> "down", "idle", "turn" while its worker reads a turn's events,
             \* or "sending" while it says how the turn ended
    updates, \* bot -> the updates its worker has yet to take
    sent,    \* how many updates people have sent
    asked,   \* how many of them are prompts
    started, \* how many sessions were started
    trail,   \* bot -> the statusMessage of its turn
    turn,    \* bot -> the prompt it answers, whether its turn failed, and its reply
    chat     \* prompt -> the messages the bots have sent to it

botVars == <<bot, updates, sent, asked, started, trail, turn, chat>>
vars == <<runVars, botVars>>

-----------------------------------------------------------------------------

Updates == [kind : {"prompt"}, arg : Prompts] \cup [kind : {"resume"}, arg : Ids]
           \cup [kind : {"new", "other"}, arg : {0}]

\* id is 0 until the bot knows the message it is to edit.  posted counts the messages
\* sent to show the turn that are in the chat, unsure those of them that the bot takes
\* for failed.  behind: there is a line that nobody has tried to show yet.
Trail == [id : 0..1, posted : Nat, unsure : Nat, behind : BOOLEAN]
NoTrail == [id |-> 0, posted |-> 0, unsure |-> 0, behind |-> FALSE]

\* A reply is its text whole, or not, or a word that the turn failed, in a number of
\* messages.
Replies == [kind : {"none", "answer", "garbled", "sorry"}, of : Nat]
NoReply == [kind |-> "none", of |-> 0]
Sorry == [kind |-> "sorry", of |-> 1]

\* What the worker has in hand; part is the message of the reply it sends next.
InHand == [prompt : Prompts, failed : BOOLEAN, reply : Replies, part : Nat]
NoPrompt == [prompt |-> 1, failed |-> FALSE, reply |-> NoReply, part |-> 0]

\* A message that was sent: a part of a reply, which came or did not.
Sent == [reply : Replies, part : Nat, came : BOOLEAN]

TypeOK ==
    /\ RunTypeOK
    /\ bot \in [Holders -> {"down", "idle", "turn", "sending"}]
    /\ updates \in [Holders -> Seq(Updates)]
    /\ sent \in 0..MaxUpdates /\ asked \in 0..MaxPrompts /\ started \in 0..MaxSessions
    /\ trail \in [Holders -> Trail] /\ turn \in [Holders -> InHand]
    /\ chat \in [Prompts -> Seq(Sent)]

-----------------------------------------------------------------------------
(* Sending *)

\* lastIndexRune, or 0.
lastIndexRune(s, r) == SelectLastInSeq(s, LAMBDA x : x = r)

\* breakPoint of a full window, as the runes to emit and the runes to go past: at
\* the last newline of the back half, or else the last space, or at its end.
breakPoint(w) ==
    LET half == Len(w) \div 2
        n == lastIndexRune(w, "n")
        s == lastIndexRune(w, " ")
    IN CASE n > half -> <<n - 1, n>>
         [] n <= half /\ s > half -> <<s - 1, s>>
         [] OTHER -> <<Len(w), Len(w)>>

\* The last n runes of a text, which are left when the others are emitted.
remaining(text, n) == SubSeq(text, Len(text) - n + 1, Len(text))

\* One round of splitMessage with n runes left; the rounds after it are in chunks.
splitRound(text, n, chunks) ==
    LET s == remaining(text, n)
        cut == breakPoint(SubSeq(s, 1, TextMax))
    IN IF n = 0 THEN <<>>
       ELSE IF n <= TextMax THEN <<s>>
       ELSE <<SubSeq(s, 1, cut[1])>> \o chunks[n - cut[2]]

splitMessage(text) ==
    LET chunks[n \in 0..Len(text)] == splitRound(text, n, chunks)
    IN chunks[Len(text)]

\* The chunks say the text: they are what it has from some places on, none empty or
\* too long for Telegram, and one begins where the one before it ended, or past the
\* separator that follows it.
Says(chunks, text) ==
    \E at \in [DOMAIN chunks -> 1..Len(text)] :
        LET end(i) == at[i] + Len(chunks[i]) - 1
            last == Len(chunks)
        IN /\ last > 0 /\ at[1] = 1 /\ end(last) = Len(text)
           /\ \A i \in 1..last : /\ Len(chunks[i]) \in 1..TextMax
                                /\ chunks[i] = SubSeq(text, at[i], end(i))
           /\ \A i \in 1..(last - 1) :
                 \/ at[i + 1] = end(i) + 1
                 \/ at[i + 1] = end(i) + 2 /\ text[end(i) + 1] \in Separators

\* The chunks of an answer; one that has no text is said to have none.
Reply(text) ==
    LET chunks == splitMessage(text)
    IN IF text = <<>> THEN [kind |-> "answer", of |-> 1]
       ELSE [kind |-> IF Says(chunks, text) THEN "answer" ELSE "garbled", of |-> Len(chunks)]

Answers == {Reply(text) : text \in Texts}

\* Bot b sends one message to prompt p.  It comes to the chat, though its answer may
\* be lost, or it does not; an error is only logged.
send(b, p, reply, part) ==
    \E came \in BOOLEAN :
        /\ chat' = [chat EXCEPT ![p] = Append(@, [reply |-> reply, part |-> part, came |-> came])]
        /\ \/ (came <=> ctx[b] = "live") /\ UNCHANGED faults
           \/ ~came /\ ctx[b] = "live" /\ fault

-----------------------------------------------------------------------------
(* The progress of a turn, as functions of its statusMessage *)

\* A send of b that shows progress works, fails, or works and is taken for failed.
outcomes(b, t) ==
    IF ctx[b] = "done" THEN {"failed"}
    ELSE {"ok", "failed"} \cup (IF t.unsure < MaxUnanswered THEN {"unanswered"} ELSE {})

\* A message of its own is posted: its id is known if the answer comes.
post(t, how) ==
    [t EXCEPT !.id = IF how = "ok" THEN 1 ELSE @,
              !.posted = IF how = "failed" THEN @ ELSE @ + 1,
              !.unsure = IF how = "unanswered" THEN @ + 1 ELSE @]

\* start: the placeholder.
Start(t, how) == post(t, how)

\* The message is edited, or sent if none is known, and counts as shown whether or
\* not that worked.
shows(t, how) ==
    [(IF t.id = 0 THEN post(t, how) ELSE t) EXCEPT !.behind = FALSE]

\* Mutant: the last trail of a turn keeps to the gap like the others.
flushGently(t, force, gap, how) ==
    IF ~t.behind \/ ~gap THEN t ELSE shows(t, how)

\* flush: nothing to show, nothing new, or too soon after the last, and it is left.
flush(t, force, gap, how) ==
    IF ~t.behind \/ ~(force \/ gap) THEN t ELSE shows(t, how)

\* stepLine: whether an event is a line of progress.  An assistant's text, being the
\* answer, is one for the thoughts that come with it only, which it may have or not.
stepLine(e) == IF e = "text" THEN BOOLEAN ELSE {TRUE}

\* append: one more line.
line(t) == [t EXCEPT !.behind = TRUE]

-----------------------------------------------------------------------------
(* Sessions *)

\* closeCurrent of what is there and then the next session, whose handle is open.
holds(b, next) == sess' = [sess EXCEPT ![b] = next]

\* startSession: a fresh id in the bot's sandbox.
startSession(b) ==
    /\ started < MaxSessions
    /\ started' = started + 1
    /\ holds(b, NewSession(started + 1))

\* Resume: what the store has, in the sandbox it recorded.
resumeSession(b, id) ==
    /\ id # sess[b].id /\ statuses[id] # "none"
    /\ holds(b, Resumed(id))
    /\ UNCHANGED started

-----------------------------------------------------------------------------
(* The worker.  What it takes is the first update. *)

takes(b, kinds) ==
    /\ bot[b] = "idle" /\ updates[b] # <<>> /\ Head(updates[b]).kind \in kinds
    /\ updates' = [updates EXCEPT ![b] = Tail(@)]

\* handleUpdate leaves what is not a private text of an allowed person; a command
\* that only shows something changes nothing, nor does one that fails.
leaves(b) ==
    /\ takes(b, {"other", "new", "resume"})
    /\ UNCHANGED <<runVars, bot, sent, asked, started, trail, turn, chat>>

\* handleCommand: /new and /clear, or /resume.  The session the bot had is kept
\* until the next is there.
handleCommand(b) ==
    /\ takes(b, {"new", "resume"})
    /\ LET u == Head(updates[b])
       IN IF u.kind = "new" THEN startSession(b) ELSE resumeSession(b, u.arg)
    /\ UNCHANGED <<store, run, out, ctx, faults, bot, sent, asked, trail, turn, chat>>

\* The prompt joins the session's transcript, which is active again.
prompted(s, p) == [s EXCEPT !.messages = Append(@, user(p)), !.status = "active"]

\* The worker is to say how the turn of prompt p ended.
replies(b, p, failed, reply) ==
    /\ bot' = [bot EXCEPT ![b] = "sending"]
    /\ turn' = [turn EXCEPT ![b] = [prompt |-> p, failed |-> failed, reply |-> reply, part |-> 1]]

\* handlePrompt up to the first event.
handlePrompt(b) ==
    /\ takes(b, {"prompt"})
    /\ LET p == Head(updates[b]).arg
       IN /\ sess' = [sess EXCEPT ![b] = prompted(@, p)]
          /\ turn' = [turn EXCEPT ![b] = [NoPrompt EXCEPT !.prompt = p]]
    /\ \E how \in outcomes(b, NoTrail) : trail' = [trail EXCEPT ![b] = Start(NoTrail, how)]
    /\ bot' = [bot EXCEPT ![b] = "turn"]
    /\ Run(b)
    /\ UNCHANGED <<store, ctx, faults, sent, asked, started, chat>>

\* The same when Run returns an error: what the agent remembers could not be read.
\* The prompt stays in the session all the same.
handlePromptFails(b) ==
    /\ takes(b, {"prompt"})
    /\ LET p == Head(updates[b]).arg
       IN /\ sess' = [sess EXCEPT ![b] = prompted(@, p)]
          /\ replies(b, p, TRUE, Sorry)
    /\ \E how \in outcomes(b, NoTrail) :
          LET t == line(Start(NoTrail, how))
          IN \E then \in outcomes(b, t) :
                trail' = [trail EXCEPT ![b] = flush(t, TRUE, TRUE, then)]
    /\ UNCHANGED <<store, run, out, ctx, faults, sent, asked, started, chat>>

\* Mutant: a text is delivered as it comes, and again when the turn is done.
eventDelivers(b) ==
    /\ bot[b] = "turn" /\ out[b] # <<>>
    /\ out' = [out EXCEPT ![b] = Tail(@)]
    /\ turn' = [turn EXCEPT ![b].failed = @ \/ Head(out[b]) = "error"]
    /\ UNCHANGED trail
    /\ IF Head(out[b]) = "text" THEN send(b, turn[b].prompt, Reply(<<>>), 1)
       ELSE UNCHANGED <<chat, faults>>
    /\ UNCHANGED <<store, sess, run, ctx, bot, updates, sent, asked, started>>

\* One event of the turn: a line of progress and the trail, if it is time.
event(b) ==
    /\ bot[b] = "turn" /\ out[b] # <<>>
    /\ out' = [out EXCEPT ![b] = Tail(@)]
    /\ turn' = [turn EXCEPT ![b].failed = @ \/ Head(out[b]) = "error"]
    /\ \E isLine \in stepLine(Head(out[b])), gap \in BOOLEAN, how \in outcomes(b, trail[b]) :
          trail' = IF isLine THEN [trail EXCEPT ![b] = flush(line(@), FALSE, gap, how)] ELSE trail
    /\ UNCHANGED <<store, sess, run, ctx, faults, bot, updates, sent, asked, started,
                   chat>>

\* The channel is closed: the whole trail, and then the answer is to be sent, or what
\* went wrong.
answer(b) ==
    /\ bot[b] = "turn" /\ Drained(b)
    /\ \E gap \in BOOLEAN, how \in outcomes(b, trail[b]) :
          trail' = [trail EXCEPT ![b] = flush(@, TRUE, gap, how)]
    /\ \E reply \in (IF turn[b].failed THEN {Sorry} ELSE Answers) :
          replies(b, turn[b].prompt, turn[b].failed, reply)
    /\ run' = [run EXCEPT ![b] = Idle]
    /\ UNCHANGED <<store, sess, out, ctx, faults, updates, sent, asked, started, chat>>

\* The next message of the reply is sent, and after the last handlePrompt returns and
\* the worker takes updates again.  One that fails leaves a hole and nothing is said
\* of it.
sendChunk(b) ==
    /\ bot[b] = "sending"
    /\ send(b, turn[b].prompt, turn[b].reply, turn[b].part)
    /\ IF turn[b].part < turn[b].reply.of
       THEN turn' = [turn EXCEPT ![b].part = @ + 1] /\ UNCHANGED <<bot, trail>>
       ELSE /\ turn' = [turn EXCEPT ![b] = NoPrompt]
            /\ trail' = [trail EXCEPT ![b] = NoTrail]
            /\ bot' = [bot EXCEPT ![b] = "idle"]
    /\ UNCHANGED <<store, sess, run, out, ctx, updates, sent, asked, started>>

-----------------------------------------------------------------------------
(* The process and the people *)

\* newBridge and Run: the first session, and the updates that waited are dropped,
\* unless Telegram could not be told to.
begin(b) ==
    /\ bot[b] = "down"
    /\ bot' = [bot EXCEPT ![b] = "idle"]
    /\ ctx' = [ctx EXCEPT ![b] = "live"]
    /\ \E kept \in {<<>>, updates[b]} : updates' = [updates EXCEPT ![b] = kept]
    /\ startSession(b)
    /\ UNCHANGED <<store, run, out, faults, sent, asked, trail, turn, chat>>

\* The context of the process is cancelled.
cancel(b) ==
    /\ bot[b] # "down" /\ ctx[b] = "live" /\ fault
    /\ ctx' = [ctx EXCEPT ![b] = "done"]
    /\ UNCHANGED <<store, sess, run, out, botVars>>

\* Run returns: the turn is over, and the handle is released.
ends(b) ==
    /\ bot[b] = "idle" /\ ctx[b] = "done"
    /\ bot' = [bot EXCEPT ![b] = "down"]
    /\ sess' = [sess EXCEPT ![b] = NoSession]
    /\ UNCHANGED <<store, run, out, ctx, faults, updates, sent, asked, started, trail, turn,
                   chat>>

\* The process dies, its memory with it.
crash(b) ==
    /\ bot[b] # "down" /\ fault
    /\ bot' = [bot EXCEPT ![b] = "down"]
    /\ run' = [run EXCEPT ![b] = Idle]
    /\ out' = [out EXCEPT ![b] = <<>>]
    /\ sess' = [sess EXCEPT ![b] = NoSession]
    /\ trail' = [trail EXCEPT ![b] = NoTrail]
    /\ turn' = [turn EXCEPT ![b] = NoPrompt]
    /\ ctx' = [ctx EXCEPT ![b] = "live"]
    /\ UNCHANGED <<store, updates, sent, asked, started, chat>>

\* Somebody writes to bot b.  A prompt is known by its number.
write(b) ==
    /\ sent < MaxUpdates
    /\ sent' = sent + 1
    /\ \E u \in Updates :
          /\ u.kind = "prompt" => u.arg = asked + 1
          /\ asked' = asked + (IF u.kind = "prompt" THEN 1 ELSE 0)
          /\ updates' = [updates EXCEPT ![b] = Append(@, u)]
    /\ UNCHANGED <<runVars, bot, started, trail, turn, chat>>

-----------------------------------------------------------------------------

Init ==
    /\ messages = [id \in Ids |-> <<>>] /\ statuses = [id \in Ids |-> "none"]
    /\ sess = [b \in Holders |-> NoSession]
    /\ run = [b \in Holders |-> Idle] /\ out = [b \in Holders |-> <<>>]
    /\ ctx = [b \in Holders |-> "live"] /\ faults = 0
    /\ bot = [b \in Holders |-> "down"] /\ updates = [b \in Holders |-> <<>>]
    /\ sent = 0 /\ asked = 0 /\ started = 0
    /\ trail = [b \in Holders |-> NoTrail]
    /\ turn = [b \in Holders |-> NoPrompt]
    /\ chat = [p \in Prompts |-> <<>>]

Turns == \E b \in Holders : Turn(b) /\ UNCHANGED botVars

worker(b) ==
    leaves(b) \/ handleCommand(b) \/ handlePrompt(b) \/ handlePromptFails(b) \/ event(b)
    \/ answer(b) \/ sendChunk(b)

process(b) == begin(b) \/ cancel(b) \/ ends(b) \/ crash(b)

Next == \/ Turns \/ \E b \in Holders : worker(b) \/ process(b) \/ write(b)

Spec == Init /\ [][Next]_vars

\* A goroutine that can go on does: the model answers or its stream breaks, a tool
\* returns, and the worker reads the events it is sent.  That a process is started,
\* or that people write, is not assumed.
FairSpec ==
    /\ Spec
    /\ \A b \in Holders : /\ WF_vars(Turn(b) /\ UNCHANGED botVars)
                          /\ WF_vars(worker(b))

-----------------------------------------------------------------------------

\* A reply to prompt p stopped before its last message, and nobody goes on with it.
CutShort(p) ==
    /\ chat[p] # <<>> /\ Len(chat[p]) < chat[p][1].reply.of
    /\ \A b \in Holders : ~(bot[b] = "sending" /\ turn[b].prompt = p)

\* A prompt gets one reply at most, the text of the answer whole in chunks Telegram
\* takes or a word that the turn failed: its messages are sent once each and in their
\* order, though the answer arrives twice as an event and a send may fail, and to the
\* last one unless the process dies, which cuts short one reply each time
\* (handlePrompt, splitMessage, send).
AnsweredOnce ==
    /\ \A p \in Prompts : \A i \in DOMAIN chat[p] :
          /\ chat[p][i].part = i /\ i <= chat[p][i].reply.of
          /\ chat[p][i].reply = chat[p][1].reply
          /\ chat[p][i].reply.kind # "garbled"
    /\ Cardinality({p \in Prompts : CutShort(p)}) <= faults

\* An answer somebody read is in the database, though the error of the last Save of
\* a turn is ignored (Run): a resumed session has what its people were told.
AnswersAreStored ==
    \A p \in Prompts :
        (\E i \in DOMAIN chat[p] : chat[p][i].reply.kind = "answer" /\ chat[p][i].came) =>
            \E id \in Ids : \E i \in DOMAIN messages[id] : messages[id][i] = assistant(0, p)

\* A turn shows its progress in one message, and in one more for each that was posted
\* and whose answer was lost; and before the reply is sent the bot has tried to show
\* all of it, the lines held back by the gap between two edits too (statusMessage).
TrailIsShown ==
    \A b \in Holders : /\ trail[b].posted <= 1 + trail[b].unsure
                       /\ bot[b] = "sending" => ~trail[b].behind

\* Everything that is to be said to prompt p has been sent.
Told(p) == chat[p] # <<>> /\ Len(chat[p]) = chat[p][1].reply.of

\* A prompt that reaches a running bot is answered to the end, or told to have failed,
\* unless the process is stopped first: no step of a turn waits for another for ever.
PromptsAreAnswered ==
    \A b \in Holders, p \in Prompts :
        (bot[b] # "down" /\ [kind |-> "prompt", arg |-> p] \in {updates[b][i] : i \in DOMAIN updates[b]})
            ~> (Told(p) \/ bot[b] = "down")

=============================================================================
