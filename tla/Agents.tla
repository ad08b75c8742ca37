-------------------------------- MODULE Agents --------------------------------
(***************************************************************************)
(* The garage's two agents (agents/dev.go, agents/grug.go) and the         *)
(* worktrees they work in (workspace).  dev makes one task of each room    *)
(* it is mentioned in, which survives a restart in its database; grug      *)
(* reviews the pull request a message links to.  Each handles its mentions *)
(* one at a time, and each can mention the other.                          *)
(*                                                                         *)
(* The chatroom is what the two see of it: the messages of a room, and an  *)
(* inbox in memory for each agent (Chatroom models it).  A turn of the     *)
(* agent is its first Save, some tool calls and an end (AgentRun models    *)
(* it).  A task is known by its number, which is also that of its session, *)
(* its worktree, its branch and the pull request of that branch.           *)
(***************************************************************************)
EXTENDS Integers, Sequences, FiniteSets

CONSTANTS
    Rooms,
    maxReviews, \* how often grug reviews one pull request
    MaxAsks,    \* bound on what humans post
    MaxTasks,   \* bound on the tasks started
    MaxPushes,  \* bound on the commits of one branch
    MaxTools,   \* bound on the tools dev's model asks for in one turn
    MaxFaults   \* bound on crashes, failed reads and writes and half-done commands

ASSUME AgentsAssumption ==
    /\ Rooms # {} /\ maxReviews \in Nat \ {0} /\ MaxAsks \in Nat
    /\ MaxTasks \in Nat \ {0} /\ MaxPushes \in Nat /\ MaxTools \in Nat /\ MaxFaults \in Nat

VARIABLES
    room,      \* room -> how many messages it has that are not dev's, in order
    inbox,     \* agent -> the mentions it has yet to handle
    rooms,     \* dev.rooms: room -> its task in this process and what it has read
    record,    \* dev's database: room -> the taskRecord
    sess,      \* task -> the messages of its room in its session
    kept,      \* task -> those of them in the stored session
    stored,    \* the tasks whose session is stored at all
    dev,       \* what dev is doing, and about which mention
    grug,      \* what grug is doing, about which mention and which head
    head,      \* task -> the commit its branch is at; 0 before there is a PR
    reviewed,  \* grug's database: PR -> the heads it reviewed
    worktrees, \* the tasks that have one
    checkouts, \* how many worktrees of reviews there are
    deploying, \* the rooms a release was made for since the process started
    started,   \* how many tasks were started
    asks,      \* how many messages humans posted
    cut,       \* room -> messages read in a turn a crash took before it was saved
    reviews,   \* PR -> the heads of its reviews, whether or not they were written down
    releases,  \* how often the process ended to run a release
    faults     \* how often the process crashed, a read or a write failed, or a command
               \* that adds a worktree failed half-way or could not remove one

chatVars == <<room, inbox, asks>>
devVars == <<rooms, record, sess, kept, stored, dev, cut, deploying, releases>>
grugVars == <<grug, reviewed, checkouts, reviews>>
gitVars == <<head, worktrees, started>>
vars == <<chatVars, devVars, grugVars, gitVars, faults>>

-----------------------------------------------------------------------------

Tasks == 1..MaxTasks
Agents == {"dev", "grug"}
Mentions == [room : Rooms, by : {"human", "dev", "grug"}, pr : 0..MaxTasks]
RoomTask == [task : 0..MaxTasks, seen : Nat]
NoTask == [task |-> 0, seen |-> 0]
DevState == [pc : {"idle", "task", "new", "read", "model", "act", "opened"},
             m : Mentions \cup {<<>>}, left : 0..MaxTools]
Idle == [pc |-> "idle", m |-> <<>>, left |-> 0]
GrugState == [pc : {"idle", "review", "record", "comment", "tell"},
              m : Mentions \cup {<<>>}, head : 0..MaxPushes]
GrugIdle == [pc |-> "idle", m |-> <<>>, head |-> 0]
Kinds == {"crash", "read", "write", "half"}

TypeOK ==
    /\ room \in [Rooms -> Nat]
    /\ inbox \in [Agents -> Seq(Mentions)]
    /\ rooms \in [Rooms -> RoomTask] /\ record \in [Rooms -> RoomTask]
    /\ sess \in [Tasks -> SUBSET Nat] /\ kept \in [Tasks -> SUBSET Nat]
    /\ stored \subseteq Tasks
    /\ dev \in DevState /\ grug \in GrugState
    /\ head \in [Tasks -> 0..MaxPushes]
    /\ reviewed \in [Tasks -> Seq(1..MaxPushes)]
    /\ worktrees \subseteq Tasks /\ checkouts \in Nat
    /\ deploying \subseteq Rooms
    /\ started \in 0..MaxTasks /\ asks \in 0..MaxAsks
    /\ cut \in [Rooms -> SUBSET Nat]
    /\ reviews \in [Tasks -> Seq(1..MaxPushes)]
    /\ faults \in [Kinds -> 0..MaxFaults]
    /\ releases \in Nat

total == faults.crash + faults.read + faults.write + faults.half

\* Something of a kind goes wrong.
fault(kind) == total < MaxFaults /\ faults' = [faults EXCEPT ![kind] = @ + 1]

\* Post: a message in room r that mentions the agents at, with a link to pr or none.
\* Its author is not mentioned.  boxes are the inboxes before it.  What dev writes
\* is not counted: it passes over it when it reads.
post(r, by, at, pr, boxes) ==
    /\ room' = [room EXCEPT ![r] = IF by = "dev" THEN @ ELSE @ + 1]
    /\ LET m == [room |-> r, by |-> by, pr |-> pr]
       IN inbox' = [a \in Agents |-> IF a \in at \ {by} THEN Append(boxes[a], m) ELSE boxes[a]]

\* The inboxes once agent a has taken its next mention.
taken(a) == [inbox EXCEPT ![a] = Tail(@)]

-----------------------------------------------------------------------------
(* dev: which task *)

\* say: something to the room of the mention dev is handling.
devSays(at, pr) == post(dev.m.room, "dev", at, pr, inbox) /\ UNCHANGED asks

devGoes(pc) == dev' = [dev EXCEPT !.pc = pc]

devRests == dev' = Idle

\* The next mention: the room's task is running here, or is in the database, or
\* there never was one.
devTakes ==
    /\ dev.pc = "idle" /\ inbox["dev"] # <<>>
    /\ LET m == Head(inbox["dev"])
           known == CASE rooms[m.room] # NoTask -> "read"
                      [] rooms[m.room] = NoTask /\ record[m.room] # NoTask -> "task"
                      [] OTHER -> "new"
       IN dev' = [pc |-> known, m |-> m, left |-> 0]
    /\ inbox' = taken("dev")
    /\ UNCHANGED <<room, asks, rooms, record, sess, kept, stored, cut, deploying, releases,
                   grugVars, gitVars, faults>>

\* What the database remembers of a room, with its worktree and its session there.
remembered(r) == record[r].task \in worktrees \cap stored

\* Mutant: what was read before the restart is all the room has.
resumeAtTheEnd ==
    /\ dev.pc = "task" /\ remembered(dev.m.room)
    /\ LET r == dev.m.room
       IN /\ rooms' = [rooms EXCEPT ![r] = [record[r] EXCEPT !.seen = room[r]]]
          /\ sess' = [sess EXCEPT ![record[r].task] = kept[record[r].task]]
    /\ devGoes("read")
    /\ UNCHANGED <<chatVars, record, kept, stored, cut, deploying, releases, grugVars, gitVars, faults>>

\* resume: the task is back, with the session as it was stored.
resume ==
    /\ dev.pc = "task" /\ remembered(dev.m.room)
    /\ LET r == dev.m.room
       IN /\ rooms' = [rooms EXCEPT ![r] = record[r]]
          /\ sess' = [sess EXCEPT ![record[r].task] = kept[record[r].task]]
    /\ devGoes("read")
    /\ UNCHANGED <<chatVars, record, kept, stored, cut, deploying, releases, grugVars, gitVars, faults>>

\* Mutant: the task running before a restart is not looked for.
resumeFailsAlways ==
    /\ dev.pc = "task"
    /\ UNCHANGED faults
    /\ devSays({}, 0) /\ devGoes("new")
    /\ UNCHANGED <<rooms, record, sess, kept, stored, cut, deploying, releases, grugVars, gitVars>>

\* resume fails: no worktree, no session, or a database that cannot be read.
resumeFails ==
    /\ dev.pc = "task"
    /\ IF remembered(dev.m.room) THEN fault("read") ELSE UNCHANGED faults
    /\ devSays({}, 0) /\ devGoes("new")
    /\ UNCHANGED <<rooms, record, sess, kept, stored, cut, deploying, releases, grugVars, gitVars>>

\* A question instead of a workspace, or a worktree that could not be added.
newFails ==
    /\ dev.pc = "new"
    /\ devSays({}, 0) /\ devRests
    /\ UNCHANGED <<rooms, record, sess, kept, stored, cut, deploying, releases, grugVars, gitVars, faults>>

\* Start added the worktree and could not install the stack: it stays, nobody's.
startStops ==
    /\ dev.pc = "new" /\ started < MaxTasks /\ fault("half")
    /\ started' = started + 1
    /\ worktrees' = worktrees \cup {started + 1}
    /\ devSays({}, 0) /\ devRests
    /\ UNCHANGED <<rooms, record, sess, kept, stored, cut, deploying, releases, grugVars, head>>

\* pick and Start: a new task, with a worktree and a session of its own.
newTask ==
    /\ dev.pc = "new" /\ started < MaxTasks
    /\ started' = started + 1
    /\ worktrees' = worktrees \cup {started + 1}
    /\ rooms' = [rooms EXCEPT ![dev.m.room] = [task |-> started + 1, seen |-> 0]]
    /\ devGoes("read")
    /\ UNCHANGED <<chatVars, record, sess, kept, stored, cut, deploying, releases, grugVars, head, faults>>

-----------------------------------------------------------------------------
(* dev: a turn *)

\* Mutant: a mention that was read with an earlier one waits for news.
devReadsWaits ==
    /\ dev.pc = "read"
    /\ LET r == dev.m.room
           t == rooms[r].task
           others == (rooms[r].seen + 1)..room[r]
           now == [task |-> t, seen |-> room[r]]
       IN /\ rooms' = [rooms EXCEPT ![r] = now]
          /\ \/ record' = [record EXCEPT ![r] = now] /\ UNCHANGED faults
             \/ UNCHANGED record /\ fault("write")
          /\ sess' = [sess EXCEPT ![t] = @ \cup others]
          /\ dev' = IF others = {} THEN dev ELSE [dev EXCEPT !.pc = "model", !.left = MaxTools]
    /\ UNCHANGED <<chatVars, kept, stored, cut, deploying, releases, grugVars, gitVars>>

\* Read, and then remember, whose failure is only logged.  What dev wrote itself
\* wakes no turn; the rest is the prompt.
devReads ==
    /\ dev.pc = "read"
    /\ LET r == dev.m.room
           t == rooms[r].task
           others == (rooms[r].seen + 1)..room[r]
           now == [task |-> t, seen |-> room[r]]
       IN /\ rooms' = [rooms EXCEPT ![r] = now]
          /\ \/ record' = [record EXCEPT ![r] = now] /\ UNCHANGED faults
             \/ UNCHANGED record /\ fault("write")
          /\ sess' = [sess EXCEPT ![t] = @ \cup others]
          /\ dev' = IF others = {} THEN Idle ELSE [dev EXCEPT !.pc = "model", !.left = MaxTools]
    /\ UNCHANGED <<chatVars, kept, stored, cut, deploying, releases, grugVars, gitVars>>

\* The room cannot be read: the mention is dropped, and nothing counts as read.
readFails ==
    /\ dev.pc = "read" /\ fault("read")
    /\ devRests
    /\ UNCHANGED <<chatVars, rooms, record, sess, kept, stored, cut, deploying, releases, grugVars, gitVars>>

\* The session of task t, saved.
saved(t) == /\ kept' = [kept EXCEPT ![t] = sess[t]]
            /\ stored' = stored \cup {t}

\* The model answers and the session is saved.
devAnswers ==
    /\ dev.pc = "model"
    /\ saved(rooms[dev.m.room].task)
    /\ devGoes("act")
    /\ UNCHANGED <<chatVars, rooms, record, sess, cut, deploying, releases, grugVars, gitVars, faults>>

\* The turn ends in an error, which is saved too if it can be.
devStops ==
    /\ dev.pc = "model"
    /\ \/ saved(rooms[dev.m.room].task) /\ UNCHANGED faults
       \/ fault("write") /\ UNCHANGED <<kept, stored>>
    /\ devSays({}, 0) /\ devRests
    /\ UNCHANGED <<rooms, record, sess, cut, deploying, releases, grugVars, gitVars>>

\* The model asked for a tool.  Those that change nothing here are left out.
tool == dev.pc = "act" /\ dev.left > 0

\* OpenPR: the branch is pushed and has an open PR, at a new commit, at the same, or
\* at one before it, if the branch was forced back.
OpenPR ==
    /\ tool
    /\ \E n \in 1..MaxPushes : head' = [head EXCEPT ![rooms[dev.m.room].task] = n]
    /\ dev' = [dev EXCEPT !.pc = "opened", !.left = @ - 1]
    /\ UNCHANGED <<chatVars, rooms, record, sess, kept, stored, cut, deploying, releases, grugVars,
                   worktrees, started, faults>>

\* And grug is asked to review it.
asksGrug ==
    /\ dev.pc = "opened"
    /\ devSays({"grug"}, rooms[dev.m.room].task)
    /\ devGoes("model")
    /\ UNCHANGED <<rooms, record, sess, kept, stored, cut, deploying, releases, grugVars, gitVars, faults>>

\* human: not an agent here, nor the garage.
human(author) == author \notin Agents \cup {"garage"}

\* The deploy tool, of a turn that a human's message woke.
deploy ==
    /\ tool /\ human(dev.m.by)
    /\ deploying' = deploying \cup {dev.m.room}
    /\ dev' = [dev EXCEPT !.pc = "model", !.left = @ - 1]
    /\ UNCHANGED <<chatVars, rooms, record, sess, kept, stored, cut, releases, grugVars, gitVars, faults>>

\* The end of the turn: what dev's model says may mention grug.
devReplies ==
    /\ dev.pc = "act"
    /\ \/ devSays({}, 0)
       \/ devSays({"grug"}, rooms[dev.m.room].task)
    /\ devRests
    /\ UNCHANGED <<rooms, record, sess, kept, stored, cut, deploying, releases, grugVars, gitVars, faults>>

Dev == \/ devTakes \/ resume \/ resumeFails \/ newFails \/ startStops \/ newTask
       \/ devReads \/ readFails \/ devAnswers \/ devStops \/ OpenPR \/ asksGrug
       \/ deploy \/ devReplies

-----------------------------------------------------------------------------
(* grug *)

grugSays(at) == post(grug.m.room, "grug", at, 0, inbox) /\ UNCHANGED asks

grugGoes(pc) == grug' = [grug EXCEPT !.pc = pc]

\* wake begins with the next mention; an answer that reviews nothing is plain.
wakes == grug.pc = "idle" /\ inbox["grug"] # <<>>
mention == Head(inbox["grug"])
grugAnswers(at) == post(mention.room, "grug", at, 0, taken("grug")) /\ UNCHANGED asks

\* The head of the PR is the one grug reviewed last.
reviewedAlready(pr) == reviewed[pr] # <<>> /\ reviewed[pr][Len(reviewed[pr])] = head[pr]

\* Mutant: one review more.
reviewedAndOne(pr) == Len(reviewed[pr]) > maxReviews

reviewedEnough(pr) == Len(reviewed[pr]) >= maxReviews

\* No link, no workspace, a PR or a memory grug cannot read, or a PR that it has
\* reviewed, at this head or often enough.  The answer mentions nobody.
grugDeclines ==
    /\ wakes /\ grugAnswers({})
    /\ UNCHANGED <<devVars, grugVars, gitVars, faults>>

\* The link is to a PR there is, at a head that is to be reviewed.
toReview ==
    /\ wakes /\ mention.pr # 0 /\ head[mention.pr] > 0
    /\ ~reviewedAlready(mention.pr) /\ ~reviewedEnough(mention.pr)

\* Checkout: a worktree at the head as it is now.
Checkout ==
    /\ toReview
    /\ grug' = [pc |-> "review", m |-> mention, head |-> head[mention.pr]]
    /\ inbox' = taken("grug")
    /\ checkouts' = checkouts + 1
    /\ UNCHANGED <<room, asks, devVars, reviewed, reviews, gitVars, faults>>

\* It added the worktree and then failed: it stays, nobody's.
checkoutStops ==
    /\ toReview /\ fault("half")
    /\ checkouts' = checkouts + 1
    /\ grugAnswers({})
    /\ UNCHANGED <<devVars, grug, reviewed, reviews, gitVars>>

\* Close of the checkout, whose error is ignored: what git cannot remove stays.
closes ==
    \/ checkouts' = checkouts - 1 /\ UNCHANGED faults
    \/ UNCHANGED checkouts /\ fault("half")

\* Mutant: the checkout of a review that failed is left.
reviewFailsOpen ==
    /\ grug.pc = "review"
    /\ grugSays({}) /\ grug' = GrugIdle
    /\ UNCHANGED <<devVars, reviewed, checkouts, reviews, gitVars, faults>>

\* review ends in an error or came back empty; the checkout is closed all the same.
reviewFails ==
    /\ grug.pc = "review"
    /\ closes
    /\ grugSays({}) /\ grug' = GrugIdle
    /\ UNCHANGED <<devVars, reviewed, reviews, gitVars>>

\* review has an answer, and the checkout is closed.
reviewDone ==
    /\ grug.pc = "review"
    /\ closes
    /\ reviews' = [reviews EXCEPT ![grug.m.pr] = Append(@, grug.head)]
    /\ grugGoes("record")
    /\ UNCHANGED <<chatVars, devVars, reviewed, gitVars>>

\* The head joins those reviewed; a failed Put is only logged.
recordReview ==
    /\ grug.pc = "record"
    /\ \/ reviewed' = [reviewed EXCEPT ![grug.m.pr] = Append(@, grug.head)] /\ UNCHANGED faults
       \/ UNCHANGED reviewed /\ fault("write")
    /\ grugGoes("comment")
    /\ UNCHANGED <<chatVars, devVars, checkouts, reviews, gitVars>>

\* The PR cannot be commented on: the room is told so, and then the review.
commentFails ==
    /\ grug.pc = "comment"
    /\ grugSays({}) /\ grugGoes("tell")
    /\ UNCHANGED <<devVars, reviewed, checkouts, reviews, gitVars, faults>>

\* The review is on the PR, or could not be, and goes to the room, to whoever asked.
tellReview ==
    /\ grug.pc \in {"comment", "tell"}
    /\ grugSays({grug.m.by} \cap Agents)
    /\ grug' = GrugIdle
    /\ UNCHANGED <<devVars, reviewed, checkouts, reviews, gitVars, faults>>

Grug == \/ grugDeclines \/ Checkout \/ checkoutStops \/ reviewFails
        \/ reviewDone \/ recordReview \/ commentFails \/ tellReview

-----------------------------------------------------------------------------
(* The humans and the process *)

\* A human posts: to the room, to dev, or to grug with a link.
ask ==
    /\ asks < MaxAsks
    /\ \E r \in Rooms, at \in {{}, {"dev"}, {"grug"}}, pr \in 0..started :
          /\ (pr # 0) = (at = {"grug"})
          /\ post(r, "human", at, pr, inbox)
    /\ asks' = asks + 1
    /\ UNCHANGED <<devVars, grugVars, gitVars, faults>>

\* The branch of a PR is pushed to or forced back, from dev's shell or by somebody else.
pushed ==
    /\ \E t \in Tasks : \E n \in 1..MaxPushes :
          head[t] > 0 /\ head' = [head EXCEPT ![t] = n]
    /\ UNCHANGED <<chatVars, devVars, grugVars, worktrees, started, faults>>

\* The process ends and starts again, in a crash or to run a release: what is in
\* memory is gone, and the rooms a release was made for are told what runs.
restart ==
    /\ \/ deploying # {} /\ releases' = releases + 1 /\ UNCHANGED faults
       \/ deploying = {} /\ fault("crash") /\ UNCHANGED releases
    /\ cut' = [r \in Rooms |-> LET t == rooms[r].task
                               IN IF t = 0 THEN cut[r] ELSE cut[r] \cup (sess[t] \ kept[t])]
    /\ rooms' = [r \in Rooms |-> NoTask]
    /\ sess' = [t \in Tasks |-> {}]
    /\ inbox' = [a \in Agents |-> <<>>]
    /\ dev' = Idle /\ grug' = GrugIdle
    /\ room' = [r \in Rooms |-> IF r \in deploying THEN room[r] + 1 ELSE room[r]]
    /\ deploying' = {}
    /\ UNCHANGED <<asks, record, kept, stored, reviewed, checkouts, reviews, gitVars>>

-----------------------------------------------------------------------------

Init ==
    /\ room = [r \in Rooms |-> 0] /\ inbox = [a \in Agents |-> <<>>] /\ asks = 0
    /\ rooms = [r \in Rooms |-> NoTask] /\ record = [r \in Rooms |-> NoTask]
    /\ sess = [t \in Tasks |-> {}] /\ kept = [t \in Tasks |-> {}] /\ stored = {}
    /\ dev = Idle /\ grug = GrugIdle /\ deploying = {}
    /\ head = [t \in Tasks |-> 0] /\ worktrees = {} /\ started = 0
    /\ reviewed = [t \in Tasks |-> <<>>] /\ checkouts = 0
    /\ cut = [r \in Rooms |-> {}] /\ releases = 0
    /\ faults = [k \in Kinds |-> 0]
    /\ reviews = [t \in Tasks |-> <<>>]

Next == Dev \/ Grug \/ ask \/ pushed \/ restart

Spec == Init /\ [][Next]_vars

\* Each agent has a goroutine of its own that goes on while it can: commands and
\* models return.
FairSpec == Spec /\ WF_vars(Dev) /\ WF_vars(Grug)

-----------------------------------------------------------------------------

\* What others wrote up to where dev has read is in the session it works with,
\* except what a crash took before the session was saved: dev saves how far it has
\* read before the turn that reads it (wake, resume).
NothingReadIsForgotten ==
    \A r \in Rooms : rooms[r] # NoTask =>
        1..rooms[r].seen \subseteq sess[rooms[r].task] \cup cut[r]

\* How often the process has ended.
ended == faults.crash + releases

\* The tasks of the rooms, as dev has them or its database.
owned == {rooms[r].task : r \in Rooms} \cup {record[r].task : r \in Rooms}
review == IF grug.pc = "review" THEN 1 ELSE 0

\* A worktree is the task of a room, or under review, but for one at most for each
\* end of the process, each read or write of a task that failed, and each command that
\* failed half-way or could not remove its worktree (Start, Checkout, Close, remember,
\* resume): a review that ends in an error leaves none, nor does a turn.
WorktreesAreOwned ==
    /\ Cardinality(worktrees \ owned) <= total + releases
    /\ checkouts <= review + ended + faults.half

\* The reviews at the head of the review before.
repeats(heads) == {i \in DOMAIN heads : i > 1 /\ heads[i] = heads[i - 1]}

\* A PR is reviewed maxReviews times, and no review is at the head of the one before,
\* but for one more for each that was not written down, the process having ended or
\* the write failed: also when dev pushes during a review, or asks for one again, or
\* the branch is forced back (grug.wake).
ReviewsAreBounded ==
    \A pr \in Tasks :
        LET unwritten == ended + faults.write
        IN /\ Cardinality(repeats(reviews[pr])) <= unwritten
           /\ Len(reviews[pr]) <= maxReviews + unwritten

\* A room keeps the task dev's database has for it, over every restart, once its
\* session was saved, unless the database could not be read (task, resume).
RoomsKeepTheirTask ==
    [][\A r \in Rooms :
          /\ record[r].task \in stored
          /\ record'[r].task # record[r].task
          => faults.read > 0]_vars

\* dev and grug do not keep waking each other: once humans are silent, so are they
\* (grug.wake answers only a review with a mention, and reviews are bounded).
PingPongEnds ==
    <>[](dev.pc = "idle" /\ grug.pc = "idle" /\ \A a \in Agents : inbox[a] = <<>>)

=============================================================================
