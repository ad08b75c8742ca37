# A TLA+ development for agentgarage

The garage is a Go program that runs on one host: agents live in a chatroom,
work in sandboxes and worktrees, are operated from laptops through a bucket, and
their harness also serves people over XMPP and Telegram. This directory models
the parts where several goroutines, processes or machines meet, checks the
models with TLC on small instances, and proves the safety properties of all of
them with TLAPS for instances of every size. Every definition is translated from
the source; `PROJECT.json` maps each one to its lines.

## 1. The system

| Component | State it keeps | Operations | Meets |
|---|---|---|---|
| Sandbox manager (`metaharness/sandbox/manager.go`, `handle.go`) | `entries`, one goroutine and one idle timer per name, `adopted`, `closing` | Open, Exec, Destroy, Reconcile, Inspect, Close, handle.Close | callers over unbuffered channels, the backend, the clock |
| Backend contract and Docker (`backend.go`, `docker/`) | containers and volumes | EnsureReady, Exec, Stop, Destroy, List, Close | the manager, the daemon |
| Release (`hosting/release.go`, `cmd/garage/serve.go`) | `releases/current` and binaries in the bucket; `seen`, `current`, `deployed` and binaries on the host | Publish, Point, Deploy, Update, install, Booted, the serve loop | laptops, the dev agent, systemd, the bucket |
| Mail (`bucket/mail`, `chatroom/mail.go`, `cmd/garage/remote.go`) | numbered objects in two boxes, cursors in the host's database, a cursors file on each laptop | Send, Receive, RelayMail, remote chat | laptops, the chatroom, the bucket |
| Chatroom (`chatroom/chatroom.go`) | the messages table, an inbox per agent, the `changed` channel | Post, Join, Read, Wait, Close | people over HTTP, agents' goroutines, the relay |
| Bucket (`bucket/`) | objects with ETags | Get, Put, Create, Swap, List | everything above it |
| Agent run loop and sessions (`metaharness/agent`, `agentdb/turso`) | the transcript of a session, in memory and in the database | Run, dispatch, Save, Load, Resume | the model, tools, the database, a bridge that reads the events |
| Telegram bot (`bridge/telegram`) | a current session, the message that shows a turn | updates, commands, prompts, answers in chunks | Telegram, the run loop |
| XMPP bridge (`bridge/xmpp`) | a queue with one wakeup token, a current session, a daily schedule | push, pop, commands, turns, scheduled turns | the stream's handler, the run loop |
| MCP connection (`mcp/`) | one cached session to a tool server | connect, call, drop, redial, Close | several callers, the server |
| Dev and grug agents (`agents/`) | a task per room with what was read of it; reviewed heads per pull request | wake, resume, open_pr, deploy, review | chatroom, workspaces, GitHub, Release, each other |
| Workspaces (`workspace/`) | clones and worktrees | Start, Resume, Checkout, OpenPR, Close | git, gh |
| Backup (`hosting/backup.go`) | day objects and latest pointers | Backup, Restore | databases, the bucket |
| Host setup, secrets, UI, model client, tools | none that survives a call, or files written once | - | - |

What is hard about it, and hard to test:

* a goroutine per sandbox that callers, a timer it cannot take back, an adoption
  pass working from an old List and a Close all race for;
* calls that fail after they had their effect: EnsureReady, Destroy, a
  conditional write or a tool call whose answer is lost;
* processes that end between an effect and the cursor, notice, row or link that
  records it: the relay, the installer, a turn, dev's record, a restore;
* a queue that must not block whoever fills it, and a wakeup that must not fall
  between a read and a wait;
* one connection that several callers find broken at the same time;
* two agents that can wake each other.

What makes each correct is stated as the properties of section 3; the `hazards`
of `PROJECT.json` list where it bites, by line.

## 2. Modules

| Module | Models |
|---|---|
| `SandboxManager` | the manager, handles, timers, the adoption pass, Close, and what backend calls do to a sandbox |
| `Release` | release, install, restart and the notice to the room that deployed |
| `MailRelay` | the two boxes, the relay pass, remote chat |
| `Chatroom` | Post, Join, Wait and Close |
| `AgentRun` | a turn of the agent over its stored transcript, as steps of a holder of a session |
| `TelegramBot` | the bot, composed with `AgentRun`, which it extends: its worker reads the events of the turns |
| `XmppBridge` | the queue, the loop, the schedule, commands and turns |
| `McpServer` | callers, the cached session, redial and Close |
| `ToolCalls` | the abstract specification `McpServer` implements |
| `SandboxLifecycle` | the abstract specification `SandboxManager` implements |
| `Agents` | dev, grug and their worktrees over restarts |
| `Backup` | backups, restores, and what dev and the chatroom then find |
| `SandboxManagerProofs`, `MailRelayProofs`, `ChatroomProofs`, `TelegramBotProofs`, `XmppBridgeProofs`, `McpServerProofs`, `AgentsProofs` | the inductive invariant of the module each is named after, and the theorems about it |
| `HostingProofs` | the same for `Release` and `Backup`, the two modules of hosting/, which have their names apart so that one module can extend both |
| `MC*` | the modules the configurations are for: symmetry and the texts of the bot |

An operator whose comment begins with "Mutant" is a faulty form of the
definition that follows it. `PROJECT.json` pairs it with the property that
notices it; the specifications themselves never use it. `TypeOK` (`ReleaseTypeOK`,
`BackupTypeOK`) in each module is the shape of its state, proved for every module.

**SandboxManager.** `entries`, `adopted` and `ent[e].{name, state, due,
lastExec}` are the fields of `Manager` and `entry`. `ent[e].at` is the program
counter of the entry's goroutine, `ent[e].armed` its timer, `wakes` the fired
timers whose goroutines are inside `ask`, `pass` the holder of `adoptMu` and the
locals of `reconcile`, `caller[c]` a goroutine that uses the manager, with the
handle it holds. An action is what one goroutine does between two points where
another can act: a rendezvous on `reqs` (`doExec`, `doDestroy`, `doIdle`,
`doObserve`), a section under `mu` (`Open`, `Destroy`, `forget`,
`closeCollect`), the lock of `adoptMu`, and the return of each backend call
(`execPrepared`, `execPrepareFailed`, `execDone`, `stopDone`, ...). `box` is the
truth on the backend: a call that fails leaves any stage it may have reached.
Answers carry no data; what a caller is told matters only through the step it
takes next. A refused call is no step. `Entries` are identities of structs;
`collect` is the Go runtime's, so that an instance with few of them still has
unboundedly long behaviours. `SandboxLifecycle` is what the backend and the callers
see of all this: under each name a call or none, for whom, and what it may leave.
`KeepsTheLifecycle` is its specification with the call of the entry a name resolves
to; entries, the map, the pass and the timers are not in it.

**Release.** `pointer` is `releases/current`: the number of its versions and what
each held. Its ETag is R2's, which follows the content (`bucket/r2.go`), so that a
pointer that comes back to an old release has its old ETag again; the fake of the
tests counts its writes instead. `host.pc` walks
the loop of `runServe`: look, install, link, booted, post, check. The files
`seen`, `current`, `deployed` and the installed binaries survive `crash`; `exe`,
`pending` and the turns do not. Bucket calls are not retried (the R2 client is
set to one attempt) and a failed write may have happened (`bucketFails`). A
binary that does not run on the host is a release outside `Good`. Every
publisher is a laptop, or the dev agent inside the host process, which dies with
it.

**MailRelay.** Every statement of `RelayMail` is a step, so a pass can stop
between any two (`passFails`, also the crash of the process). A box is a function
from the numbers in use to what is there, and `create` adds one. A laptop is the
loop of `remoteChat`: one mutex keeps a line being sent and a check apart. An
untrusted laptop's mail is refused by `Receive`. `base` only remembers where the
last first pass began, for the properties.

**Chatroom.** Post is the INSERT and, separately, what is done under
`Service.mu`; the channel `changed` that is closed and replaced is a generation
number; `ran` and `dropped` record what handlers were called for and what full
inboxes turned away. What a text mentions is an input. An inbox holds one
message in the instance where it holds a hundred in the code.

**AgentRun.** `sess[h]` is the session a holder works with, `messages` and
`statuses` the two tables of the database. `run[h].pc` is the goroutine of
`Run`: the head of the loop, the model, the tools, and Save as its two steps, the
count that is read first and the transaction. `out[h]` is the channel of events.
A message is its role, its number of tool calls and the prompt it is about. A
context that is done, a save that fails, and a model that fails are separate
steps with their error paths.

**TelegramBot.** One worker takes updates; `handlePrompt` starts a turn of
`AgentRun`, `event` reads one event and shows it or holds it back, `answer` is
what follows the closed channel. `chat[p]` is what was said to prompt p.
`splitMessage` and `breakPoint` are translated as they are, over texts of words,
spaces and newlines: the loop is a recursive function of the runes that are left,
`splitRound` what one round of it does. An answer is garbled unless its chunks are
the text from some places on, one beginning where the one before ended or past the
separator there (`Says`, which does not mention how the chunks were made).
Crashes, a cancelled context, failed sends and updates dropped at a start are
steps.

**XmppBridge.** The handler's `push` is two steps, since the token is put after
the unlock, and the loop's `takeReady` and `handleMessage` are two. `nextDue` is
the first slot strictly after a moment of a day of `Day` moments. A turn is its
steps and its end; `shown` is what the bridge thinks the other side sees and
`seen` what it does. `open` counts the handles on each session's sandbox.

**McpServer and ToolCalls.** `mu` is held over a dial; `connect`, `drop` and
`Close` are what is done under it, and what is done after it are steps of their
own. A session dies at any time, and a request breaks before or after the tool
ran. `KeepsThePromise` is `ToolCalls!Spec` with a caller's program counter mapped
to "waits": a call returns, its tool ran at most twice, and what ran twice is
never answered as if it had run once.

**Agents.** A task is one number for its session, worktree, branch and pull
request. What dev has read of a room is in `rooms` (memory) and `record`
(database), what its session has of it in `sess` and `kept`. `wake` is dev's
reading, its write of how far it has read, the turn with its first Save, some
tools, and the end; grug's is the view of the pull request, the checkout, the
review, the Put, the comment and the message. `reviewed` is what grug wrote down of
its reviews, `reviews` all there were. `restart` is a crash, or the end for a
release dev deployed.

**Backup.** A database is how far it has got. `Databases` is the order of the
owners' names. `backup`, `snapshot` and `put` are the steps of a request, `stat`,
`get` and `rename` those of a restore, for the one of a start and the one by
hand. `odd` remembers what the properties except.

## 3. Runs

| Run | Shows | Instance |
|---|---|---|
| `sandbox_races` | one lifecycle per name, the backend open while an entry's goroutine may call it, every taken request in hand, a complete adoption; at rest and running means on the clock; no early stop | one name, two callers, two entries, timeout 1, time 0..1 |
| `sandbox_returns` | `SandboxLifecycle` implemented; calls and Close return | one name, two callers with roles, two entries, no idle clock, fair |
| `release` | the link names a binary that ran here, two winners from one version only where the content came back, rooms told once, a move arrives | an old, a new and a bad release, a laptop and dev, two moves and a third that repeats, one agent busy at a time, one fault, fair |
| `mail_relay` | no gaps; no cursor past what was not posted, mailed or printed; a repeat costs a fault; mail and replies arrive | two laptops, one untrusted, two lines, two posts, one fault, fair |
| `chatroom` | no missed news, every mention in the inbox, handled or dropped exactly once, Post returns | two agents, a person, a reader, three messages, inboxes of one, fair |
| `xmpp` | no lost wakeup, one handle, one message with the whole trail, one turn per slot | an owner and a stranger, a slot a day of two moments, two stanzas, four sessions, time 0..2, one fault |
| `bot` | the database agrees with the turns, what people read is stored, one whole answer per prompt, the trail shown, every prompt answered | one bot, two sessions, two prompts, three updates, up to two calls an answer, a channel of one, one fault, chunks of three and texts of up to five, fair |
| `agents` | nothing read is forgotten, worktrees are owned, reviews are bounded, rooms keep their task, the ping-pong ends | one room, two reviews a PR, two asks, two tasks, three pushes, a tool a turn, one fault, fair |
| `mcp` | no session leaked, one loss made good, `ToolCalls` implemented | two callers, three calls, four sessions, one Close, two faults, fair |
| `backup` | latest names a snapshot, dev is not deaf, no fresh start over a snapshot | two requests at once, two days, two posts, two backups, three faults |
| `sandbox_destroy_twice`, `xmpp_slot_missed` | statements of comments that the code does not keep (section 6) | small |

*Why the bounds are enough.* In `sandbox_races` a name's old entry can still be
winding down while its successor is live, one caller in each of Destroy and Open
or in a pass whose List is old; time 1 lets a deadline pass, its timer fire, a
command replace it, and the late wakeup arrive, and a stop that is refused arms a
deadline beyond the clock, which is what `ReadyIsOnTheClock` must still see.
Sandboxes share no state but `adopted`, `pass` and Close, and the theorems cover
more of everything, a third entry of a name among it. `sandbox_returns` is the
instance for liveness, and gives the two callers roles (`Roles`) to stay small: one
opens sandboxes and runs commands, the other destroys and reconciles. Both make
passes, so they contend for `adoptMu`; a command's pass that Lists before the other
caller's Destroy finds the name gone, starts its goroutine anew and asks it to
observe, with the other caller waiting for the lock or asking the same goroutine.
There are no timers in it: nothing that must return waits for one.
In `release` two moves give the publishers a
race and a second release while one is pending, and the third, which only repeats
what the pointer held, the return of an ETag that two calls have read. In `mail_relay` two lines and one
fault are what repeating two messages for one fault would take, and two laptops
what a gap would. In `chatroom` two agents can be in their handlers with a full
inbox, posting. In `xmpp` two stanzas are what one token must stand for, and
three moments hold a slot, a turn across it and the next. In `bot` two prompts
and two sessions let a session be resumed after a crash with a transcript that
was half saved, and a channel of one makes the goroutine wait for its reader. In
`agents` two asks and three pushes give grug a head it knows, one it does not and
one that is pushed during a review. In `mcp` two callers and four sessions let
both notice one loss, one of them after the other has redialed, and a Close come
between. In `backup` three faults are a stop, a loss and a restore that fails.
Each bound only caps what would be unbounded; each is named where it is declared.
Every listed mutant is caught within them.

*Deadlock* is not checked: a closed manager or chatroom, a bridge that has
returned, and a bounded instance whose bounds are used up, really stop. Everyone
waiting on everyone is what `CallsReturn`, `CloseReturns`, `PostsReturn`,
`PromptsAreAnswered` and `KeepsThePromise` exclude.

*Fairness.* Backend calls, model calls, tools, dials and database statements
return (they carry contexts or come from local processes), goroutines that can
run do, systemd restarts what ends and the loops of `serve` and `remote chat` tick:
weak fairness. No timer of the manager has to fire and no time to pass. A caller of the manager competing
for a channel or for `adoptMu`, and a ready case of a `select`, get strong
fairness, as Go gives it: blocked senders queue in order, a starving waiter is
handed the mutex, `select` chooses among ready cases at random. Nobody is obliged
to call anything, to write, to start the bot, to close anything, or to fail.
`MovesArriveAtTheHost` assumes that the agents go quiet, since a host with a busy
agent at every tick never restarts, and that nothing fails while the release is
on its way, since a release whose download fails is skipped until the pointer
moves again (`Update` writes `seen` first, on purpose).

*What the properties except.* `NothingReadIsForgotten` leaves out what a crash
took before the first Save of the turn that read it: `cut` is exactly that.
`WorktreesAreOwned` allows one for each end of the process and each fault, counted,
and `ReviewsAreBounded` one for each end of the process and each failed write. `DevIsNotDeaf` is about backups one
after the other that complete, and restores of all the files (section 6 says
what happens otherwise).

## 4. Proofs

The theorems hold for every value of the constants that the assumption of the
module allows, and the assumptions ask for little: bounds are naturals, nil is no
member of the sets it is told apart from, the trusted laptops are laptops, those
the bridge allows are people, and the people of a chatroom are not its agents. No theorem depends on
a bound being small or large; a bound caps only what can happen, so that what is
proved for every bound is proved without one.

| Module | Theorem | Property |
|---|---|---|
| `SandboxManagerProofs` | `TypeCorrect` | `TypeOK` |
| | `OneLifecycle` | `OneLifecyclePerName` |
| | `BackendOutlivesGoroutines` | `CommandsKeepTheBackend` |
| | `StaysOnTheClock` | `ReadyIsOnTheClock` |
| | `NeverStopsEarly` | `NoEarlyStop` |
| | `RequestsInHand` | `EveryTakenRequestIsInHand` |
| | `AdoptionCompletes` | `AdoptionIsComplete` |
| | `NothingResurrects` | `OnlyTheLiveEntryCreates` (action, a part of the next) |
| | `ImplementsTheLifecycle` | `KeepsTheLifecycle` (refinement) |
| `HostingProofs` | `ReleaseTypes` | `ReleaseTypeOK` |
| | `BootsWell` | `BootsIntoAGoodRelease` |
| | `WinnerIsAlone` | `OneWinner` |
| | `NoRoomIsToldTwice` | `ToldOnce` (action) |
| | `BackupTypes` | `BackupTypeOK` |
| | `LatestIsThere` | `LatestNamesASnapshot` |
| | `DevHears` | `DevIsNotDeaf` |
| | `NothingIsStartedAfresh` | `NoFreshStart` |
| `MailRelayProofs` | `MailTypes` | `TypeOK` |
| | `NoGapsAppear` | `BoxesHaveNoGaps` |
| | `NothingIsPassedOver` | `PassedIsDelivered` |
| | `FaultsPayForRepeats` | `RepeatsCostAFault` |
| `ChatroomProofs` | `ChatroomTypes` | `TypeOK` |
| | `NewsIsNotMissed` | `NoMissedNews` |
| | `MentionsAreHandedOver` | `MentionsAreAccountedFor` |
| `XmppBridgeProofs` | `BridgeTypes` | `TypeOK` |
| | `MessagesAreWokenFor` | `NoLostWakeup` |
| | `HandlesAreReleased` | `OneHandle` |
| | `TrailsAreShown` | `TrailIsShown` |
| | `SlotsAreServedOnce` | `OneTurnPerSlot` (action) |
| `McpServerProofs` | `McpTypes` | `TypeOK` |
| | `SessionsAreReleased` | `NoSessionIsLeaked` |
| | `LossIsMadeGood` | `OneLossIsMadeGood` |
| | `ImplementsToolCalls` | the safety part of `KeepsThePromise` (refinement) |
| `AgentsProofs` | `AgentsTypes` | `TypeOK` |
| | `NothingIsForgotten` | `NothingReadIsForgotten` |
| | `WorktreesHaveOwners` | `WorktreesAreOwned` |
| | `ReviewsEnd` | `ReviewsAreBounded` |
| | `TasksAreKept` | `RoomsKeepTheirTask` (action) |
| `TelegramBotProofs` | `TypeCorrect` | `TypeOK` |
| | `SplitMessageSays` | what `splitMessage` computes, for every text |
| | `PromptsAreAnsweredOnce` | `AnsweredOnce` |
| | `TrailsAreShown` | `TrailIsShown` |
| | `TheStoreAgrees`, `OneBotStores` | `StoredAgrees` |
| | `AnswersReadAreStored`, `OneBotStores` | `AnswersAreStored` |

Every module is proved the same way: `IInv` is a conjunction of named parts,
`Invariance` says `Spec => []IInv`, with one lemma per action (or per kind of
action) under it, and each property follows from `IInv` (in `HostingProofs` the
names begin with `Release` and `Backup`). Each `IInv` was checked
with TLC on the instance of the module's run before it was proved. What the parts
are and why they are needed:

**The manager.** `Linked`: the map, the goroutines and the callers point at each
other. A listed entry was started under that name, a live one is listed, a
goroutine in a served call and its waiting caller name each other, and a caller
about to forget an entry has ended it. The last is what `OneLifecyclePerName`
rests on: `forget` runs after the answer, so what it drops must not be live.
`Closing`: once Close has collected, every live goroutine is among `known`, since
`adopt` looks at `closing` under the lock Close collects under. `OnClock`: wakeups
are not from the future, a deadline is a full window after the last command, a
stop was begun at a deadline, and a failed preparation never restores Ready.
`Covered`: what a pass has still to do covers what the manager does not know, and
a name about to be forgotten has nothing behind it; without it
`AdoptionIsComplete` would break at `forget` during a pass. `NothingResurrects`
is from `Linked`: only the return of EnsureReady brings a sandbox into being, and
the goroutine in it is the one listed. `ImplementsTheLifecycle` maps the entry a name
resolves to, if its goroutine is in a backend call, to that call and its client, and
everything else to no call. A goroutine that moves is the one listed, so the backend
sees it under its name and nothing else (`OneMoves`); what `adopt` makes, `forget`
drops and the exits leave is in no call (`NothingShown`). That a caller has one call
at a time takes that the two of a served call name each other and that a stop is for
nobody; that there is none after Close, `Closing`.

**Release.** `Installing`: what is about to be linked has run here. `Reading` and
`Replacing`: what a call has read is a version there was, a version somebody
replaced is behind the pointer, and the pointer has held a release ever since the
first; so a second winner from one version finds the pointer at a later one with
the same content, and none after the first release finds it empty. `Telling`: the room about to be told, the one of the notice and
the one dev is building for are three rooms, and none was told.

**Mail.** A sender takes the first free number at or after its cursor, so it
leaves no gap as long as nothing below its cursor is free: `Boxes` and `Chatting`
say so of each of the cursors, those in the database, those of the pass and those
of the laptops. `PassedIsDelivered` needs the order of things: mail is posted in
the order of its numbers (`At`, `InOrder`), the rooms of what was posted are
remembered or their mail comes again (`Posted`), and the list of the pass holds
all replies since what it has seen (`Mailed`, `ToGo`). A repeat is paid for before
it happens, when the pass stops between an effect and its cursor: `Budget` is
`RepeatsCostAFault` with what will be done a second time added to what was, and
it is that sum which one fault can raise by one only.

**Chatroom.** `Changes`: the channel was replaced as often as messages were
announced, so a reader that holds the current one has missed none
(`NoMissedNews` is inductive with it, `Waiting` and `Posting`). `Handed`: inbox,
handled and dropped are disjoint, hold nothing twice, and are together what was
announced for the agent.

**XMPP bridge.** `Started`: no session is current that was not started, so that a
new one has no handle on it. `Showing`: a status message was posted once or not
at all, and what it thinks it shows it does show, unless a send failed.
`Waiting`: the slots served have passed, and the one waited for is later than all
of them. `nextDue` is the least moment after now that is a slot; that there is a
least one is from the well-founded order of the naturals.

**MCP connection.** `Placed`: the holder of the lock is the one that dials, and
whoever is about to close a session has it alone. `Ran`: each try runs the tool
once at most. `Paid`: a call was hit as often as it has lost a session, those
counted that it has yet to notice, the one it uses and the one it would find in
the cache; without the latter a second caller's redial could not be accounted
for. `ImplementsToolCalls` maps initial states to initial states, and every step
to `Ask`, `RunTool`, `Return` or a stutter.

**Backup.** Three layers, as the properties have it. Whatever happens: a
request puts its snapshot before it names it, a garage that runs has its files,
and what its restore has passed is there. Without a restore beside anything else
(`NoRace`): a restore moves the latest snapshot to where there is no file, and the
chatroom's file has all its snapshot has, and what is about to be the latest.
With nothing odd at all (`NothingOdd`): one backup at a time, the latest
snapshots are of one backup, dev's copied first (`DevFirst`), and dev is behind
the chatroom also where one of the two has yet to come back (`Behind`).

**Agents.** `Started` and `Known`: tasks are numbered as they are started, no two
rooms share one, and each has a worktree. `Read`: what the database says dev has
read is in the session it has, or in the stored one it would resume, but for
`cut`; this ties `record`, which is written before the turn, to `kept`, which is
written in it. `Replaced` is `RoomsKeepTheirTask` with the place where the task is
about to be replaced added. `lost` are the tasks that a fault has taken from their
rooms, or that nothing but luck keeps there: a task is `Safe` when it is in the
database with its session and no other in its place, or when dev is in the turn
after which it will be; each fault and each end of the process takes one from
`Safe` at most (`Paid`). `Reviewing` and `InOrder`: branches only grow, so the
heads grug wrote down are ascending and the one it reviews is after them.
`Counted`: a review is written down, about to be, or a fault kept it from being.

**The bot and the run loop.** The invariant has two layers. `IInv` holds of any
number of bots over one database. `Running`: a goroutine runs while its bot reads
its events, and on a session whose last message is about the prompt in hand.
`Asking`: a prompt that nobody was told about is in one queue, at one place, or in
one hand; that is what keeps `AnsweredOnce`, since a bot that dies takes its queue
with it. `Reporting`: a channel that is closed ends in an error the bot has read or
will read, unless the turn is done, so that a turn that failed is never answered as
if it had not. `Completing`: a session is marked completed on a turn's way out only.
`SInv` is about the store, on top of `IInv`. `Saving`: what is stored of a session
is a prefix of what its bot has, the count that Save took is still its length, and
it is all of it when the turn is done; the last is why an answer that was read is
stored although Run ignores the error of its last Save: an answer is saved by the
round of the loop that appended it, whose error does end the turn.
Another bot that resumes the session in between breaks the count, so `SInv` is
preserved as long as no two bots hold one session (`Apart`): `Spec /\ []Apart =>
[]StoredAgrees`. Nothing in the program enforces `Apart`; it runs one bot over its
database, and for one bot it holds (`OneBotStores`). Both layers were checked with
TLC on the run's instance, and with two bots under the constraint `Apart`.

That no answer is garbled is `SplitMessageSays`, for every text and every limit
above one. It is an induction over data, made without the library's induction
theorem, which the provers cannot instantiate: of the numbers of runes left for
which the chunks do not say what is left there is a least one, from the well-founded
order of the naturals, and `splitRound` reduces it to a smaller one because
`breakPoint` goes past at least one rune. That there is a function which the
recursive definition describes is proved the same way (`SplitsExist`).

The proof of `WorktreesAreOwned` corrected it. It used not to allow for failed
writes, and the run with one room agreed; with two rooms it was false, as TLC then
showed: a task that could not be written down in one room is lost by the same
crash that ends the turn of another. The bound is now one for each fault of
whichever kind and each end of the process.

What stays with TLC:

* everything under fairness: `CallsReturn`, `CloseReturns`,
  `MovesArriveAtTheHost`, `MailArrives`, `PostsReturn`, `PromptsAreAnswered`,
  `PingPongEnds`, and the last conjunct of `ToolCalls!Spec`; liveness is out of
  the prover's reach;
* `StoredAgrees` and `AnswersAreStored` where two bots hold one session: they are
  false there (section 6), which is why the theorems have the hypothesis `Apart`.

## 5. What is not modelled

Host setup is a list of commands a person runs once, secrets are encryption,
tools, the model client and the UI convert and render: they have no control worth
a model. The database's notes, listings and migrations, and the examples and test
utilities, are left out too. Within the modelled parts: `Inspect`, `Rooms`,
`Snapshot` and `Merged` only read; events, logs and usage counters are left out;
bucket rate limits and signatures are a refusal to trust; the daemon calls inside
one backend call are one step; the typing indicator of the bot and the encoding
of a stanza change nothing that is kept. In `XmppBridge` and `Agents` a turn is
abstracted to its outcome; `AgentRun` has its inside.

## 6. What the models found

Two comments say more than the code does, each with a run whose trace shows it:

* `sandbox_destroy_twice`: "a sandbox that is already gone ... is success". Of
  two concurrent Destroys the second finds the entry before the first has
  forgotten it, and is answered ErrDestroyed.
* `xmpp_slot_missed`: "a slot that comes due during a turn is served when that
  turn ends". The timer is set anew after the turn, for the first slot strictly
  after now, so the slot that passed is forgotten until the next day. The test of
  it passes because its fake timer hands out the same channel every time.

The models also reach these; they have no run of their own.

*Sandbox manager.* Close says that it waits for whatever is in flight
(manager.go:183). It waits for the goroutines of the entries, and so for every
command; the List of an adoption pass is a call of its caller's own
(manager.go:259-262, 283-299), and one that got past the check of `closing` runs
beside the backend's Close or after it. `CommandsKeepTheBackend` is about the
former and says so. A name opened before the pass is skipped by it: compute
inherited under it stays off the idle clock until a command uses it. A pass whose
List is older than a Destroy adopts the name anew; if a caller opens and uses it
before `doObserve`, the old observation is recorded over it. EnsureReady that
fails after it started the compute leaves the entry Stopped, off the clock, over
a running sandbox. Destroy of an unknown name that fails leaves an entry without
an image; a later command that must create the sandbox is refused.

*Release.* The comment of `point` says that two releases at once can't both think
they won (release.go:56-57). With R2's ETags they can: a call that read s0 wins its
Swap although the pointer went to s1 and back meanwhile, and two releases of the
sha that is there already both win. `OneWinner` is what is left: from one version
two win only if its content came back in between. What the pointer then holds is
still what the last winner released. An agent woken after `busy` was read is cut off by the restart
(serve.go:253). There is one `deployed` notice: a second Deploy before the
restart overwrites it, a failing one removes it, and Booted takes it whichever
release it is for. A Swap whose answer is lost makes Deploy report a failure of a
release that then runs.

*Mail and chatroom.* Until a pass has succeeded every pass starts after the
newest message, so an agent's reply to mail that a failed first pass posted is
never mailed (mail.go:22). Two concurrent posts may reach an inbox in the other
order than the table has them, since the INSERT is not under `Service.mu`.
Mentions in an inbox when the process ends are lost; their messages are not, and
the next mention reads on.

*Turns and their database.* The count of stored messages is taken anew by every
Save, so a second writer of a session is refused only if it commits between the
count and the transaction; otherwise the two transcripts are mixed without an
error, where store.go's comment speaks of losing that write loudly. A turn that
is cut between saving a tool call and saving its results leaves a transcript that
later turns send as it is; dev's wake does not make the session active again
either. The bot's and the bridge's trails count as shown although the send
failed.

*Agents.* A crash between grug's Put and its message loses a review that is then
not repeated. Only the last head is compared, so a branch that is forced back is
reviewed there again, where the comment says each head is reviewed once. A
Checkout or Start that fails after it added a worktree leaves it.

*MCP.* Tools does not drop a session it finds dead, although connect's comment
says the call sites recover; a second try that fails leaves the dead session
cached for the next caller to find. A call in flight at a Close redials, and what
it dials outlives the Close. The note that the server forgot what it held goes
with the calls that redialed only: a conversation whose next call finds the new
session is not told.

*Backup.* Two backups at once, or one that stopped, can leave dev's snapshot
ahead of the chatroom's, as can losing the chatroom's file only: dev then does
not hear what it believes it has read. A restore looks whether a file is there
before it fetches the snapshot and moves it there after: run by hand beside a
garage that starts it overwrites the new file, where the comment says it never
does.

## 7. Plan

Done: all components with control of their own are modelled, every safety property
that a run checks is proved, and the two abstract specifications are shown to be
implemented. What is left are lemmas on what the steps of Send, Receive and Restore
promise each other across modules, where one module assumes what another proves.
