------------------------------- MODULE AgentRun -------------------------------
(***************************************************************************)
(* A turn of an agent (metaharness/agent) over its stored transcript       *)
(* (metaharness/agentdb/turso).  Run answers a session's last message in a *)
(* goroutine of its own: it calls the model, runs the tools the model asks *)
(* for, saves after each, and reports on a bounded channel that it closes. *)
(*                                                                         *)
(* The module has the state of several holders of sessions over one        *)
(* database: an application (a bridge) puts a prompt in a session and      *)
(* reads the events.  A message is its role, the number of tool calls it   *)
(* has, and the prompt its turn is about; what it says is not modelled.    *)
(***************************************************************************)
EXTENDS Naturals, Sequences, SequencesExt

CONSTANTS
    Holders,     \* who runs turns: each has one session at a time
    MaxSessions, \* bound on the sessions started
    MaxPrompts,  \* bound on the prompts
    MaxCalls,    \* bound on the tool calls of one answer
    MaxMessages, \* a model asks for no tool that would take a transcript past it
    EventCap,    \* the buffer of Run's channel
    MaxFaults    \* bound on crashes, cancelled contexts, failed saves and replies not sent

ASSUME RunAssumption ==
    /\ Holders # {} /\ MaxSessions \in Nat \ {0} /\ MaxPrompts \in Nat \ {0}
    /\ MaxCalls \in Nat \ {0} /\ MaxMessages \in Nat /\ EventCap \in Nat \ {0}
    /\ MaxFaults \in Nat

VARIABLES
    messages, \* session -> agent_messages in the order of seq
    statuses, \* session -> the status of its row in agent_sessions, or "none"
    sess,     \* holder -> the session it holds
    run,      \* holder -> where the goroutine of its turn is
    out,      \* holder -> the events in the channel
    ctx,      \* holder -> "live" or "done"
    faults

store == <<messages, statuses>>
runVars == <<messages, statuses, sess, run, out, ctx, faults>>

-----------------------------------------------------------------------------

Ids == 1..MaxSessions
Prompts == 1..MaxPrompts
Status == {"active", "completed", "failed"}
Events == {"calls", "text", "result", "done", "error"}

Message == [role : {"user", "assistant", "tool"}, calls : 0..MaxCalls, by : Prompts]

user(p) == [role |-> "user", calls |-> 0, by |-> p]
toolResultMsg(p) == [role |-> "tool", calls |-> 0, by |-> p]
assistant(n, p) == [role |-> "assistant", calls |-> n, by |-> p]

\* An assistant message that asks for nothing is the answer.
isAnswer(m) == m.role = "assistant" /\ m.calls = 0

\* A session as its holder has it, and the goroutine of its turn.
Session == [id : Ids, messages : Seq(Message), status : Status, box : BOOLEAN]
Goroutine == [pc : {"idle", "top", "model", "tools", "count", "commit", "last", "closed"},
              left : 0..MaxCalls, then : {"loop", "done", "failed"}, stored : Nat]

\* No turn is running.
Idle == [pc |-> "idle", left |-> 0, then |-> "loop", stored |-> 0]

RunTypeOK ==
    /\ messages \in [Ids -> Seq(Message)]
    /\ statuses \in [Ids -> Status \cup {"none"}]
    /\ sess \in [Holders -> Session] /\ run \in [Holders -> Goroutine]
    /\ out \in [Holders -> Seq(Events)]
    /\ ctx \in [Holders -> {"live", "done"}]
    /\ faults \in 0..MaxFaults

fault == faults < MaxFaults /\ faults' = faults + 1

emit(h, e) == Len(out[h]) < EventCap /\ out' = [out EXCEPT ![h] = Append(@, e)]

\* The goroutine of h's turn goes on at pc.
goto(h, pc) == run' = [run EXCEPT ![h].pc = pc]

\* It saves, and then does what comes after.
saves(h, then) == run' = [run EXCEPT ![h].pc = "count", ![h].then = then]

\* fail: the status is saved if it can be, and the error is the last event.
fail(h) ==
    /\ sess' = [sess EXCEPT ![h].status = "failed"]
    /\ saves(h, "failed")

-----------------------------------------------------------------------------
(* The loop of Run *)

\* The head of the loop: it stops for a context that is done, and otherwise the
\* last message says what is next: tools to run, nothing, or a call to the model.
top(h) ==
    /\ run[h].pc = "top"
    /\ LET last == Last(sess[h].messages)
       IN \/ /\ ctx[h] = "done" /\ fail(h)
          \/ /\ ctx[h] = "live" /\ last.calls > 0
             /\ run' = [run EXCEPT ![h].pc = "tools", ![h].left = last.calls]
             /\ UNCHANGED sess
          \/ /\ ctx[h] = "live" /\ isAnswer(last)
             /\ sess' = [sess EXCEPT ![h].status = "completed"]
             /\ saves(h, "done")
          \/ /\ ctx[h] = "live" /\ last.role # "assistant"
             /\ goto(h, "model") /\ UNCHANGED sess
    /\ UNCHANGED <<store, out, ctx, faults>>

\* Mutant: the answer is saved with the status of the turn, not before it.
answersUnsaved(h) ==
    /\ run[h].pc = "model"
    /\ \E n \in 0..MaxCalls :
          /\ n = 0 \/ Len(sess[h].messages) + n + 2 <= MaxMessages
          /\ sess' = [sess EXCEPT ![h].messages = Append(@, assistant(n, Last(@).by))]
          /\ emit(h, IF n > 0 THEN "calls" ELSE "text")
          /\ IF n > 0 THEN saves(h, "loop") ELSE goto(h, "top")
    /\ UNCHANGED <<store, ctx, faults>>

\* call and Collect: the model's answer joins the transcript, is reported, and is
\* then saved.  It asks for some tools or for none.
answers(h) ==
    /\ run[h].pc = "model"
    /\ \E n \in 0..MaxCalls :
          /\ n = 0 \/ Len(sess[h].messages) + n + 2 <= MaxMessages
          /\ sess' = [sess EXCEPT ![h].messages = Append(@, assistant(n, Last(@).by))]
          /\ emit(h, IF n > 0 THEN "calls" ELSE "text")
    /\ saves(h, "loop")
    /\ UNCHANGED <<store, ctx, faults>>

\* The provider refuses, the stream breaks, or the output ran out first.
answerFails(h) ==
    /\ run[h].pc = "model"
    /\ fail(h)
    /\ UNCHANGED <<store, out, ctx, faults>>

\* dispatch: one call, one result, be it an error, even of an unknown tool.
dispatch(h) ==
    /\ run[h].pc = "tools"
    /\ sess' = [sess EXCEPT ![h].messages = Append(@, toolResultMsg(Last(@).by))]
    /\ emit(h, "result")
    /\ run' = [run EXCEPT ![h].left = @ - 1,
                          ![h].pc = IF run[h].left = 1 THEN "count" ELSE @,
                          ![h].then = "loop"]
    /\ UNCHANGED <<store, ctx, faults>>

\* Mutant: the goroutine returns and leaves the channel open.
lastEventOpen(h) ==
    /\ run[h].pc = "last"
    /\ emit(h, IF run[h].then = "done" THEN "done" ELSE "error")
    /\ goto(h, "idle")
    /\ UNCHANGED <<store, sess, ctx, faults>>

\* The last event, of a turn that is over, and the channel is closed.
lastEvent(h) ==
    /\ run[h].pc = "last"
    /\ emit(h, IF run[h].then = "done" THEN "done" ELSE "error")
    /\ goto(h, "closed")
    /\ UNCHANGED <<store, sess, ctx, faults>>

-----------------------------------------------------------------------------
(* Save.  Where it returns to is in run.then. *)

\* What Run does with an error of Save: only a turn that is to go on minds.
saveError(h) ==
    \/ run[h].then = "loop" /\ fail(h)
    \/ run[h].then # "loop" /\ goto(h, "last") /\ UNCHANGED sess

\* Save begins: a context that is done, or a read that fails, and nothing is written.
saveRefused(h) ==
    /\ run[h].pc = "count"
    /\ \/ ctx[h] = "done" /\ UNCHANGED faults
       \/ ctx[h] = "live" /\ fault
    /\ saveError(h)
    /\ UNCHANGED <<store, out, ctx>>

\* storedCount: how many messages the database has is asked anew at every Save.
storedCount(h) ==
    /\ run[h].pc = "count" /\ ctx[h] = "live"
    /\ run' = [run EXCEPT ![h].pc = "commit", ![h].stored = Len(messages[sess[h].id])]
    /\ UNCHANGED <<store, sess, out, ctx, faults>>

\* Mutant: the first message that is not stored is taken for stored.
appendedAfter(h) == SubSeq(sess[h].messages, run[h].stored + 2, Len(sess[h].messages))

\* What is not stored yet, which insertMessage appends from seq stored on.
appended(h) == SubSeq(sess[h].messages, run[h].stored + 1, Len(sess[h].messages))

\* Another writer has taken the seq of the first of them.
duplicate(h) == appended(h) # <<>> /\ Len(messages[sess[h].id]) > run[h].stored

\* The transaction: the row of the session and its new messages, or neither.
commit(h) ==
    /\ run[h].pc = "commit" /\ ctx[h] = "live" /\ ~duplicate(h)
    /\ messages' = [messages EXCEPT ![sess[h].id] = @ \o appended(h)]
    /\ statuses' = [statuses EXCEPT ![sess[h].id] = sess[h].status]
    /\ run' = [run EXCEPT ![h].pc = IF run[h].then = "loop" THEN "top" ELSE "last",
                          ![h].stored = 0]
    /\ UNCHANGED <<sess, out, ctx, faults>>

rollback(h) ==
    /\ run[h].pc = "commit"
    /\ \/ (ctx[h] = "done" \/ duplicate(h)) /\ UNCHANGED faults
       \/ ctx[h] = "live" /\ ~duplicate(h) /\ fault
    /\ saveError(h)
    /\ UNCHANGED <<store, out, ctx>>

Turn(h) ==
    \/ top(h) \/ answers(h) \/ answerFails(h) \/ dispatch(h) \/ lastEvent(h)
    \/ saveRefused(h) \/ storedCount(h) \/ commit(h) \/ rollback(h)

-----------------------------------------------------------------------------
(* Sessions *)

\* What a process that is not running holds, or one that has closed its session.
NoSession == [id |-> 1, messages |-> <<>>, status |-> "active", box |-> FALSE]

\* Bind: the session gets its handle on a sandbox.
Bind(s) == [s EXCEPT !.box = TRUE]

\* NewSession: a session the store does not know yet, in its sandbox.
NewSession(id) == Bind([NoSession EXCEPT !.id = id])

\* Load: the row and the messages in the order of their seq, and no handle.
Load(id) == [id |-> id, messages |-> messages[id], status |-> statuses[id], box |-> FALSE]

\* Resume: Load, and the sandbox of the name it recorded.
Resumed(id) == Bind(Load(id))

\* Run: the goroutine of the turn starts at the head of the loop.
Run(h) == /\ run' = [run EXCEPT ![h] = [Idle EXCEPT !.pc = "top"]]
          /\ out' = [out EXCEPT ![h] = <<>>]

\* The channel is closed and its reader has read it all.
Drained(h) == run[h].pc = "closed" /\ out[h] = <<>>

-----------------------------------------------------------------------------
(* What the turns keep *)

\* The database agrees with the turns, whichever Saves failed and whichever process
\* died: what it has of a session is a prefix of the session its holder goes on with,
\* each Save having appended where the last one that worked ended; and a row says
\* completed only if the stored transcript ends in an answer (Save, storedCount).
StoredAgrees ==
    /\ \A h \in Holders :
          sess[h].box => IsPrefix(messages[sess[h].id], sess[h].messages)
    /\ \A id \in Ids : statuses[id] = "completed" =>
          messages[id] # <<>> /\ isAnswer(Last(messages[id]))

=============================================================================
