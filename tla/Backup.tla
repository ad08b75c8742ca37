-------------------------------- MODULE Backup --------------------------------
(***************************************************************************)
(* The databases of garage serve, their snapshots in the bucket, and their *)
(* return (hosting/backup.go, and the backup and restore commands).  A     *)
(* database is as far as it has got: the chatroom's is how many messages   *)
(* it has, dev's how many of them dev has read.  grug's has nothing that   *)
(* depends on the others.                                                  *)
(*                                                                         *)
(* Several backups may run at once in garage serve, each a request; a      *)
(* restore runs when garage serve starts, and by hand.  The process may    *)
(* end, a request to the bucket fail, and files be lost, at any time.      *)
(***************************************************************************)
EXTENDS Integers, Sequences, FiniteSets

CONSTANTS
    Requests,    \* the backups that may run at once
    MaxDays,     \* bound on the days
    MaxPosts,    \* bound on the messages
    MaxBackups,  \* bound on the backups
    MaxFaults    \* bound on what fails, ends, is lost, or is done by hand

ASSUME BackupAssumption == MaxDays \in Nat \ {0} /\ {MaxPosts, MaxBackups, MaxFaults} \subseteq Nat

VARIABLES
    serve,     \* garage serve: "down", "restoring" or "up"
    file,      \* database -> how far the file has got, or Missing
    worktree,  \* the worktree of dev's task is there
    object,    \* database -> day -> the snapshot in the bucket, or Missing
    latest,    \* database -> the day its latest object names, or 0
    day,
    request,   \* request -> where its backup is
    restorer,  \* who restores -> where the restore is
    odd,       \* what happened that spoils a backup or a restore
    backups, faults

bucketVars == <<object, latest>>
counts == <<backups, faults>>
backupVars == <<serve, file, worktree, bucketVars, day, request, restorer, odd, counts>>

-----------------------------------------------------------------------------

Missing == -1
Days == 1..MaxDays

\* Mutant: the chatroom is copied, and brought back, before dev.
DatabasesReversed == <<"chatroom", "grug", "dev">>

\* databases, in the order of their owners' names.
Databases == <<"dev", "grug", "chatroom">>

Dbs == {Databases[i] : i \in DOMAIN Databases}

Content == Missing..MaxPosts
Resting == [pc |-> "rest", i |-> 1, day |-> 0, copy |-> Missing]

\* A backup or a restore under way, or none.
Copying(pcs) == [pc : pcs \cup {"rest"}, i : 1..Len(Databases), day : 0..MaxDays, copy : Content]

BackupTypeOK ==
    /\ serve \in {"down", "restoring", "up"}
    /\ file \in [Dbs -> Content] /\ worktree \in BOOLEAN
    /\ object \in [Dbs -> [Days -> Content]] /\ latest \in [Dbs -> 0..MaxDays]
    /\ day \in Days
    /\ request \in [Requests -> Copying({"snapshot", "object", "latest"})]
    /\ restorer \in [{"serve", "hand"} -> Copying({"stat", "get", "rename"})]
    /\ odd \subseteq {"overlap", "stopped", "partial", "race"}
    /\ backups \in 0..MaxBackups /\ faults \in 0..MaxFaults

fault == faults < MaxFaults /\ faults' = faults + 1

\* The database a backup or a restore is at.
at(p) == Databases[p.i]

\* It goes on to the next one.
next(p, pc) == IF p.i = Len(Databases) THEN Resting
               ELSE [Resting EXCEPT !.pc = pc, !.i = p.i + 1, !.day = p.day]

-----------------------------------------------------------------------------
(* Backup *)

\* POST /backup: today's.
backup(r) ==
    /\ serve = "up" /\ backups < MaxBackups /\ backups' = backups + 1
    /\ request[r].pc = "rest"
    /\ request' = [request EXCEPT ![r] = [Resting EXCEPT !.pc = "snapshot", !.day = day]]
    /\ odd' = odd \cup {"overlap" : q \in {q \in Requests : request[q].pc # "rest"}}
    /\ UNCHANGED <<serve, file, worktree, bucketVars, day, restorer, faults>>

snapshot(r) ==
    /\ request[r].pc = "snapshot"
    /\ request' = [request EXCEPT ![r].pc = "object", ![r].copy = file[at(request[r])]]
    /\ UNCHANGED <<serve, file, worktree, bucketVars, day, restorer, odd, counts>>

\* Mutant: latest is pointed at the day before its snapshot is there.
putObjectLast(r) ==
    LET p == request[r]
    IN \/ /\ p.pc = "object"
          /\ latest' = [latest EXCEPT ![at(p)] = p.day]
          /\ request' = [request EXCEPT ![r].pc = "latest"]
          /\ UNCHANGED <<serve, file, worktree, object, day, restorer, odd, counts>>
       \/ /\ p.pc = "latest"
          /\ object' = [object EXCEPT ![at(p)][p.day] = p.copy]
          /\ request' = [request EXCEPT ![r] = next(p, "snapshot")]
          /\ UNCHANGED <<serve, file, worktree, latest, day, restorer, odd, counts>>

\* The snapshot of the day, over any other of that day, and then latest.
put(r) ==
    LET p == request[r]
    IN \/ /\ p.pc = "object"
          /\ object' = [object EXCEPT ![at(p)][p.day] = p.copy]
          /\ request' = [request EXCEPT ![r].pc = "latest"]
          /\ UNCHANGED <<serve, file, worktree, latest, day, restorer, odd, counts>>
       \/ /\ p.pc = "latest"
          /\ latest' = [latest EXCEPT ![at(p)] = p.day]
          /\ request' = [request EXCEPT ![r] = next(p, "snapshot")]
          /\ UNCHANGED <<serve, file, worktree, object, day, restorer, odd, counts>>

\* A snapshot or a Put fails, and what came before it stays.
backupFails(r) ==
    /\ fault
    /\ request[r].pc # "rest"
    /\ request' = [request EXCEPT ![r] = Resting]
    /\ odd' = odd \cup {"stopped"}
    /\ UNCHANGED <<serve, file, worktree, bucketVars, day, restorer, backups>>

-----------------------------------------------------------------------------
(* Restore *)

restores(w, p) == restorer' = [restorer EXCEPT ![w] = p]

\* garage serve starts, or somebody runs garage restore.
begin(w) ==
    /\ restorer[w].pc = "rest"
    /\ IF w = "serve" THEN serve = "down" /\ serve' = "restoring" /\ UNCHANGED faults
       ELSE fault /\ UNCHANGED serve
    /\ restores(w, [Resting EXCEPT !.pc = "stat"])
    /\ odd' = odd \cup {"race" : v \in {v \in {"serve", "hand"} : restorer[v].pc # "rest"}}
                  \cup (IF w = "hand" /\ serve # "down" THEN {"race"} ELSE {})
    /\ UNCHANGED <<file, worktree, bucketVars, day, request, backups>>

\* A file that is there is left, and so is a database that has no snapshots.
stat(w) ==
    /\ restorer[w].pc = "stat"
    /\ LET p == restorer[w]
       IN IF file[at(p)] = Missing /\ latest[at(p)] # 0
          THEN restores(w, [p EXCEPT !.pc = "get", !.day = latest[at(p)]])
          ELSE restores(w, next(p, "stat"))
    /\ UNCHANGED <<serve, file, worktree, bucketVars, day, request, odd, counts>>

get(w) ==
    /\ restorer[w].pc = "get" /\ object[at(restorer[w])][restorer[w].day] # Missing
    /\ restores(w, [restorer[w] EXCEPT !.pc = "rename",
                                       !.copy = object[at(restorer[w])][restorer[w].day]])
    /\ UNCHANGED <<serve, file, worktree, bucketVars, day, request, odd, counts>>

\* The snapshot is written beside the file's place and moved there, over whatever
\* has come to be there since it was looked for.
rename(w) ==
    /\ restorer[w].pc = "rename"
    /\ LET p == restorer[w]
       IN /\ file' = [file EXCEPT ![at(p)] = p.copy]
          /\ restores(w, next(p, "stat"))
    /\ UNCHANGED <<serve, worktree, bucketVars, day, request, odd, counts>>

\* Mutant: a snapshot that cannot be had is like one that is not there.
restoreGoesOn(w) ==
    /\ fault
    /\ restorer[w].pc # "rest"
    /\ restores(w, next(restorer[w], "stat"))
    /\ UNCHANGED <<serve, file, worktree, bucketVars, day, request, odd, backups>>

\* The bucket or the disk fails: the restore ends there, and garage serve with it.
restoreFails(w) ==
    /\ fault
    /\ restorer[w].pc # "rest"
    /\ restores(w, Resting)
    /\ serve' = IF w = "serve" THEN "down" ELSE serve
    /\ UNCHANGED <<file, worktree, bucketVars, day, request, odd, backups>>

-----------------------------------------------------------------------------
(* The process, its databases and its host *)

\* The databases are opened, and one that is not there is made.
open ==
    /\ serve = "restoring" /\ restorer["serve"].pc = "rest"
    /\ serve' = "up"
    /\ file' = [db \in Dbs |-> IF file[db] = Missing THEN 0 ELSE file[db]]
    /\ UNCHANGED <<worktree, bucketVars, day, request, restorer, odd, counts>>

post ==
    /\ serve = "up" /\ file["chatroom"] < MaxPosts
    /\ file' = [file EXCEPT !["chatroom"] = @ + 1]
    /\ UNCHANGED <<serve, worktree, bucketVars, day, request, restorer, odd, counts>>

\* dev is mentioned: it reads on from where it was, or from the beginning in a new
\* task if the worktree of the one it had is gone.
devReads ==
    /\ serve = "up"
    /\ worktree' = TRUE
    /\ LET seen == IF worktree THEN file["dev"] ELSE 0
       IN file' = [file EXCEPT !["dev"] = IF seen < file["chatroom"] THEN file["chatroom"] ELSE seen]
    /\ UNCHANGED <<serve, bucketVars, day, request, restorer, odd, counts>>

\* The process ends, and its backups with it.
stop ==
    /\ fault
    /\ serve # "down" /\ serve' = "down"
    /\ request' = [r \in Requests |-> Resting]
    /\ restores("serve", Resting)
    /\ odd' = odd \cup {"stopped" : r \in {r \in Requests : request[r].pc # "rest"}}
    /\ UNCHANGED <<file, worktree, bucketVars, day, backups>>

\* The databases are lost, all or some of them, the worktree with them or not.
lose ==
    /\ fault
    /\ serve = "down"
    /\ \E lost \in (SUBSET Dbs) \ {{}} :
          /\ file' = [db \in Dbs |-> IF db \in lost THEN Missing ELSE file[db]]
          /\ odd' = odd \cup (IF lost = Dbs THEN {} ELSE {"partial"})
    /\ worktree' \in {worktree, FALSE}
    /\ UNCHANGED <<serve, bucketVars, day, request, restorer, backups>>

tomorrow ==
    /\ day < MaxDays /\ day' = day + 1
    /\ UNCHANGED <<serve, file, worktree, bucketVars, request, restorer, odd, counts>>

-----------------------------------------------------------------------------

BackupInit ==
    /\ serve = "down" /\ file = [db \in Dbs |-> Missing] /\ worktree = FALSE
    /\ object = [db \in Dbs |-> [d \in Days |-> Missing]] /\ latest = [db \in Dbs |-> 0]
    /\ day = 1 /\ request = [r \in Requests |-> Resting]
    /\ restorer = [w \in {"serve", "hand"} |-> Resting]
    /\ odd = {} /\ backups = 0 /\ faults = 0

BackupNext ==
    \/ \E r \in Requests : backup(r) \/ snapshot(r) \/ put(r) \/ backupFails(r)
    \/ \E w \in {"serve", "hand"} : begin(w) \/ stat(w) \/ get(w) \/ rename(w) \/ restoreFails(w)
    \/ open \/ post \/ devReads \/ stop \/ lose \/ tomorrow

BackupSpec == BackupInit /\ [][BackupNext]_backupVars

-----------------------------------------------------------------------------

\* What latest names is in the bucket, also while a backup is under way, after one
\* that stopped, and with two at once (Backup's order of its two Puts).
LatestNamesASnapshot ==
    \A db \in Dbs : latest[db] # 0 => object[db][latest[db]] # Missing

\* dev is not deaf: it has not read further than the chatroom goes, though the two
\* come back from snapshots of two moments, and a restore may stop half-way.  The
\* owners' order decides it.  Two backups at once, one that stopped, the loss of
\* some files only, and a restore beside a running garage void it.
DevIsNotDeaf ==
    serve = "up" /\ worktree /\ odd = {} => file["dev"] <= file["chatroom"]

\* A garage that runs has at least the messages its latest snapshot has: one whose
\* snapshot cannot be had does not start without it (Restore, runServe).
NoFreshStart ==
    serve = "up" /\ "race" \notin odd =>
        \/ latest["chatroom"] = 0
        \/ file["chatroom"] >= object["chatroom"][latest["chatroom"]]

=============================================================================
