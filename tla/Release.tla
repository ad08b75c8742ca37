-------------------------------- MODULE Release --------------------------------
(***************************************************************************)
(* Releasing the garage through the bucket (hosting/release.go) and the    *)
(* loop of garage serve that installs a release and restarts into it       *)
(* (cmd/garage/serve.go).  Laptops publish a build or point back at an old *)
(* one; the dev agent deploys from inside the host process and leaves a    *)
(* notice of the room to tell; the host polls the pointer, installs what   *)
(* it names once, and restarts when no agent is busy.  The host may crash  *)
(* between any two steps, and bucket calls may fail.                       *)
(*                                                                         *)
(* A bucket write that fails may have happened, its answer lost; calls are *)
(* not retried.  The ETag a swap is conditional on is R2's, which follows  *)
(* the content of an object: a pointer that comes back to an old release   *)
(* has its old ETag again.  A room stands for the one deploy asked for in  *)
(* it.                                                                     *)
(***************************************************************************)
EXTENDS Naturals, FiniteSets

CONSTANTS
    Shas,      \* releases
    Good,      \* the ones whose binary runs on the host
    Old,       \* the release garage setup installed
    Laptops,   \* publishers outside the host
    Dev,       \* the dev agent, a publisher inside it
    Rooms,     \* deploys asked of the dev agent, by their room
    None,      \* "", nil
    MaxFailures, \* bound on crashes and failed bucket calls
    MaxMoves,  \* bound on moves of releases/current
    MaxBusy    \* bound on agent turns at once

ASSUME ReleaseAssumption ==
    /\ Good \subseteq Shas /\ Old \in Good
    /\ None \notin Shas /\ None \notin Rooms
    /\ Dev \notin Laptops /\ Laptops # {}
    /\ MaxFailures \in Nat /\ MaxMoves \in Nat /\ MaxBusy \in Nat

VARIABLES
    pointer,   \* releases/current: how often it was written, and what it held when
    uploaded,  \* the binaries in the bucket
    pub,       \* the publishers' calls in progress
    seen,      \* dir/seen: {} before the first look, else {the sha seen}
    installed, \* dir/<sha>/garage
    link,      \* dir/current
    notice,    \* dir/deployed: the release and the room to tell, at most one
    host,      \* the serve process
    busy,      \* agents mid-turn, the deploying one included
    rooms,     \* what the rooms have read: "asked", "promised" a restart, "told"
    failures

releaseVars == <<pointer, uploaded, pub, seen, installed, link, notice, host, busy, rooms, failures>>

-----------------------------------------------------------------------------

Publishers == Laptops \cup {Dev}

\* What the pointer held after its v-th write, None while there is none, which is
\* also what R2's ETag of that version comes to; and what it holds now.
ETag(v) == pointer.past[v]
current == ETag(pointer.ver)

\* No call in progress.  won is the versions that the finished calls had read when
\* they won, kept to state what the compare-and-swap is for.
resting(p) == [pub[p] EXCEPT !.pc = "rest", !.sha = None, !.room = None, !.read = None]

\* The call of a publisher, and the serve process.
Call == [pc : {"rest", "build", "put", "verify", "get", "swap"},
         sha : Shas \cup {None}, room : Rooms \cup {None},
         read : 0..MaxMoves \cup {None}, won : SUBSET (0..MaxMoves)]

Serve == [pc : {"down", "look", "install", "link", "booted", "post", "check", "stopping"},
          exe : Shas \cup {None}, looked : BOOLEAN, room : Rooms \cup {None},
          want : Shas \cup {None}, pending : Shas \cup {None}]

ReleaseTypeOK ==
    /\ pointer \in [ver : 0..MaxMoves, past : [0..MaxMoves -> Shas \cup {None}]]
    /\ uploaded \subseteq Shas
    /\ pub \in [Publishers -> Call]
    /\ seen \in {{}} \cup {{s} : s \in Shas \cup {None}}
    /\ installed \subseteq Shas
    /\ link \in Shas
    /\ notice \in {{}} \cup {{d} : d \in [sha : Shas, room : Rooms]}
    /\ host \in Serve
    /\ busy \in 0..MaxBusy
    /\ rooms \in [Rooms -> SUBSET {"asked", "promised", "told"}]
    /\ failures \in 0..MaxFailures

up == host.pc # "down"

\* A bucket call fails, or the host crashes, at most MaxFailures times.
fails == failures < MaxFailures /\ failures' = failures + 1

-----------------------------------------------------------------------------
(* Publishers *)

\* garage release: upload, then point.
Publish(p, s) ==
    /\ p \in Laptops /\ pub[p].pc = "rest"
    /\ pub' = [pub EXCEPT ![p] = [@ EXCEPT !.pc = "put", !.sha = s]]
    /\ UNCHANGED <<pointer, uploaded, seen, installed, link, notice, host, busy, rooms, failures>>

\* garage rollback: the release must be in the bucket already.
Point(p, s) ==
    /\ p \in Laptops /\ pub[p].pc = "rest"
    /\ pub' = [pub EXCEPT ![p] = [@ EXCEPT !.pc = "verify", !.sha = s]]
    /\ UNCHANGED <<pointer, uploaded, seen, installed, link, notice, host, busy, rooms, failures>>

\* A turn of the dev agent calls Deploy: not what runs already, and a build that
\* passes its tests.
Deploy(s, r) ==
    /\ up /\ pub[Dev].pc = "rest" /\ busy < MaxBusy
    /\ rooms[r] = {} /\ link # s
    /\ busy' = busy + 1
    /\ rooms' = [rooms EXCEPT ![r] = {"asked"}]
    /\ pub' = [pub EXCEPT ![Dev] = [@ EXCEPT !.pc = "build", !.sha = s, !.room = r]]
    /\ UNCHANGED <<pointer, uploaded, seen, installed, link, notice, host, failures>>

\* The call of p ends without a release.  Deploy takes its notice back, which is
\* whatever notice is there.
abandon(p) ==
    /\ pub' = [pub EXCEPT ![p] = resting(p)]
    /\ IF p = Dev THEN busy' = busy - 1 ELSE UNCHANGED busy
    /\ notice' = IF p = Dev /\ pub[p].pc # "build" THEN {} ELSE notice

\* The build is done and the room to tell is noted, or it failed.
built ==
    /\ pub[Dev].pc = "build"
    /\ \/ /\ notice' = {[sha |-> pub[Dev].sha, room |-> pub[Dev].room]}
          /\ pub' = [pub EXCEPT ![Dev].pc = "put"]
          /\ UNCHANGED busy
       \/ abandon(Dev)
    /\ UNCHANGED <<pointer, uploaded, seen, installed, link, host, rooms, failures>>

putBinary(p) ==
    /\ pub[p].pc = "put"
    /\ uploaded' = uploaded \cup {pub[p].sha}
    /\ pub' = [pub EXCEPT ![p].pc = "get"]
    /\ UNCHANGED <<pointer, seen, installed, link, notice, host, busy, rooms, failures>>

\* Point's check that the binary is there and signed.
verifyBinary(p) ==
    /\ pub[p].pc = "verify"
    /\ pub' = [pub EXCEPT ![p] = IF @.sha \in uploaded THEN [@ EXCEPT !.pc = "get"]
                                                       ELSE resting(p)]
    /\ UNCHANGED <<pointer, uploaded, seen, installed, link, notice, host, busy, rooms, failures>>

getPointer(p) ==
    /\ pub[p].pc = "get"
    /\ pub' = [pub EXCEPT ![p] = [@ EXCEPT !.pc = "swap", !.read = pointer.ver]]
    /\ UNCHANGED <<pointer, uploaded, seen, installed, link, notice, host, busy, rooms, failures>>

\* The call of p succeeded.  Deploy tells its room that it will hear "running
\* <sha>", and its turn ends.
released(p) ==
    IF p = Dev THEN /\ busy' = busy - 1
                    /\ rooms' = [rooms EXCEPT ![pub[p].room] = @ \cup {"promised"}]
               ELSE UNCHANGED <<busy, rooms>>

\* The release of p is what the pointer holds from now on.
movePointer(p) ==
    /\ pointer.ver < MaxMoves
    /\ pointer' = [ver |-> pointer.ver + 1,
                   past |-> [pointer.past EXCEPT ![pointer.ver + 1] = pub[p].sha]]

\* Mutant: the pointer is put, not swapped.
swapPointerBlindly(p) ==
    /\ pub[p].pc = "swap"
    /\ movePointer(p)
    /\ pub' = [pub EXCEPT ![p] = [resting(p) EXCEPT !.won = @ \cup {pub[p].read}]]
    /\ released(p)
    /\ UNCHANGED <<uploaded, seen, installed, link, notice, host, failures>>

\* Create if there was no pointer, Swap if it still has the ETag read.
swapPointer(p) ==
    /\ pub[p].pc = "swap"
    /\ \/ /\ current = ETag(pub[p].read)
          /\ movePointer(p)
          /\ pub' = [pub EXCEPT ![p] = [resting(p) EXCEPT !.won = @ \cup {pub[p].read}]]
          /\ released(p)
          /\ UNCHANGED notice
       \/ /\ current # ETag(pub[p].read)
          /\ abandon(p)
          /\ UNCHANGED <<pointer, rooms>>
    /\ UNCHANGED <<uploaded, seen, installed, link, host, failures>>

\* A bucket call of p fails and its release with it, a write perhaps after it
\* had its effect.
bucketFails(p) ==
    /\ pub[p].pc \in {"put", "verify", "get", "swap"}
    /\ fails
    /\ abandon(p)
    /\ \/ UNCHANGED <<pointer, uploaded>>
       \/ /\ pub[p].pc = "put"
          /\ uploaded' = uploaded \cup {pub[p].sha}
          /\ UNCHANGED pointer
       \/ /\ pub[p].pc = "swap" /\ current = ETag(pub[p].read)
          /\ movePointer(p)
          /\ UNCHANGED uploaded
    /\ UNCHANGED <<seen, installed, link, host, rooms>>

-----------------------------------------------------------------------------
(* The serve process *)

start == [pc |-> "look", exe |-> link, looked |-> FALSE, room |-> None, want |-> None,
          pending |-> None]

\* systemd starts serve, which runs what current points at.
boot ==
    /\ ~up
    /\ host' = start
    /\ UNCHANGED <<pointer, uploaded, pub, seen, installed, link, notice, busy, rooms, failures>>

\* Update returned no release, or an error: the first time since the boot, a
\* room may be waiting to hear.
nothingInstalled ==
    host' = [host EXCEPT !.pc = IF host.looked THEN "check" ELSE "booted",
                         !.want = None, !.looked = TRUE]

\* Update up to install.  The first look ever only remembers.
look ==
    /\ host.pc = "look" /\ host.pending = None
    /\ LET want == current IN
       \/ fails /\ nothingInstalled /\ UNCHANGED seen
       \/ seen = {want} /\ nothingInstalled /\ UNCHANGED <<seen, failures>>
       \/ /\ seen # {want}
          /\ seen' = {want}
          /\ IF seen = {} \/ want = None \/ want = link
             THEN nothingInstalled
             ELSE host' = [host EXCEPT !.pc = "install", !.want = want]
          /\ UNCHANGED failures
    /\ UNCHANGED <<pointer, uploaded, pub, installed, link, notice, busy, rooms>>

\* Mutant: the loop goes on looking while a release is pending.
lookOnly ==
    /\ host.pc = "look" /\ host.pending # None
    /\ seen' = {current}
    /\ host' = [host EXCEPT !.pc = "check"]
    /\ UNCHANGED <<pointer, uploaded, pub, installed, link, notice, busy, rooms, failures>>

\* A release is pending: there is nothing to look for.
lookNoMore ==
    /\ host.pc = "look" /\ host.pending # None
    /\ host' = [host EXCEPT !.pc = "check"]
    /\ UNCHANGED <<pointer, uploaded, pub, seen, installed, link, notice, busy, rooms, failures>>

\* Mutant: the binary is put in place before it is known to run.
installUntried ==
    /\ host.pc = "install"
    /\ installed' = installed \cup {host.want}
    /\ host' = [host EXCEPT !.pc = "link"]
    /\ UNCHANGED <<pointer, uploaded, pub, seen, link, notice, busy, rooms, failures>>

\* install: what is there already is used; else it is downloaded and must run.
install ==
    /\ host.pc = "install"
    /\ LET runs == host.want \in installed \/ (host.want \in uploaded /\ host.want \in Good) IN
       \/ /\ runs
          /\ installed' = installed \cup {host.want}
          /\ host' = [host EXCEPT !.pc = "link"]
          /\ UNCHANGED failures
       \/ /\ host.want \notin installed
          /\ IF runs THEN fails ELSE UNCHANGED failures
          /\ nothingInstalled
          /\ UNCHANGED installed
    /\ UNCHANGED <<pointer, uploaded, pub, seen, link, notice, busy, rooms>>

\* The symlink is swapped and Update returns the release.
linkCurrent ==
    /\ host.pc = "link"
    /\ link' = host.want
    /\ host' = [host EXCEPT !.pc = "check", !.want = None, !.pending = host.want,
                            !.looked = TRUE]
    /\ UNCHANGED <<pointer, uploaded, pub, seen, installed, notice, busy, rooms, failures>>

\* Mutant: the notice is dropped once the room has been told.
bootedKeepsNotice ==
    /\ host.pc = "booted"
    /\ host' = IF notice = {} THEN [host EXCEPT !.pc = "check"]
               ELSE [host EXCEPT !.pc = "post", !.room = (CHOOSE d \in notice : TRUE).room]
    /\ UNCHANGED <<pointer, uploaded, pub, seen, installed, link, notice, busy, rooms, failures>>

\* Booted: the notice is taken, whichever release it is for.
Booted ==
    /\ host.pc = "booted"
    /\ host' = IF notice = {} THEN [host EXCEPT !.pc = "check"]
               ELSE [host EXCEPT !.pc = "post", !.room = (CHOOSE d \in notice : TRUE).room]
    /\ notice' = {}
    /\ UNCHANGED <<pointer, uploaded, pub, seen, installed, link, busy, rooms, failures>>

\* The room is told what current points at.
postBooted ==
    /\ host.pc = "post"
    /\ rooms' = [rooms EXCEPT ![host.room] = @ \cup {"told"}]
    /\ host' = [host EXCEPT !.pc = "check", !.room = None]
    /\ UNCHANGED <<pointer, uploaded, pub, seen, installed, link, notice, busy, failures>>

\* The end of a turn of the loop: restart into a pending release when no agent
\* is busy, or wait for the tick.
check ==
    /\ host.pc = "check"
    /\ host' = [host EXCEPT !.pc = IF host.pending # None /\ busy = 0 THEN "stopping"
                                   ELSE "look"]
    /\ UNCHANGED <<pointer, uploaded, pub, seen, installed, link, notice, busy, rooms, failures>>

\* The process ends: what an agent was doing ends with it.
ends ==
    /\ host' = [host EXCEPT !.pc = "down", !.exe = None, !.room = None, !.want = None,
                            !.pending = None]
    /\ busy' = 0

\* serve has shut down after cancel: an agent still in a turn is cancelled, and a
\* Deploy that was under way takes its notice back.
exits ==
    /\ host.pc = "stopping"
    /\ ends
    /\ pub' = [pub EXCEPT ![Dev] = resting(Dev)]
    /\ notice' = IF pub[Dev].pc \in {"rest", "build"} THEN notice ELSE {}
    /\ UNCHANGED <<pointer, uploaded, seen, installed, link, rooms, failures>>

crash ==
    /\ up /\ fails
    /\ ends
    /\ pub' = [pub EXCEPT ![Dev] = resting(Dev)]
    /\ UNCHANGED <<pointer, uploaded, seen, installed, link, notice, rooms>>

\* Some agent is woken, or done.  Agents are woken until the chatroom closes.
turnBegins ==
    /\ up /\ busy < MaxBusy
    /\ busy' = busy + 1
    /\ UNCHANGED <<pointer, uploaded, pub, seen, installed, link, notice, host, rooms, failures>>

turnEnds ==
    /\ busy > (IF pub[Dev].pc = "rest" THEN 0 ELSE 1)
    /\ busy' = busy - 1
    /\ UNCHANGED <<pointer, uploaded, pub, seen, installed, link, notice, host, rooms, failures>>

-----------------------------------------------------------------------------

ReleaseInit ==
    /\ pointer = [ver |-> 0, past |-> [v \in 0..MaxMoves |-> None]]
    /\ uploaded = {}
    /\ pub = [p \in Publishers |-> [pc |-> "rest", sha |-> None, room |-> None,
                                    read |-> None, won |-> {}]]
    /\ seen = {}
    /\ installed = {Old}
    /\ link = Old
    /\ notice = {}
    /\ host = start
    /\ busy = 0
    /\ rooms = [r \in Rooms |-> {}]
    /\ failures = 0

publisherStep(p) ==
    \/ \E s \in Shas : Publish(p, s) \/ Point(p, s)
    \/ putBinary(p) \/ verifyBinary(p) \/ getPointer(p) \/ swapPointer(p)
    \/ bucketFails(p)

hostStep == look \/ lookNoMore \/ install \/ linkCurrent \/ Booted \/ postBooted \/ check

ReleaseNext ==
    \/ \E p \in Publishers : publisherStep(p)
    \/ \E s \in Shas, r \in Rooms : Deploy(s, r)
    \/ built
    \/ hostStep \/ boot \/ exits \/ crash
    \/ turnBegins \/ turnEnds

ReleaseSpec == ReleaseInit /\ [][ReleaseNext]_releaseVars

-----------------------------------------------------------------------------
(* Properties *)

\* Whatever crashes and whatever is published, what current points at, and so
\* what the next boot runs, is a binary that was in place and ran here (install).
BootsIntoAGoodRelease == link \in installed /\ installed \subseteq Good

\* Two releases at once, that read the same pointer, both think they won only if
\* what they read had come back in between: the pointer was put back to it or
\* released again.  Of the first release there is one winner (point).
OneWinner ==
    \A p, q \in Publishers : p # q =>
        \A v \in pub[p].won \cap pub[q].won :
            v # 0 /\ \E w \in (v + 1)..(pointer.ver - 1) : ETag(w) = ETag(v)

\* "Each deploy is told once": no room hears twice that the garage is back,
\* although the host may crash around telling it (Booted).
ToldOnce ==
    [][\A r \in Rooms : host.pc = "post" /\ host'.pc = "check" /\ host.room = r =>
          "told" \notin rooms[r]]_releaseVars

-----------------------------------------------------------------------------
(* Liveness *)

\* The host goes on: the loop ticks, a shutdown completes, and systemd starts what has
\* ended.
Fairness == WF_releaseVars(hostStep \/ boot \/ exits)

\* A release the host has not seen, and that runs there, is what it comes to run
\* if nothing fails from then on and the agents go quiet: no move of the pointer is
\* missed between two looks, while another release is pending, across its restart
\* or after what failed before (Update, runServe).
MovesArriveAtTheHost ==
    <>[](busy = 0) =>
        \A s \in Good, f \in 0..MaxFailures :
            seen # {} /\ seen # {s} /\ current = s /\ failures = f
                ~> (host.exe = s /\ link = s) \/ current # s \/ failures # f
=============================================================================
