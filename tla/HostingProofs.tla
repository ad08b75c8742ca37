----------------------------- MODULE HostingProofs -----------------------------
(***************************************************************************)
(* Proofs about the two halves of hosting/.  Release, for every set of     *)
(* releases, laptops and rooms and every bound on moves, failures and      *)
(* turns; Backup, for any number of requests, days, messages, backups and  *)
(* faults.  Each half has an inductive invariant of its own, a conjunction *)
(* of the named parts below; the parts of Release's are each preserved on  *)
(* top of the ones before.                                                 *)
(***************************************************************************)
EXTENDS Release, Backup, TLAPS

-----------------------------------------------------------------------------
(* Release: the invariant *)

\* A call in progress has a release, and dev's a room and a turn that is busy.
Calling ==
    /\ \A p \in Publishers : pub[p].pc # "rest" => pub[p].sha \in Shas
    /\ pub[Dev].pc # "rest" => pub[Dev].room \in Rooms /\ busy > 0

\* What is linked has run here, and so has what is about to be.
Installing ==
    /\ BootsIntoAGoodRelease
    /\ host.pc = "install" => host.want \in Shas
    /\ host.pc = "link" => host.want \in installed

\* A call that is about to swap has read a version of the pointer that there was.
Reading == \A p \in Publishers : pub[p].pc = "swap" => pub[p].read \in 0..pointer.ver

\* A version somebody replaced is behind the pointer, which held nothing before the
\* first release and something ever since; and two that replaced one version did it
\* as OneWinner says.
Replacing ==
    /\ OneWinner
    /\ \A p \in Publishers : \A v \in pub[p].won : v < pointer.ver
    /\ ETag(0) = None
    /\ \A v \in 1..pointer.ver : ETag(v) \in Shas

\* A room that asked and was not told.
Untold(r) == "asked" \in rooms[r] /\ "told" \notin rooms[r]

\* The room about to be told, the one noted and the one that dev is building for
\* have not been told, and are three rooms.
Telling ==
    /\ host.pc = "post" => host.room \in Rooms /\ Untold(host.room)
    /\ \A d \in notice :
          /\ Untold(d.room)
          /\ host.pc = "post" => host.room # d.room
    /\ pub[Dev].pc = "build" =>
          /\ Untold(pub[Dev].room)
          /\ host.pc = "post" => host.room # pub[Dev].room
          /\ \A d \in notice : d.room # pub[Dev].room

ReleaseInv == ReleaseTypeOK /\ Calling /\ Reading /\ Installing /\ Replacing /\ Telling

-----------------------------------------------------------------------------
(* Calls *)

\* The call of a publisher is over, and what it won stays.
LEMMA RestingEffect ==
    ASSUME ReleaseTypeOK, NEW p \in Publishers
    PROVE  resting(p) \in Call /\ resting(p).pc = "rest" /\ resting(p).won = pub[p].won
<1>1. pub[p] \in Call
  BY DEF ReleaseTypeOK
<1> QED
  BY <1>1 DEF Call, resting

\* A call moves on to its next request.
LEMMA MoveEffect ==
    ASSUME NEW c \in Call, NEW k \in {"build", "put", "verify", "get", "swap"}
    PROVE  /\ [c EXCEPT !.pc = k] \in Call
           /\ [c EXCEPT !.pc = k].pc = k /\ [c EXCEPT !.pc = k].sha = c.sha
           /\ [c EXCEPT !.pc = k].room = c.room /\ [c EXCEPT !.pc = k].won = c.won
  BY DEF Call

\* A call has read the pointer.
LEMMA ReadEffect ==
    ASSUME NEW c \in Call, NEW v \in 0..MaxMoves
    PROVE  /\ [c EXCEPT !.pc = "swap", !.read = v] \in Call
           /\ [c EXCEPT !.pc = "swap", !.read = v].pc = "swap"
           /\ [c EXCEPT !.pc = "swap", !.read = v].read = v
           /\ [c EXCEPT !.pc = "swap", !.read = v].sha = c.sha
           /\ [c EXCEPT !.pc = "swap", !.read = v].room = c.room
           /\ [c EXCEPT !.pc = "swap", !.read = v].won = c.won
  BY DEF Call

\* A call is over and has replaced a version.
LEMMA WinEffect ==
    ASSUME NEW c \in Call, NEW v \in 0..MaxMoves
    PROVE  /\ [c EXCEPT !.won = @ \cup {v}] \in Call
           /\ [c EXCEPT !.won = @ \cup {v}].pc = c.pc
           /\ [c EXCEPT !.won = @ \cup {v}].won = c.won \cup {v}
  BY DEF Call

-----------------------------------------------------------------------------
(* The pointer *)

\* It holds a release or nothing.
LEMMA CurrentType ==
    ASSUME ReleaseTypeOK
    PROVE  current \in Shas \cup {None}
  BY DEF ReleaseTypeOK, current, ETag

\* A move keeps its type, and everything it held before.
LEMMA MovedTypes ==
    ASSUME ReleaseTypeOK, NEW p \in Publishers, pub[p].sha \in Shas, movePointer(p)
    PROVE  /\ pointer' \in [ver : 0..MaxMoves, past : [0..MaxMoves -> Shas \cup {None}]]
           /\ pointer'.ver = pointer.ver + 1
           /\ pointer'.past[pointer.ver + 1] = pub[p].sha
           /\ \A v \in 0..pointer.ver : pointer'.past[v] = pointer.past[v]
<1>1. pointer.ver \in 0..MaxMoves /\ pointer.ver + 1 \in 0..MaxMoves /\ MaxMoves \in Nat
  BY ReleaseAssumption DEF ReleaseTypeOK, movePointer
<1>2. pointer.past \in [0..MaxMoves -> Shas \cup {None}]
  BY DEF ReleaseTypeOK
<1>3. pointer' = [ver |-> pointer.ver + 1, past |-> [pointer.past EXCEPT ![pointer.ver + 1] = pub[p].sha]]
  BY DEF movePointer
<1>4. pointer'.past = [pointer.past EXCEPT ![pointer.ver + 1] = pub[p].sha] /\ pointer'.ver = pointer.ver + 1
  BY <1>3
<1>5. \A v \in 0..pointer.ver : v \in 0..MaxMoves /\ v # pointer.ver + 1
  BY <1>1
<1> QED
  BY <1>1, <1>2, <1>3, <1>4, <1>5 DEF ETag

-----------------------------------------------------------------------------
(* Init *)

\* Init has every part of the invariant.
LEMMA ReleaseInitStep == ReleaseInit => ReleaseInv
<1> SUFFICES ASSUME ReleaseInit PROVE ReleaseInv
  OBVIOUS
<1> USE ReleaseAssumption
<1>1. ReleaseTypeOK
  BY DEF ReleaseInit, ReleaseTypeOK, start, Publishers, Call, Serve
<1>2. Calling /\ Reading /\ Installing /\ Replacing /\ Telling
  BY DEF ReleaseInit, Calling, Reading, Installing, Replacing, Telling, start, Publishers,
         BootsIntoAGoodRelease, OneWinner, ETag
<1> QED
  BY <1>1, <1>2 DEF ReleaseInv

-----------------------------------------------------------------------------
(* Type correctness and the calls in progress *)

\* Every step keeps the types, and with them what a call in progress has: dev's busy
\* turn is what keeps busy from going below zero.
LEMMA TypeStep ==
    ASSUME ReleaseTypeOK, Calling, Reading, Installing, [ReleaseNext]_releaseVars
    PROVE  ReleaseTypeOK' /\ Calling'
<1> USE ReleaseAssumption
<1>d. Dev \in Publishers /\ Laptops \subseteq Publishers
  BY DEF Publishers
<1>b. busy \in Nat /\ failures \in Nat
  BY DEF ReleaseTypeOK
<1>c. \A p \in Publishers : pub[p] \in Call
  BY DEF ReleaseTypeOK
<1>p. ASSUME NEW p \in Publishers, NEW c \in Call, pub' = [pub EXCEPT ![p] = c],
             c.sha \in Shas, p = Dev => c.room \in Rooms /\ busy' > 0, busy' \in Nat, busy' >= busy
      PROVE  pub' \in [Publishers -> Call] /\ Calling'
  BY <1>b, <1>d, <1>p DEF ReleaseTypeOK, Calling
<1>1. ASSUME NEW p \in Publishers, NEW s \in Shas, Publish(p, s) PROVE ReleaseTypeOK' /\ Calling'
  <2>1. pub' = [pub EXCEPT ![p] = [pub[p] EXCEPT !.pc = "put", !.sha = s]] /\ busy' = busy /\ p # Dev
    BY <1>1 DEF Publish
  <2> DEFINE c == [pub[p] EXCEPT !.pc = "put", !.sha = s]
  <2>2. c \in Call /\ c.sha \in Shas /\ (p = Dev => c.room \in Rooms /\ busy' > 0)
    BY <1>c, <2>1 DEF Call
  <2>3. pub' = [pub EXCEPT ![p] = c] /\ busy' \in Nat /\ busy' >= busy
    BY <1>b, <2>1
  <2> HIDE DEF c
  <2>4. pub' \in [Publishers -> Call] /\ Calling'
    BY <1>d, <1>p, <2>2, <2>3
  <2> QED
    BY <1>1, <2>4 DEF ReleaseTypeOK, Publish
<1>2. ASSUME NEW p \in Publishers, NEW s \in Shas, Point(p, s) PROVE ReleaseTypeOK' /\ Calling'
  <2>1. pub' = [pub EXCEPT ![p] = [pub[p] EXCEPT !.pc = "verify", !.sha = s]] /\ busy' = busy /\ p # Dev
    BY <1>2 DEF Point
  <2> DEFINE c == [pub[p] EXCEPT !.pc = "verify", !.sha = s]
  <2>2. c \in Call /\ c.sha \in Shas /\ (p = Dev => c.room \in Rooms /\ busy' > 0)
    BY <1>c, <2>1 DEF Call
  <2>3. pub' = [pub EXCEPT ![p] = c] /\ busy' \in Nat /\ busy' >= busy
    BY <1>b, <2>1
  <2> HIDE DEF c
  <2>4. pub' \in [Publishers -> Call] /\ Calling'
    BY <1>d, <1>p, <2>2, <2>3
  <2> QED
    BY <1>2, <2>4 DEF ReleaseTypeOK, Point
<1>3. ASSUME NEW p \in Publishers, putBinary(p) PROVE ReleaseTypeOK' /\ Calling'
  <2>1. /\ pub' = [pub EXCEPT ![p] = [pub[p] EXCEPT !.pc = "get"]] /\ busy' = busy
        /\ pub[p].sha \in Shas /\ (p = Dev => pub[p].room \in Rooms /\ busy > 0)
    BY <1>3 DEF putBinary, Calling
  <2> DEFINE c == [pub[p] EXCEPT !.pc = "get"]
  <2>2. c \in Call /\ c.sha \in Shas /\ (p = Dev => c.room \in Rooms /\ busy' > 0)
    BY <1>b, <1>c, <1>d, <2>1, MoveEffect
  <2>3. pub' = [pub EXCEPT ![p] = c] /\ busy' \in Nat /\ busy' >= busy
    BY <1>b, <2>1
  <2> HIDE DEF c
  <2>4. pub' \in [Publishers -> Call] /\ Calling'
    BY <1>d, <1>p, <2>2, <2>3
  <2> QED
    BY <1>3, <2>1, <2>4 DEF ReleaseTypeOK, putBinary
<1>4. ASSUME NEW p \in Publishers, verifyBinary(p) PROVE ReleaseTypeOK' /\ Calling'
  <2>1. CASE pub[p].sha \in uploaded
    <3>1. /\ pub' = [pub EXCEPT ![p] = [pub[p] EXCEPT !.pc = "get"]] /\ busy' = busy
          /\ pub[p].sha \in Shas /\ (p = Dev => pub[p].room \in Rooms /\ busy > 0)
      BY <1>4, <2>1 DEF verifyBinary, Calling
    <3> DEFINE c == [pub[p] EXCEPT !.pc = "get"]
    <3>2. c \in Call /\ c.sha \in Shas /\ (p = Dev => c.room \in Rooms /\ busy' > 0)
      BY <1>b, <1>c, <1>d, <3>1, MoveEffect
    <3>3. pub' = [pub EXCEPT ![p] = c] /\ busy' \in Nat /\ busy' >= busy
      BY <1>b, <3>1
    <3> HIDE DEF c
    <3>4. pub' \in [Publishers -> Call] /\ Calling'
      BY <1>d, <1>p, <3>2, <3>3
    <3> QED
      BY <1>4, <3>4 DEF ReleaseTypeOK, verifyBinary
  <2>2. CASE pub[p].sha \notin uploaded
    <3>1. pub' = [pub EXCEPT ![p] = resting(p)]
      BY <1>4, <2>2 DEF verifyBinary
    <3> QED
      BY <1>4, <3>1, <1>d, RestingEffect DEF ReleaseTypeOK, Calling, verifyBinary
  <2> QED
    BY <2>1, <2>2
<1>5. ASSUME NEW p \in Publishers, getPointer(p) PROVE ReleaseTypeOK' /\ Calling'
  <2>1. /\ pub' = [pub EXCEPT ![p] = [pub[p] EXCEPT !.pc = "swap", !.read = pointer.ver]]
        /\ busy' = busy /\ pointer.ver \in 0..MaxMoves
        /\ pub[p].sha \in Shas /\ (p = Dev => pub[p].room \in Rooms /\ busy > 0)
    BY <1>5 DEF getPointer, Calling, ReleaseTypeOK
  <2> DEFINE c == [pub[p] EXCEPT !.pc = "swap", !.read = pointer.ver]
  <2>2. c \in Call /\ c.sha \in Shas /\ (p = Dev => c.room \in Rooms /\ busy' > 0)
    BY <1>b, <1>c, <1>d, <2>1, ReadEffect
  <2>3. pub' = [pub EXCEPT ![p] = c] /\ busy' \in Nat /\ busy' >= busy
    BY <1>b, <2>1
  <2> HIDE DEF c
  <2>4. pub' \in [Publishers -> Call] /\ Calling'
    BY <1>d, <1>p, <2>2, <2>3
  <2> QED
    BY <1>5, <2>4 DEF ReleaseTypeOK, getPointer
<1>6. ASSUME NEW p \in Publishers, swapPointer(p) PROVE ReleaseTypeOK' /\ Calling'
  <2>1. CASE /\ pub' = [pub EXCEPT ![p] = [resting(p) EXCEPT !.won = @ \cup {pub[p].read}]]
             /\ movePointer(p)
             /\ released(p) /\ UNCHANGED notice
    <3>0. pub[p].read \in 0..MaxMoves /\ pub[p].sha \in Shas
      BY <1>6 DEF swapPointer, Reading, Calling, ReleaseTypeOK
    <3>1. /\ [resting(p) EXCEPT !.won = @ \cup {pub[p].read}] \in Call
          /\ [resting(p) EXCEPT !.won = @ \cup {pub[p].read}].pc = "rest"
      BY <3>0, RestingEffect, WinEffect
    <3>2. rooms' \in [Rooms -> SUBSET {"asked", "promised", "told"}]
      <4>1. rooms \in [Rooms -> SUBSET {"asked", "promised", "told"}]
        BY DEF ReleaseTypeOK
      <4>2. rooms' = rooms \/ rooms' = [rooms EXCEPT ![pub[p].room] = @ \cup {"promised"}]
        BY <2>1 DEF released
      <4> QED
        BY <4>1, <4>2
    <3>3. pointer' \in [ver : 0..MaxMoves, past : [0..MaxMoves -> Shas \cup {None}]]
      BY <2>1, <3>0, MovedTypes
    <3>4. busy' \in 0..MaxBusy
      BY <1>b, <1>d, <1>6, <2>1 DEF released, swapPointer, ReleaseTypeOK, Calling
    <3>5. Calling'
      BY <1>d, <2>1, <3>1 DEF released, ReleaseTypeOK, Calling
    <3> QED
      BY <1>6, <2>1, <3>1, <3>2, <3>3, <3>4, <3>5 DEF swapPointer, ReleaseTypeOK
  <2>2. CASE abandon(p) /\ UNCHANGED <<pointer, rooms>>
    BY <1>b, <1>d, <1>6, <2>2, RestingEffect DEF ReleaseTypeOK, Calling, swapPointer, abandon
  <2> QED
    BY <1>6, <2>1, <2>2 DEF swapPointer
<1>7. ASSUME NEW p \in Publishers, bucketFails(p) PROVE ReleaseTypeOK' /\ Calling'
  <2>1. /\ pub' \in [Publishers -> Call] /\ pub'[p].pc = "rest"
        /\ \A q \in Publishers : q # p => pub'[q] = pub[q]
    BY <1>7, RestingEffect DEF ReleaseTypeOK, bucketFails, abandon
  <2>2. busy' \in 0..MaxBusy /\ (p # Dev => busy' = busy)
    BY <1>b, <1>d, <1>7 DEF ReleaseTypeOK, Calling, bucketFails, abandon
  <2>3. /\ pointer' \in [ver : 0..MaxMoves, past : [0..MaxMoves -> Shas \cup {None}]]
        /\ uploaded' \subseteq Shas
    BY <1>7, MovedTypes DEF ReleaseTypeOK, Calling, bucketFails
  <2>4. failures' \in 0..MaxFailures
    BY <1>b, <1>7 DEF ReleaseTypeOK, bucketFails, fails
  <2>5. notice' \in {{}} \cup {{d} : d \in [sha : Shas, room : Rooms]}
    BY <1>7 DEF ReleaseTypeOK, bucketFails, abandon
  <2>6. Calling'
    BY <1>d, <2>1, <2>2 DEF Calling
  <2> QED
    BY <1>7, <2>1, <2>2, <2>3, <2>4, <2>5, <2>6 DEF ReleaseTypeOK, bucketFails
<1>8. ASSUME NEW s \in Shas, NEW r \in Rooms, Deploy(s, r) PROVE ReleaseTypeOK' /\ Calling'
  <2>1. /\ pub' = [pub EXCEPT ![Dev] = [pub[Dev] EXCEPT !.pc = "build", !.sha = s, !.room = r]]
        /\ busy' = busy + 1
    BY <1>8 DEF Deploy
  <2> DEFINE c == [pub[Dev] EXCEPT !.pc = "build", !.sha = s, !.room = r]
  <2>2. pub[Dev] \in Call
    BY <1>c, <1>d
  <2>3. c \in Call /\ c.sha \in Shas /\ c.room \in Rooms
    BY <2>2 DEF Call
  <2>4. pub' = [pub EXCEPT ![Dev] = c] /\ busy' \in Nat /\ busy' >= busy /\ busy' > 0
    BY <1>b, <2>1
  <2> HIDE DEF c
  <2>5. pub' \in [Publishers -> Call] /\ Calling'
    BY <1>d, <1>p, <2>3, <2>4
  <2> QED
    BY <1>8, <1>b, <2>5 DEF ReleaseTypeOK, Deploy
<1>9. ASSUME built PROVE ReleaseTypeOK' /\ Calling'
  <2>1. CASE /\ notice' = {[sha |-> pub[Dev].sha, room |-> pub[Dev].room]}
             /\ pub' = [pub EXCEPT ![Dev].pc = "put"]
             /\ UNCHANGED busy
    <3>1. notice' \in {{}} \cup {{d} : d \in [sha : Shas, room : Rooms]}
      BY <1>d, <1>9, <2>1 DEF Calling, built
    <3>2. pub' = [pub EXCEPT ![Dev] = [pub[Dev] EXCEPT !.pc = "put"]]
      BY <2>1
    <3>3. pub[Dev].sha \in Shas /\ pub[Dev].room \in Rooms /\ busy > 0
      BY <1>d, <1>9 DEF Calling, built
    <3> DEFINE c == [pub[Dev] EXCEPT !.pc = "put"]
    <3>4. c \in Call /\ c.sha \in Shas /\ c.room \in Rooms /\ busy' > 0
      <4>1. pub[Dev] \in Call
        BY <1>c, <1>d
      <4>2. c \in Call /\ c.sha = pub[Dev].sha /\ c.room = pub[Dev].room
        BY <4>1, MoveEffect
      <4> QED
        BY <2>1, <3>3, <4>2
    <3>5. pub' = [pub EXCEPT ![Dev] = c] /\ busy' \in Nat /\ busy' >= busy
      BY <1>b, <2>1, <3>2, <3>3
    <3> HIDE DEF c
    <3>6. pub' \in [Publishers -> Call] /\ Calling'
      BY <1>d, <1>p, <3>4, <3>5
    <3> QED
      BY <1>9, <2>1, <3>1, <3>6 DEF ReleaseTypeOK, built
  <2>2. CASE abandon(Dev)
    BY <1>b, <1>d, <1>9, <2>2, RestingEffect DEF ReleaseTypeOK, Calling, built, abandon
  <2> QED
    BY <1>9, <2>1, <2>2 DEF built
<1>n. ASSUME nothingInstalled PROVE host' \in Serve
  BY <1>n DEF ReleaseTypeOK, nothingInstalled, Serve
<1>10. ASSUME look PROVE ReleaseTypeOK' /\ Calling'
  <2>1. seen' \in {{}} \cup {{s} : s \in Shas \cup {None}}
    BY <1>10, CurrentType DEF ReleaseTypeOK, look
  <2>2. current \in Shas \cup {None}
    BY CurrentType
  <2>3. [host EXCEPT !.pc = "install", !.want = current] \in Serve
    BY <2>2 DEF ReleaseTypeOK, Serve
  <2>4. host' \in Serve
    BY <1>10, <1>n, <2>3 DEF look
  <2>5. failures' \in 0..MaxFailures
    BY <1>b, <1>10 DEF ReleaseTypeOK, look, fails
  <2> QED
    BY <1>10, <2>1, <2>4, <2>5 DEF ReleaseTypeOK, Calling, look
<1>11. ASSUME lookNoMore PROVE ReleaseTypeOK' /\ Calling'
  BY <1>11 DEF ReleaseTypeOK, Calling, lookNoMore, Serve
<1>12. ASSUME install PROVE ReleaseTypeOK' /\ Calling'
  <2>1. installed' \subseteq Shas
    BY <1>12 DEF ReleaseTypeOK, Installing, install
  <2>2. [host EXCEPT !.pc = "link"] \in Serve
    BY DEF ReleaseTypeOK, Serve
  <2>3. host' \in Serve
    BY <1>12, <1>n, <2>2 DEF install
  <2>4. failures' \in 0..MaxFailures
    BY <1>b, <1>12 DEF ReleaseTypeOK, install, fails
  <2> QED
    BY <1>12, <2>1, <2>3, <2>4 DEF ReleaseTypeOK, Calling, install
<1>13. ASSUME linkCurrent PROVE ReleaseTypeOK' /\ Calling'
  BY <1>13 DEF ReleaseTypeOK, Calling, Installing, linkCurrent, Serve
<1>14. ASSUME Booted PROVE ReleaseTypeOK' /\ Calling'
  <2>1. \A d \in notice : d.room \in Rooms
    BY DEF ReleaseTypeOK
  <2>2. host' \in Serve
    BY <1>14, <2>1 DEF ReleaseTypeOK, Booted, Serve
  <2> QED
    BY <1>14, <2>2 DEF ReleaseTypeOK, Calling, Booted
<1>15. ASSUME postBooted PROVE ReleaseTypeOK' /\ Calling'
  BY <1>15 DEF ReleaseTypeOK, Calling, postBooted, Serve
<1>16. ASSUME check PROVE ReleaseTypeOK' /\ Calling'
  BY <1>16 DEF ReleaseTypeOK, Calling, check, Serve
<1>17. ASSUME boot PROVE ReleaseTypeOK' /\ Calling'
  BY <1>17 DEF ReleaseTypeOK, Calling, boot, start, Serve
<1>e. ASSUME ends PROVE host' \in Serve /\ busy' \in 0..MaxBusy
  <2>1. host \in Serve
    BY DEF ReleaseTypeOK
  <2>2. host' \in Serve
    BY <1>e, <2>1 DEF ends, Serve
  <2> QED
    BY <1>e, <2>2 DEF ends
<1>18. ASSUME exits PROVE ReleaseTypeOK' /\ Calling'
  <2>1. notice' \in {{}} \cup {{d} : d \in [sha : Shas, room : Rooms]}
    BY <1>18 DEF ReleaseTypeOK, exits
  <2> QED
    BY <1>d, <1>e, <1>18, <2>1, RestingEffect DEF ReleaseTypeOK, Calling, exits
<1>19. ASSUME crash PROVE ReleaseTypeOK' /\ Calling'
  BY <1>b, <1>d, <1>e, <1>19, RestingEffect DEF ReleaseTypeOK, Calling, crash, fails
<1>20. ASSUME turnBegins PROVE ReleaseTypeOK' /\ Calling'
  BY <1>b, <1>20 DEF ReleaseTypeOK, Calling, turnBegins
<1>21. ASSUME turnEnds PROVE ReleaseTypeOK' /\ Calling'
  BY <1>b, <1>21 DEF ReleaseTypeOK, Calling, turnEnds
<1>22. ASSUME UNCHANGED releaseVars PROVE ReleaseTypeOK' /\ Calling'
  BY <1>22 DEF ReleaseTypeOK, Calling, releaseVars
<1> QED
  BY <1>1, <1>2, <1>3, <1>4, <1>5, <1>6, <1>7, <1>8, <1>9, <1>10, <1>11, <1>12, <1>13, <1>14,
     <1>15, <1>16, <1>17, <1>18, <1>19, <1>20, <1>21, <1>22
     DEF ReleaseNext, publisherStep, hostStep

-----------------------------------------------------------------------------
(* What a step does to the calls *)

\* The pointer stays, or moves on by one and keeps what it held.
PointerMoves ==
    \/ pointer' = pointer
    \/ /\ pointer'.ver = pointer.ver + 1
       /\ pointer'.past[pointer.ver + 1] \in Shas
       /\ \A v \in 0..pointer.ver : pointer'.past[v] = pointer.past[v]

\* Nobody wins, and a call that has read the pointer read it before or just now.
NobodyWins ==
    \A p \in Publishers :
        /\ pub'[p].won = pub[p].won
        /\ pub'[p].pc = "swap" => \/ pub[p].pc = "swap" /\ pub'[p].read = pub[p].read
                                  \/ pub'[p].read = pointer.ver

\* The call of p wins, with a version that holds what the pointer holds.
Wins(p) ==
    /\ pub[p].pc = "swap" /\ ETag(pub[p].read) = current
    /\ pub'[p].won = pub[p].won \cup {pub[p].read} /\ pub'[p].pc = "rest"
    /\ \A q \in Publishers : q # p => pub'[q] = pub[q]
    /\ pointer'.ver = pointer.ver + 1

\* Only a successful swap adds to what a publisher won, and nothing moves the pointer
\* back.
LEMMA WonStep ==
    ASSUME ReleaseTypeOK, Calling, Reading, [ReleaseNext]_releaseVars
    PROVE  PointerMoves /\ (NobodyWins \/ \E p \in Publishers : Wins(p))
<1> DEFINE Goal == PointerMoves /\ (NobodyWins \/ \E p \in Publishers : Wins(p))
<1>d. Dev \in Publishers
  BY DEF Publishers
<1>c. pub \in [Publishers -> Call] /\ \A p \in Publishers : pub[p] \in Call
  BY DEF ReleaseTypeOK
<1>v. pointer.ver \in 0..MaxMoves /\ pointer.ver \in Nat
  BY ReleaseAssumption DEF ReleaseTypeOK
<1>s. ASSUME NEW p \in Publishers, NEW c, pub' = [pub EXCEPT ![p] = c], c.won = pub[p].won,
             c.pc # "swap" \/ c.read = pointer.ver
      PROVE  NobodyWins
  BY <1>c, <1>s DEF NobodyWins
<1>m. ASSUME NEW p \in Publishers, pub[p].pc # "rest", movePointer(p) PROVE PointerMoves
  <2>1. pub[p].sha \in Shas
    BY <1>m DEF Calling
  <2> QED
    BY <1>m, <2>1, MovedTypes DEF PointerMoves
<1>1. ASSUME NEW p \in Publishers, NEW s \in Shas, Publish(p, s) \/ Point(p, s) PROVE Goal
  <2>1. ASSUME NEW k \in {"put", "verify"}
        PROVE  /\ [pub[p] EXCEPT !.pc = k, !.sha = s].won = pub[p].won
               /\ [pub[p] EXCEPT !.pc = k, !.sha = s].pc # "swap"
    BY <1>c DEF Call
  <2>2. NobodyWins
    BY <1>1, <1>s, <2>1 DEF Publish, Point
  <2> QED
    BY <1>1, <2>2 DEF Publish, Point, PointerMoves
<1>2. ASSUME NEW p \in Publishers, putBinary(p) \/ getPointer(p) PROVE Goal
  <2>0. pub[p] \in Call
    BY <1>c
  <2>1. CASE putBinary(p)
    <3>1. [pub[p] EXCEPT !.pc = "get"].won = pub[p].won /\ [pub[p] EXCEPT !.pc = "get"].pc = "get"
      BY <2>0, MoveEffect
    <3>2. NobodyWins
      BY <1>s, <2>1, <3>1 DEF putBinary
    <3> QED
      BY <2>1, <3>2 DEF putBinary, PointerMoves
  <2>2. CASE getPointer(p)
    <3> DEFINE c == [pub[p] EXCEPT !.pc = "swap", !.read = pointer.ver]
    <3>1. c.won = pub[p].won /\ c.read = pointer.ver
      BY <1>v, <2>0, ReadEffect
    <3>2. pub' = [pub EXCEPT ![p] = c]
      BY <2>2 DEF getPointer
    <3> HIDE DEF c
    <3>3. NobodyWins
      BY <1>s, <3>1, <3>2
    <3> QED
      BY <2>2, <3>3 DEF getPointer, PointerMoves
  <2> QED
    BY <1>2, <2>1, <2>2
<1>3. ASSUME NEW p \in Publishers, verifyBinary(p) PROVE Goal
  <2>0. pub[p] \in Call
    BY <1>c
  <2>1. [pub[p] EXCEPT !.pc = "get"].won = pub[p].won /\ [pub[p] EXCEPT !.pc = "get"].pc = "get"
    BY <2>0, MoveEffect
  <2>2. resting(p).won = pub[p].won /\ resting(p).pc = "rest"
    BY RestingEffect
  <2>3. pub' = [pub EXCEPT ![p] = [pub[p] EXCEPT !.pc = "get"]] \/ pub' = [pub EXCEPT ![p] = resting(p)]
    BY <1>3 DEF verifyBinary
  <2>4. NobodyWins
    BY <1>s, <2>1, <2>2, <2>3
  <2> QED
    BY <1>3, <2>4 DEF verifyBinary, PointerMoves
<1>a. ASSUME NEW p \in Publishers, pub' = [pub EXCEPT ![p] = resting(p)] PROVE NobodyWins
  <2>1. resting(p).won = pub[p].won /\ resting(p).pc = "rest"
    BY RestingEffect
  <2> QED
    BY <1>a, <1>s, <2>1
<1>4. ASSUME NEW p \in Publishers, swapPointer(p) PROVE Goal
  <2>1. CASE abandon(p) /\ UNCHANGED pointer
    BY <1>a, <2>1 DEF abandon, PointerMoves
  <2>2. CASE /\ current = ETag(pub[p].read) /\ movePointer(p)
             /\ pub' = [pub EXCEPT ![p] = [resting(p) EXCEPT !.won = @ \cup {pub[p].read}]]
    <3>1. pub[p].pc = "swap" /\ pub[p].read \in 0..MaxMoves
      <4>1. pub[p].pc = "swap" /\ pub[p].read \in 0..pointer.ver
        BY <1>4 DEF swapPointer, Reading
      <4>2. MaxMoves \in Nat
        BY ReleaseAssumption
      <4> QED
        BY <1>v, <4>1, <4>2
    <3> DEFINE c == [resting(p) EXCEPT !.won = @ \cup {pub[p].read}]
    <3>2. c.won = pub[p].won \cup {pub[p].read} /\ c.pc = "rest"
      BY <3>1, RestingEffect, WinEffect
    <3>3. pub' = [pub EXCEPT ![p] = c]
      BY <2>2
    <3> HIDE DEF c
    <3>4. /\ pub'[p].won = pub[p].won \cup {pub[p].read} /\ pub'[p].pc = "rest"
          /\ \A q \in Publishers : q # p => pub'[q] = pub[q]
      BY <1>c, <3>2, <3>3
    <3>5. pointer'.ver = pointer.ver + 1
      BY <2>2 DEF movePointer
    <3>6. Wins(p)
      BY <2>2, <3>1, <3>4, <3>5 DEF Wins
    <3>7. PointerMoves
      BY <1>m, <2>2, <3>1
    <3> QED
      BY <3>6, <3>7
  <2> QED
    BY <1>4, <2>1, <2>2 DEF swapPointer
<1>5. ASSUME NEW p \in Publishers, bucketFails(p) PROVE Goal
  <2>1. NobodyWins
    BY <1>5, <1>a DEF bucketFails, abandon
  <2>2. pointer' = pointer \/ (pub[p].pc # "rest" /\ movePointer(p))
    BY <1>5 DEF bucketFails
  <2>3. PointerMoves
    BY <1>m, <2>2 DEF PointerMoves
  <2> QED
    BY <2>1, <2>3
<1>6. ASSUME NEW s \in Shas, NEW r \in Rooms, Deploy(s, r) PROVE Goal
  <2>1. /\ [pub[Dev] EXCEPT !.pc = "build", !.sha = s, !.room = r].won = pub[Dev].won
        /\ [pub[Dev] EXCEPT !.pc = "build", !.sha = s, !.room = r].pc = "build"
    BY <1>c, <1>d DEF Call
  <2>2. NobodyWins
    BY <1>6, <1>d, <1>s, <2>1 DEF Deploy
  <2> QED
    BY <1>6, <2>2 DEF Deploy, PointerMoves
<1>7. ASSUME built PROVE Goal
  <2>1. CASE pub' = [pub EXCEPT ![Dev].pc = "put"]
    <3>1. [pub[Dev] EXCEPT !.pc = "put"].won = pub[Dev].won /\ [pub[Dev] EXCEPT !.pc = "put"].pc = "put"
      BY <1>c, <1>d, MoveEffect
    <3>2. NobodyWins
      BY <1>d, <1>s, <2>1, <3>1
    <3> QED
      BY <1>7, <3>2 DEF built, PointerMoves
  <2>2. CASE abandon(Dev)
    BY <1>7, <1>a, <1>d, <2>2 DEF built, abandon, PointerMoves
  <2> QED
    BY <1>7, <2>1, <2>2 DEF built
<1>8. ASSUME exits \/ crash PROVE Goal
  <2>1. NobodyWins
    BY <1>8, <1>a, <1>d DEF exits, crash
  <2> QED
    BY <1>8, <2>1 DEF exits, crash, PointerMoves
<1>9. ASSUME hostStep \/ boot \/ turnBegins \/ turnEnds \/ UNCHANGED releaseVars PROVE Goal
  <2>1. UNCHANGED <<pub, pointer>>
    BY <1>9 DEF hostStep, look, lookNoMore, install, linkCurrent, Booted, postBooted, check,
                boot, turnBegins, turnEnds, releaseVars
  <2> QED
    BY <2>1 DEF PointerMoves, NobodyWins
<1> QED
  BY <1>1, <1>2, <1>3, <1>4, <1>5, <1>6, <1>7, <1>8, <1>9 DEF ReleaseNext, publisherStep

\* What a call has read stays a version of the pointer.
LEMMA ReadingStep ==
    ASSUME ReleaseTypeOK, Calling, Reading, [ReleaseNext]_releaseVars
    PROVE  Reading'
<1>1. pointer.ver \in Nat /\ pointer'.ver \in {pointer.ver, pointer.ver + 1}
  BY ReleaseAssumption, WonStep DEF ReleaseTypeOK, PointerMoves
<1>2. ASSUME NEW p \in Publishers, pub'[p].pc = "swap" PROVE pub'[p].read \in 0..pointer'.ver
  <2>1. CASE NobodyWins
    BY <1>1, <1>2, <2>1 DEF Reading, NobodyWins
  <2>2. ASSUME NEW q \in Publishers, Wins(q) PROVE pub'[p].read \in 0..pointer'.ver
    BY <1>1, <1>2, <2>2 DEF Reading, Wins
  <2> QED
    BY <2>1, <2>2, WonStep
<1> QED
  BY <1>2 DEF Reading

\* Two calls that read one version win one after the other, and the second finds the
\* pointer, which the first moved on, at what both had read.
LEMMA ReplacingStep ==
    ASSUME ReleaseTypeOK, Calling, Reading, Replacing, [ReleaseNext]_releaseVars
    PROVE  Replacing'
<1> DEFINE Back(v) == v # 0 /\ \E w \in (v + 1)..(pointer.ver - 1) : ETag(w) = ETag(v)
<1>1. pointer.ver \in Nat /\ \A p \in Publishers : pub[p].won \subseteq Nat
  BY ReleaseAssumption DEF ReleaseTypeOK, Call
<1>2. /\ pointer'.ver \in {pointer.ver, pointer.ver + 1}
      /\ \A v \in 0..pointer.ver : pointer'.past[v] = pointer.past[v]
      /\ pointer'.ver = pointer.ver \/ pointer'.past[pointer.ver + 1] \in Shas
  <2>1. CASE pointer' = pointer
    BY <2>1 DEF ETag
  <2> QED
    BY <2>1, WonStep DEF PointerMoves
<1>3. ETag(0)' = None /\ \A v \in 1..pointer'.ver : ETag(v)' \in Shas
  <2>1. ETag(0)' = None
    BY <1>1, <1>2 DEF Replacing, ETag
  <2>2. ASSUME NEW v \in 1..pointer'.ver PROVE ETag(v)' \in Shas
    BY <1>1, <1>2 DEF Replacing, ETag
  <2> QED
    BY <2>1, <2>2
<1>4. ASSUME NEW v \in 0..(pointer.ver - 1), Back(v) PROVE Back(v)'
  <2>1. PICK w \in (v + 1)..(pointer.ver - 1) : ETag(w) = ETag(v)
    BY <1>4
  <2>2. w \in (v + 1)..(pointer'.ver - 1) /\ ETag(w)' = ETag(w) /\ ETag(v)' = ETag(v)
    BY <1>1, <1>2, <2>1 DEF ETag
  <2> QED
    BY <1>4, <2>1, <2>2
<1>5. \A p \in Publishers : \A v \in pub[p].won : v \in 0..(pointer.ver - 1)
  BY <1>1 DEF Replacing
<1>6. CASE NobodyWins
  <2>1. \A p \in Publishers : pub'[p].won = pub[p].won
    BY <1>6 DEF NobodyWins
  <2>2. ASSUME NEW p \in Publishers, NEW q \in Publishers, p # q, NEW v \in pub'[p].won \cap pub'[q].won
        PROVE  Back(v)'
    <3>1. v \in 0..(pointer.ver - 1) /\ Back(v)
      BY <1>5, <2>1, <2>2 DEF Replacing, OneWinner
    <3> QED
      BY <1>4, <3>1
  <2>3. \A p \in Publishers : \A v \in pub'[p].won : v < pointer'.ver
    BY <1>1, <1>2, <1>5, <2>1
  <2> QED
    BY <1>3, <2>2, <2>3 DEF Replacing, OneWinner
<1>7. ASSUME NEW p \in Publishers, Wins(p) PROVE Replacing'
  <2> DEFINE u == pub[p].read
  <2>1. u \in 0..pointer.ver /\ ETag(u) = ETag(pointer.ver) /\ pointer'.ver = pointer.ver + 1
    BY <1>7 DEF Wins, Reading, current
  <2>2. \A q \in Publishers : q # p => pub'[q].won = pub[q].won
    BY <1>7 DEF Wins
  <2>3. pub'[p].won = pub[p].won \cup {u}
    BY <1>7 DEF Wins
  <2>4. ASSUME NEW q \in Publishers, q # p, NEW v \in pub[q].won, v = u PROVE Back(v)'
    <3>1. v \in 0..(pointer.ver - 1)
      BY <1>5, <2>4
    <3>2. pointer.ver \in 1..pointer.ver /\ ETag(pointer.ver) \in Shas
      BY <1>1, <3>1 DEF Replacing
    <3>3. v # 0
      BY <2>1, <2>4, <3>2, ReleaseAssumption DEF Replacing
    <3>4. pointer.ver \in (v + 1)..(pointer'.ver - 1)
      BY <1>1, <2>1, <3>1
    <3>5. pointer'.past[pointer.ver] = pointer'.past[v]
      BY <1>1, <1>2, <2>1, <2>4 DEF ETag
    <3> QED
      BY <3>3, <3>4, <3>5 DEF ETag
  <2>5. ASSUME NEW q \in Publishers, NEW r \in Publishers, q # r, NEW v \in pub'[q].won \cap pub'[r].won
        PROVE  Back(v)'
    <3>1. CASE v \in pub[q].won \cap pub[r].won
      <4>1. v \in 0..(pointer.ver - 1) /\ Back(v)
        BY <1>5, <2>5, <3>1 DEF Replacing, OneWinner
      <4> QED
        BY <1>4, <4>1
    <3>2. CASE v \notin pub[q].won \cap pub[r].won
      <4>1. v = u /\ (q = p \/ r = p)
        BY <2>2, <2>3, <2>5, <3>2
      <4> QED
        BY <2>2, <2>4, <2>5, <4>1
    <3> QED
      BY <3>1, <3>2
  <2>6. \A q \in Publishers : \A v \in pub'[q].won : v < pointer'.ver
    <3>1. ASSUME NEW q \in Publishers, NEW v \in pub'[q].won PROVE v < pointer'.ver
      <4>1. v \in 0..pointer.ver
        BY <1>1, <1>5, <2>1, <2>2, <2>3, <3>1
      <4> QED
        BY <1>1, <2>1, <4>1
    <3> QED
      BY <3>1
  <2> QED
    BY <1>3, <2>5, <2>6 DEF Replacing, OneWinner
<1> QED
  BY <1>6, <1>7, WonStep

-----------------------------------------------------------------------------
(* Installing *)

\* What is downloaded is put in place only if it runs, and only what is in place
\* becomes current.
LEMMA InstallingStep ==
    ASSUME ReleaseTypeOK, Calling, Installing, [ReleaseNext]_releaseVars
    PROVE  Installing'
<1> USE ReleaseAssumption
<1>h. host \in Serve
  BY DEF ReleaseTypeOK
<1>n. ASSUME nothingInstalled PROVE host'.pc \in {"check", "booted"}
  BY <1>h, <1>n DEF nothingInstalled, Serve
<1>1. ASSUME look PROVE Installing'
  <2>1. UNCHANGED <<link, installed>>
    BY <1>1 DEF look
  <2>2. \/ nothingInstalled
        \/ current # None /\ host' = [host EXCEPT !.pc = "install", !.want = current]
    BY <1>1 DEF look
  <2>3. current \in Shas \cup {None}
    BY CurrentType
  <2>4. host'.pc \in {"check", "booted"} \/ (host'.pc = "install" /\ host'.want \in Shas)
    BY <1>h, <1>n, <2>2, <2>3 DEF Serve
  <2> QED
    BY <2>1, <2>4 DEF Installing, BootsIntoAGoodRelease
<1>2. ASSUME install PROVE Installing'
  <2>1. CASE /\ host.want \in installed \/ (host.want \in uploaded /\ host.want \in Good)
             /\ installed' = installed \cup {host.want}
             /\ host' = [host EXCEPT !.pc = "link"]
    <3>1. host'.pc = "link" /\ host'.want = host.want
      BY <1>h, <2>1 DEF Serve
    <3> QED
      BY <1>2, <2>1, <3>1 DEF install, Installing, BootsIntoAGoodRelease
  <2>2. CASE nothingInstalled /\ UNCHANGED installed
    BY <1>2, <1>n, <2>2 DEF install, Installing, BootsIntoAGoodRelease
  <2> QED
    BY <1>2, <2>1, <2>2 DEF install
<1>3. ASSUME linkCurrent PROVE Installing'
  <2>1. host'.pc = "check"
    BY <1>3, <1>h DEF linkCurrent, Serve
  <2> QED
    BY <1>3, <2>1 DEF linkCurrent, Installing, BootsIntoAGoodRelease
<1>4. ASSUME lookNoMore \/ Booted \/ postBooted \/ check \/ boot \/ exits \/ crash
      PROVE  Installing'
  <2>e. ASSUME ends PROVE host'.pc = "down"
    BY <1>h, <2>e DEF ends, Serve
  <2>b. ASSUME Booted PROVE host'.pc \in {"check", "post"}
    BY <1>h, <2>b DEF Booted, Serve
  <2>c. ASSUME check PROVE host'.pc \in {"look", "stopping"}
    BY <1>h, <2>c DEF check, Serve
  <2>d. ASSUME lookNoMore \/ postBooted PROVE host'.pc = "check"
    BY <1>h, <2>d DEF lookNoMore, postBooted, Serve
  <2>f. ASSUME boot PROVE host'.pc = "look"
    BY <2>f DEF boot, start
  <2>1. host'.pc \in {"check", "post", "look", "stopping", "down"}
    BY <1>4, <2>b, <2>c, <2>d, <2>e, <2>f DEF exits, crash
  <2>2. UNCHANGED <<link, installed>>
    BY <1>4 DEF lookNoMore, Booted, postBooted, check, boot, exits, crash
  <2> QED
    BY <2>1, <2>2 DEF Installing, BootsIntoAGoodRelease
<1>5. ASSUME \/ \E p \in Publishers : publisherStep(p)
             \/ \E s \in Shas, r \in Rooms : Deploy(s, r)
             \/ built \/ turnBegins \/ turnEnds \/ UNCHANGED releaseVars
      PROVE  Installing'
  <2>1. UNCHANGED <<host, link, installed>>
    BY <1>5 DEF publisherStep, Publish, Point, putBinary, verifyBinary, getPointer, swapPointer,
                bucketFails, Deploy, built, turnBegins, turnEnds, releaseVars
  <2> QED
    BY <2>1 DEF Installing, BootsIntoAGoodRelease
<1> QED
  BY <1>1, <1>2, <1>3, <1>4, <1>5 DEF ReleaseNext, hostStep

-----------------------------------------------------------------------------
(* Telling *)

\* A room waits to hear in one place at a time: in the call that builds for it,
\* then in the notice, then in the boot that took the notice.
LEMMA TellingStep ==
    ASSUME ReleaseTypeOK, Calling, Telling, [ReleaseNext]_releaseVars
    PROVE  Telling'
<1>d. Dev \in Publishers
  BY DEF Publishers
<1>h. host \in Serve
  BY DEF ReleaseTypeOK
<1>c. pub \in [Publishers -> Call] /\ \A p \in Publishers : pub[p] \in Call
  BY DEF ReleaseTypeOK
<1>t. \A d \in notice : d.room \in Rooms
  BY DEF ReleaseTypeOK
<1>r. rooms \in [Rooms -> SUBSET {"asked", "promised", "told"}]
  BY DEF ReleaseTypeOK
\* Nobody new waits, and nobody who waits is told.
<1>q. ASSUME host'.pc = "post" => host.pc = "post" /\ host'.room = host.room,
             notice' \subseteq notice,
             \A r \in Rooms : Untold(r) => Untold(r)',
             pub'[Dev].pc = "build" => pub[Dev].pc = "build" /\ pub'[Dev].room = pub[Dev].room
      PROVE  Telling'
  BY <1>d, <1>t, <1>q DEF Telling, Calling
<1>u. UNCHANGED rooms => \A r \in Rooms : Untold(r) => Untold(r)'
  BY DEF Untold
\* Of dev's call, only Deploy's start leaves a build.
<1>1. ASSUME NEW p \in Publishers, publisherStep(p) PROVE Telling'
  <2>1. UNCHANGED host
    BY <1>1 DEF publisherStep, Publish, Point, putBinary, verifyBinary, getPointer, swapPointer,
                bucketFails
  <2>2. notice' \subseteq notice
    BY <1>1 DEF publisherStep, Publish, Point, putBinary, verifyBinary, getPointer, swapPointer,
                bucketFails, abandon
  <2>3. \A r \in Rooms : Untold(r) => Untold(r)'
    <3>1. \/ UNCHANGED rooms
          \/ rooms' = [rooms EXCEPT ![pub[p].room] = @ \cup {"promised"}]
      BY <1>1 DEF publisherStep, Publish, Point, putBinary, verifyBinary, getPointer, swapPointer,
                  released, bucketFails
    <3> QED
      BY <1>r, <3>1 DEF Untold
  <2>4. pub'[Dev].pc = "build" => pub[Dev].pc = "build" /\ pub'[Dev].room = pub[Dev].room
    <3>1. CASE p # Dev
      <4>1. pub'[Dev] = pub[Dev]
        BY <1>1, <1>c, <1>d, <3>1 DEF publisherStep, Publish, Point, putBinary, verifyBinary,
               getPointer, swapPointer, bucketFails, abandon
      <4> QED
        BY <4>1
    <3>2. CASE p = Dev
      <4>1. ~Publish(p, pub[p].sha) /\ Dev \notin Laptops
        BY <3>2, ReleaseAssumption DEF Publish
      <4>2. ASSUME putBinary(Dev) \/ verifyBinary(Dev) \/ getPointer(Dev) PROVE pub'[Dev].pc # "build"
        <5>1. /\ [pub[Dev] EXCEPT !.pc = "get"].pc = "get"
              /\ [pub[Dev] EXCEPT !.pc = "swap", !.read = pointer.ver].pc = "swap"
              /\ resting(Dev).pc = "rest"
          BY <1>c, <1>d, RestingEffect DEF Call
        <5> QED
          BY <1>c, <1>d, <4>2, <5>1 DEF putBinary, verifyBinary, getPointer
      <4>3. ASSUME abandon(Dev) PROVE pub'[Dev].pc # "build"
        BY <1>c, <1>d, <4>3, RestingEffect DEF abandon
      <4>4. ASSUME swapPointer(Dev) \/ bucketFails(Dev) PROVE pub'[Dev].pc # "build"
        <5>1. [resting(Dev) EXCEPT !.won = @ \cup {pub[Dev].read}].pc = "rest"
          BY <1>d, RestingEffect DEF Call
        <5> QED
          BY <1>c, <1>d, <4>3, <4>4, <5>1 DEF swapPointer, bucketFails
      <4> QED
        BY <1>1, <3>2, <4>1, <4>2, <4>4 DEF publisherStep, Publish, Point
    <3> QED
      BY <3>1, <3>2
  <2> QED
    BY <1>q, <2>1, <2>2, <2>3, <2>4
<1>2. ASSUME NEW s \in Shas, NEW r \in Rooms, Deploy(s, r) PROVE Telling'
  <2>1. [pub[Dev] EXCEPT !.pc = "build", !.sha = s, !.room = r].room = r
    BY <1>c, <1>d DEF Call
  <2>2. pub'[Dev].room = r /\ UNCHANGED <<host, notice>>
    BY <1>2, <1>c, <1>d, <2>1 DEF Deploy
  <2>3. ~Untold(r) /\ Untold(r)' /\ \A x \in Rooms : Untold(x) => Untold(x)'
    BY <1>2, <1>r DEF Deploy, Untold
  <2> QED
    BY <1>t, <2>2, <2>3 DEF Telling
<1>3. ASSUME built PROVE Telling'
  <2>1. UNCHANGED <<host, rooms>>
    BY <1>3 DEF built
  <2>2. CASE /\ notice' = {[sha |-> pub[Dev].sha, room |-> pub[Dev].room]}
             /\ pub' = [pub EXCEPT ![Dev].pc = "put"]
    <3>1. pub'[Dev].pc = "put"
      BY <1>c, <1>d, <2>2 DEF Call
    <3>2. \A d \in notice' : d.room = pub[Dev].room
      BY <2>2
    <3>3. pub[Dev].room \in Rooms
      BY <1>3, <1>d DEF built, Calling
    <3> QED
      BY <1>3, <1>u, <2>1, <3>1, <3>2, <3>3 DEF Telling, built
  <2>3. CASE abandon(Dev)
    <3>1. pub'[Dev].pc = "rest"
      BY <1>c, <1>d, <2>3, RestingEffect DEF abandon
    <3>2. notice' \subseteq notice
      BY <2>3 DEF abandon
    <3> QED
      BY <1>q, <1>u, <2>1, <3>1, <3>2
  <2> QED
    BY <1>3, <2>2, <2>3 DEF built
<1>4. ASSUME Booted PROVE Telling'
  <2>1. UNCHANGED <<pub, rooms>> /\ notice' = {}
    BY <1>4 DEF Booted
  <2>2. \/ host'.pc = "check"
        \/ host'.pc = "post" /\ \E d \in notice : host'.room = d.room
    <3>1. CASE notice = {}
      BY <1>4, <1>h, <3>1 DEF Booted, Serve
    <3>2. CASE notice # {}
      <4>1. (CHOOSE d \in notice : TRUE) \in notice
        BY <3>2
      <4> DEFINE x == CHOOSE d \in notice : TRUE
      <4>2. host' = [host EXCEPT !.pc = "post", !.room = x.room]
        BY <1>4, <3>2 DEF Booted
      <4> HIDE DEF x
      <4>3. host'.pc = "post" /\ host'.room = x.room
        BY <1>h, <4>2 DEF Serve
      <4> QED
        BY <4>1, <4>3 DEF x
    <3> QED
      BY <3>1, <3>2
  <2> QED
    BY <1>t, <1>u, <1>d, <2>1, <2>2 DEF Telling, Calling
<1>5. ASSUME postBooted PROVE Telling'
  <2>1. host'.pc = "check" /\ UNCHANGED <<pub, notice>>
    BY <1>5, <1>h DEF postBooted, Serve
  <2>2. \A r \in Rooms : r # host.room /\ Untold(r) => Untold(r)'
    BY <1>5, <1>r DEF postBooted, Untold
  <2> QED
    BY <1>5, <1>d, <1>t, <2>1, <2>2 DEF Telling, Calling, postBooted
<1>6. ASSUME exits \/ crash PROVE Telling'
  <2>1. host'.pc = "down"
    BY <1>6, <1>h DEF exits, crash, ends, Serve
  <2>2. pub'[Dev].pc = "rest"
    BY <1>6, <1>c, <1>d, RestingEffect DEF exits, crash
  <2>3. notice' \subseteq notice /\ UNCHANGED rooms
    BY <1>6 DEF exits, crash
  <2> QED
    BY <1>q, <1>u, <2>1, <2>2, <2>3
<1>7. ASSUME look \/ lookNoMore \/ install \/ linkCurrent \/ check \/ boot PROVE Telling'
  <2>n. ASSUME nothingInstalled PROVE host'.pc # "post"
    BY <1>h, <2>n DEF nothingInstalled, Serve
  <2>1. ASSUME look PROVE host'.pc # "post"
    BY <1>h, <2>n, <2>1 DEF look, Serve
  <2>2. ASSUME install PROVE host'.pc # "post"
    BY <1>h, <2>n, <2>2 DEF install, Serve
  <2>3. ASSUME lookNoMore \/ linkCurrent PROVE host'.pc # "post"
    BY <1>h, <2>3 DEF lookNoMore, linkCurrent, Serve
  <2>5. ASSUME check PROVE host'.pc # "post"
    BY <1>h, <2>5 DEF check, Serve
  <2>6. ASSUME boot PROVE host'.pc # "post"
    BY <2>6 DEF boot, start
  <2>4. UNCHANGED <<pub, notice, rooms>>
    BY <1>7 DEF look, lookNoMore, install, linkCurrent, check, boot
  <2> QED
    BY <1>7, <1>q, <1>u, <2>1, <2>2, <2>3, <2>4, <2>5, <2>6
<1>8. ASSUME turnBegins \/ turnEnds \/ UNCHANGED releaseVars PROVE Telling'
  BY <1>8, <1>q, <1>u DEF turnBegins, turnEnds, releaseVars
<1> QED
  BY <1>1, <1>2, <1>3, <1>4, <1>5, <1>6, <1>7, <1>8 DEF ReleaseNext, hostStep

-----------------------------------------------------------------------------
(* Theorems *)

\* The invariant is inductive.
LEMMA ReleaseInductive == ReleaseInv /\ [ReleaseNext]_releaseVars => ReleaseInv'
  BY TypeStep, ReadingStep, InstallingStep, ReplacingStep, TellingStep DEF ReleaseInv

\* Every state the release loop reaches has every part of the invariant.
THEOREM ReleaseInvariance == ReleaseSpec => []ReleaseInv
  BY ReleaseInitStep, ReleaseInductive, PTL DEF ReleaseSpec

\* Every value the releases are made of keeps its type.
THEOREM ReleaseTypes == ReleaseSpec => []ReleaseTypeOK
<1>1. ReleaseInv => ReleaseTypeOK
  BY DEF ReleaseInv
<1> QED
  BY <1>1, ReleaseInvariance, PTL

\* Whatever laptops, dev and the bucket do and wherever the host crashes, what
\* current points at is a binary in place that ran here (install).
THEOREM BootsWell == ReleaseSpec => []BootsIntoAGoodRelease
<1>1. ReleaseInv => BootsIntoAGoodRelease
  BY DEF ReleaseInv, Installing
<1> QED
  BY <1>1, ReleaseInvariance, PTL

\* However many publishers race, two that read the same pointer both think they won
\* only if what they read had come back in between, and never of the first release:
\* that is what swapping by an ETag of the content gives (point).
THEOREM WinnerIsAlone == ReleaseSpec => []OneWinner
<1>1. ReleaseInv => OneWinner
  BY DEF ReleaseInv, Replacing
<1> QED
  BY <1>1, ReleaseInvariance, PTL

\* Across crashes, restarts and deploys that take their notices back, no room is
\* told twice that the garage is back (Booted).
THEOREM NoRoomIsToldTwice == ReleaseSpec => ToldOnce
<1>1. ReleaseInv /\ [ReleaseNext]_releaseVars =>
        [\A r \in Rooms : host.pc = "post" /\ host'.pc = "check" /\ host.room = r =>
            "told" \notin rooms[r]]_releaseVars
  BY DEF ReleaseInv, Telling, Untold
<1> QED
  BY <1>1, ReleaseInvariance, PTL DEF ReleaseSpec, ToldOnce

-----------------------------------------------------------------------------
(* Backup: the invariant *)

Who == {"serve", "hand"}
BackupPcs == {"snapshot", "object", "latest"}
RestorePcs == {"stat", "get", "rename"}
Active(p) == p.pc # "rest"

\* What holds whatever happened.  A garage that runs has its databases; a backup runs
\* in it, and has a snapshot before it puts it, and has put it before it names it.
Runs ==
    /\ serve = "up" => \A db \in Dbs : file[db] # Missing
    /\ Active(restorer["serve"]) => serve = "restoring"

Backing(r) ==
    LET p == request[r] IN
    /\ Active(p) => serve = "up" /\ p.day \in Days
    /\ p.pc = "object" => p.copy # Missing
    /\ p.pc = "latest" => object[at(p)][p.day] # Missing

\* What garage serve's restore has passed is there, if it has a snapshot.
reached == IF Active(restorer["serve"]) THEN restorer["serve"].i ELSE Len(Databases) + 1
Back ==
    serve = "restoring" =>
        \A j \in 1..Len(Databases) :
            j < reached /\ latest[Databases[j]] # 0 => file[Databases[j]] # Missing

Fetched(w) ==
    /\ restorer[w].pc = "get" => restorer[w].day \in Days
    /\ restorer[w].pc = "rename" => restorer[w].copy # Missing

\* What holds as long as no restore runs beside anything else: it moves the latest
\* snapshot to a place where there is no file.
Alone == Active(restorer["hand"]) => serve = "down"

Current(w) ==
    LET p == restorer[w] IN
    /\ p.pc \in {"get", "rename"} => file[at(p)] = Missing /\ latest[at(p)] # 0
    /\ p.pc = "get" => p.day = latest[at(p)]
    /\ p.pc = "rename" => p.copy = object[at(p)][latest[at(p)]]

\* And the chatroom's file has all its latest snapshot has, and what is about to be
\* the latest.
Grown ==
    file["chatroom"] # Missing /\ latest["chatroom"] # 0 =>
        object["chatroom"][latest["chatroom"]] <= file["chatroom"]

Growing(r) ==
    LET p == request[r] IN
    at(p) = "chatroom" =>
        /\ p.pc = "object" => p.copy <= file["chatroom"]
        /\ p.pc = "latest" => object["chatroom"][p.day] <= file["chatroom"]

NoRace ==
    /\ Alone /\ Grown
    /\ \A w \in Who : Current(w)
    /\ \A r \in Requests : Growing(r)

\* What holds as long as nothing happened: one backup at a time, and between two of
\* them the latest snapshots are of one backup.
OneAtATime == \A q, r \in Requests : Active(request[q]) /\ Active(request[r]) => q = r

InStep ==
    (\A r \in Requests : ~Active(request[r])) =>
        /\ \A db \in Dbs : latest[db] = latest["dev"]
        /\ latest["dev"] # 0 =>
              object["dev"][latest["dev"]] <= object["chatroom"][latest["dev"]]

\* dev has read no further than the chatroom goes, or will go when it is brought back.
Behind ==
    /\ file["dev"] # Missing /\ file["chatroom"] # Missing => file["dev"] <= file["chatroom"]
    /\ file["dev"] # Missing /\ file["chatroom"] = Missing =>
           latest["dev"] # 0 /\ file["dev"] <= object["chatroom"][latest["dev"]]
    /\ file["dev"] = Missing /\ file["chatroom"] # Missing =>
           latest["dev"] # 0 /\ object["dev"][latest["dev"]] <= file["chatroom"]

\* A backup has copied dev before it copies the chatroom.
DevFirst(r) ==
    LET p == request[r] IN
    /\ p.i = 1 /\ p.pc = "object" => p.copy <= file["chatroom"]
    /\ (p.i = 1 /\ p.pc = "latest") \/ (p.i = 2 /\ Active(p)) \/ (p.i = 3 /\ p.pc = "snapshot")
          => object["dev"][p.day] <= file["chatroom"]
    /\ p.i = 3 /\ p.pc = "object" => object["dev"][p.day] <= p.copy
    /\ p.i = 3 /\ p.pc = "latest" => object["dev"][p.day] <= object["chatroom"][p.day]
    /\ p.i >= 2 /\ Active(p) => latest["dev"] = p.day
    /\ p.i = 3 /\ Active(p) => latest["grug"] = p.day

NothingOdd == OneAtATime /\ InStep /\ Behind /\ \A r \in Requests : DevFirst(r)

BackupInv ==
    /\ BackupTypeOK /\ Runs /\ Back /\ LatestNamesASnapshot
    /\ \A r \in Requests : Backing(r)
    /\ \A w \in Who : Fetched(w)
    /\ "race" \notin odd => NoRace
    /\ odd = {} => NothingOdd

-----------------------------------------------------------------------------
(* Databases, and where a backup or a restore is *)

\* The owners, in order.
LEMMA TheDatabases ==
    /\ Len(Databases) = 3
    /\ Databases[1] = "dev" /\ Databases[2] = "grug" /\ Databases[3] = "chatroom"
    /\ Dbs = {"dev", "grug", "chatroom"}
<1>1. /\ Len(Databases) = 3 /\ DOMAIN Databases = 1..3
      /\ Databases[1] = "dev" /\ Databases[2] = "grug" /\ Databases[3] = "chatroom"
  BY DEF Databases
<1>2. Dbs = {"dev", "grug", "chatroom"}
  BY <1>1 DEF Dbs
<1> QED
  BY <1>1, <1>2

\* Where one is.
LEMMA AtFacts ==
    ASSUME NEW pcs, NEW p \in Copying(pcs)
    PROVE  /\ p.i \in 1..3 /\ at(p) = Databases[p.i] /\ at(p) \in Dbs
           /\ at(p) = "dev" <=> p.i = 1
           /\ at(p) = "grug" <=> p.i = 2
           /\ at(p) = "chatroom" <=> p.i = 3
           /\ p.day \in 0..MaxDays /\ p.copy \in Content /\ p.pc \in pcs \cup {"rest"}
<1>1. /\ p.i \in 1..3 /\ p.day \in 0..MaxDays /\ p.copy \in Content
      /\ p.pc \in pcs \cup {"rest"}
  BY TheDatabases DEF Copying
<1>2. at(p) = Databases[p.i]
  BY DEF at
<1>3. p.i = 1 \/ p.i = 2 \/ p.i = 3
  BY <1>1
<1> QED
  BY <1>1, <1>2, <1>3, TheDatabases

\* None.
LEMMA RestingFacts ==
    ASSUME NEW pcs
    PROVE  /\ Resting \in Copying(pcs) /\ Resting.pc = "rest" /\ ~Active(Resting)
           /\ Resting.i = 1 /\ Resting.day = 0
  BY TheDatabases, BackupAssumption DEF Resting, Copying, Content, Missing, Active

\* One goes on to the next database.
LEMMA NextEffect ==
    ASSUME NEW pcs, NEW p \in Copying(pcs), NEW pc \in pcs, pc # "rest", NEW x, x = next(p, pc)
    PROVE  /\ x \in Copying(pcs) /\ x.pc \in {pc, "rest"}
           /\ p.i = 3 <=> x.pc = "rest"
           /\ p.i # 3 => x.pc = pc /\ x.i = p.i + 1 /\ x.day = p.day
<1>0. p.i \in 1..3 /\ p.day \in 0..MaxDays /\ Len(Databases) = 3
  BY AtFacts, TheDatabases
<1>1. Resting \in Copying(pcs) /\ Resting.pc = "rest"
  BY RestingFacts
<1>2. CASE p.i = 3
  BY <1>0, <1>1, <1>2 DEF next
<1>3. CASE p.i # 3
  <2> DEFINE n == p.i + 1
             d == p.day
  <2>1. n \in 1..Len(Databases) /\ d \in 0..MaxDays
    BY <1>0, <1>3
  <2>2. x = [Resting EXCEPT !.pc = pc, !.i = n, !.day = d]
    BY <1>0, <1>3 DEF next
  <2> HIDE DEF n, d
  <2>3. x \in Copying(pcs) /\ x.pc = pc /\ x.i = n /\ x.day = d
    BY <1>1, <2>1, <2>2 DEF Copying
  <2> QED
    BY <1>3, <2>3 DEF n, d
<1> QED
  BY <1>2, <1>3

\* The types, taken apart.
LEMMA Types ==
    ASSUME BackupTypeOK
    PROVE  /\ \A db \in Dbs : file[db] \in Content /\ latest[db] \in 0..MaxDays
           /\ \A db \in Dbs : \A d \in Days : object[db][d] \in Content
           /\ \A r \in Requests : request[r] \in Copying(BackupPcs)
           /\ \A w \in Who : restorer[w] \in Copying(RestorePcs)
           /\ \A db \in Dbs : latest[db] # 0 => latest[db] \in Days
           /\ day \in Days /\ "chatroom" \in Dbs /\ "dev" \in Dbs /\ "grug" \in Dbs
           /\ \A n \in Content : n \in Int
<1>1. \A d \in 0..MaxDays : d # 0 => d \in Days
  BY BackupAssumption DEF Days
<1>2. \A n \in Content : n \in Int
  BY BackupAssumption DEF Content, Missing
<1>3. "chatroom" \in Dbs /\ "dev" \in Dbs /\ "grug" \in Dbs
  BY TheDatabases
<1>4. /\ \A db \in Dbs : file[db] \in Content /\ latest[db] \in 0..MaxDays
      /\ \A db \in Dbs : \A d \in Days : object[db][d] \in Content
      /\ \A r \in Requests : request[r] \in Copying(BackupPcs)
      /\ \A w \in Who : restorer[w] \in Copying(RestorePcs)
      /\ day \in Days
  BY DEF BackupTypeOK, BackupPcs, RestorePcs, Who
<1> QED
  BY <1>1, <1>2, <1>3, <1>4

\* The step of one request, and of one restore.
LEMMA RequestUpdate ==
    ASSUME BackupTypeOK, NEW r \in Requests, NEW x \in Copying(BackupPcs),
           request' = [request EXCEPT ![r] = x]
    PROVE  /\ request' \in [Requests -> Copying(BackupPcs)] /\ request'[r] = x
           /\ \A q \in Requests : q # r => request'[q] = request[q]
  BY DEF BackupTypeOK, BackupPcs

\* A restorer in its next state, and the other as it was.
LEMMA RestorerUpdate ==
    ASSUME BackupTypeOK, NEW w \in Who, NEW x \in Copying(RestorePcs),
           restorer' = [restorer EXCEPT ![w] = x]
    PROVE  /\ restorer' \in [Who -> Copying(RestorePcs)] /\ restorer'[w] = x
           /\ \A v \in Who : v # w => restorer'[v] = restorer[v]
  BY DEF BackupTypeOK, RestorePcs, Who

\* While garage serve is up and no restore runs beside it, none runs.
LEMMA NoRestore ==
    ASSUME Runs, Alone, serve = "up" PROVE \A w \in Who : ~Active(restorer[w])
  BY DEF Runs, Alone, Who

-----------------------------------------------------------------------------
(* The steps of a backup *)

\* POST /backup.
LEMMA BackupStep ==
    ASSUME BackupInv, NEW r \in Requests, backup(r)
    PROVE  BackupInv'
<1> DEFINE x == [Resting EXCEPT !.pc = "snapshot", !.day = day]
<1>i. /\ BackupTypeOK /\ Runs /\ Back /\ LatestNamesASnapshot
      /\ \A q \in Requests : Backing(q)
      /\ \A w \in Who : Fetched(w)
  BY DEF BackupInv
<1>u. /\ UNCHANGED <<serve, file, worktree, object, latest, day, restorer, faults>>
      /\ serve = "up" /\ request' = [request EXCEPT ![r] = x] /\ ~Active(request[r])
      /\ odd' = odd \cup {"overlap" : q \in {q \in Requests : request[q].pc # "rest"}}
  BY DEF backup, bucketVars, Active
<1>1. x \in Copying(BackupPcs) /\ x.pc = "snapshot" /\ x.i = 1 /\ x.day = day /\ Active(x)
  <2>1. day \in 0..MaxDays
    BY <1>i, BackupAssumption DEF BackupTypeOK, Days
  <2>2. Resting \in Copying(BackupPcs) /\ Resting.i = 1
    BY RestingFacts
  <2> QED
    BY <2>1, <2>2 DEF Copying, BackupPcs, Active
<1> HIDE DEF x
<1>2. /\ request' \in [Requests -> Copying(BackupPcs)] /\ request'[r] = x
      /\ \A q \in Requests : q # r => request'[q] = request[q]
  BY <1>1, <1>i, <1>u, RequestUpdate
<1>3. BackupTypeOK'
  <2>1. backups' \in 0..MaxBackups
    BY <1>i, BackupAssumption DEF BackupTypeOK, backup
  <2>2. odd' \subseteq {"overlap", "stopped", "partial", "race"}
    BY <1>i, <1>u DEF BackupTypeOK
  <2> QED
    BY <1>2, <1>i, <1>u, <2>1, <2>2 DEF BackupTypeOK, BackupPcs
<1>4. Runs' /\ Back' /\ LatestNamesASnapshot' /\ \A w \in Who : Fetched(w)'
  BY <1>i, <1>u DEF Runs, Back, LatestNamesASnapshot, Fetched, reached
<1>5. ASSUME NEW q \in Requests PROVE Backing(q)'
  <2>1. CASE q = r
    <3>1. day \in Days
      BY <1>i DEF BackupTypeOK
    <3> QED
      BY <1>1, <1>2, <1>u, <2>1, <3>1 DEF Backing
  <2>2. CASE q # r
    BY <1>2, <1>i, <1>u, <2>2 DEF Backing
  <2> QED
    BY <2>1, <2>2
<1>6. ASSUME "race" \notin odd' PROVE NoRace'
  <2>1. NoRace
    BY <1>6, <1>u DEF BackupInv
  <2>2. Alone' /\ Grown' /\ \A w \in Who : Current(w)'
    BY <1>u, <2>1 DEF NoRace, Alone, Grown, Current
  <2>3. ASSUME NEW q \in Requests PROVE Growing(q)'
    <3>1. CASE q = r
      BY <1>1, <1>2, <3>1 DEF Growing
    <3>2. CASE q # r
      BY <1>2, <1>u, <2>1, <3>2 DEF NoRace, Growing
    <3> QED
      BY <3>1, <3>2
  <2> QED
    BY <2>2, <2>3 DEF NoRace
<1>7. ASSUME odd' = {} PROVE NothingOdd'
  <2>1. NothingOdd /\ \A q \in Requests : ~Active(request[q])
    BY <1>7, <1>u DEF BackupInv, Active
  <2>2. OneAtATime'
    BY <1>2, <2>1 DEF OneAtATime
  <2>3. InStep'
    BY <1>1, <1>2 DEF InStep
  <2>4. Behind'
    BY <1>u, <2>1 DEF NothingOdd, Behind
  <2>5. ASSUME NEW q \in Requests PROVE DevFirst(q)'
    <3>1. CASE q = r
      BY <1>1, <1>2, <3>1 DEF DevFirst
    <3>2. CASE q # r
      BY <1>2, <1>u, <2>1, <3>2 DEF NothingOdd, DevFirst
    <3> QED
      BY <3>1, <3>2
  <2> QED
    BY <2>2, <2>3, <2>4, <2>5 DEF NothingOdd
<1> QED
  BY <1>3, <1>4, <1>5, <1>6, <1>7 DEF BackupInv

\* The database is copied.
LEMMA SnapshotStep ==
    ASSUME BackupInv, NEW r \in Requests, snapshot(r)
    PROVE  BackupInv'
<1> DEFINE p == request[r]
           n == file[at(p)]
           x == [p EXCEPT !.pc = "object", !.copy = n]
<1>i. /\ BackupTypeOK /\ Runs /\ Back /\ LatestNamesASnapshot
      /\ \A q \in Requests : Backing(q)
      /\ \A w \in Who : Fetched(w)
  BY DEF BackupInv
<1>0. /\ p \in Copying(BackupPcs) /\ at(p) \in Dbs /\ n \in Content /\ p.i \in 1..3
      /\ (at(p) = "dev" <=> p.i = 1) /\ (at(p) = "chatroom" <=> p.i = 3)
      /\ file["dev"] \in Int /\ file["chatroom"] \in Int
  BY <1>i, Types, AtFacts
<1>u. /\ UNCHANGED <<serve, file, worktree, object, latest, day, restorer, odd, backups, faults>>
      /\ p.pc = "snapshot" /\ request' = [request EXCEPT ![r] = x]
  BY <1>i DEF snapshot, bucketVars, counts, BackupTypeOK
<1>s. serve = "up" /\ p.day \in Days /\ n # Missing /\ Active(p)
  BY <1>0, <1>i, <1>u DEF Backing, Active, Runs
<1> HIDE DEF p, n
<1>1. x \in Copying(BackupPcs) /\ x.pc = "object" /\ x.i = p.i /\ x.day = p.day /\ x.copy = n
  BY <1>0 DEF Copying, BackupPcs
<1>t. at(x) = at(p) /\ Active(x)
  BY <1>1 DEF at, Active
<1> HIDE DEF x
<1>2. /\ request' \in [Requests -> Copying(BackupPcs)] /\ request'[r] = x
      /\ \A q \in Requests : q # r => request'[q] = request[q]
  BY <1>1, <1>i, <1>u, RequestUpdate
<1>3. BackupTypeOK'
  BY <1>2, <1>i, <1>u DEF BackupTypeOK, BackupPcs
<1>4. Runs' /\ Back' /\ LatestNamesASnapshot' /\ \A w \in Who : Fetched(w)'
  BY <1>i, <1>u DEF Runs, Back, LatestNamesASnapshot, Fetched, reached
<1>5. ASSUME NEW q \in Requests PROVE Backing(q)'
  <2>1. CASE q = r
    BY <1>1, <1>2, <1>s, <1>u, <2>1 DEF Backing
  <2>2. CASE q # r
    BY <1>2, <1>i, <1>u, <2>2 DEF Backing
  <2> QED
    BY <2>1, <2>2
<1>6. ASSUME "race" \notin odd' PROVE NoRace'
  <2>1. NoRace
    BY <1>6, <1>u DEF BackupInv
  <2>2. Alone' /\ Grown' /\ \A w \in Who : Current(w)'
    BY <1>u, <2>1 DEF NoRace, Alone, Grown, Current
  <2>3. ASSUME NEW q \in Requests PROVE Growing(q)'
    <3>1. CASE q = r
      <4>1. at(x) = "chatroom" => x.copy = file["chatroom"]
        BY <1>1, <1>t DEF n
      <4> QED
        BY <1>0, <1>1, <1>2, <1>u, <3>1, <4>1 DEF Growing
    <3>2. CASE q # r
      BY <1>2, <1>u, <2>1, <3>2 DEF NoRace, Growing
    <3> QED
      BY <3>1, <3>2
  <2> QED
    BY <2>2, <2>3 DEF NoRace
<1>7. ASSUME odd' = {} PROVE NothingOdd'
  <2>1. NothingOdd /\ OneAtATime /\ Behind /\ DevFirst(r)
    BY <1>7, <1>u DEF BackupInv, NothingOdd
  <2>2. OneAtATime'
    BY <1>2, <1>s, <2>1 DEF OneAtATime, p
  <2>3. InStep'
    BY <1>2, <1>t DEF InStep
  <2>4. Behind'
    BY <1>u, <2>1 DEF Behind
  <2>5. ASSUME NEW q \in Requests PROVE DevFirst(q)'
    <3>1. CASE q = r
      <4>1. p.i = 1 => x.copy <= file["chatroom"]
        <5>1. p.i = 1 => n = file["dev"]
          BY <1>0 DEF n
        <5>2. file["dev"] # Missing /\ file["chatroom"] # Missing
          BY <1>i, <1>s, Types DEF Runs
        <5> QED
          BY <1>1, <2>1, <5>1, <5>2 DEF Behind
      <4>2. p.i = 2 => object["dev"][p.day] <= file["chatroom"]
        BY <1>s, <2>1 DEF DevFirst, p
      <4>3. p.i = 3 => object["dev"][p.day] <= x.copy
        <5>1. p.i = 3 => n = file["chatroom"]
          BY <1>0 DEF n
        <5>2. p.i = 3 => object["dev"][p.day] <= file["chatroom"]
          BY <1>u, <2>1 DEF DevFirst, p
        <5> QED
          BY <1>1, <5>1, <5>2
      <4>4. (p.i >= 2 => latest["dev"] = p.day) /\ (p.i = 3 => latest["grug"] = p.day)
        BY <1>s, <2>1 DEF DevFirst, p
      <4> QED
        BY <1>0, <1>1, <1>2, <1>u, <3>1, <4>1, <4>2, <4>3, <4>4 DEF DevFirst
    <3>2. CASE q # r
      BY <1>2, <1>u, <2>1, <3>2 DEF NothingOdd, DevFirst
    <3> QED
      BY <3>1, <3>2
  <2> QED
    BY <2>2, <2>3, <2>4, <2>5 DEF NothingOdd
<1> QED
  BY <1>3, <1>4, <1>5, <1>6, <1>7 DEF BackupInv

\* The first Put: the snapshot of the day.
LEMMA PutObjectStep ==
    ASSUME BackupInv, NEW r \in Requests, put(r), request[r].pc = "object"
    PROVE  BackupInv'
<1> DEFINE p == request[r]
           x == [p EXCEPT !.pc = "latest"]
<1>i. /\ BackupTypeOK /\ Runs /\ Back /\ LatestNamesASnapshot
      /\ \A q \in Requests : Backing(q)
      /\ \A w \in Who : Fetched(w)
  BY DEF BackupInv
<1>0. /\ p \in Copying(BackupPcs) /\ at(p) \in Dbs /\ p.copy \in Content /\ p.i \in 1..3
      /\ (at(p) = "dev" <=> p.i = 1) /\ (at(p) = "grug" <=> p.i = 2)
      /\ (at(p) = "chatroom" <=> p.i = 3)
  BY <1>i, Types, AtFacts
<1>u. /\ UNCHANGED <<serve, file, worktree, latest, day, restorer, odd, backups, faults>>
      /\ request' = [request EXCEPT ![r] = x]
      /\ object' = [object EXCEPT ![at(p)][p.day] = p.copy]
  BY <1>i DEF put, counts, BackupTypeOK
<1>s. serve = "up" /\ p.day \in Days /\ p.copy # Missing /\ Active(p)
  BY <1>i DEF Backing, Active
<1> HIDE DEF p
<1>1. x \in Copying(BackupPcs) /\ x.pc = "latest" /\ x.i = p.i /\ x.day = p.day /\ x.copy = p.copy
  BY <1>0 DEF Copying, BackupPcs
<1>t. at(x) = at(p) /\ Active(x)
  BY <1>1 DEF at, Active
<1> HIDE DEF x
<1>2. /\ request' \in [Requests -> Copying(BackupPcs)] /\ request'[r] = x
      /\ \A q \in Requests : q # r => request'[q] = request[q]
  BY <1>1, <1>i, <1>u, RequestUpdate
<1>o. /\ object' \in [Dbs -> [Days -> Content]] /\ object'[at(p)][p.day] = p.copy
      /\ \A db \in Dbs : \A d \in Days :
            object'[db][d] = IF db = at(p) /\ d = p.day THEN p.copy ELSE object[db][d]
  <2>1. object \in [Dbs -> [Days -> Content]]
    BY <1>i DEF BackupTypeOK
  <2> QED
    BY <1>0, <1>s, <1>u, <2>1
<1>3. BackupTypeOK'
  BY <1>2, <1>i, <1>o, <1>u DEF BackupTypeOK, BackupPcs
<1>4. Runs' /\ Back' /\ \A w \in Who : Fetched(w)'
  BY <1>i, <1>u DEF Runs, Back, Fetched, reached
<1>l. LatestNamesASnapshot'
  BY <1>i, <1>o, <1>s, <1>u, Types DEF LatestNamesASnapshot
<1>5. ASSUME NEW q \in Requests PROVE Backing(q)'
  <2>1. CASE q = r
    BY <1>1, <1>2, <1>o, <1>s, <1>t, <1>u, <2>1 DEF Backing
  <2>2. CASE q # r
    <3>1. at(request[q]) \in Dbs /\ request'[q] = request[q] /\ Backing(q)
      BY <1>2, <1>i, <2>2, Types, AtFacts
    <3> QED
      BY <1>o, <1>s, <1>u, <3>1 DEF Backing, Active
  <2> QED
    BY <2>1, <2>2
<1>6. ASSUME "race" \notin odd' PROVE NoRace'
  <2>1. NoRace /\ Growing(r)
    BY <1>6, <1>u DEF BackupInv, NoRace
  <2>2. \A w \in Who : ~Active(restorer[w])
    BY <1>i, <1>s, <2>1, NoRestore DEF NoRace
  <2>3. Alone' /\ \A w \in Who : Current(w)'
    BY <1>u, <2>1, <2>2 DEF NoRace, Alone, Current, Active
  <2>4. at(p) = "chatroom" => p.copy <= file["chatroom"]
    BY <2>1 DEF Growing, p
  <2>5. Grown'
    <3>1. latest["chatroom"] # 0 => latest["chatroom"] \in Days /\ "chatroom" \in Dbs
      BY <1>i, Types
    <3> QED
      BY <1>o, <1>u, <2>1, <2>4, <3>1 DEF NoRace, Grown
  <2>6. ASSUME NEW q \in Requests PROVE Growing(q)'
    <3>1. CASE q = r
      BY <1>1, <1>2, <1>o, <1>t, <1>u, <2>4, <3>1 DEF Growing
    <3>2. CASE q # r
      <4>1. /\ request'[q] = request[q] /\ Growing(q) /\ "chatroom" \in Dbs
            /\ Active(request[q]) => request[q].day \in Days
        BY <1>2, <1>i, <2>1, <3>2, Types DEF NoRace, Backing
      <4> QED
        BY <1>o, <1>u, <2>4, <4>1 DEF Growing, Active
    <3> QED
      BY <3>1, <3>2
  <2> QED
    BY <2>3, <2>5, <2>6 DEF NoRace
<1>7. ASSUME odd' = {} PROVE NothingOdd'
  <2>1. NothingOdd /\ OneAtATime /\ Behind /\ DevFirst(r)
    BY <1>7, <1>u DEF BackupInv, NothingOdd
  <2>2. OneAtATime'
    BY <1>2, <1>s, <2>1 DEF OneAtATime, p
  <2>3. InStep'
    BY <1>2, <1>t DEF InStep
  <2>4. Behind'
    <3>1. file["dev"] # Missing /\ file["chatroom"] # Missing
      BY <1>i, <1>s, Types DEF Runs
    <3> QED
      BY <1>u, <2>1, <3>1 DEF Behind
  <2>5. ASSUME NEW q \in Requests PROVE DevFirst(q)'
    <3>1. CASE q = r
      <4>0. "dev" \in Dbs /\ "chatroom" \in Dbs
        BY TheDatabases
      <4>1. p.i = 1 => object'["dev"][p.day] <= file["chatroom"]
        BY <1>0, <1>o, <2>1 DEF DevFirst, p
      <4>2. p.i = 2 => object'["dev"][p.day] <= file["chatroom"]
        BY <1>0, <1>o, <1>s, <2>1, <4>0 DEF DevFirst, p
      <4>3. p.i = 3 => object'["dev"][p.day] <= object'["chatroom"][p.day]
        BY <1>0, <1>o, <1>s, <2>1, <4>0 DEF DevFirst, p
      <4>4. (p.i >= 2 => latest["dev"] = p.day) /\ (p.i = 3 => latest["grug"] = p.day)
        BY <1>s, <2>1 DEF DevFirst, p
      <4> QED
        BY <1>0, <1>1, <1>2, <1>u, <3>1, <4>1, <4>2, <4>3, <4>4 DEF DevFirst
    <3>2. CASE q # r
      <4>1. ~Active(request'[q])
        BY <1>2, <1>s, <2>1, <3>2 DEF OneAtATime, p
      <4> QED
        BY <4>1 DEF DevFirst, Active
    <3> QED
      BY <3>1, <3>2
  <2> QED
    BY <2>2, <2>3, <2>4, <2>5 DEF NothingOdd
<1> QED
  BY <1>3, <1>4, <1>5, <1>6, <1>7, <1>l DEF BackupInv

\* The second: latest names it.
LEMMA PutLatestStep ==
    ASSUME BackupInv, NEW r \in Requests, put(r), request[r].pc = "latest"
    PROVE  BackupInv'
<1> DEFINE p == request[r]
           x == next(p, "snapshot")
<1>i. /\ BackupTypeOK /\ Runs /\ Back /\ LatestNamesASnapshot
      /\ \A q \in Requests : Backing(q)
      /\ \A w \in Who : Fetched(w)
  BY DEF BackupInv
<1>0. /\ p \in Copying(BackupPcs) /\ at(p) \in Dbs /\ p.i \in 1..3
      /\ (at(p) = "dev" <=> p.i = 1) /\ (at(p) = "grug" <=> p.i = 2)
      /\ (at(p) = "chatroom" <=> p.i = 3) /\ p.day \in 0..MaxDays
  BY <1>i, Types, AtFacts
<1>u. /\ UNCHANGED <<serve, file, worktree, object, day, restorer, odd, backups, faults>>
      /\ request' = [request EXCEPT ![r] = x]
      /\ latest' = [latest EXCEPT ![at(p)] = p.day]
  BY <1>i DEF put, counts, BackupTypeOK
<1>s. /\ serve = "up" /\ p.day \in Days /\ Active(p) /\ p.pc = "latest"
      /\ object[at(p)][p.day] # Missing
  BY <1>i DEF Backing, Active
<1> HIDE DEF p
<1>1. /\ x \in Copying(BackupPcs) /\ x.pc \in {"snapshot", "rest"}
      /\ p.i = 3 <=> x.pc = "rest"
      /\ p.i # 3 => x.pc = "snapshot" /\ x.i = p.i + 1 /\ x.day = p.day
  BY <1>0, NextEffect DEF BackupPcs
<1> HIDE DEF x
<1>2. /\ request' \in [Requests -> Copying(BackupPcs)] /\ request'[r] = x
      /\ \A q \in Requests : q # r => request'[q] = request[q]
  BY <1>1, <1>i, <1>u, RequestUpdate
<1>o. /\ latest' \in [Dbs -> 0..MaxDays]
      /\ \A db \in Dbs : latest'[db] = IF db = at(p) THEN p.day ELSE latest[db]
  BY <1>0, <1>i, <1>u DEF BackupTypeOK
<1>3. BackupTypeOK'
  BY <1>2, <1>i, <1>o, <1>u DEF BackupTypeOK, BackupPcs
<1>4. Runs' /\ Back' /\ \A w \in Who : Fetched(w)'
  BY <1>i, <1>s, <1>u DEF Runs, Back, Fetched
<1>l. LatestNamesASnapshot'
  BY <1>i, <1>o, <1>s, <1>u DEF LatestNamesASnapshot
<1>5. ASSUME NEW q \in Requests PROVE Backing(q)'
  <2>1. CASE q = r
    BY <1>1, <1>2, <1>s, <1>u, <2>1 DEF Backing, Active
  <2>2. CASE q # r
    BY <1>2, <1>i, <1>u, <2>2 DEF Backing
  <2> QED
    BY <2>1, <2>2
<1>6. ASSUME "race" \notin odd' PROVE NoRace'
  <2>1. NoRace /\ Growing(r)
    BY <1>6, <1>u DEF BackupInv, NoRace
  <2>2. \A w \in Who : ~Active(restorer[w])
    BY <1>i, <1>s, <2>1, NoRestore DEF NoRace
  <2>3. Alone' /\ \A w \in Who : Current(w)'
    BY <1>u, <2>1, <2>2 DEF NoRace, Alone, Current, Active
  <2>4. at(p) = "chatroom" => object["chatroom"][p.day] <= file["chatroom"]
    BY <1>s, <2>1 DEF Growing, p
  <2>5. Grown'
    BY <1>o, <1>u, <2>1, <2>4, TheDatabases DEF NoRace, Grown
  <2>6. ASSUME NEW q \in Requests PROVE Growing(q)'
    <3>1. CASE q = r
      BY <1>1, <1>2, <3>1 DEF Growing
    <3>2. CASE q # r
      BY <1>2, <1>u, <2>1, <3>2 DEF NoRace, Growing
    <3> QED
      BY <3>1, <3>2
  <2> QED
    BY <2>3, <2>5, <2>6 DEF NoRace
<1>7. ASSUME odd' = {} PROVE NothingOdd'
  <2>1. NothingOdd /\ OneAtATime /\ Behind /\ DevFirst(r)
    BY <1>7, <1>u DEF BackupInv, NothingOdd
  <2>r. /\ (p.i = 1 \/ p.i = 2) => object["dev"][p.day] <= file["chatroom"]
        /\ p.i = 3 => object["dev"][p.day] <= object["chatroom"][p.day]
        /\ p.i >= 2 => latest["dev"] = p.day
        /\ p.i = 3 => latest["grug"] = p.day
    BY <1>s, <2>1 DEF DevFirst, p
  <2>o. \A q \in Requests : q # r => ~Active(request[q]) /\ request'[q] = request[q]
    BY <1>2, <1>s, <2>1 DEF OneAtATime, p
  <2>2. OneAtATime'
    BY <2>o DEF OneAtATime
  <2>3. InStep'
    <3>1. CASE p.i = 3
      <4>1. latest'["dev"] = p.day /\ latest'["grug"] = p.day /\ latest'["chatroom"] = p.day
        BY <1>0, <1>o, <2>r, <3>1, TheDatabases
      <4>2. \A db \in Dbs : latest'[db] = latest'["dev"]
        BY <4>1, TheDatabases
      <4> QED
        BY <1>u, <2>r, <3>1, <4>1, <4>2 DEF InStep
    <3>2. CASE p.i # 3
      BY <1>1, <1>2, <3>2 DEF InStep, Active
    <3> QED
      BY <3>1, <3>2
  <2>4. Behind'
    <3>1. file["dev"] # Missing /\ file["chatroom"] # Missing
      BY <1>i, <1>s, Types DEF Runs
    <3> QED
      BY <1>u, <2>1, <3>1 DEF Behind
  <2>5. ASSUME NEW q \in Requests PROVE DevFirst(q)'
    <3>1. CASE q = r /\ p.i = 3
      BY <1>1, <1>2, <3>1 DEF DevFirst, Active
    <3>2. CASE q = r /\ p.i # 3
      <4>1. latest'["dev"] = p.day /\ (p.i = 2 => latest'["grug"] = p.day)
        BY <1>0, <1>o, <2>r, TheDatabases
      <4>2. x.i \in {2, 3} /\ (x.i = 3 => p.i = 2)
        BY <1>0, <1>1, <3>2
      <4>3. object["dev"][p.day] <= file["chatroom"]
        BY <1>0, <2>r, <3>2
      <4> QED
        BY <1>1, <1>2, <1>u, <3>2, <4>1, <4>2, <4>3 DEF DevFirst
    <3>3. CASE q # r
      BY <2>o, <3>3 DEF DevFirst, Active
    <3> QED
      BY <3>1, <3>2, <3>3
  <2> QED
    BY <2>2, <2>3, <2>4, <2>5 DEF NothingOdd
<1> QED
  BY <1>3, <1>4, <1>5, <1>6, <1>7, <1>l DEF BackupInv

\* A backup ends before its end.
LEMMA BackupFailsStep ==
    ASSUME BackupInv, NEW r \in Requests, backupFails(r)
    PROVE  BackupInv'
<1>i. /\ BackupTypeOK /\ Runs /\ Back /\ LatestNamesASnapshot
      /\ \A q \in Requests : Backing(q)
      /\ \A w \in Who : Fetched(w)
  BY DEF BackupInv
<1>u. /\ UNCHANGED <<serve, file, worktree, object, latest, day, restorer, backups>>
      /\ request' = [request EXCEPT ![r] = Resting] /\ odd' = odd \cup {"stopped"}
      /\ faults' \in 0..MaxFaults
  BY <1>i, BackupAssumption DEF backupFails, bucketVars, fault, BackupTypeOK
<1>2. /\ request' \in [Requests -> Copying(BackupPcs)] /\ request'[r] = Resting
      /\ \A q \in Requests : q # r => request'[q] = request[q]
  BY <1>i, <1>u, RequestUpdate, RestingFacts
<1>3. BackupTypeOK'
  BY <1>2, <1>i, <1>u DEF BackupTypeOK, BackupPcs
<1>4. Runs' /\ Back' /\ LatestNamesASnapshot' /\ \A w \in Who : Fetched(w)'
  BY <1>i, <1>u DEF Runs, Back, LatestNamesASnapshot, Fetched, reached
<1>5. ASSUME NEW q \in Requests PROVE Backing(q)'
  BY <1>2, <1>i, <1>u, RestingFacts DEF Backing, Active
<1>6. ASSUME "race" \notin odd' PROVE NoRace'
  <2>1. NoRace
    BY <1>6, <1>u DEF BackupInv
  <2>2. Alone' /\ Grown' /\ \A w \in Who : Current(w)'
    BY <1>u, <2>1 DEF NoRace, Alone, Grown, Current
  <2>3. ASSUME NEW q \in Requests PROVE Growing(q)'
    BY <1>2, <1>u, <2>1, RestingFacts DEF NoRace, Growing
  <2> QED
    BY <2>2, <2>3 DEF NoRace
<1> QED
  BY <1>3, <1>4, <1>5, <1>6, <1>u DEF BackupInv

-----------------------------------------------------------------------------
(* The steps of a restore *)

\* No backup runs unless garage serve does.
LEMMA NoBackup ==
    ASSUME BackupInv, serve # "up" PROVE \A r \in Requests : ~Active(request[r])
  BY DEF BackupInv, Backing

\* Steps of a restore that leave the files.
LEMMA RestorerStep ==
    ASSUME BackupInv, UNCHANGED <<file, worktree, object, latest, day, request, backups>>,
           NEW w \in Who, NEW x \in Copying(RestorePcs), restorer' = [restorer EXCEPT ![w] = x],
           serve' \in {"down", "restoring", "up"}, faults' \in 0..MaxFaults,
           odd \subseteq odd', odd' \subseteq odd \cup {"race"},
           serve' = "up" <=> serve = "up",
           Runs', Back', Fetched(w)',
           "race" \notin odd' => Alone' /\ Current(w)'
    PROVE  BackupInv'
<1>i. /\ BackupTypeOK /\ Runs /\ Back /\ LatestNamesASnapshot
      /\ \A q \in Requests : Backing(q)
      /\ \A v \in Who : Fetched(v)
  BY DEF BackupInv
<1>1. /\ restorer' \in [Who -> Copying(RestorePcs)] /\ restorer'[w] = x
      /\ \A v \in Who : v # w => restorer'[v] = restorer[v]
  BY <1>i, RestorerUpdate
<1>2. BackupTypeOK'
  BY <1>1, <1>i DEF BackupTypeOK, RestorePcs, Who
<1>3. LatestNamesASnapshot' /\ \A q \in Requests : Backing(q)'
  BY <1>i DEF LatestNamesASnapshot, Backing
<1>4. \A v \in Who : Fetched(v)'
  BY <1>1, <1>i DEF Fetched
<1>5. ASSUME "race" \notin odd' PROVE NoRace'
  <2>1. NoRace
    BY <1>5 DEF BackupInv
  <2>2. Grown' /\ \A q \in Requests : Growing(q)'
    BY <2>1 DEF NoRace, Grown, Growing
  <2>3. ASSUME NEW v \in Who, v # w PROVE Current(v)'
    BY <1>1, <2>1, <2>3 DEF NoRace, Current
  <2> QED
    BY <1>5, <2>2, <2>3 DEF NoRace
<1>6. ASSUME odd' = {} PROVE NothingOdd'
  <2>1. NothingOdd
    BY <1>6 DEF BackupInv
  <2> QED
    BY <2>1 DEF NothingOdd, OneAtATime, InStep, Behind, DevFirst
<1> QED
  BY <1>2, <1>3, <1>4, <1>5, <1>6 DEF BackupInv

\* A restore begins.
LEMMA BeginStep ==
    ASSUME BackupInv, NEW w \in Who, begin(w)
    PROVE  BackupInv'
<1> DEFINE x == [Resting EXCEPT !.pc = "stat"]
<1>i. BackupTypeOK /\ Runs /\ Back
  BY DEF BackupInv
<1>1. x \in Copying(RestorePcs) /\ x.pc = "stat" /\ x.i = 1 /\ Active(x)
  <2>1. Resting \in Copying(RestorePcs) /\ Resting.i = 1
    BY RestingFacts
  <2> QED
    BY <2>1 DEF Copying, RestorePcs, Active
<1>u. /\ UNCHANGED <<file, worktree, object, latest, day, request, backups>>
      /\ restorer' = [restorer EXCEPT ![w] = x] /\ ~Active(restorer[w])
      /\ odd' = odd \cup {"race" : v \in {v \in Who : restorer[v].pc # "rest"}}
                    \cup (IF w = "hand" /\ serve # "down" THEN {"race"} ELSE {})
  BY DEF begin, bucketVars, restores, Active, Who
<1>s. /\ w = "serve" => serve = "down" /\ serve' = "restoring"
      /\ w = "hand" => serve' = serve
      /\ faults' \in 0..MaxFaults
  BY <1>i, BackupAssumption DEF begin, fault, BackupTypeOK
<1>w. w = "serve" \/ w = "hand"
  BY DEF Who
<1> HIDE DEF x
<1>2. /\ restorer'[w] = x /\ \A v \in Who : v # w => restorer'[v] = restorer[v]
  BY <1>1, <1>i, <1>u, RestorerUpdate
<1>3. Runs' /\ Back'
  <2>1. CASE w = "serve"
    <3>1. restorer'["serve"] = x /\ reached' = 1
      BY <1>1, <1>2, <2>1 DEF reached
    <3>2. Back'
      BY <3>1, TheDatabases DEF Back
    <3> QED
      BY <1>s, <2>1, <3>2 DEF Runs
  <2>2. CASE w = "hand"
    <3>1. restorer'["serve"] = restorer["serve"] /\ reached' = reached
      BY <1>2, <2>2 DEF Who, reached
    <3> QED
      BY <1>i, <1>s, <1>u, <2>2, <3>1 DEF Runs, Back
  <2> QED
    BY <1>w, <2>1, <2>2
<1>4. Fetched(w)'
  BY <1>1, <1>2 DEF Fetched
<1>5. ASSUME "race" \notin odd' PROVE Alone' /\ Current(w)'
  <2>1. \A v \in Who : ~Active(restorer[v])
    BY <1>5, <1>u DEF Active
  <2>2. w = "hand" => serve = "down"
    BY <1>5, <1>u
  <2>3. Alone'
    BY <1>2, <1>s, <1>w, <2>1, <2>2 DEF Alone, Who
  <2> QED
    BY <1>1, <1>2, <2>3 DEF Current
<1>6. odd \subseteq odd' /\ odd' \subseteq odd \cup {"race"}
  BY <1>u
<1>7. (serve' = "up" <=> serve = "up") /\ serve' \in {"down", "restoring", "up"}
  BY <1>i, <1>s, <1>w DEF BackupTypeOK
<1> QED
  BY <1>1, <1>3, <1>4, <1>5, <1>6, <1>7, <1>s, <1>u, RestorerStep

\* It looks at a file.
LEMMA StatStep ==
    ASSUME BackupInv, NEW w \in Who, stat(w)
    PROVE  BackupInv'
<1> DEFINE p == restorer[w]
           n == latest[at(p)]
           x == IF file[at(p)] = Missing /\ n # 0
                THEN [p EXCEPT !.pc = "get", !.day = n] ELSE next(p, "stat")
<1>i. BackupTypeOK /\ Runs /\ Back
  BY DEF BackupInv
<1>0. /\ p \in Copying(RestorePcs) /\ at(p) \in Dbs /\ p.i \in 1..3 /\ at(p) = Databases[p.i]
      /\ n \in 0..MaxDays /\ (n # 0 => n \in Days)
  BY <1>i, Types, AtFacts
<1>u. /\ UNCHANGED <<serve, file, worktree, object, latest, day, request, odd, backups, faults>>
      /\ restorer' = [restorer EXCEPT ![w] = x] /\ p.pc = "stat" /\ Active(p)
  BY DEF stat, bucketVars, restores, counts, Active
<1>g. CASE file[at(p)] = Missing /\ n # 0
  <2>1. x = [p EXCEPT !.pc = "get", !.day = n]
    BY <1>g
  <2> HIDE DEF p, n, x
  <2>2. x \in Copying(RestorePcs) /\ x.pc = "get" /\ x.i = p.i /\ x.day = n
    BY <1>0, <2>1 DEF Copying, RestorePcs
  <2>t. at(x) = at(p) /\ Active(x)
    BY <2>2 DEF at, Active
  <2>3. /\ restorer'[w] = x /\ \A v \in Who : v # w => restorer'[v] = restorer[v]
    BY <1>i, <1>u, <2>2, RestorerUpdate
  <2>4. Runs' /\ Back' /\ Fetched(w)'
    <3>1. \A v \in Who : (Active(restorer'[v]) <=> Active(restorer[v])) /\ restorer'[v].i = restorer[v].i
      BY <1>u, <2>2, <2>3, <2>t DEF p
    <3>2. Runs' /\ reached' = reached
      BY <1>i, <1>u, <3>1 DEF Runs, reached, Who
    <3>3. x.day \in Days
      BY <1>0, <1>g, <2>2 DEF n
    <3> QED
      BY <1>i, <1>u, <2>2, <2>3, <3>2, <3>3 DEF Back, Fetched
  <2>5. ASSUME "race" \notin odd' PROVE Alone' /\ Current(w)'
    <3>1. Alone
      BY <1>u, <2>5 DEF BackupInv, NoRace
    <3>2. \A v \in Who : Active(restorer'[v]) <=> Active(restorer[v])
      BY <1>u, <2>3, <2>t DEF p
    <3>3. Alone'
      BY <1>u, <3>1, <3>2 DEF Alone, Who
    <3> QED
      BY <1>g, <1>u, <2>2, <2>3, <2>t, <3>3 DEF Current, n
  <2>6. serve' \in {"down", "restoring", "up"} /\ faults' \in 0..MaxFaults /\ odd' = odd
    BY <1>i, <1>u DEF BackupTypeOK
  <2> QED
    BY <1>u, <2>2, <2>4, <2>5, <2>6, RestorerStep
<1>n. CASE ~(file[at(p)] = Missing /\ n # 0)
  <2>1. x = next(p, "stat")
    BY <1>n
  <2> HIDE DEF p, n, x
  <2>2. /\ x \in Copying(RestorePcs) /\ x.pc \in {"stat", "rest"}
        /\ p.i = 3 <=> x.pc = "rest"
        /\ p.i # 3 => x.pc = "stat" /\ x.i = p.i + 1
    BY <1>0, <2>1, NextEffect DEF RestorePcs
  <2>3. /\ restorer'[w] = x /\ \A v \in Who : v # w => restorer'[v] = restorer[v]
    BY <1>i, <1>u, <2>2, RestorerUpdate
  <2>r. ASSUME w = "serve" PROVE p = restorer["serve"] /\ reached = p.i /\ reached' = p.i + 1
    BY <1>0, <1>u, <2>2, <2>3, <2>r, TheDatabases DEF reached, p, Active
  <2>4. Runs'
    BY <1>i, <1>u, <2>3 DEF Runs, Who, p
  <2>5. Back'
    <3>1. CASE w = "serve"
      <4>1. ASSUME NEW j \in 1..Len(Databases), j < reached', latest'[Databases[j]] # 0,
                   serve' = "restoring"
            PROVE  file'[Databases[j]] # Missing
        <5>1. j < p.i \/ j = p.i
          BY <1>0, <2>r, <3>1, <4>1, TheDatabases
        <5>2. CASE j = p.i
          BY <1>0, <1>n, <1>u, <4>1, <5>2 DEF n
        <5>3. CASE j < p.i
          BY <1>i, <1>u, <2>r, <3>1, <4>1, <5>3 DEF Back
        <5> QED
          BY <5>1, <5>2, <5>3
      <4> QED
        BY <4>1 DEF Back
    <3>2. CASE w # "serve"
      <4>1. reached' = reached
        BY <2>3, <3>2 DEF reached, Who
      <4> QED
        BY <1>i, <1>u, <4>1 DEF Back
    <3> QED
      BY <3>1, <3>2
  <2>6. Fetched(w)'
    BY <2>2, <2>3 DEF Fetched
  <2>7. ASSUME "race" \notin odd' PROVE Alone' /\ Current(w)'
    <3>1. Alone
      BY <1>u, <2>7 DEF BackupInv, NoRace
    <3>2. \A v \in Who : Active(restorer'[v]) => Active(restorer[v])
      BY <1>u, <2>3 DEF p
    <3>3. Alone'
      BY <1>u, <3>1, <3>2 DEF Alone, Who
    <3> QED
      BY <2>2, <2>3, <3>3 DEF Current
  <2>8. serve' \in {"down", "restoring", "up"} /\ faults' \in 0..MaxFaults /\ odd' = odd
    BY <1>i, <1>u DEF BackupTypeOK
  <2> QED
    BY <1>u, <2>2, <2>4, <2>5, <2>6, <2>7, <2>8, RestorerStep
<1> QED
  BY <1>g, <1>n

\* It fetches the snapshot.
LEMMA GetStep ==
    ASSUME BackupInv, NEW w \in Who, get(w)
    PROVE  BackupInv'
<1> DEFINE p == restorer[w]
           n == object[at(p)][p.day]
           x == [p EXCEPT !.pc = "rename", !.copy = n]
<1>i. BackupTypeOK /\ Runs /\ Back /\ Fetched(w)
  BY DEF BackupInv
<1>u. /\ UNCHANGED <<serve, file, worktree, object, latest, day, request, odd, backups, faults>>
      /\ restorer' = [restorer EXCEPT ![w] = x] /\ p.pc = "get" /\ n # Missing /\ Active(p)
  BY DEF get, bucketVars, restores, counts, Active
<1>0. p \in Copying(RestorePcs) /\ at(p) \in Dbs /\ p.day \in Days /\ n \in Content
  BY <1>i, <1>u, Types, AtFacts DEF Fetched
<1>c. "race" \notin odd => NoRace /\ file[at(p)] = Missing /\ latest[at(p)] # 0 /\ n = object[at(p)][latest[at(p)]]
  BY <1>u DEF BackupInv, NoRace, Current
<1> HIDE DEF p, n
<1>2. x \in Copying(RestorePcs) /\ x.pc = "rename" /\ x.i = p.i /\ x.copy = n
  BY <1>0 DEF Copying, RestorePcs
<1>t. at(x) = at(p) /\ Active(x)
  BY <1>2 DEF at, Active
<1> HIDE DEF x
<1>3. /\ restorer'[w] = x /\ \A v \in Who : v # w => restorer'[v] = restorer[v]
  BY <1>i, <1>u, <1>2, RestorerUpdate
<1>4. \A v \in Who : (Active(restorer'[v]) <=> Active(restorer[v])) /\ restorer'[v].i = restorer[v].i
  BY <1>u, <1>2, <1>3, <1>t DEF p
<1>5. Runs' /\ reached' = reached
  BY <1>i, <1>u, <1>4 DEF Runs, reached, Who
<1>6. Back' /\ Fetched(w)'
  BY <1>i, <1>u, <1>2, <1>3, <1>5 DEF Back, Fetched
<1>7. ASSUME "race" \notin odd' PROVE Alone' /\ Current(w)'
  <2>1. Alone'
    BY <1>4, <1>7, <1>c, <1>u DEF Alone, Who, NoRace
  <2> QED
    BY <1>2, <1>3, <1>7, <1>c, <1>t, <1>u, <2>1 DEF Current
<1>8. serve' \in {"down", "restoring", "up"} /\ faults' \in 0..MaxFaults /\ odd' = odd
  BY <1>i, <1>u DEF BackupTypeOK
<1> QED
  BY <1>u, <1>2, <1>5, <1>6, <1>7, <1>8, RestorerStep

\* It gives up.
LEMMA RestoreFailsStep ==
    ASSUME BackupInv, NEW w \in Who, restoreFails(w)
    PROVE  BackupInv'
<1>i. BackupTypeOK /\ Runs /\ Back
  BY DEF BackupInv
<1>u. /\ UNCHANGED <<file, worktree, object, latest, day, request, odd, backups>>
      /\ restorer' = [restorer EXCEPT ![w] = Resting] /\ Active(restorer[w])
      /\ serve' = IF w = "serve" THEN "down" ELSE serve
      /\ faults' \in 0..MaxFaults
  BY <1>i, BackupAssumption DEF restoreFails, bucketVars, restores, fault, BackupTypeOK, Active
<1>1. Resting \in Copying(RestorePcs) /\ Resting.pc = "rest" /\ ~Active(Resting)
  BY RestingFacts
<1>2. /\ restorer'[w] = Resting /\ \A v \in Who : v # w => restorer'[v] = restorer[v]
  BY <1>1, <1>i, <1>u, RestorerUpdate
<1>3. /\ serve' \in {"down", "restoring", "up"} /\ (serve' = "up" <=> serve = "up")
  BY <1>i, <1>u DEF BackupTypeOK, Runs
<1>4. Runs' /\ Back'
  <2>1. CASE w = "serve"
    BY <1>1, <1>2, <1>u, <2>1 DEF Runs, Back
  <2>2. CASE w # "serve"
    <3>1. restorer'["serve"] = restorer["serve"] /\ serve' = serve
      BY <1>2, <1>u, <2>2 DEF Who
    <3>2. reached' = reached
      BY <3>1 DEF reached
    <3> QED
      BY <1>i, <1>u, <3>1, <3>2 DEF Runs, Back
  <2> QED
    BY <2>1, <2>2
<1>5. Fetched(w)'
  BY <1>1, <1>2 DEF Fetched
<1>6. ASSUME "race" \notin odd' PROVE Alone' /\ Current(w)'
  <2>1. Alone
    BY <1>6, <1>u DEF BackupInv, NoRace
  <2>2. \A v \in Who : Active(restorer'[v]) => Active(restorer[v])
    BY <1>2, <1>u
  <2>3. Alone'
    BY <1>u, <2>1, <2>2 DEF Alone, Who
  <2> QED
    BY <1>1, <1>2, <2>3 DEF Current
<1> QED
  BY <1>1, <1>3, <1>4, <1>5, <1>6, <1>u, RestorerStep

\* It moves the snapshot to the file's place.
LEMMA RenameStep ==
    ASSUME BackupInv, NEW w \in Who, rename(w)
    PROVE  BackupInv'
<1> DEFINE p == restorer[w]
           x == next(p, "stat")
<1>i. /\ BackupTypeOK /\ Runs /\ Back /\ LatestNamesASnapshot
      /\ \A q \in Requests : Backing(q)
      /\ \A v \in Who : Fetched(v)
  BY DEF BackupInv
<1>u. /\ UNCHANGED <<serve, worktree, object, latest, day, request, odd, backups, faults>>
      /\ restorer' = [restorer EXCEPT ![w] = x] /\ file' = [file EXCEPT ![at(p)] = p.copy]
      /\ p.pc = "rename" /\ Active(p)
  BY DEF rename, bucketVars, restores, counts, Active
<1>0. /\ p \in Copying(RestorePcs) /\ at(p) \in Dbs /\ p.copy \in Content /\ p.i \in 1..3
      /\ at(p) = Databases[p.i] /\ p.copy # Missing
  BY <1>i, <1>u, Types, AtFacts DEF Fetched
<1>f. /\ file' \in [Dbs -> Content]
      /\ \A db \in Dbs : file'[db] = IF db = at(p) THEN p.copy ELSE file[db]
  BY <1>0, <1>i, <1>u DEF BackupTypeOK
<1>c. "race" \notin odd => NoRace /\ file[at(p)] = Missing /\ latest[at(p)] # 0
                            /\ p.copy = object[at(p)][latest[at(p)]]
  BY <1>u DEF BackupInv, NoRace, Current
<1> HIDE DEF p
<1>2. /\ x \in Copying(RestorePcs) /\ x.pc \in {"stat", "rest"}
      /\ p.i = 3 <=> x.pc = "rest"
      /\ p.i # 3 => x.pc = "stat" /\ x.i = p.i + 1
  BY <1>0, NextEffect DEF RestorePcs
<1> HIDE DEF x
<1>3. /\ restorer' \in [Who -> Copying(RestorePcs)]
      /\ restorer'[w] = x /\ \A v \in Who : v # w => restorer'[v] = restorer[v]
  BY <1>i, <1>u, <1>2, RestorerUpdate
<1>4. BackupTypeOK'
  BY <1>3, <1>f, <1>i, <1>u DEF BackupTypeOK, RestorePcs, Who
<1>5. Runs'
  <2>1. serve' = "up" => \A db \in Dbs : file'[db] # Missing
    BY <1>0, <1>f, <1>i, <1>u DEF Runs
  <2> QED
    BY <1>3, <1>i, <1>u, <2>1 DEF Runs, Who, p
<1>6. Back'
  <2>1. ASSUME NEW j \in 1..Len(Databases), j < reached', latest'[Databases[j]] # 0,
               serve' = "restoring"
        PROVE  file'[Databases[j]] # Missing
    <3>0. Databases[j] \in Dbs
      BY TheDatabases DEF Dbs
    <3>1. j < reached \/ Databases[j] = at(p)
      <4>1. CASE w = "serve"
        <5>1. reached = p.i /\ reached' = p.i + 1
          BY <1>0, <1>2, <1>3, <1>u, <4>1, TheDatabases DEF reached, p, Active
        <5>2. j < p.i \/ j = p.i
          BY <1>0, <2>1, <5>1, TheDatabases
        <5> QED
          BY <1>0, <5>1, <5>2
      <4>2. CASE w # "serve"
        <5>1. reached' = reached
          BY <1>3, <4>2 DEF reached, Who
        <5> QED
          BY <2>1, <5>1
      <4> QED
        BY <4>1, <4>2
    <3>2. CASE Databases[j] = at(p)
      BY <1>0, <1>f, <3>2
    <3>3. CASE j < reached
      <4>1. file[Databases[j]] # Missing
        BY <1>i, <1>u, <2>1, <3>3 DEF Back
      <4> QED
        BY <1>0, <1>f, <3>0, <4>1
    <3> QED
      BY <3>1, <3>2, <3>3
  <2> QED
    BY <2>1 DEF Back
<1>7. LatestNamesASnapshot' /\ \A q \in Requests : Backing(q)'
  BY <1>i, <1>u DEF LatestNamesASnapshot, Backing
<1>8. \A v \in Who : Fetched(v)'
  BY <1>2, <1>3, <1>i DEF Fetched
<1>d. "chatroom" \in Dbs /\ "dev" \in Dbs
  BY TheDatabases
<1>n. ASSUME "race" \notin odd
      PROVE  /\ serve # "up" /\ \A v \in Who : v # w => ~Active(restorer[v])
             /\ \A q \in Requests : ~Active(request[q])
  <2>1. Alone
    BY <1>c, <1>n DEF NoRace
  <2>2. serve # "up"
    BY <1>i, <1>u, <2>1 DEF Alone, Runs, Who, p
  <2>3. \A v \in Who : v # w => ~Active(restorer[v])
    BY <1>i, <1>u, <2>1 DEF Alone, Runs, Who, p
  <2> QED
    BY <2>2, <2>3, NoBackup
<1>9. ASSUME "race" \notin odd' PROVE NoRace'
  <2>0. "race" \notin odd
    BY <1>9, <1>u
  <2>1. Alone'
    BY <1>3, <1>c, <1>u, <2>0 DEF NoRace, Alone, Who, p
  <2>2. \A v \in Who : Current(v)'
    BY <1>2, <1>3, <1>n, <2>0 DEF Current, Active
  <2>3. Grown'
    <3>1. CASE at(p) = "chatroom"
      <4>1. p.copy = object["chatroom"][latest["chatroom"]] /\ p.copy \in Int
        BY <1>0, <1>c, <1>i, <2>0, <3>1, Types
      <4> QED
        BY <1>d, <1>f, <1>u, <3>1, <4>1 DEF Grown
    <3>2. CASE at(p) # "chatroom"
      BY <1>c, <1>d, <1>f, <1>u, <2>0, <3>2 DEF Grown, NoRace
    <3> QED
      BY <3>1, <3>2
  <2>4. \A q \in Requests : Growing(q)'
    BY <1>n, <1>u, <2>0 DEF Growing, Active
  <2> QED
    BY <2>1, <2>2, <2>3, <2>4 DEF NoRace
<1>10. ASSUME odd' = {} PROVE NothingOdd'
  <2>0. "race" \notin odd /\ NothingOdd /\ InStep /\ Behind /\ OneAtATime
    BY <1>10, <1>u DEF BackupInv, NothingOdd
  <2> DEFINE L == latest["dev"]
  <2>1. /\ \A db \in Dbs : latest[db] = L
        /\ L # 0 /\ object["dev"][L] <= object["chatroom"][L] /\ p.copy = object[at(p)][L]
    BY <1>0, <1>c, <1>n, <2>0 DEF InStep
  <2>2. Behind'
    <3>1. CASE at(p) = "dev"
      BY <1>c, <1>d, <1>f, <1>u, <2>0, <2>1, <3>1 DEF Behind
    <3>2. CASE at(p) = "chatroom"
      BY <1>c, <1>d, <1>f, <1>u, <2>0, <2>1, <3>2 DEF Behind
    <3>3. CASE at(p) # "dev" /\ at(p) # "chatroom"
      BY <1>d, <1>f, <1>u, <2>0, <3>3 DEF Behind
    <3> QED
      BY <3>1, <3>2, <3>3
  <2>3. OneAtATime' /\ InStep'
    BY <1>u, <2>0 DEF OneAtATime, InStep
  <2>4. \A q \in Requests : DevFirst(q)'
    BY <1>n, <1>u, <2>0 DEF DevFirst, Active
  <2> QED
    BY <2>2, <2>3, <2>4 DEF NothingOdd
<1> QED
  BY <1>4, <1>5, <1>6, <1>7, <1>8, <1>9, <1>10 DEF BackupInv

-----------------------------------------------------------------------------
(* The process, its databases and its host *)

\* The databases are opened.  What was not brought back had no snapshot.
LEMMA OpenStep ==
    ASSUME BackupInv, open
    PROVE  BackupInv'
<1>i. /\ BackupTypeOK /\ Runs /\ Back /\ LatestNamesASnapshot
      /\ \A q \in Requests : Backing(q)
      /\ \A w \in Who : Fetched(w)
  BY DEF BackupInv
<1>u. /\ UNCHANGED <<worktree, object, latest, day, request, restorer, odd, backups, faults>>
      /\ serve = "restoring" /\ serve' = "up" /\ ~Active(restorer["serve"])
      /\ file' = [db \in Dbs |-> IF file[db] = Missing THEN 0 ELSE file[db]]
  BY DEF open, bucketVars, counts, Active
<1>d. /\ "chatroom" \in Dbs /\ "dev" \in Dbs /\ file["dev"] \in Content /\ file["chatroom"] \in Content
      /\ \A n \in Content : n \in Int /\ (n # Missing => 0 <= n)
  <2>1. \A n \in Content : n \in Int /\ (n # Missing => 0 <= n)
    BY BackupAssumption DEF Content, Missing
  <2> QED
    BY <1>i, <2>1, Types
<1>f. /\ file' \in [Dbs -> Content]
      /\ \A db \in Dbs : file'[db] # Missing
      /\ \A db \in Dbs : file'[db] = IF file[db] = Missing THEN 0 ELSE file[db]
  <2>1. 0 \in Content /\ 0 # Missing
    BY BackupAssumption DEF Content, Missing
  <2>2. \A db \in Dbs : file[db] \in Content
    BY <1>i, Types
  <2> QED
    BY <1>u, <2>1, <2>2
<1>q. \A q \in Requests : ~Active(request[q])
  BY <1>i, <1>u, NoBackup
<1>b. \A db \in Dbs : latest[db] # 0 => file[db] # Missing
  <2>1. reached = 4
    BY <1>u, TheDatabases DEF reached
  <2>2. /\ latest[Databases[1]] # 0 => file[Databases[1]] # Missing
        /\ latest[Databases[2]] # 0 => file[Databases[2]] # Missing
        /\ latest[Databases[3]] # 0 => file[Databases[3]] # Missing
    BY <1>i, <1>u, <2>1, TheDatabases DEF Back
  <2> QED
    BY <2>2, TheDatabases
<1>1. BackupTypeOK'
  BY <1>f, <1>i, <1>u DEF BackupTypeOK
<1>2. Runs' /\ Back' /\ LatestNamesASnapshot' /\ \A w \in Who : Fetched(w)'
  BY <1>f, <1>i, <1>u DEF Runs, Back, LatestNamesASnapshot, Fetched
<1>3. \A q \in Requests : Backing(q)'
  BY <1>q, <1>u DEF Backing, Active
<1>4. ASSUME "race" \notin odd' PROVE NoRace'
  <2>1. NoRace
    BY <1>4, <1>u DEF BackupInv
  <2>2. \A w \in Who : ~Active(restorer[w])
    BY <1>u, <2>1 DEF NoRace, Alone, Who
  <2>3. Alone' /\ \A w \in Who : Current(w)'
    BY <1>u, <2>2 DEF Alone, Current, Active, Who
  <2>4. Grown'
    BY <1>b, <1>d, <1>f, <1>u, <2>1 DEF NoRace, Grown
  <2>5. \A q \in Requests : Growing(q)'
    BY <1>q, <1>u DEF Growing, Active
  <2> QED
    BY <2>3, <2>4, <2>5 DEF NoRace
<1>5. ASSUME odd' = {} PROVE NothingOdd'
  <2>1. OneAtATime /\ InStep /\ Behind
    BY <1>5, <1>u DEF BackupInv, NothingOdd
  <2>2. file'["dev"] <= file'["chatroom"]
    <3>1. CASE file["dev"] = Missing
      BY <1>d, <1>f, <3>1
    <3>2. CASE file["dev"] # Missing
      <4>1. file["chatroom"] # Missing
        BY <1>b, <1>d, <1>q, <2>1, <3>2 DEF Behind, InStep
      <4> QED
        BY <1>d, <1>f, <2>1, <3>2, <4>1 DEF Behind
    <3> QED
      BY <3>1, <3>2
  <2>3. Behind'
    BY <1>d, <1>f, <2>2 DEF Behind
  <2>4. OneAtATime' /\ InStep'
    BY <1>u, <2>1 DEF OneAtATime, InStep
  <2>5. \A q \in Requests : DevFirst(q)'
    BY <1>q, <1>u DEF DevFirst, Active
  <2> QED
    BY <2>3, <2>4, <2>5 DEF NothingOdd
<1> QED
  BY <1>1, <1>2, <1>3, <1>4, <1>5 DEF BackupInv

\* A running garage writes to one of its databases: the chatroom's only grows, and
\* dev's goes as far as the chatroom's at most.
LEMMA WriteStep ==
    ASSUME BackupInv, serve = "up",
           UNCHANGED <<serve, object, latest, day, request, restorer, odd, backups, faults>>,
           worktree' \in BOOLEAN,
           file' \in [Dbs -> Content], \A db \in Dbs : file'[db] # Missing,
           file["chatroom"] <= file'["chatroom"],
           file["dev"] <= file["chatroom"] => file'["dev"] <= file'["chatroom"]
    PROVE  BackupInv'
<1>i. /\ BackupTypeOK /\ Runs /\ Back /\ LatestNamesASnapshot
      /\ \A q \in Requests : Backing(q)
      /\ \A w \in Who : Fetched(w)
  BY DEF BackupInv
<1>t. /\ "chatroom" \in Dbs /\ "dev" \in Dbs
      /\ file["dev"] \in Int /\ file["chatroom"] \in Int /\ file'["chatroom"] \in Int
      /\ file["dev"] # Missing /\ file["chatroom"] # Missing
      /\ \A db \in Dbs : \A d \in Days : object[db][d] \in Int
      /\ \A db \in Dbs : latest[db] # 0 => latest[db] \in Days
      /\ \A q \in Requests : request[q] \in Copying(BackupPcs)
  BY <1>i, Types DEF Runs
<1>p. \A q \in Requests : request[q].copy \in Int
  BY <1>i, <1>t, Types, AtFacts
<1>1. BackupTypeOK'
  BY <1>i DEF BackupTypeOK
<1>2. Runs' /\ Back' /\ LatestNamesASnapshot' /\ \A w \in Who : Fetched(w)'
  BY <1>i DEF Runs, Back, LatestNamesASnapshot, Fetched
<1>3. \A q \in Requests : Backing(q)'
  BY <1>i DEF Backing
<1>4. ASSUME "race" \notin odd' PROVE NoRace'
  <2>1. NoRace
    BY <1>4 DEF BackupInv
  <2>2. \A w \in Who : ~Active(restorer[w])
    BY <1>i, <2>1, NoRestore DEF NoRace
  <2>3. Alone' /\ \A w \in Who : Current(w)'
    BY <2>2 DEF Alone, Current, Active, Who
  <2>4. Grown'
    BY <1>t, <2>1 DEF NoRace, Grown
  <2>5. ASSUME NEW q \in Requests PROVE Growing(q)'
    <3>1. Growing(q) /\ Backing(q)
      BY <1>i, <2>1 DEF NoRace
    <3>2. Active(request[q]) => object["chatroom"][request[q].day] \in Int
      BY <1>t, <3>1 DEF Backing
    <3> QED
      BY <1>p, <1>t, <3>1, <3>2 DEF Growing, Active
  <2> QED
    BY <2>3, <2>4, <2>5 DEF NoRace
<1>5. ASSUME odd' = {} PROVE NothingOdd'
  <2>1. OneAtATime /\ InStep /\ Behind /\ \A q \in Requests : DevFirst(q)
    BY <1>5 DEF BackupInv, NothingOdd
  <2>2. Behind'
    BY <1>t, <2>1 DEF Behind
  <2>3. OneAtATime' /\ InStep'
    BY <2>1 DEF OneAtATime, InStep
  <2>4. ASSUME NEW q \in Requests PROVE DevFirst(q)'
    <3>1. DevFirst(q) /\ Backing(q)
      BY <1>i, <2>1
    <3>2. Active(request[q]) => object["dev"][request[q].day] \in Int
      BY <1>t, <3>1 DEF Backing
    <3> QED
      BY <1>p, <1>t, <3>1, <3>2 DEF DevFirst, Active
  <2> QED
    BY <2>2, <2>3, <2>4 DEF NothingOdd
<1> QED
  BY <1>1, <1>2, <1>3, <1>4, <1>5 DEF BackupInv

\* A message.
LEMMA PostStep ==
    ASSUME BackupInv, post
    PROVE  BackupInv'
<1>i. BackupTypeOK /\ Runs
  BY DEF BackupInv
<1>u. /\ UNCHANGED <<serve, worktree, object, latest, day, request, restorer, odd, backups, faults>>
      /\ serve = "up" /\ file["chatroom"] < MaxPosts
      /\ file' = [file EXCEPT !["chatroom"] = file["chatroom"] + 1]
  BY DEF post, bucketVars, counts
<1>t. /\ file["chatroom"] \in Content /\ file["dev"] \in Content /\ file["chatroom"] # Missing
      /\ file["dev"] # Missing /\ "chatroom" \in Dbs /\ "dev" \in Dbs
  BY <1>i, <1>u, Types DEF Runs
<1>1. /\ file["chatroom"] + 1 \in Content /\ file["chatroom"] + 1 # Missing
      /\ file["chatroom"] \in Int /\ file["dev"] \in Int
  BY <1>t, <1>u, BackupAssumption DEF Content, Missing
<1>2. /\ file' \in [Dbs -> Content] /\ file'["chatroom"] = file["chatroom"] + 1
      /\ \A db \in Dbs : db # "chatroom" => file'[db] = file[db]
  BY <1>1, <1>i, <1>t, <1>u DEF BackupTypeOK
<1>3. \A db \in Dbs : file'[db] # Missing
  BY <1>1, <1>2, <1>i, <1>u DEF Runs
<1>4. /\ file["chatroom"] <= file'["chatroom"]
      /\ file["dev"] <= file["chatroom"] => file'["dev"] <= file'["chatroom"]
  BY <1>1, <1>2, <1>t
<1>5. worktree' \in BOOLEAN
  BY <1>i, <1>u DEF BackupTypeOK
<1> QED
  BY <1>2, <1>3, <1>4, <1>5, <1>u, WriteStep

\* dev reads on.
LEMMA DevReadsStep ==
    ASSUME BackupInv, devReads
    PROVE  BackupInv'
<1> DEFINE upTo == IF worktree THEN file["dev"] ELSE 0
           n == IF upTo < file["chatroom"] THEN file["chatroom"] ELSE upTo
<1>i. BackupTypeOK /\ Runs
  BY DEF BackupInv
<1>u. /\ UNCHANGED <<serve, object, latest, day, request, restorer, odd, backups, faults>>
      /\ serve = "up" /\ file' = [file EXCEPT !["dev"] = n] /\ worktree' \in BOOLEAN
  BY DEF devReads, bucketVars, counts
<1>t. /\ file["chatroom"] \in Content /\ file["dev"] \in Content /\ file["chatroom"] # Missing
      /\ file["dev"] # Missing /\ "chatroom" \in Dbs /\ "dev" \in Dbs
  BY <1>i, <1>u, Types DEF Runs
<1>1. /\ n \in Content /\ n # Missing /\ n \in Int /\ file["chatroom"] \in Int
      /\ file["dev"] <= file["chatroom"] => n <= file["chatroom"]
  BY <1>t, BackupAssumption DEF Content, Missing
<1> HIDE DEF n
<1>2. /\ file' \in [Dbs -> Content] /\ file'["dev"] = n
      /\ \A db \in Dbs : db # "dev" => file'[db] = file[db]
  BY <1>1, <1>i, <1>t, <1>u DEF BackupTypeOK
<1>3. \A db \in Dbs : file'[db] # Missing
  BY <1>1, <1>2, <1>i, <1>u DEF Runs
<1>4. /\ file["chatroom"] <= file'["chatroom"]
      /\ file["dev"] <= file["chatroom"] => file'["dev"] <= file'["chatroom"]
  BY <1>1, <1>2, <1>t
<1> QED
  BY <1>2, <1>3, <1>4, <1>u, WriteStep

\* The process ends, and its backups and its restore with it.
LEMMA StopStep ==
    ASSUME BackupInv, stop
    PROVE  BackupInv'
<1>i. /\ BackupTypeOK /\ LatestNamesASnapshot
      /\ \A w \in Who : Fetched(w)
  BY DEF BackupInv
<1>u. /\ UNCHANGED <<file, worktree, object, latest, day, backups>>
      /\ serve' = "down" /\ request' = [r \in Requests |-> Resting]
      /\ restorer' = [restorer EXCEPT !["serve"] = Resting]
      /\ odd' = odd \cup {"stopped" : r \in {r \in Requests : request[r].pc # "rest"}}
      /\ faults' \in 0..MaxFaults
  BY <1>i, BackupAssumption DEF stop, bucketVars, restores, fault, BackupTypeOK
<1>1. /\ Resting \in Copying(RestorePcs) /\ Resting \in Copying(BackupPcs)
      /\ Resting.pc = "rest" /\ ~Active(Resting)
  BY RestingFacts
<1>2. /\ restorer' \in [Who -> Copying(RestorePcs)] /\ restorer'["serve"] = Resting
      /\ \A v \in Who : v # "serve" => restorer'[v] = restorer[v]
  <2>1. "serve" \in Who
    BY DEF Who
  <2> QED
    BY <1>1, <1>i, <1>u, <2>1, RestorerUpdate
<1>3. /\ request' \in [Requests -> Copying(BackupPcs)]
      /\ \A q \in Requests : request'[q] = Resting
  BY <1>1, <1>u
<1>4. BackupTypeOK'
  <2>1. odd' \subseteq {"overlap", "stopped", "partial", "race"}
    BY <1>i, <1>u DEF BackupTypeOK
  <2> QED
    BY <1>2, <1>3, <1>i, <1>u, <2>1 DEF BackupTypeOK, BackupPcs, RestorePcs, Who
<1>5. Runs' /\ Back' /\ LatestNamesASnapshot'
  BY <1>1, <1>2, <1>i, <1>u DEF Runs, Back, LatestNamesASnapshot
<1>6. \A w \in Who : Fetched(w)'
  BY <1>1, <1>2, <1>i DEF Fetched
<1>7. \A q \in Requests : Backing(q)'
  BY <1>1, <1>3 DEF Backing, Active
<1>8. ASSUME "race" \notin odd' PROVE NoRace'
  <2>1. NoRace
    BY <1>8, <1>u DEF BackupInv
  <2>2. Alone' /\ Grown'
    BY <1>u, <2>1 DEF NoRace, Alone, Grown
  <2>3. \A w \in Who : Current(w)'
    BY <1>1, <1>2, <1>u, <2>1 DEF NoRace, Current
  <2>4. \A q \in Requests : Growing(q)'
    BY <1>1, <1>3 DEF Growing
  <2> QED
    BY <2>2, <2>3, <2>4 DEF NoRace
<1>9. ASSUME odd' = {} PROVE NothingOdd'
  <2>1. InStep /\ Behind /\ \A q \in Requests : ~Active(request[q])
    BY <1>9, <1>u DEF BackupInv, NothingOdd, Active
  <2>2. OneAtATime'
    BY <1>1, <1>3 DEF OneAtATime
  <2>3. InStep' /\ Behind'
    BY <1>u, <2>1 DEF InStep, Behind
  <2>4. \A q \in Requests : DevFirst(q)'
    BY <1>1, <1>3 DEF DevFirst, Active
  <2> QED
    BY <2>2, <2>3, <2>4 DEF NothingOdd
<1> QED
  BY <1>4, <1>5, <1>6, <1>7, <1>8, <1>9 DEF BackupInv

\* Files are lost: nothing runs but a restore by hand.
LEMMA LoseStep ==
    ASSUME BackupInv, lose
    PROVE  BackupInv'
<1>i. /\ BackupTypeOK /\ Runs /\ LatestNamesASnapshot
      /\ \A q \in Requests : Backing(q)
      /\ \A w \in Who : Fetched(w)
  BY DEF BackupInv
<1>u. /\ UNCHANGED <<serve, object, latest, day, request, restorer, backups>>
      /\ serve = "down" /\ worktree' \in BOOLEAN /\ faults' \in 0..MaxFaults
  <2>1. worktree \in BOOLEAN /\ worktree' \in {worktree, FALSE}
    BY <1>i DEF lose, BackupTypeOK
  <2>2. worktree' \in BOOLEAN
    BY <2>1, Zenon
  <2>3. faults' \in 0..MaxFaults
    BY <1>i, BackupAssumption DEF lose, fault, BackupTypeOK
  <2> QED
    BY <2>2, <2>3 DEF lose, bucketVars
<1> PICK lost \in SUBSET Dbs :
        /\ file' = [db \in Dbs |-> IF db \in lost THEN Missing ELSE file[db]]
        /\ odd' = odd \cup (IF lost = Dbs THEN {} ELSE {"partial"})
  BY DEF lose
<1>f. /\ file' \in [Dbs -> Content]
      /\ \A db \in Dbs : file'[db] = IF db \in lost THEN Missing ELSE file[db]
  <2>1. Missing \in Content
    BY BackupAssumption DEF Missing, Content
  <2>2. \A db \in Dbs : file[db] \in Content
    BY <1>i, Types
  <2> QED
    BY <2>1, <2>2
<1>q. \A q \in Requests : ~Active(request[q])
  BY <1>i, <1>u, NoBackup
<1>d. "chatroom" \in Dbs /\ "dev" \in Dbs
  BY TheDatabases
<1>1. BackupTypeOK'
  BY <1>f, <1>i, <1>u DEF BackupTypeOK
<1>2. Runs' /\ Back' /\ LatestNamesASnapshot' /\ \A w \in Who : Fetched(w)'
  BY <1>i, <1>u DEF Runs, Back, LatestNamesASnapshot, Fetched
<1>3. \A q \in Requests : Backing(q)'
  BY <1>q, <1>u DEF Backing, Active
<1>4. ASSUME "race" \notin odd' PROVE NoRace'
  <2>1. NoRace
    BY <1>4 DEF BackupInv
  <2>2. Alone' /\ Grown'
    BY <1>d, <1>f, <1>u, <2>1 DEF NoRace, Alone, Grown
  <2>3. ASSUME NEW w \in Who PROVE Current(w)'
    <3>1. Current(w) /\ at(restorer[w]) \in Dbs
      BY <1>i, <2>1, Types, AtFacts DEF NoRace
    <3> QED
      BY <1>f, <1>u, <3>1 DEF Current
  <2>4. \A q \in Requests : Growing(q)'
    BY <1>q, <1>u DEF Growing, Active
  <2> QED
    BY <2>2, <2>3, <2>4 DEF NoRace
<1>5. ASSUME odd' = {} PROVE NothingOdd'
  <2>1. OneAtATime /\ InStep /\ lost = Dbs
    BY <1>5 DEF BackupInv, NothingOdd
  <2>2. Behind'
    BY <1>d, <1>f, <2>1 DEF Behind
  <2>3. OneAtATime' /\ InStep'
    BY <1>u, <2>1 DEF OneAtATime, InStep
  <2>4. \A q \in Requests : DevFirst(q)'
    BY <1>q, <1>u DEF DevFirst, Active
  <2> QED
    BY <2>2, <2>3, <2>4 DEF NothingOdd
<1> QED
  BY <1>1, <1>2, <1>3, <1>4, <1>5 DEF BackupInv

\* Nothing changes but the day.
LEMMA QuietStep ==
    ASSUME BackupInv, tomorrow \/ UNCHANGED backupVars
    PROVE  BackupInv'
<1>u. /\ UNCHANGED <<serve, file, worktree, object, latest, request, restorer, odd, backups, faults>>
      /\ day' \in Days
  BY BackupAssumption DEF tomorrow, backupVars, bucketVars, counts, BackupInv, BackupTypeOK, Days
<1>1. BackupTypeOK'
  BY <1>u DEF BackupInv, BackupTypeOK
<1>2. /\ Runs' /\ Back' /\ LatestNamesASnapshot'
      /\ \A q \in Requests : Backing(q)'
      /\ \A w \in Who : Fetched(w)'
  BY <1>u DEF BackupInv, Runs, Back, reached, LatestNamesASnapshot, Backing, Fetched
<1>3. "race" \notin odd' => NoRace'
  BY <1>u DEF BackupInv, NoRace, Alone, Grown, Current, Growing
<1>4. odd' = {} => NothingOdd'
  BY <1>u DEF BackupInv, NothingOdd, OneAtATime, InStep, Behind, DevFirst
<1> QED
  BY <1>1, <1>2, <1>3, <1>4 DEF BackupInv

-----------------------------------------------------------------------------
(* The theorems *)

\* The first start of all.
LEMMA BackupInitStep ==
    ASSUME BackupInit PROVE BackupInv
<1>1. /\ \A q \in Requests : request[q] = Resting
      /\ \A w \in Who : restorer[w] = Resting
      /\ \A db \in Dbs : file[db] = Missing /\ latest[db] = 0
      /\ serve = "down" /\ odd = {}
  BY DEF BackupInit, Who
<1>2. /\ Resting \in Copying(RestorePcs) /\ Resting \in Copying(BackupPcs)
      /\ Resting.pc = "rest" /\ ~Active(Resting)
  BY RestingFacts
<1>d. "chatroom" \in Dbs /\ "dev" \in Dbs /\ "serve" \in Who /\ "hand" \in Who
  BY TheDatabases DEF Who
<1>3. BackupTypeOK
  <2>1. Missing \in Content /\ 0 \in 0..MaxDays /\ 1 \in Days
    BY BackupAssumption DEF Missing, Content, Days
  <2>2. 0 \in 0..MaxBackups /\ 0 \in 0..MaxFaults
    BY BackupAssumption
  <2> QED
    BY <1>2, <2>1, <2>2 DEF BackupInit, BackupTypeOK, BackupPcs, RestorePcs
<1>4. /\ Runs /\ Back /\ LatestNamesASnapshot
      /\ \A r \in Requests : Backing(r)
      /\ \A w \in Who : Fetched(w)
  BY <1>1, <1>2, <1>d DEF Runs, Back, LatestNamesASnapshot, Backing, Fetched, Active
<1>5. NoRace
  BY <1>1, <1>2, <1>d DEF NoRace, Alone, Grown, Current, Growing, Active
<1>6. NothingOdd
  BY <1>1, <1>2, <1>d DEF NothingOdd, OneAtATime, InStep, Behind, DevFirst, Active
<1> QED
  BY <1>3, <1>4, <1>5, <1>6 DEF BackupInv

\* Every step keeps the invariant.
LEMMA BackupInductive ==
    ASSUME BackupInv, [BackupNext]_backupVars
    PROVE  BackupInv'
<1>1. CASE \E r \in Requests : backup(r) \/ snapshot(r) \/ put(r) \/ backupFails(r)
  BY <1>1, BackupStep, SnapshotStep, PutObjectStep, PutLatestStep, BackupFailsStep DEF put
<1>2. CASE \E w \in Who : begin(w) \/ stat(w) \/ get(w) \/ rename(w) \/ restoreFails(w)
  BY <1>2, BeginStep, StatStep, GetStep, RenameStep, RestoreFailsStep
<1>3. CASE open \/ post \/ devReads \/ stop \/ lose
  BY <1>3, OpenStep, PostStep, DevReadsStep, StopStep, LoseStep
<1>4. CASE tomorrow \/ UNCHANGED backupVars
  BY <1>4, QuietStep
<1> QED
  BY <1>1, <1>2, <1>3, <1>4 DEF BackupNext, Who

\* The invariant holds in every state garage serve, its backups and its restores reach.
THEOREM BackupInvariance == BackupSpec => []BackupInv
  BY BackupInitStep, BackupInductive, PTL DEF BackupSpec

\* The databases, the snapshots, the backups and the restores keep their types.
THEOREM BackupTypes == BackupSpec => []BackupTypeOK
<1>1. BackupInv => BackupTypeOK
  BY DEF BackupInv
<1> QED
  BY <1>1, BackupInvariance, PTL

\* What latest names is in the bucket, with any number of backups at once, whichever
\* of them stopped: Backup puts the snapshot before it names it.
THEOREM LatestIsThere == BackupSpec => []LatestNamesASnapshot
<1>1. BackupInv => LatestNamesASnapshot
  BY DEF BackupInv
<1> QED
  BY <1>1, BackupInvariance, PTL

\* dev has read no further than the chatroom goes, however often the databases are
\* lost and brought back: databases' order copies dev first.
THEOREM DevHears == BackupSpec => []DevIsNotDeaf
<1>1. ASSUME BackupInv PROVE DevIsNotDeaf
  <2>1. ASSUME serve = "up", odd = {} PROVE file["dev"] <= file["chatroom"]
    <3>1. Behind /\ file["dev"] # Missing /\ file["chatroom"] # Missing
      BY <1>1, <2>1, TheDatabases DEF BackupInv, NothingOdd, Runs
    <3> QED
      BY <3>1 DEF Behind
  <2> QED
    BY <2>1 DEF DevIsNotDeaf
<1> QED
  BY <1>1, BackupInvariance, PTL

\* A garage that runs has the messages of its latest snapshot: Restore ends runServe
\* when it cannot have it.
THEOREM NothingIsStartedAfresh == BackupSpec => []NoFreshStart
<1>1. ASSUME BackupInv PROVE NoFreshStart
  <2>1. ASSUME serve = "up", "race" \notin odd, latest["chatroom"] # 0
        PROVE  file["chatroom"] >= object["chatroom"][latest["chatroom"]]
    <3>1. /\ Grown /\ file["chatroom"] # Missing
          /\ file["chatroom"] \in Int /\ object["chatroom"][latest["chatroom"]] \in Int
      BY <1>1, <2>1, Types DEF BackupInv, NoRace, Runs
    <3> QED
      BY <2>1, <3>1 DEF Grown
  <2> QED
    BY <2>1 DEF NoFreshStart
<1> QED
  BY <1>1, BackupInvariance, PTL

=============================================================================
