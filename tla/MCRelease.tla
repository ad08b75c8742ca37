------------------------------- MODULE MCRelease -------------------------------
(* The instance of Release.  The last move of the pointer, which the run has so *)
(* that a release comes back between two calls that read it, only repeats what  *)
(* the pointer held all along, and so do the calls begun before it: no other    *)
(* could move the pointer any more.                                             *)
EXTENDS Release

LastRepeats ==
    /\ pointer'.ver = MaxMoves => \A v \in 1..MaxMoves : pointer'.past[v] = pointer'.past[1]
    /\ pointer.ver >= MaxMoves - 1 =>
          \A p \in Publishers :
             pub[p].pc = "rest" /\ pub'[p].pc # "rest" => pub'[p].sha = pointer.past[1]

FairSpec == ReleaseSpec /\ Fairness
=============================================================================
