--------------------------- MODULE MCSandboxManager ---------------------------
(* Instances of SandboxManager for TLC. *)
EXTENDS SandboxManager, TLC

\* Names, callers and entry identities are interchangeable in every safety
\* property.
Symmetry == Permutations(Names) \cup Permutations(Callers) \cup Permutations(Entries)

CONSTANT Runner  \* the caller that runs commands, where the callers have roles

\* One caller opens sandboxes and runs commands, and never closes a handle; the
\* others hold none, and destroy and reconcile.  This keeps an instance small enough
\* for liveness in which two callers still contend for adoptMu and for an entry.
Roles ==
    \A c \in Callers :
        /\ c = Runner => /\ caller'[c].op \in {"none", "exec"}
                         /\ caller[c].handle # None => caller'[c].handle # None
        /\ c # Runner => caller'[c].op # "exec" /\ caller'[c].handle = None

RolesSpec == Init /\ [][Next /\ Roles]_vars /\ Fairness
=============================================================================
