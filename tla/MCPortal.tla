------------------------------ MODULE MCPortal ------------------------------
(***************************************************************************)
(* A small instance of what the Portal keeps on disk: its file store, and  *)
(* the durable single-use sets of nil-core that its checkout bindings and  *)
(* payment references are kept in.  The two share no state, so a behaviour *)
(* exercises one of them, whichever moves first.                           *)
(***************************************************************************)
EXTENDS PortalStore, TLC

CONSTANTS i1, i2, i3, p1, a1, a2, a3, f1, f2, blindA, blindB, k1, k2, k3

\* One payment: an attempt, its retry, and an attempt with another message.
MCIssues == {i1, i2, i3}
MCPayments == {p1}
MCPaymentOf == [i \in MCIssues |-> p1]
MCMessageOf == (i1 :> blindA) @@ (i2 :> blindA) @@ (i3 :> blindB)
\* The activations of two references, one of them retried.
MCActivations == {a1, a2, a3}
MCReferences == {f1, f2}
MCReferenceOf == (a1 :> f1) @@ (a2 :> f1) @@ (a3 :> f2)

Failing == {"write", "dirsync", "rekey"}
MCScenarios ==
    {[faults |-> Failing \cup {stop}, requests |-> jobs] :
        stop \in {"power", "kill"}, jobs \in {MCIssues, {i1} \cup MCActivations}}

-----------------------------------------------------------------------------
VARIABLES setProc, seen, handle, image, doing, entry, keep, setAnswer, grants

setVars == <<setProc, seen, handle, image, doing, entry, keep, setAnswer, grants>>

\* Three keys for a set of two; a compaction keeps any set of the two tags, as
\* prune_older_than and drop_epochs between them may.
Sets == INSTANCE DurableSet WITH
            Keys <- {k1, k2, k3}, Tags <- {1, 2}, Retentions <- SUBSET {1, 2},
            Capacity <- 2,
            Faults <- {"write", "fsync", "temp", "dirsync", "kill", "power"},
            proc <- setProc, answer <- setAnswer

ASSUME SetConstants == Sets!SetAssumption

PortalInit == Init /\ Sets!Init
PortalNext ==
    \/ Sets!Init /\ Next /\ UNCHANGED setVars
    \/ Init /\ Sets!Next /\ UNCHANGED vars
PortalSpec == PortalInit /\ [][PortalNext]_<<vars, setVars>>

\* insert, drop_epochs and prune_older_than: a key is reported as new at most once
\* until a compaction drops it; memory, file and medium agree; an accepted key is in
\* everything a crash can leave, within capacity, and only a torn last record stops a
\* restart.
SetInv == Sets!SetInv
=============================================================================
