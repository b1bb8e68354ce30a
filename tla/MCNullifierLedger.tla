------------------------- MODULE MCNullifierLedger -------------------------
(* Small instances of the redemption ledger for TLC. *)
EXTENDS NullifierLedger, TLC

CONSTANTS r1, r2, r3, k1, k2, k3

\* Two attempts on one pass race and retry, a third redeems another pass.
MCRequests == {r1, r2, r3}
MCKeys == {k1, k2, k3}
MCKeyOf == (r1 :> k1) @@ (r2 :> k1) @@ (r3 :> k2)
\* A third pass was spent under an older release.
MCLegacy == {k3}

\* Every failing file operation with power loss, or with process kills and failing
\* directory syncs; and restarts with a changed key.
Failing == {"append", "rollback", "rename", "reopen"}
MCFaultSets ==
    {Failing \cup {"power"}, Failing \cup {"dirsync", "kill"}, {"kill", "rekey"}}
\* The directory sync of a rewrite fails, and the machine stops later.
MCUncertainMedia == {{"dirsync", "power"}}
=============================================================================
