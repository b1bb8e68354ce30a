---------------------------- MODULE PortalStore ----------------------------
(***************************************************************************)
(* The Portal's FileStore under its two paid operations: one-shot token    *)
(* issuance (issue_logic) and subscription activation (activate).          *)
(*                                                                         *)
(* The store keeps one snapshot of everything.  Every change is made in    *)
(* memory under the write lock and persisted before the lock is released:  *)
(* temporary file, fsync, rename, fsync of the directory.  A failure       *)
(* before the rename rolls memory back; a failure after it keeps memory    *)
(* and marks the store uncertain, and every operation first has to sync    *)
(* the directory (ensure_durable).                                         *)
(***************************************************************************)
EXTENDS Integers, FileImage

CONSTANTS
    Issues,       \* POST /v1/tokens/issue attempts
    Payments,     \* checkout references a payment confirmed for
    PaymentOf,    \* the payment of each attempt
    MessageOf,    \* the blinded message of each attempt
    Activations,  \* POST /v1/billing/activate attempts of one account
    References,   \* subscription references bound to the account
    ReferenceOf,  \* the reference of each attempt
    ResultTtl,    \* ISSUANCE_RESULT_TTL_SECS
    Period,       \* THIRTY_DAYS_SECS
    MaxClock,     \* bound on the wall clock
    Scenarios     \* what may be requested and what may fail together: see scenario

FaultKinds ==
    {"write",     \* building, writing, fsyncing or renaming the snapshot
     "dirsync",   \* fsync of the parent directory
     "rekey",     \* a restart with another result key
     "kill",      \* the process stops, the page cache survives
     "power"}     \* the machine stops

Jobs == Issues \cup Activations

ASSUME StoreAssumption ==
    /\ PaymentOf \in [Issues -> Payments]
    /\ DOMAIN MessageOf = Issues
    /\ ReferenceOf \in [Activations -> References]
    /\ ResultTtl \in Nat \ {0} /\ Period \in Nat \ {0} /\ MaxClock \in Nat \ {0}
    /\ \A s \in Scenarios : s.faults \subseteq FaultKinds /\ s.requests \subseteq Jobs
    /\ Issues \cap Activations = {}
    /\ (Issues \cup Activations) \cap
       {"none", "nobody", "free", "pruner", "spent", "unavailable", "rejected", "lost", "legacy"} = {}

VARIABLES
    clock,      \* wall clock; the Portal refuses to activate at 0
    proc,       \* "down", "starting" (before the startup prune) or "up"
    mem,        \* FileState
    disk,       \* the snapshot file
    uncertain,  \* durability_uncertain: "no" or "yes"
    lock,       \* who holds the write lock between rename and directory sync
    pc,         \* per job: "idle", "missing" (looked up, nothing found) or "done"
    at,         \* per issue attempt: the clock it read
    answer,     \* per job: what it was told
    told,       \* per activation: the expiry in its answer (0: none)
    owner,      \* history: the attempt whose signature a payment bought
    scenario    \* rigid: the failures and the requests of this behaviour

Faults == scenario.faults

files == <<mem, disk, uncertain>>
job == <<pc, at, answer, told>>
vars == <<clock, proc, files, lock, job, owner, scenario>>

\* IssuanceResult; `sig` tells whether the signature is still kept.
NoClaim == [by |-> "nobody", sig |-> "none", until |-> 0]
\* The result an attempt proposes.
Claim(j) == [by |-> j, sig |-> "kept", until |-> at[j] + ResultTtl]

\* The snapshot: issuance results, activation results (0: none) and the expiry
\* of the account's entitlement (0: never active).
Empty == [claims |-> [p \in Payments |-> NoClaim],
          paid   |-> [f \in References |-> 0],
          until  |-> 0]

Init ==
    /\ scenario \in Scenarios
    /\ clock = 1
    /\ proc = "up"
    /\ mem = Empty
    /\ disk = Settled(Empty)
    /\ uncertain = "no"
    /\ lock = "free"
    /\ pc = [j \in Jobs |-> "idle"]
    /\ at = [j \in Issues |-> 0]
    /\ answer = [j \in Jobs |-> "none"]
    /\ told = [j \in Activations |-> 0]
    /\ owner = [p \in Payments |-> "nobody"]

Told(j, a) ==
    /\ answer' = [answer EXCEPT ![j] = a]
    /\ pc' = [pc EXCEPT ![j] = "done"]

\* The answer to an activation carries the expiry its reference bought.
Granted(j) ==
    /\ Told(j, "active")
    /\ told' = [told EXCEPT ![j] = mem.paid[ReferenceOf[j]]]

\* The write lock is free and the last rename is known to be durable.
Usable == proc = "up" /\ lock = "free" /\ uncertain = "no"

-----------------------------------------------------------------------------
(* persist, ensure_durable *)

\* Claims in a durable snapshot own their payment from now on.
Discovered(content) ==
    [p \in Payments |-> IF owner[p] = "nobody" THEN content.claims[p].by ELSE owner[p]]

\* write_snapshot_and_rename went through; the directory is not synced yet.
Rename(content, holder) ==
    /\ mem' = content
    /\ disk' = Replaced(disk, content)
    /\ uncertain' = "yes"
    /\ lock' = holder

\* A failed write rolls the change to `content` back.
RollBack(content) == mem' = mem

\* persist failed before the rename.
WriteFails(content) ==
    /\ "write" \in Faults
    /\ RollBack(content)
    /\ UNCHANGED <<disk, uncertain, lock>>

\* (Mutant: an operation trusts memory without syncing the directory.)
EnsureDurableUnsynced ==
    /\ proc = "up" /\ lock = "free" /\ uncertain = "yes"
    /\ uncertain' = "no"
    /\ owner' = Discovered(mem)
    /\ UNCHANGED <<clock, proc, mem, disk, lock, job>>

\* ensure_durable of whichever operation comes next, when the sync succeeds.
EnsureDurable ==
    /\ proc = "up" /\ lock = "free" /\ uncertain = "yes"
    /\ disk' = NameSynced(disk)
    /\ uncertain' = "no"
    /\ owner' = Discovered(mem)
    /\ UNCHANGED <<clock, proc, mem, lock, job>>

\* ensure_durable of job j when the sync fails again.
RefuseUncertain(j) ==
    /\ proc = "up" /\ lock = "free" /\ uncertain = "yes" /\ pc[j] # "done"
    /\ "dirsync" \in Faults
    /\ Told(j, "unavailable")
    /\ UNCHANGED <<clock, proc, files, lock, at, told, owner>>

-----------------------------------------------------------------------------
(* One-shot issuance: issue_logic over lookup_issuance and commit_issuance *)

\* A claim answers an attempt with its signature for the same blinded message
\* while it is replayable, and with a conflict otherwise.
Replayable(claim, j) ==
    claim.by # "nobody" /\ MessageOf[claim.by] = MessageOf[j]
    /\ claim.until > at'[j] /\ claim.sig = "kept"

AnswerFrom(claim, j) == Told(j, IF Replayable(claim, j) THEN claim.by ELSE "spent")

Lookup(j) ==
    /\ Usable /\ pc[j] = "idle"
    /\ at' = [at EXCEPT ![j] = clock]
    /\ LET claim == mem.claims[PaymentOf[j]] IN
       IF claim.by # "nobody" THEN AnswerFrom(claim, j)
       ELSE \/ pc' = [pc EXCEPT ![j] = "missing"] /\ UNCHANGED answer
            \/ Told(j, "rejected")   \* unknown reference, unpaid, or the signer failed
    /\ UNCHANGED <<clock, proc, files, lock, told, owner>>

\* (Mutant: the second of two concurrent commits overwrites the first.)
CommitOver(j) ==
    /\ Usable /\ pc[j] = "missing"
    /\ LET next == [mem EXCEPT !.claims[PaymentOf[j]] = Claim(j)]
       IN  Rename(next, j) /\ UNCHANGED <<pc, answer>>
    /\ UNCHANGED <<clock, proc, at, told, owner>>

\* commit_issuance up to the rename.
Commit(j) ==
    /\ Usable /\ pc[j] = "missing"
    /\ at' = at
    /\ LET claim == mem.claims[PaymentOf[j]]
           next  == [mem EXCEPT !.claims[PaymentOf[j]] = Claim(j)] IN
       \/ claim.by # "nobody" /\ AnswerFrom(claim, j) /\ UNCHANGED <<files, lock>>
       \/ claim.by = "nobody" /\ Rename(next, j) /\ UNCHANGED <<pc, answer>>
       \/ claim.by = "nobody" /\ WriteFails(next) /\ Told(j, "unavailable")
    /\ UNCHANGED <<clock, proc, told, owner>>

-----------------------------------------------------------------------------
(* Subscription activation: activate over activate_subscription *)

\* The account's snapshot after reference f extends it at `now`.
Extended(content, f, now) ==
    LET base  == IF content.until > now THEN content.until ELSE now
    IN  [content EXCEPT !.paid[f] = base + Period, !.until = base + Period]

Activate(j) ==
    /\ Usable /\ pc[j] = "idle"
    /\ LET f    == ReferenceOf[j]
           next == Extended(mem, f, clock) IN
       \* not bound to the account, or not confirmed
       \/ Told(j, "rejected") /\ UNCHANGED <<files, lock, told>>
       \/ mem.paid[f] # 0 /\ Granted(j) /\ UNCHANGED <<files, lock>>
       \/ mem.paid[f] = 0 /\ Rename(next, j) /\ UNCHANGED <<pc, answer, told>>
       \/ mem.paid[f] = 0 /\ WriteFails(next) /\ Told(j, "unavailable") /\ UNCHANGED told
    /\ UNCHANGED <<clock, proc, at, owner>>

-----------------------------------------------------------------------------
(* The directory sync that ends persist *)

\* The holder of the lock is answered; the pruner only logs.
Succeeds ==
    CASE lock \in Issues      -> Told(lock, lock) /\ UNCHANGED told
      [] lock \in Activations -> Granted(lock)
      [] OTHER                -> UNCHANGED <<pc, answer, told>>

Fails ==
    /\ IF lock = "pruner" THEN UNCHANGED <<pc, answer>> ELSE Told(lock, "unavailable")
    /\ UNCHANGED told

DirSyncFails ==
    /\ lock # "free" /\ "dirsync" \in Faults
    /\ lock' = "free" /\ proc' = "up"
    /\ Fails
    /\ UNCHANGED <<clock, files, at, owner>>

DirSync ==
    /\ lock # "free"
    /\ lock' = "free" /\ proc' = "up"
    /\ disk' = NameSynced(disk)
    /\ uncertain' = "no"
    /\ owner' = Discovered(mem)
    /\ Succeeds
    /\ UNCHANGED <<clock, mem, at>>

-----------------------------------------------------------------------------
(* prune_issuance_results, restarts, time *)

\* (Mutant: an expired claim is deleted with its signature.)
ScrubbedAway(content, now) ==
    [content EXCEPT !.claims = [p \in Payments |->
        IF @[p].by # "nobody" /\ @[p].until <= now THEN NoClaim ELSE @[p]]]

Scrubbed(content, now) ==
    [content EXCEPT !.claims = [p \in Payments |->
        IF @[p].by # "nobody" /\ @[p].until <= now THEN [@[p] EXCEPT !.sig = "none"] ELSE @[p]]]

\* The prune at startup, and every five minutes from then on.
Prune ==
    /\ proc # "down" /\ lock = "free" /\ uncertain = "no"
    /\ LET next == Scrubbed(mem, clock) IN
       \/ next = mem /\ proc = "starting" /\ proc' = "up" /\ UNCHANGED <<files, lock>>
       \/ next # mem /\ Rename(next, "pruner") /\ UNCHANGED proc
       \/ next # mem /\ WriteFails(next) /\ proc' = "up"
    /\ UNCHANGED <<clock, job, owner>>

\* A snapshot sealed under another key keeps its claims without their signatures.
Unsealed(content) ==
    [content EXCEPT !.claims = [p \in Payments |-> [@[p] EXCEPT !.sig = "none"]]]

Open ==
    /\ proc = "down"
    /\ proc' = "starting"
    /\ \E content \in {disk.cached} \cup (IF "rekey" \in Faults THEN {Unsealed(disk.cached)} ELSE {}) :
         mem' = content /\ owner' = Discovered(content)
    /\ uncertain' = "no"
    /\ UNCHANGED <<clock, disk, lock, job>>

\* The process stops: requests in flight are never answered.
Halt ==
    /\ proc # "down"
    /\ \/ "kill" \in Faults /\ UNCHANGED disk
       \/ "power" \in Faults /\ \E content \in Survivors(disk) : disk' = Settled(content)
    /\ proc' = "down" /\ lock' = "free"
    /\ answer' = [j \in Jobs |-> IF pc[j] = "missing" \/ lock = j THEN "lost" ELSE answer[j]]
    /\ pc' = [j \in Jobs |-> IF pc[j] = "missing" \/ lock = j THEN "done" ELSE pc[j]]
    /\ mem' = Empty /\ uncertain' = "no"
    /\ UNCHANGED <<clock, at, told, owner>>

Tick ==
    /\ clock < MaxClock
    /\ clock' = clock + 1
    /\ UNCHANGED <<proc, files, lock, job, owner>>

Step ==
    \/ EnsureDurable \/ DirSync \/ DirSyncFails \/ Prune \/ Open \/ Halt \/ Tick
    \/ \E j \in scenario.requests : RefuseUncertain(j)
    \/ \E j \in Issues \cap scenario.requests : Lookup(j) \/ Commit(j)
    \/ \E j \in Activations \cap scenario.requests : Activate(j)
Next == Step /\ UNCHANGED scenario

Spec == Init /\ [][Next]_vars

-----------------------------------------------------------------------------
Refusals == {"spent", "unavailable", "rejected", "lost"}
Expiries == 0..(MaxClock + ResultTtl)

ClaimType == [by : Issues \cup {"nobody"}, sig : {"none", "kept"}, until : Expiries]
ContentType == [claims : [Payments -> ClaimType], paid : [References -> Nat], until : Nat]

\* Type invariant.
TypeOK ==
    /\ clock \in 1..MaxClock
    /\ proc \in {"down", "starting", "up"}
    /\ mem \in ContentType
    /\ disk \in FileImages(ContentType)
    /\ uncertain \in {"no", "yes"}
    /\ lock \in Jobs \cup {"free", "pruner"}
    /\ pc \in [Jobs -> {"idle", "missing", "done"}]
    /\ at \in [Issues -> 0..MaxClock]
    /\ answer \in [Jobs -> Jobs \cup Refusals \cup {"none", "active"}]
    /\ told \in [Activations -> Nat]
    /\ owner \in [Payments -> Issues \cup {"nobody"}]
    /\ scenario \in Scenarios

\* One token per payment (issue_logic): every signature ever sent for a payment
\* is for the same blinded message, across retries, races, expiry and restarts.
OneTokenPerPayment ==
    \A i, j \in Issues :
        PaymentOf[i] = PaymentOf[j] /\ answer[i] \in Issues /\ answer[j] \in Issues
            => MessageOf[answer[i]] = MessageOf[answer[j]] /\ MessageOf[answer[i]] = MessageOf[i]

\* What the next process may find at the path: after a kill the page cache, after a
\* power loss any inode the name still leads to.
Recoverable == IF "kill" \in Faults THEN {disk.cached} ELSE Survivors(disk)

\* Machines fail one way per behaviour.  After a kill between rename and directory
\* sync the next process trusts the new snapshot without syncing the directory, so a
\* power loss after that may still take back what it answered.
OneKindOfStop == ~({"kill", "power"} \subseteq Faults)

\* Whatever a stop leaves at the path (persist, ensure_durable) still holds every
\* claim a signature was sent for and every expiry an activation was told.
AnsweredSurvives ==
    \A content \in Recoverable :
        /\ \A j \in Issues : answer[j] \in Issues => content.claims[PaymentOf[j]].by = answer[j]
        /\ \A j \in Activations : told[j] # 0 => content.paid[ReferenceOf[j]] = told[j]

\* Each paid reference bought a whole period of its own, and the account is active
\* until the last of them ends.
PeriodsApart(content) ==
    /\ \A f \in References : content.paid[f] <= content.until
    /\ content.until # 0 => \E f \in References : content.paid[f] = content.until
    /\ \A f, g \in References : f # g /\ content.paid[f] # 0 /\ content.paid[g] # 0
          => content.paid[f] - content.paid[g] \notin (1 - Period)..(Period - 1)

\* activate_subscription claims the payment and extends the entitlement together,
\* in memory and in everything on disk.
EachPaymentItsPeriod == \A content \in Survivors(disk) \cup {mem} : PeriodsApart(content)

\* Each claim is of an attempt at the payment it is filed under.
ClaimsFiled(content) ==
    \A p \in Payments : content.claims[p].by # "nobody" => PaymentOf[content.claims[p].by] = p

\* Between operations memory is the snapshot at the path, signatures that could
\* not be opened apart: a failed write was undone, a completed rename was kept.
MemoryIsSnapshot ==
    proc # "down" => mem \in {disk.cached, Unsealed(disk.cached)}

\* Once a signature was sent or an expiry told, the running process still holds
\* that claim and that expiry: a retry is a replay or a conflict, never a second
\* token or a second extension (commit_issuance, activate_subscription).
AnsweredRemembered ==
    proc = "up" =>
        /\ \A j \in Issues : answer[j] \in Issues => mem.claims[PaymentOf[j]].by = answer[j]
        /\ \A j \in Activations : told[j] # 0 => mem.paid[ReferenceOf[j]] = told[j]

\* Who may be in the middle of what: only the holder of the lock waits for a sync,
\* it has not been answered, and a process that is down holds nothing.
LockDiscipline ==
    /\ lock # "free" => uncertain = "yes" /\ proc # "down"
    /\ proc = "down" => uncertain = "no"
    /\ lock \in Jobs => pc[lock] # "done"
    /\ \A j \in Jobs : pc[j] # "done" => answer[j] = "none"
    /\ disk.synced = disk.cached
    /\ uncertain = "no" /\ "kill" \notin Faults => disk.stale = {}

\* The owner of a payment is in every recoverable snapshot; while nothing is
\* uncertain the store knows exactly the owners, and under the lock exactly one
\* claim more, the holder's.
OwnersKnown ==
    /\ \A content \in Recoverable, p \in Payments :
          owner[p] # "nobody" => content.claims[p].by = owner[p]
    /\ proc # "down" /\ uncertain = "no" => \A p \in Payments : mem.claims[p].by = owner[p]
    /\ lock # "free" => \A p \in Payments :
          mem.claims[p].by =
              IF lock \in Issues /\ PaymentOf[lock] = p THEN lock ELSE owner[p]
    /\ lock \in Issues => owner[PaymentOf[lock]] = "nobody"

\* A signature is sent only to attempts with its message, and is the owner's.
OwnersAnswer ==
    \A j \in Issues : answer[j] \in Issues =>
        owner[PaymentOf[j]] = answer[j] /\ MessageOf[answer[j]] = MessageOf[j]

\* FileStore between operations: memory, snapshot and what callers were told agree,
\* also after a stop, and payments are claimed and credited together.
StoreInv ==
    /\ TypeOK /\ LockDiscipline /\ MemoryIsSnapshot /\ OwnersKnown /\ OwnersAnswer
    /\ AnsweredRemembered /\ AnsweredSurvives /\ EachPaymentItsPeriod
    /\ \A content \in Survivors(disk) \cup {mem} : ClaimsFiled(content)

Ledger == INSTANCE RedemptionLedger WITH
              Requests <- Issues, Keys <- Payments, KeyOf <- PaymentOf,
              answer <- [j \in Issues |-> answer[j]]
\* One-shot issuance keeps the same promise as the redemption ledger: a payment
\* has one owner, and only the owner's signature is ever answered.
KeepsPromise == Ledger!LedgerSpec
=============================================================================
