-------------------------- MODULE NullifierLedger --------------------------
(***************************************************************************)
(* The Coordinator's crash-safe redemption ledger: FileNullifierStore of   *)
(* nil-coordinator, driven by concurrent /v1/redeem requests, the 30 s     *)
(* sweeper that scrubs expired replay results, and restarts.               *)
(*                                                                         *)
(* One file line is one spent pass.  A line is either sealed (it carries   *)
(* the encrypted first response and its expiry) or spent-only.  The ledger *)
(* holds one lock around every file operation; the steps taken under the   *)
(* lock are separate actions here, because a process or power failure may  *)
(* come between any two of them.                                           *)
(***************************************************************************)
EXTENDS Integers, FileImage

CONSTANTS
    Requests,     \* redemption attempts; a client's retry is another request
    Keys,         \* passes (hex of the token message, the nullifier key)
    KeyOf,        \* the pass each request redeems
    LegacyKeys,   \* passes spent in the flat ledger of an older release
    GrantTtl,     \* replay_until = grant_now + grant_ttl
    CipherKeys,   \* redemption-result keys an operator may restart with
    MaxClock,     \* bound on the wall clock
    FaultSets     \* the combinations of failures and changes that may happen

FaultKinds ==
    {"append",    \* write or fsync of an appended line
     "rollback",  \* set_len or fsync after a failed append
     "rename",    \* building or renaming the rewritten file
     "reopen",    \* opening the append handle on the rewritten file
     "dirsync",   \* fsync of the parent directory
     "rekey",     \* a restart with another redemption-result key
     "kill",      \* the process stops, the page cache survives
     "power"}     \* the machine stops

ASSUME LedgerAssumption ==
    /\ KeyOf \in [Requests -> Keys]
    /\ LegacyKeys \subseteq Keys
    /\ GrantTtl \in Nat \ {0}
    /\ MaxClock \in Nat
    /\ CipherKeys # {}
    /\ FaultSets \subseteq SUBSET FaultKinds
    /\ Requests \cap {"nobody", "legacy", "none", "free", "sweeper", "opener",
                      "spent", "unavailable", "rejected", "lost"} = {}

VARIABLES
    clock,    \* wall clock, in seconds
    proc,     \* "down", "opening" (FileNullifierStore::open) or "up"
    cipher,   \* the redemption-result key of the running process
    mem,      \* FileInner.records
    handle,   \* FileInner.file: "open" or "none"
    disk,     \* the ledger file
    legacy,   \* passes in the flat ledger at its old path
    lock,     \* who is inside the mutex between two file operations
    pc,       \* per request
    at,       \* per request: grant_now
    answer,   \* per request: the response sent
    owner,    \* history: the request whose response a pass was first spent for
    faults    \* rigid: what may happen in this behaviour

vars == <<clock, proc, cipher, mem, handle, disk, legacy, lock, pc, at, answer, owner,
          faults>>
store == <<cipher, mem, handle, disk, legacy, owner>>

Holders == Requests \cup {"free", "sweeper", "opener"}
Refusals == {"spent", "unavailable", "rejected", "lost"}

\* Until when a response committed at `now` may be replayed.
ReplayUntil(now) == now + GrantTtl

\* StoredRecord; a key with no line reads as Absent.
Absent == [state |-> "absent", resp |-> "nobody", until |-> 0, key |-> "none"]
SpentOnly == [state |-> "spent", resp |-> "nobody", until |-> 0, key |-> "none"]
Sealed(r) == [state |-> "sealed", resp |-> r, until |-> ReplayUntil(at[r]), key |-> cipher]
Record == {Absent, SpentOnly} \cup
          [state : {"sealed"}, resp : Requests,
           until : 0..(MaxClock + GrantTtl), key : CipherKeys]
Content == [Keys -> Record]

\* (Mutant: an expired line is removed instead of scrubbed.)
ScrubbedAway(records, now) ==
    [k \in Keys |-> IF records[k].state = "sealed" /\ now >= records[k].until
                    THEN Absent ELSE records[k]]

\* Replay results past their expiry become spent-only markers.
Scrubbed(records, now) ==
    [k \in Keys |-> IF records[k].state = "sealed" /\ now >= records[k].until
                    THEN SpentOnly ELSE records[k]]

\* The flat ledger's passes are folded in as spent-only, never over an existing line.
Folded(records) ==
    [k \in Keys |-> IF k \in legacy /\ records[k].state = "absent"
                    THEN SpentOnly ELSE records[k]]

\* StoredRecord::live_ciphertext
Live(record, now) == record.state = "sealed" /\ now < record.until

Init ==
    /\ clock = 0
    /\ proc = "down"
    /\ cipher = CHOOSE key \in CipherKeys : TRUE
    /\ mem = [k \in Keys |-> Absent]
    /\ handle = "none"
    /\ disk = Settled([k \in Keys |-> Absent])
    /\ legacy = LegacyKeys
    /\ lock = "free"
    /\ pc = [r \in Requests |-> "idle"]
    /\ at = [r \in Requests |-> 0]
    /\ answer = [r \in Requests |-> "none"]
    /\ owner = [k \in Keys |-> IF k \in LegacyKeys THEN "legacy" ELSE "nobody"]
    /\ faults \in FaultSets

Reply(r, a) ==
    /\ pc' = [pc EXCEPT ![r] = "done"]
    /\ answer' = [answer EXCEPT ![r] = a]

-----------------------------------------------------------------------------
(* redeem_logic up to the ledger *)

\* Token checks, path selection and grant minting succeed; the clock is read once.
Propose(r) ==
    /\ proc = "up" /\ pc[r] = "idle"
    /\ pc' = [pc EXCEPT ![r] = "proposed"]
    /\ at' = [at EXCEPT ![r] = clock]
    /\ UNCHANGED <<clock, proc, store, lock, answer>>

\* Any early return of redeem_logic: nothing was spent.
Reject(r) ==
    /\ proc = "up" /\ pc[r] = "idle"
    /\ Reply(r, "rejected")
    /\ UNCHANGED <<clock, proc, store, lock, at>>

-----------------------------------------------------------------------------
(* FileNullifierStore::commit_or_replay, entered with the mutex free *)

Enter(r) == proc = "up" /\ pc[r] = "proposed" /\ lock = "free"

\* A live first response is replayed; one this process cannot decrypt stays spent.
Replay(r) ==
    LET record == mem[KeyOf[r]] IN
    /\ Enter(r) /\ Live(record, at[r])
    /\ Reply(r, IF record.key = cipher THEN record.resp ELSE "spent")
    /\ UNCHANGED <<clock, proc, store, lock, at>>

\* A spent-only marker.
RefuseSpent(r) ==
    /\ Enter(r) /\ mem[KeyOf[r]].state = "spent"
    /\ Reply(r, "spent")
    /\ UNCHANGED <<clock, proc, store, lock, at>>

\* rewrite_locked up to its directory sync.  The handle and the map follow the new
\* inode as soon as the rename is done.
Rename(who, records) ==
    /\ disk' = Replaced(disk, records)
    /\ mem' = records
    /\ \/ handle' = "open" /\ lock' = who
       \/ "reopen" \in faults /\ handle' = "none" /\ lock' = lock

\* An expired first response: scrub it, then refuse.
ScrubOne(r) ==
    /\ Enter(r)
    /\ mem[KeyOf[r]].state = "sealed" /\ ~Live(mem[KeyOf[r]], at[r])
    /\ \/ /\ Rename(r, [mem EXCEPT ![KeyOf[r]] = SpentOnly])
          /\ IF handle' = "open" THEN pc' = [pc EXCEPT ![r] = "syncing"] /\ UNCHANGED answer
                                 ELSE Reply(r, "unavailable")
          /\ UNCHANGED <<clock, proc, cipher, legacy, owner, at>>
       \/ /\ "rename" \in faults
          /\ Reply(r, "unavailable")
          /\ UNCHANGED <<clock, proc, store, lock, at>>

\* append_and_sync, up to the fsync: the line is in the page cache only.
Append(r) ==
    /\ Enter(r) /\ mem[KeyOf[r]].state = "absent" /\ handle = "open"
    /\ disk' = Written(disk, [disk.cached EXCEPT ![KeyOf[r]] = Sealed(r)])
    /\ lock' = r
    /\ pc' = [pc EXCEPT ![r] = "appended"]
    /\ UNCHANGED <<clock, proc, cipher, mem, handle, legacy, at, answer, owner>>

\* No append handle: fail closed.
RefuseNoHandle(r) ==
    /\ Enter(r) /\ mem[KeyOf[r]].state = "absent" /\ handle = "none"
    /\ Reply(r, "unavailable")
    /\ UNCHANGED <<clock, proc, store, lock, at>>

\* (Mutant: the response leaves before the fsync.)
AcceptUnsynced(r) ==
    /\ pc[r] = "appended" /\ lock = r
    /\ mem' = [mem EXCEPT ![KeyOf[r]] = Sealed(r)]
    /\ owner' = [owner EXCEPT ![KeyOf[r]] = r]
    /\ lock' = "free"
    /\ Reply(r, r)
    /\ UNCHANGED <<clock, proc, cipher, handle, disk, legacy, at>>

\* The fsync returns: only now does the map learn the pass and the client its path.
Accept(r) ==
    /\ pc[r] = "appended" /\ lock = r
    /\ disk' = Synced(disk)
    /\ mem' = [mem EXCEPT ![KeyOf[r]] = Sealed(r)]
    /\ owner' = [owner EXCEPT ![KeyOf[r]] = r]
    /\ lock' = "free"
    /\ Reply(r, r)
    /\ UNCHANGED <<clock, proc, cipher, handle, legacy, at>>

\* Write or fsync failed and the file was cut back to its committed length.
RollBack(r) ==
    /\ pc[r] = "appended" /\ lock = r /\ "append" \in faults
    /\ disk' = Synced(Written(disk, [disk.cached EXCEPT ![KeyOf[r]] = Absent]))
    /\ lock' = "free"
    /\ Reply(r, "unavailable")
    /\ UNCHANGED <<clock, proc, cipher, mem, handle, legacy, at, owner>>

\* (Mutant: the append handle survives a failed rollback.)
PoisonNothing(r) ==
    /\ pc[r] = "appended" /\ lock = r /\ {"append", "rollback"} \subseteq faults
    /\ lock' = "free"
    /\ Reply(r, "unavailable")
    /\ UNCHANGED <<clock, proc, cipher, mem, handle, disk, legacy, at, owner>>

\* (Mutant: the mutex stays held.)
PoisonLocked(r) ==
    /\ pc[r] = "appended" /\ lock = r /\ {"append", "rollback"} \subseteq faults
    /\ handle' = "none"
    /\ Reply(r, "unavailable")
    /\ UNCHANGED <<clock, proc, cipher, mem, disk, legacy, lock, at, owner>>

\* The rollback failed too: the line may be on the medium, the handle is dropped.
Poison(r) ==
    /\ pc[r] = "appended" /\ lock = r /\ {"append", "rollback"} \subseteq faults
    /\ handle' = "none"
    /\ lock' = "free"
    /\ Reply(r, "unavailable")
    /\ UNCHANGED <<clock, proc, cipher, mem, disk, legacy, at, owner>>

\* The directory sync at the end of rewrite_locked.
ScrubSynced(r) ==
    /\ pc[r] = "syncing" /\ lock = r
    /\ lock' = "free"
    /\ \/ disk' = NameSynced(disk) /\ Reply(r, "spent")
       \/ "dirsync" \in faults /\ disk' = disk /\ Reply(r, "unavailable")
    /\ UNCHANGED <<clock, proc, cipher, mem, handle, legacy, at, owner>>

-----------------------------------------------------------------------------
(* prune_expired_replays, called every 30 s by the Coordinator's sweeper *)

Sweep ==
    /\ proc = "up" /\ lock = "free"
    /\ Scrubbed(mem, clock) # mem
    /\ Rename("sweeper", Scrubbed(mem, clock))
    /\ UNCHANGED <<clock, proc, cipher, legacy, pc, at, answer, owner>>

SweepSynced ==
    /\ lock = "sweeper"
    /\ lock' = "free"
    /\ \/ disk' = NameSynced(disk)
       \/ "dirsync" \in faults /\ disk' = disk
    /\ UNCHANGED <<clock, proc, cipher, mem, handle, legacy, pc, at, answer, owner>>

-----------------------------------------------------------------------------
(* FileNullifierStore::open: load, fold the flat ledger in, sync the directory, *)
(* scrub what expired meanwhile, set the flat ledger aside.                     *)

Discovered(records) ==
    [k \in Keys |-> IF owner[k] = "nobody" /\ records[k].state = "sealed"
                    THEN records[k].resp ELSE owner[k]]

Open ==
    LET loaded == Folded(disk.cached)
        kept   == Scrubbed(loaded, clock)
    IN  /\ proc = "down"
        /\ cipher' \in IF "rekey" \in faults THEN CipherKeys ELSE {cipher}
        /\ mem' = kept
        /\ handle' = "open"
        /\ owner' = Discovered(loaded)
        /\ IF kept = disk.cached
           THEN /\ proc' = "up" /\ legacy' = {} /\ lock' = lock
                /\ disk' = NameSynced(disk)
           ELSE /\ proc' = "opening" /\ legacy' = legacy /\ lock' = "opener"
                /\ disk' = Replaced(NameSynced(disk), kept)
        /\ UNCHANGED <<clock, pc, at, answer>>

OpenSynced ==
    /\ proc = "opening" /\ lock = "opener"
    /\ lock' = "free"
    /\ \/ disk' = NameSynced(disk) /\ proc' = "up" /\ legacy' = {} /\ UNCHANGED <<mem, handle>>
       \/ /\ faults \cap {"dirsync", "reopen"} # {}
          /\ disk' = disk /\ proc' = "down" /\ legacy' = legacy
          /\ mem' = [k \in Keys |-> Absent] /\ handle' = "none"
    /\ UNCHANGED <<clock, cipher, pc, at, answer, owner>>

-----------------------------------------------------------------------------
(* Failures of the machine *)

\* Requests being served are dropped with the process.
Halt ==
    /\ proc' = "down"
    /\ mem' = [k \in Keys |-> Absent]
    /\ handle' = "none"
    /\ lock' = "free"
    /\ pc' = [r \in Requests |-> IF pc[r] = "idle" THEN "idle" ELSE "done"]
    /\ answer' = [r \in Requests |-> IF pc[r] \in {"idle", "done"} THEN answer[r] ELSE "lost"]
    /\ UNCHANGED <<clock, cipher, at, owner>>

Kill ==
    /\ "kill" \in faults /\ proc # "down"
    /\ Halt
    /\ UNCHANGED <<disk, legacy>>

\* The rename that set the flat ledger aside is not synced, so it may come back.
PowerLoss ==
    /\ "power" \in faults /\ Halt
    /\ \E content \in Survivors(disk) : disk' = Settled(content)
    /\ legacy' \in {legacy, LegacyKeys}

Tick ==
    /\ clock < MaxClock
    /\ clock' = clock + 1
    /\ UNCHANGED <<proc, store, lock, pc, at, answer>>

-----------------------------------------------------------------------------
Commit(r) == Append(r) \/ Accept(r) \/ RollBack(r) \/ Poison(r) \/ RefuseNoHandle(r)
Serve(r) == Replay(r) \/ RefuseSpent(r) \/ ScrubOne(r) \/ ScrubSynced(r) \/ Commit(r)

Step ==
    \/ \E r \in Requests : Propose(r) \/ Reject(r) \/ Serve(r)
    \/ Sweep \/ SweepSynced \/ Open \/ OpenSynced
    \/ Kill \/ PowerLoss \/ Tick
Next == Step /\ UNCHANGED faults

Spec == Init /\ [][Next]_vars

\* A handler that was entered runs on, and file operations return: the runtime
\* schedules every task and no ledger call waits for anything but the mutex.
Fairness ==
    /\ WF_vars(SweepSynced /\ UNCHANGED faults)
    /\ \A r \in Requests : WF_vars(Serve(r) /\ UNCHANGED faults)

FairSpec == Spec /\ Fairness

-----------------------------------------------------------------------------
(* Properties *)

\* Type invariant.
TypeOK ==
    /\ clock \in 0..MaxClock
    /\ proc \in {"down", "opening", "up"}
    /\ cipher \in CipherKeys
    /\ mem \in Content
    /\ handle \in {"open", "none"}
    /\ disk \in FileImages(Content)
    /\ legacy \subseteq LegacyKeys
    /\ lock \in Holders
    /\ pc \in [Requests -> {"idle", "proposed", "appended", "syncing", "done"}]
    /\ at \in [Requests -> 0..MaxClock]
    /\ answer \in [Requests -> Requests \cup Refusals \cup {"none"}]
    /\ owner \in [Keys -> Requests \cup {"nobody", "legacy"}]
    /\ faults \subseteq FaultKinds

\* redeem_logic: concurrent and repeated redemptions of one pass, across failed
\* appends, sweeps and restarts, are only ever answered with one path.
OneResponsePerPass ==
    \A r, s \in Requests :
        /\ KeyOf[r] = KeyOf[s]
        /\ answer[r] \in Requests /\ answer[s] \in Requests
        => answer[r] = answer[s]

\* A line that records pass k as spent for o: sealed with o's response, or scrubbed.
Marks(record, o) ==
    \/ record.state = "spent"
    \/ record.state = "sealed" /\ record.resp = o

\* What the next process may find at the ledger's path.
CrashImages == IF "power" \in faults THEN Survivors(disk) ELSE {disk.cached}

\* FileNullifierStore: once a pass was spent, every content a crash can leave at
\* the ledger's path still says so and, unless scrubbed, with the same response.
\* (A pass of the flat ledger is on that file until it is set aside.)
SpentSurvivesCrash ==
    \A k \in Keys : owner[k] # "nobody" =>
        \/ k \in legacy
        \/ \A content \in CrashImages : Marks(content[k], owner[k])

\* append_and_sync and rewrite_locked: whenever the mutex is free and appends are
\* possible, the map is the file; a failed append leaves no line behind.
MapIsFile ==
    proc = "up" /\ lock = "free" /\ handle = "open" => mem = disk.cached

\* The same with the intermediate states of the mutex holder, which makes it
\* inductive: the file of a request that appended is the map with its line.
WithLine(r) == [mem EXCEPT ![KeyOf[r]] = Sealed(r)]

FileFollowsMap ==
    /\ proc = "opening" => disk.cached = mem /\ disk.synced = mem
    /\ proc = "up" /\ handle = "open" =>
          /\ (\A r \in Requests : pc[r] # "appended") => disk.cached = mem
          /\ \A r \in Requests : pc[r] = "appended" =>
                mem[KeyOf[r]].state = "absent" /\ disk.cached = WithLine(r)

\* Who holds the mutex, and where.
LockInv ==
    /\ proc = "down" => lock = "free"
    /\ proc = "opening" <=> lock = "opener"
    /\ \A r \in Requests : (lock = r) <=> (pc[r] \in {"appended", "syncing"})
    /\ \A r \in Requests :
          pc[r] \in {"appended", "syncing"} =>
              /\ handle = "open"
              /\ pc[r] = "syncing" => mem[KeyOf[r]].state = "spent"
    /\ lock = "sweeper" => handle = "open"

\* The map of a running process is exactly the set of spent passes.
MapInv ==
    proc # "down" =>
        \A k \in Keys : IF owner[k] = "nobody" THEN mem[k].state = "absent"
                                              ELSE Marks(mem[k], owner[k])

\* Lines and owners are of requests for that very pass, or of the flat ledger; a
\* scrubbed line was owned before.
StrayInv ==
    /\ \A content \in CrashImages, k \in Keys :
          /\ content[k].state = "sealed" =>
                KeyOf[content[k].resp] = k /\ k \notin LegacyKeys
          /\ content[k].state = "spent" => owner[k] # "nobody"
    /\ \A k \in Keys : owner[k] \in Requests => KeyOf[owner[k]] = k
    /\ \A k \in Keys : k \in LegacyKeys <=> owner[k] = "legacy"

\* When the machine may lose power: between two file operations the name is on the
\* medium, unless appends are refused.
NameInv ==
    "power" \in faults =>
        /\ proc # "up" => disk.synced = disk.cached
        /\ proc = "up" /\ handle = "open" /\ lock # "sweeper"
              /\ (\A r \in Requests : pc[r] # "syncing") => disk.stale = {}

\* Every path answered is that of the pass's owner, and only owned passes are
\* refused as spent.
AnswerInv ==
    \A r \in Requests :
        /\ pc[r] # "done" => answer[r] = "none"
        /\ answer[r] \in Requests => answer[r] = owner[KeyOf[r]]
        /\ answer[r] = "spent" => owner[KeyOf[r]] # "nobody"

\* The inductive invariant of FileNullifierStore: what holds between any two file
\* operations, in every state the mutex, the handle and a restart can be in.
LedgerInv ==
    /\ TypeOK /\ LockInv /\ FileFollowsMap /\ MapInv
    /\ StrayInv /\ NameInv /\ SpentSurvivesCrash /\ AnswerInv

\* The failures under which the ledger keeps its promise: when the power can fail,
\* every directory sync succeeds and the process stops only with the machine.
ToleratedFaults == "power" \in faults => faults \cap {"dirsync", "kill"} = {}

\* A redemption that reached the ledger is answered, unless the process stops:
\* nobody waits for ever on the mutex or on a poisoned handle.
ProposedIsAnswered ==
    \A r \in Requests : pc[r] = "proposed" ~> pc[r] = "done"

Ledger == INSTANCE RedemptionLedger
\* FileNullifierStore keeps the promise every NullifierStore makes.
KeepsPromise == Ledger!LedgerSpec
=============================================================================
