---------------------------- MODULE SecureStore ----------------------------
(***************************************************************************)
(* The client's encrypted credential file                                  *)
(* (client/src-tauri/src/securestore.rs): the start-up migration of the    *)
(* two plaintext files of old releases, the transaction every change of    *)
(* the vault goes through, the destruction of the vault, and the platform  *)
(* stores that hold the sealing key (Keychain, Secret Service, DPAPI, the  *)
(* Android Keystore).  The vault and the plaintext files live in different *)
(* directories.  A directory is the sequence of its states since its last  *)
(* fsync: the last one is what programs see, and a power cut keeps any one *)
(* of them.  What the transactions do to the vault's fields is the module  *)
(* CredentialVault; here a vault is the account and the passes it came     *)
(* with, the number of changes since, and its pending reservation.         *)
(***************************************************************************)
EXTENDS Naturals, Sequences

LOCAL INSTANCE SequencesExt

\* Bare stands for the reservation id of a pending pass that an old release wrote
\* without one.  A scenario fixes the platform, what the directories hold at first, the ways
\* things fail and how often, and how many changes and destructions happen.
CONSTANTS Scenarios, Bare

VARIABLES
    scenario,
    disk,       \* the states of the vault's directory since its fsync
    legacy,     \* the states of the plaintext files' directory since its fsync
    key,        \* the key in the platform's store, 0 for none
    app,        \* "down", "starting", "ready"
    job,        \* the operation that holds the vault's lock, stage "none" when free
    temp,       \* the temporary files of this process id, by their number
    made,       \* NEXT_TEMP and the last key and reservation id made
    handed,     \* the reservation id a caller was given and may complete
    truth,      \* the credentials the store may hold, given what was answered
    unsynced,   \* a deletion or an answer rests on a directory that was not synced
    left        \* changes, destructions, faults and crashes still to come

vars == <<scenario, disk, legacy, key, app, job, temp, made, handed, truth, unsynced, left>>

Windows == scenario.platform = "windows"

----------------------------------------------------------------------------
\* What the files hold.

EmptyVault == [auth |-> "absent", tokens |-> "absent", n |-> 0, pend |-> 0]
NoFile == [kind |-> "none", key |-> 0, body |-> EmptyVault]
Sealed(k, body) == [kind |-> "sealed", key |-> k, body |-> body]

NoJob == [op |-> "none", stage |-> "none", vault |-> EmptyVault, key |-> 0]

\* The credentials of a vault, whatever is pending.
Credentials(v) == [auth |-> v.auth, tokens |-> v.tokens, n |-> v.n]
Unreadable == [auth |-> "lost", tokens |-> "lost", n |-> 0]
LegacyVault(l) == [EmptyVault EXCEPT !.auth = l.auth, !.tokens = l.tokens]

\* validate_private_regular_file, on the opened handle: neither a link, nor a
\* directory, nor readable by others.
Private(file) == file.kind # "unsafe"

\* decode_envelope: the magic, the version and the declared length are right.
Decodes(file) == Private(file) /\ file.kind # "damaged"

\* The sealers' open.  AES-GCM with a key of the Keychain or the Secret Service: a
\* missing key is an error, never a new key; the Android Keystore likewise; DPAPI's
\* key is the user's own and always there.
AesOpens(file) == key # 0 /\ file.key = key
KeystoreOpens(file) == key # 0 /\ file.key = key
DpapiOpens(file) == file.key = 1
Opens(file) ==
    /\ Decodes(file) /\ file.kind = "sealed"
    /\ CASE scenario.platform = "windows" -> DpapiOpens(file)
         [] scenario.platform = "android" -> KeystoreOpens(file)
         [] OTHER -> AesOpens(file)

\* What a person could still get at: the vault when there is one, else the
\* plaintext files.
Recoverable(file, l) ==
    IF file.kind = "none" THEN Credentials(LegacyVault(l))
    ELSE IF Opens(file) THEN Credentials(file.body) ELSE Unreadable

----------------------------------------------------------------------------
Init ==
    /\ scenario \in Scenarios
    /\ \E file \in scenario.vaults, l \in scenario.legacies :
         /\ disk = <<file>> /\ legacy = <<l>>
         /\ key = IF scenario.platform = "windows" THEN 1 ELSE file.key
         /\ truth = {Recoverable(file, l)}
    /\ app = "down" /\ job = NoJob /\ temp = {} /\ handed = 0 /\ unsynced = FALSE
    /\ made = [temp |-> 0, key |-> 1, id |-> 0]
    /\ left = scenario.left

Fault(kind) ==
    /\ kind \in scenario.faults /\ left.faults > 0
    /\ left' = [left EXCEPT !.faults = @ - 1]

\* The operation returns its error: a migration's stops the application.
Refuse ==
    /\ job' = NoJob
    /\ app' = IF job.op = "migrate" THEN "down" ELSE app
Advance(stage) == job' = [job EXCEPT !.stage = stage] /\ UNCHANGED app

----------------------------------------------------------------------------
\* StrictVaultWire: what an old release left out is none; a pending pass it
\* wrote bare gets a fresh reservation id, with every load another.
IntoVault(body) == [body EXCEPT !.pend = IF @ = Bare THEN made.id + 1 ELSE @]

\* (Mutant: a missing key makes a new vault.)
LoadsWithoutKey(file) == file.kind = "none" \/ Opens(file) \/ (Decodes(file) /\ key = 0)
\* load_locked: a missing file is an empty vault, any other must open.
Loads(file) == file.kind = "none" \/ Opens(file)
Loaded(file) == IF Opens(file) THEN IntoVault(file.body) ELSE EmptyVault

\* setup: the single instance starts, hardens the vault's directory, and holds
\* the vault for its migration.  Process ids may be used again.
StartApp ==
    /\ app = "down"
    /\ app' = "starting" /\ job' = [NoJob EXCEPT !.op = "migrate", !.stage = "begin"]
    /\ temp' \in {temp, {}} /\ made' = [made EXCEPT !.temp = 0]
    /\ UNCHANGED <<scenario, disk, legacy, key, handed, truth, unsynced, left>>

\* migrate_legacy with a vault present: it must open, and always wins.
MigratePresent ==
    /\ job.stage = "begin" /\ Last(disk).kind # "none"
    /\ \/ Opens(Last(disk)) /\ Advance("auth") /\ UNCHANGED left
       \/ ~Opens(Last(disk)) /\ Refuse /\ UNCHANGED left
       \/ Fault("locked") /\ Refuse
    /\ UNCHANGED <<scenario, disk, legacy, key, temp, made, handed, truth, unsynced>>

\* migrate_legacy without a vault: both plaintext files must be private, regular,
\* within bounds and parse; their contents become the vault to write.
MigrateLegacy ==
    /\ job.stage = "begin" /\ Last(disk).kind = "none"
    /\ LET l == Last(legacy) IN
       IF {l.auth, l.tokens} \subseteq {"absent", "good"}
       THEN IF {l.auth, l.tokens} = {"absent"}
            THEN job' = NoJob /\ app' = "ready"
            ELSE job' = [job EXCEPT !.stage = "seal", !.vault = LegacyVault(l)]
                 /\ UNCHANGED app
       ELSE Refuse
    /\ UNCHANGED <<scenario, disk, legacy, key, temp, made, handed, truth, unsynced, left>>

\* SecureVault::load, is_initialized and path: a look that leaves everything alone.
Look == app = "ready" /\ job = NoJob /\ UNCHANGED vars

\* The callbacks given to SecureVault::mutate, as far as they matter here.
Changed(op, v) ==
    CASE op = "change"   -> [v EXCEPT !.n = @ + 1]
      [] op = "reserve"  -> [v EXCEPT !.pend = IF @ = 0 THEN made.id + 1 ELSE @]
      [] op = "complete" -> [v EXCEPT !.pend = 0]

\* SecureVault::mutate up to its write: lock, load, callback, validation.
Mutate(op) ==
    /\ app = "ready" /\ job = NoJob /\ left.ops > 0
    /\ op = "complete" => handed # 0
    /\ \/ /\ Loads(Last(disk))
          /\ op = "complete" => Loaded(Last(disk)).pend = handed
          /\ LET v == Changed(op, Loaded(Last(disk))) IN
             /\ job' = [op |-> op, stage |-> "seal", vault |-> v, key |-> 0]
             /\ truth' = truth \cup {Credentials(v)}
             /\ made' = [made EXCEPT !.id = IF v.pend > @ THEN v.pend ELSE @]
          /\ handed' = IF op = "complete" THEN 0 ELSE handed
          /\ left' = [left EXCEPT !.ops = @ - 1]
       \/ /\ Fault("locked")
          /\ UNCHANGED <<job, truth, made, handed>>
    /\ UNCHANGED <<scenario, disk, legacy, key, app, temp, unsynced>>

----------------------------------------------------------------------------
\* The sealers' seal, and the key they seal with.
SealWith(k) == job' = [job EXCEPT !.stage = "replace", !.key = k] /\ UNCHANGED <<app, left>>
StoreFails == (Fault("locked") \/ (key = 0 /\ Fault("mismatch"))) /\ Refuse

\* AesGcmSealer over load_or_create: a new key is stored, read back and compared
\* before anything is sealed with it.  The store may be locked, keep nothing, or
\* answer something else than it was given.
KeyIsNew == key = 0 /\ made' = [made EXCEPT !.key = @ + 1] /\ key' = made.key + 1
AesSeal ==
    \/ key # 0 /\ SealWith(key) /\ UNCHANGED <<key, made>>
    \/ KeyIsNew /\ SealWith(key')
    \/ KeyIsNew /\ Fault("mismatch") /\ Refuse
    \/ StoreFails /\ UNCHANGED <<key, made>>
KeychainSeal == scenario.platform = "apple" /\ AesSeal
SecretServiceSeal == scenario.platform = "linux" /\ AesSeal

\* The Android plugin makes its key inside the Keystore; every failure is the
\* same to the caller.
KeystoreSeal ==
    /\ scenario.platform = "android"
    /\ \/ key # 0 /\ SealWith(key) /\ UNCHANGED <<key, made>>
       \/ KeyIsNew /\ SealWith(key')
       \/ StoreFails /\ UNCHANGED <<key, made>>

\* CryptProtectData with the user's key.
DpapiSeal ==
    /\ Windows /\ (SealWith(1) \/ StoreFails)
    /\ UNCHANGED <<key, made>>

\* persist_locked: validate, seal, wrap.
SealVault ==
    /\ job.stage = "seal"
    /\ KeychainSeal \/ SecretServiceSeal \/ KeystoreSeal \/ DpapiSeal
    /\ UNCHANGED <<scenario, disk, legacy, temp, handed, truth, unsynced>>

\* The rename, which Windows writes through.
Renamed(file) == IF Windows THEN <<file>> ELSE Append(disk, file)

\* TempCleanup: the temporary file of this attempt is gone after it.
Cleaned == temp \ {made.temp}

\* atomic_write_private up to the rename.  The temporary file's name holds the
\* process id and a number, so one that a crash left is in the way once: the
\* clean-up of the failed attempt removes it.
ReplaceFile ==
    /\ job.stage = "replace"
    /\ made' = [made EXCEPT !.temp = @ + 1]
    /\ temp' = Cleaned
    /\ \/ /\ made.temp \notin temp
          /\ disk' = Renamed(Sealed(job.key, job.vault))
          /\ Advance("sync") /\ UNCHANGED left
       \/ made.temp \in temp /\ Refuse /\ UNCHANGED <<disk, left>>
       \/ Fault("io") /\ Refuse /\ UNCHANGED disk
    /\ UNCHANGED <<scenario, legacy, key, handed, truth, unsynced>>

\* sync_parent after the rename, and what the operation answers: a migration goes
\* on to check what it wrote.
SyncVault ==
    /\ job.stage = "sync"
    /\ \/ /\ disk' = <<Last(disk)>> /\ UNCHANGED left
          /\ IF job.op = "migrate" THEN Advance("verify") /\ UNCHANGED <<truth, handed, unsynced>>
             ELSE /\ job' = NoJob /\ UNCHANGED app /\ unsynced' = FALSE
                  /\ truth' = {IF key = job.key THEN Credentials(job.vault) ELSE Unreadable}
                  /\ handed' = IF job.op = "reserve" THEN job.vault.pend ELSE handed
       \/ ~Windows /\ Fault("dirsync") /\ Refuse /\ UNCHANGED <<disk, truth, handed, unsynced>>
    /\ UNCHANGED <<scenario, legacy, key, temp, made>>

\* migrate_legacy reopens what it wrote and compares; otherwise it takes the new
\* file away again, as well as it can, and keeps the plaintext files.
Verify ==
    /\ job.stage = "verify"
    /\ LET same == Opens(Last(disk)) /\ Loaded(Last(disk)) = job.vault
           undone == disk' \in {disk, Append(disk, NoFile)} /\ Refuse IN
       \/ same /\ Advance("auth") /\ UNCHANGED <<disk, left>>
       \/ ~same /\ undone /\ UNCHANGED left
       \/ Fault("locked") /\ undone
    /\ UNCHANGED <<scenario, legacy, key, temp, made, handed, truth, unsynced>>

\* remove_legacy_if_present: an unsafe file is refused, a missing one is fine.
\* Windows has no directory to sync.  A vault found at the start opened, but its
\* own directory is not synced again before the plaintext files go.
After(stage) ==
    IF stage \in {"auth", "authsync"} THEN Advance("tokens")
    ELSE job' = NoJob /\ app' = "ready"
Unlink(file) ==
    /\ job.stage = file
    /\ LET l == Last(legacy) IN
       \/ l[file] = "absent" /\ After(file) /\ UNCHANGED <<legacy, unsynced, left>>
       \/ l[file] = "unsafe" /\ Refuse /\ UNCHANGED <<legacy, unsynced, left>>
       \/ /\ l[file] \in {"good", "garbled"}
          /\ \/ /\ legacy' = Append(legacy, [l EXCEPT ![file] = "absent"])
                /\ Advance(IF file = "auth" THEN "authsync" ELSE "tokenssync")
                /\ unsynced' = (unsynced \/ Len(disk) > 1) /\ UNCHANGED left
             \/ Fault("io") /\ Refuse /\ UNCHANGED <<legacy, unsynced>>
    /\ UNCHANGED <<scenario, disk, key, temp, made, handed, truth>>
SyncLegacy ==
    /\ job.stage \in {"authsync", "tokenssync"}
    /\ \/ /\ After(job.stage) /\ UNCHANGED left
          /\ legacy' = IF Windows THEN legacy ELSE <<Last(legacy)>>
       \/ ~Windows /\ Fault("dirsync") /\ Refuse /\ UNCHANGED legacy
    /\ UNCHANGED <<scenario, disk, key, temp, made, handed, truth, unsynced>>

----------------------------------------------------------------------------
\* The stores' destroy: a key that is not there is destroyed; DPAPI's is not ours.
DestroyedKey == IF Windows THEN key ELSE 0

\* SecureVault::destroy: the key first, then the file nobody can open any more.
DestroyKey ==
    /\ app = "ready" /\ job = NoJob /\ left.destroys > 0 /\ Private(Last(disk))
    /\ \/ /\ left' = [left EXCEPT !.destroys = @ - 1]
          /\ key' = DestroyedKey
          /\ truth' = truth \cup {Unreadable, Credentials(EmptyVault)}
          /\ handed' = 0
          /\ job' = IF Last(disk).kind = "none" THEN NoJob
                    ELSE [NoJob EXCEPT !.op = "destroy", !.stage = "unlink"]
       \/ Fault("locked") /\ UNCHANGED <<key, truth, handed, job>>
    /\ UNCHANGED <<scenario, disk, legacy, app, temp, made, unsynced>>
RemoveVault ==
    /\ job.stage = "unlink"
    /\ \/ /\ disk' = Append(disk, NoFile) /\ Advance("unlinked") /\ UNCHANGED left
          /\ unsynced' = (unsynced \/ Len(legacy) > 1)
       \/ Fault("io") /\ Refuse /\ UNCHANGED <<disk, unsynced>>
    /\ UNCHANGED <<scenario, legacy, key, temp, made, handed, truth>>
SyncRemoved ==
    /\ job.stage = "unlinked"
    /\ \/ /\ disk' = IF Windows THEN disk ELSE <<Last(disk)>>
          /\ truth' = {Credentials(EmptyVault)} /\ job' = NoJob
          /\ unsynced' = (Windows \/ Len(legacy) > 1)
          /\ UNCHANGED <<app, left>>
       \/ ~Windows /\ Fault("dirsync") /\ Refuse /\ UNCHANGED <<disk, truth, unsynced>>
    /\ UNCHANGED <<scenario, legacy, key, temp, made, handed>>

----------------------------------------------------------------------------
\* The process dies; a write that was under way may leave its temporary file.
Crash ==
    /\ app # "down" /\ "crash" \in scenario.faults /\ left.crashes > 0
    /\ left' = [left EXCEPT !.crashes = @ - 1]
    /\ app' = "down" /\ job' = NoJob /\ handed' = 0
    /\ temp' \in {temp} \cup (IF job.stage = "replace" THEN {temp \cup {made.temp}} ELSE {})
    /\ UNCHANGED <<scenario, disk, legacy, key, made, truth, unsynced>>

\* The machine loses power: of each directory one of the states since its fsync
\* remains.
MayLosePower == "power" \in scenario.faults /\ left.crashes > 0
PowerCut ==
    /\ MayLosePower
    /\ left' = [left EXCEPT !.crashes = @ - 1]
    /\ \E i \in DOMAIN disk, j \in DOMAIN legacy :
         disk' = <<disk[i]>> /\ legacy' = <<legacy[j]>>
    /\ app' = "down" /\ job' = NoJob /\ handed' = 0 /\ temp' \in {temp, {}}
    /\ UNCHANGED <<scenario, key, made, truth, unsynced>>

\* The platform forgets the key (a reset keychain, a restored backup).
KeyLost ==
    /\ ~Windows /\ key # 0 /\ Fault("keyloss")
    /\ key' = 0 /\ truth' = truth \cup {Unreadable}
    /\ UNCHANGED <<scenario, disk, legacy, app, job, temp, made, handed, unsynced>>

Next ==
    \/ StartApp \/ MigratePresent \/ MigrateLegacy \/ Look
    \/ \E op \in {"change", "reserve", "complete"} : Mutate(op)
    \/ SealVault \/ ReplaceFile \/ SyncVault \/ Verify
    \/ \E file \in {"auth", "tokens"} : Unlink(file)
    \/ SyncLegacy
    \/ DestroyKey \/ RemoveVault \/ SyncRemoved
    \/ Crash \/ PowerCut \/ KeyLost

Spec == Init /\ [][Next]_vars

----------------------------------------------------------------------------
\* The states a directory may be found in next.
Remain(states) == IF MayLosePower THEN DOMAIN states ELSE {Len(states)}

\* Whatever a crash or a power cut leaves of the two directories, what can be got
\* at is what the last answered operation left or what the one under way writes:
\* a migration neither loses the plaintext credentials nor brings them back over a
\* newer vault, and a vault whose key is gone is never taken for an empty one.  Where
\* power may fail, the exception is what rests on a directory that was not synced:
\* plaintext files deleted after a start found a vault whose rename is not on the disk
\* yet, a vault destroyed while the deletion of the plaintext files is not, and a
\* destruction on Windows.
NothingLostOrRevived ==
    \/ unsynced /\ "power" \in scenario.faults
    \/ \A i \in Remain(disk), j \in Remain(legacy) : Recoverable(disk[i], legacy[j]) \in truth

\* A reservation id that a caller was given is the one in the vault, so that its
\* completion is accepted; a pass kept by an old release is bound only once.
HandedIsPending ==
    (handed # 0 /\ Opens(Last(disk))) => Last(disk).body.pend = handed

\* Once the application runs, no plaintext credential is left for it to see.
NoPlaintextWhileReady ==
    app = "ready" => Last(legacy) = [auth |-> "absent", tokens |-> "absent"]

\* The encrypted file keeps the client's credentials (SecureVault's contract).
SecureStoreInv == NothingLostOrRevived /\ HandedIsPending /\ NoPlaintextWhileReady
=============================================================================
