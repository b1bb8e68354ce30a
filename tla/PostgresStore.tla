---------------------------- MODULE PostgresStore ----------------------------
(***************************************************************************)
(* The Portal's PgStore: several Portal replicas over one PostgreSQL       *)
(* database at READ COMMITTED.                                             *)
(*                                                                         *)
(* A replica has one connection behind a mutex.  activate_subscription and *)
(* commit_mint are transactions of several statements; the unique index    *)
(* and the row locks they take order the replicas.  Issuance is one INSERT *)
(* and a second SELECT when the INSERT finds a row.  Every round trip has  *)
(* a timeout: the caller is told of an error and the mutex is released,    *)
(* but the server still works off what it was sent, before anything the    *)
(* replica sends next.                                                     *)
(***************************************************************************)
EXTENDS Integers, Sequences, FiniteSets, FiniteSetsExt

CONSTANTS
    Replicas,   \* Portal processes
    Activations, Issues, Mints,  \* the calls: activate, issue and mint requests
    ReplicaOf,  \* the replica that serves each call
    KeyOf,      \* activation, issuance or mint request key
    HashOf,     \* request_hash
    CostOf,     \* tokens of a mint batch
    Account,    \* the account the activations are for
    Orphans,    \* calls that name an account without a row
    Period,     \* seconds an activation buys
    ResultTtl,  \* how long an issuance or mint result is replayable
    Window,     \* length of a quota window
    MaxTokens,  \* quota.max
    MaxClock,   \* bound on the clock
    Scenarios   \* what may be requested and what may fail together: see scenario

FaultKinds ==
    {"timeout",    \* DB_TIMEOUT elapses on a round trip or on the mutex
     "disconnect", \* the connection drops; PgStore never reconnects
     "keys",       \* the replicas were given different result keys
     "late"}       \* a quota window is pruned under a call that is charged to it

VARIABLES
    clock,    \* seconds, shared by the replicas
    link,     \* per replica: "up" or "down"
    client,   \* per replica: the call that holds the Mutex<Client>, or "free"
    late,     \* per replica: the timed-out calls the server still has to work off
    pc,       \* per call: the statement it is at
    now,      \* per call: now_secs
    got,      \* per call: the expiry its open transaction computed, or its answer carries
    answer,   \* per call: the call whose result it got, or a refusal
    db,       \* committed rows
    locks,    \* per row: the open transaction that holds it, or "free"
    minted,   \* history: mint calls whose result and charge were committed
    scenario  \* rigid: the failures and the calls of this behaviour

Faults == scenario.faults
vars == <<clock, link, client, late, pc, now, got, answer, db, locks, minted, scenario>>

Calls == Activations \cup Issues \cup Mints
KeysOf(calls) == {KeyOf[c] : c \in calls}
WindowOf(t) == t - (t % Window)
Windows == {WindowOf(t) : t \in 0..MaxClock}
Free == 0 - 1

\* SCHEMA: every table of the store and what a row of it keeps.
NoRow == [by |-> "nobody", sig |-> "none", until |-> 0]
NoRows ==
    [until       |-> 0,                                      \* the account's entitlement
     activations |-> [k \in KeysOf(Activations) |-> NoRow],
     issuances   |-> [k \in KeysOf(Issues) |-> NoRow],
     mints       |-> [k \in KeysOf(Mints) |-> NoRow],
     used        |-> [w \in Windows |-> Free]]

\* Rows a transaction can hold: a key, the account, or a quota window.
Rows == KeysOf(Activations) \cup KeysOf(Mints) \cup {Account} \cup Windows

Init ==
    /\ scenario \in Scenarios
    /\ clock = 0
    /\ link = [r \in Replicas |-> "up"]
    /\ client = [r \in Replicas |-> "free"]
    /\ late = [r \in Replicas |-> <<>>]
    /\ pc = [c \in Calls |-> "idle"]
    /\ now = [c \in Calls |-> 0]
    /\ got = [c \in Calls |-> 0]
    /\ answer = [c \in Calls |-> "none"]
    /\ db = NoRows
    /\ locks = [x \in Rows |-> "free"]
    /\ minted = {}

-----------------------------------------------------------------------------
(* The client mutex and the connection *)

\* The caller is answered and lets go of the connection.
Told(c, a) ==
    /\ answer' = [answer EXCEPT ![c] = a]
    /\ pc' = [pc EXCEPT ![c] = "done"]
    /\ client' = [client EXCEPT ![ReplicaOf[c]] = "free"]

At(c, stage) == pc' = [pc EXCEPT ![c] = stage]

FirstStatement(c) ==
    CASE pc[c] = "signed" -> IF c \in Issues THEN "insert" ELSE "upsert"
      [] OTHER            -> IF c \in Activations THEN "claim" ELSE "lookup"

\* lock_client; the clock was read by the handler before its first store call.
Acquire(c) ==
    /\ pc[c] \in {"idle", "signed"} /\ client[ReplicaOf[c]] = "free"
    /\ now' = IF pc[c] = "idle" THEN [now EXCEPT ![c] = clock] ELSE now
    /\ IF link[ReplicaOf[c]] = "down" THEN Told(c, "unavailable")
       ELSE /\ client' = [client EXCEPT ![ReplicaOf[c]] = c]
            /\ At(c, FirstStatement(c))
            /\ UNCHANGED answer
    /\ UNCHANGED <<clock, link, late, got, db, locks, minted>>

\* lock_client gives up waiting for the mutex.
LockTimesOut(c) ==
    /\ "timeout" \in Faults
    /\ pc[c] \in {"idle", "signed"} /\ client[ReplicaOf[c]] # "free"
    /\ answer' = [answer EXCEPT ![c] = "unavailable"]
    /\ At(c, "done")
    /\ UNCHANGED <<clock, link, client, late, now, got, db, locks, minted>>

\* The server executes c's statement `stage`.
Serve(c, stage) ==
    /\ pc[c] = stage /\ client[ReplicaOf[c]] = c
    /\ link[ReplicaOf[c]] = "up" /\ late[ReplicaOf[c]] = <<>>

Queued(r) == {late[r][i] : i \in 1..Len(late[r])}
Unlocked(c, x) == locks[x] \in {"free", c}
Released(c) == [x \in DOMAIN locks |-> IF locks[x] = c THEN "free" ELSE locks[x]]

-----------------------------------------------------------------------------
(* activate_subscription: claim, extend, finish, commit *)

\* (Mutant: the claim looks for a row before it inserts, instead of waiting for
\* the transaction that holds the key.)
ClaimUnserialized(c) ==
    /\ Serve(c, "claim")
    /\ LET row == db.activations[KeyOf[c]] IN
       IF row.by # "nobody"
       THEN Told(c, row.by) /\ got' = [got EXCEPT ![c] = row.until] /\ UNCHANGED locks
       ELSE At(c, "extend") /\ UNCHANGED <<locks, answer, client, got>>
    /\ UNCHANGED <<clock, link, late, now, db, minted>>

\* CLAIM_ACTIVATION_SQL waits for whoever holds the key; zero rows: the winner's
\* expiry is read and returned.
Claim(c) ==
    /\ Serve(c, "claim") /\ Unlocked(c, KeyOf[c])
    /\ LET row == db.activations[KeyOf[c]] IN
       IF row.by # "nobody"
       THEN Told(c, row.by) /\ got' = [got EXCEPT ![c] = row.until] /\ UNCHANGED locks
       ELSE /\ locks' = [locks EXCEPT ![KeyOf[c]] = c]
            /\ At(c, "extend")
            /\ UNCHANGED <<answer, client, got>>
    /\ UNCHANGED <<clock, link, late, now, db, minted>>

\* EXTEND_SUBSCRIPTION_SQL: under the account's row lock, from its latest
\* committed expiry; no such account rolls the claim back.
Extend(c) ==
    /\ Serve(c, "extend") /\ Unlocked(c, Account)
    /\ IF c \in Orphans
       THEN Told(c, "rejected") /\ locks' = Released(c) /\ UNCHANGED got
       ELSE /\ locks' = [locks EXCEPT ![Account] = c]
            /\ got' = [got EXCEPT ![c] = Max({db.until, now[c]}) + Period]
            /\ At(c, "commit")
            /\ UNCHANGED <<answer, client>>
    /\ UNCHANGED <<clock, link, late, now, db, minted>>

-----------------------------------------------------------------------------
(* lookup_issuance and commit_issuance *)

\* ResultCipher::open: under the sealing replica's key, for the same key and hash.
Opens(row, c) ==
    HashOf[row.by] = HashOf[c] /\ ("keys" \in Faults => ReplicaOf[row.by] = ReplicaOf[c])

\* issuance_from_row: the signature for the same request while it is kept and
\* replayable, a conflict otherwise.
FromIssuance(row, c) ==
    IF row.until > now[c] /\ row.sig = "kept" /\ Opens(row, c) THEN row.by ELSE "spent"

LookupIssuance(c) ==
    /\ c \in Issues /\ Serve(c, "lookup")
    /\ LET row == db.issuances[KeyOf[c]] IN
       IF row.by # "nobody" THEN Told(c, FromIssuance(row, c))
       ELSE At(c, "signed") /\ client' = [client EXCEPT ![ReplicaOf[c]] = "free"] /\ UNCHANGED answer
    /\ UNCHANGED <<clock, link, late, now, got, db, locks, minted>>

\* INSERT_ISSUANCE_SQL ... ON CONFLICT DO NOTHING.
Inserted(rows, c) ==
    IF rows[KeyOf[c]].by # "nobody" THEN rows
    ELSE [rows EXCEPT ![KeyOf[c]] = [by |-> c, sig |-> "kept", until |-> now[c] + ResultTtl]]

InsertIssuance(c) ==
    /\ Serve(c, "insert")
    /\ db' = [db EXCEPT !.issuances = Inserted(@, c)]
    /\ IF db.issuances[KeyOf[c]].by = "nobody" THEN Told(c, c)
       ELSE At(c, "reread") /\ UNCHANGED <<answer, client>>
    /\ UNCHANGED <<clock, link, late, now, got, locks, minted>>

\* The winner's row, read by a statement of its own.
RereadIssuance(c) ==
    /\ Serve(c, "reread")
    /\ Told(c, FromIssuance(db.issuances[KeyOf[c]], c))
    /\ UNCHANGED <<clock, link, late, now, got, db, locks, minted>>

-----------------------------------------------------------------------------
(* lookup_mint and commit_mint *)

Expired(row, t) == row.by # "nobody" /\ row.until <= t
FromMint(row, c) == IF Opens(row, c) THEN row.by ELSE "conflict"

LookupMint(c) ==
    /\ c \in Mints /\ Serve(c, "lookup")
    /\ LET row == db.mints[KeyOf[c]] IN
       \/ /\ row.by = "nobody" \/ Expired(row, now[c])
          /\ At(c, IF row.by = "nobody" THEN "signed" ELSE "delete")
          /\ client' = IF row.by = "nobody" THEN [client EXCEPT ![ReplicaOf[c]] = "free"] ELSE client
          /\ UNCHANGED answer
       \/ /\ row.by # "nobody" /\ ~Expired(row, now[c])
          /\ Told(c, FromMint(row, c))
    /\ UNCHANGED <<clock, link, late, now, got, db, locks, minted>>

\* DELETE_EXPIRED_MINT_KEY_SQL names the key and looks at the expiry again.
WithoutExpired(rows, c) ==
    IF Expired(rows[KeyOf[c]], now[c]) THEN [rows EXCEPT ![KeyOf[c]] = NoRow] ELSE rows

DeleteMint(c) ==
    /\ Serve(c, "delete") /\ Unlocked(c, KeyOf[c])
    /\ db' = [db EXCEPT !.mints = WithoutExpired(@, c)]
    /\ At(c, "signed")
    /\ client' = [client EXCEPT ![ReplicaOf[c]] = "free"]
    /\ UNCHANGED <<clock, link, late, now, got, answer, locks, minted>>

\* INSERT_MINT_SQL: a new row, or the row of an expired result; a live row stays
\* and answers the call.
UpsertMint(c) ==
    /\ Serve(c, "upsert") /\ Unlocked(c, KeyOf[c])
    /\ LET row == db.mints[KeyOf[c]] IN
       IF row.by = "nobody" \/ Expired(row, now[c])
       THEN /\ locks' = [locks EXCEPT ![KeyOf[c]] = c]
            /\ At(c, "charge")
            /\ UNCHANGED <<answer, client>>
       ELSE Told(c, FromMint(row, c)) /\ UNCHANGED locks
    /\ UNCHANGED <<clock, link, late, now, got, db, minted>>

WindowRow(c) == WindowOf(now[c])
Used(w) == IF db.used[w] = Free THEN 0 ELSE db.used[w]

\* (Mutant: the quota is read and compared without the row's lock.)
ChargeQuotaUnlocked(c) ==
    /\ Serve(c, "charge")
    /\ IF Used(WindowRow(c)) + CostOf[c] <= MaxTokens
       THEN At(c, "commit") /\ UNCHANGED <<locks, answer, client>>
       ELSE Told(c, "limited") /\ locks' = Released(c)
    /\ UNCHANGED <<clock, link, late, now, got, db, minted>>

\* CHARGE_MINT_QUOTA_SQL, or the rollback of the result when it does not fit.
ChargeQuota(c) ==
    /\ Serve(c, "charge") /\ Unlocked(c, WindowRow(c))
    /\ IF Used(WindowRow(c)) + CostOf[c] <= MaxTokens
       THEN /\ locks' = [locks EXCEPT ![WindowRow(c)] = c]
            /\ At(c, "commit")
            /\ UNCHANGED <<answer, client>>
       ELSE Told(c, "limited") /\ locks' = Released(c)
    /\ UNCHANGED <<clock, link, late, now, got, db, minted>>

-----------------------------------------------------------------------------
(* COMMIT, timeouts and what the server makes of them *)

\* The rows c's transaction makes visible.
Committed(c) ==
    IF c \in Activations
    THEN [db EXCEPT !.activations[KeyOf[c]] = [by |-> c, sig |-> "none", until |-> got[c]],
                    !.until = got[c]]
    ELSE [db EXCEPT !.mints[KeyOf[c]] = [by |-> c, sig |-> "kept", until |-> now[c] + ResultTtl],
                    !.used[WindowRow(c)] = Used(WindowRow(c)) + CostOf[c]]

Publish(c) ==
    /\ db' = Committed(c)
    /\ locks' = Released(c)
    /\ minted' = IF c \in Mints THEN minted \cup {c} ELSE minted

Commit(c) ==
    /\ Serve(c, "commit")
    /\ Publish(c)
    /\ Told(c, c)
    /\ UNCHANGED <<clock, link, late, now, got>>

\* What a timed-out statement leaves for the server: dropping a transaction queues
\* a ROLLBACK behind it; a COMMIT or an autocommitted write simply goes on.
LeftBehind(c) ==
    CASE pc[c] = "commit"                                 -> {"committing", "rollback"}
      [] pc[c] \in {"claim", "extend", "upsert", "charge"} -> {"rollback"}
      [] pc[c] = "insert"                                 -> {"inserting"}
      [] pc[c] = "delete"                                 -> {"deleting"}
      [] OTHER                                            -> {"done"}

\* DB_TIMEOUT elapses on c's round trip.
TimesOut(c) ==
    /\ "timeout" \in Faults
    /\ client[ReplicaOf[c]] = c
    /\ \E left \in LeftBehind(c) :
         /\ At(c, left)
         /\ late' = IF left = "done" THEN late ELSE [late EXCEPT ![ReplicaOf[c]] = Append(@, c)]
    /\ client' = [client EXCEPT ![ReplicaOf[c]] = "free"]
    /\ answer' = [answer EXCEPT ![c] = "unavailable"]
    /\ UNCHANGED <<clock, link, now, got, db, locks, minted>>

\* The server reaches what the timed-out call left on the connection.
WorkOff(c) ==
    /\ late[ReplicaOf[c]] # <<>> /\ Head(late[ReplicaOf[c]]) = c
    /\ late' = [late EXCEPT ![ReplicaOf[c]] = Tail(@)]
    /\ At(c, "done")
    /\ \/ pc[c] = "committing" /\ Publish(c)
       \/ pc[c] = "rollback" /\ locks' = Released(c) /\ UNCHANGED <<db, minted>>
       \/ /\ pc[c] = "inserting" /\ db' = [db EXCEPT !.issuances = Inserted(@, c)]
          /\ UNCHANGED <<locks, minted>>
       \/ /\ pc[c] = "deleting" /\ Unlocked(c, KeyOf[c])
          /\ db' = [db EXCEPT !.mints = WithoutExpired(@, c)]
          /\ UNCHANGED <<locks, minted>>
    /\ UNCHANGED <<clock, link, client, now, got, answer>>

\* The connection drops: open transactions are gone, the caller gets an error and
\* so does every later call until the process is restarted.  (A COMMIT that took effect
\* while its answer was lost is a round trip that timed out and ran late.)
Disconnect(r) ==
    /\ "disconnect" \in Faults /\ link[r] = "up"
    /\ link' = [link EXCEPT ![r] = "down"]
    /\ LET gone == {c \in Calls : c = client[r] \/ c \in Queued(r)} IN
       /\ pc' = [c \in Calls |-> IF c \in gone THEN "done" ELSE pc[c]]
       /\ answer' = [c \in Calls |-> IF c = client[r] THEN "unavailable" ELSE answer[c]]
       /\ locks' = [x \in DOMAIN locks |-> IF locks[x] \in gone THEN "free" ELSE locks[x]]
    /\ client' = [client EXCEPT ![r] = "free"]
    /\ late' = [late EXCEPT ![r] = <<>>]
    /\ UNCHANGED <<clock, now, got, db, minted>>

\* PgStore::connect of a restarted replica.
Reconnect(r) ==
    /\ link[r] = "down" /\ client[r] = "free"
    /\ link' = [link EXCEPT ![r] = "up"]
    /\ UNCHANGED <<clock, client, late, pc, now, got, answer, db, locks, minted>>

-----------------------------------------------------------------------------
(* prune_issuance_results, prune_mint_results, time *)

\* PRUNE_ISSUANCE_SQL keeps the row as a spent marker.
Scrubbed(rows) ==
    [k \in DOMAIN rows |-> IF Expired(rows[k], clock) THEN [rows[k] EXCEPT !.sig = "none"] ELSE rows[k]]

LiveWindow(w) == w + Window > clock
Open(c) == pc[c] \notin {"idle", "done"}
Timely == \A c \in Mints : Open(c) => LiveWindow(WindowRow(c))

\* The three statements of a periodic prune; a DELETE waits for locked rows.
Prune ==
    /\ "late" \in Faults \/ Timely
    /\ \A k \in DOMAIN db.mints : Expired(db.mints[k], clock) => locks[k] = "free"
    /\ \A w \in DOMAIN db.used : ~LiveWindow(w) => locks[w] = "free"
    /\ db' = [db EXCEPT !.issuances = Scrubbed(@),
                        !.mints = [k \in DOMAIN @ |-> IF Expired(@[k], clock) THEN NoRow ELSE @[k]],
                        !.used = [w \in DOMAIN @ |-> IF LiveWindow(w) THEN @[w] ELSE Free]]
    /\ db' # db
    /\ UNCHANGED <<clock, link, client, late, pc, now, got, answer, locks, minted>>

Tick ==
    /\ clock < MaxClock
    /\ clock' = clock + 1
    /\ UNCHANGED <<link, client, late, pc, now, got, answer, db, locks, minted>>

Step(c) ==
    \/ Acquire(c) \/ LockTimesOut(c) \/ Claim(c) \/ Extend(c)
    \/ LookupIssuance(c) \/ InsertIssuance(c) \/ RereadIssuance(c)
    \/ LookupMint(c) \/ DeleteMint(c) \/ UpsertMint(c) \/ ChargeQuota(c)
    \/ Commit(c) \/ TimesOut(c) \/ WorkOff(c)

Next ==
    /\ \/ \E c \in scenario.calls : Step(c)
       \/ \E r \in Replicas : Disconnect(r) \/ Reconnect(r)
       \/ Prune \/ Tick
    /\ UNCHANGED scenario

Spec == Init /\ [][Next]_vars

-----------------------------------------------------------------------------
Stages == {"idle", "claim", "extend", "lookup", "signed", "insert", "reread", "delete", "upsert",
           "charge", "commit", "committing", "rollback", "inserting", "deleting", "done"}
Refusals == {"spent", "conflict", "limited", "rejected", "unavailable"}

\* Type invariant.
TypeOK ==
    /\ clock \in 0..MaxClock
    /\ link \in [Replicas -> {"up", "down"}]
    /\ client \in [Replicas -> Calls \cup {"free"}]
    /\ \A r \in Replicas : Queued(r) \subseteq Calls
    /\ pc \in [Calls -> Stages]
    /\ now \in [Calls -> 0..MaxClock]
    /\ got \in [Calls -> Nat]
    /\ answer \in [Calls -> Calls \cup Refusals \cup {"none"}]
    /\ locks \in [Rows -> Calls \cup {"free"}]
    /\ minted \subseteq Mints
    /\ scenario \in Scenarios

\* Row locks belong to transactions that are open: the replica's current call or
\* the one its server is still working off.  Nothing keeps a row locked for good.
LocksAreOpen ==
    \A x \in DOMAIN locks : locks[x] # "free" =>
        /\ LET r == ReplicaOf[locks[x]] IN locks[x] = client[r] \/ locks[x] \in Queued(r)
        /\ pc[locks[x]] \in {"extend", "charge", "commit", "rollback", "committing"}

\* EXTEND_SUBSCRIPTION_SQL under the account's row lock: activations that race on
\* several replicas stack, each payment buys a whole period of its own, and a
\* replay is told exactly the first answer.
ActivationsStack ==
    LET paid == {k \in DOMAIN db.activations : db.activations[k].by # "nobody"} IN
    /\ \A k, m \in paid : k # m =>
          db.activations[k].until - db.activations[m].until \notin (1 - Period)..(Period - 1)
    /\ paid # {} => db.until = Max({db.activations[k].until : k \in paid})
    /\ \A c \in Activations : answer[c] \in Calls => got[c] = db.activations[KeyOf[c]].until

Cost(S) == MapThenSumSet(LAMBDA c : CostOf[c], S)
Charged(w) == {c \in minted : WindowRow(c) = w}

\* commit_mint on several replicas: result and charge are committed together, so a
\* window's row holds the cost of the results stored in it, within the maximum.
QuotaHolds ==
    "late" \notin Faults => \A w \in DOMAIN db.used :
        /\ Cost(Charged(w)) <= MaxTokens
        /\ db.used[w] # Free => db.used[w] = Cost(Charged(w))

\* A live mint result stays until it expires (DELETE_EXPIRED_MINT_KEY_SQL,
\* INSERT_MINT_SQL): no lookup, commit or late statement removes or replaces it.
LiveResultsStay ==
    \A c \in minted : clock < now[c] + ResultTtl => db.mints[KeyOf[c]].by = c

\* Tokens are only handed out with a committed charge.
MintsArePaidFor ==
    \A c \in Mints : answer[c] \in Calls =>
        answer[c] \in minted /\ HashOf[answer[c]] = HashOf[c]

\* PgStore: rows, locks, answers and charges agree, across racing replicas, calls
\* that timed out and connections that dropped.
PgInv == TypeOK /\ LocksAreOpen /\ ActivationsStack /\ QuotaHolds /\ LiveResultsStay /\ MintsArePaidFor

Ledger == INSTANCE RedemptionLedger WITH
              Requests <- Activations \cup Issues, Keys <- KeysOf(Activations \cup Issues),
              owner <- [k \in DOMAIN db.activations \cup DOMAIN db.issuances |->
                          IF k \in DOMAIN db.activations THEN db.activations[k].by ELSE db.issuances[k].by],
              answer <- [c \in Activations \cup Issues |-> answer[c]]
\* PgStore keeps the same promise as the file store: a reference or a payment has
\* one owner, whichever replica it was, and only the owner's result is answered.
KeepsPromise == Ledger!LedgerSpec
=============================================================================
