-------------------------- MODULE CoordinatorCluster --------------------------
(***************************************************************************)
(* Coordinator replicas over one PostgreSQL nullifier table, while a new   *)
(* list of issuer keys is rolled out: /v1/redeem from the client's address *)
(* and the limiter through the checks of the pass to the single upsert     *)
(* that spends it, with statements that time out, replicas that restart,   *)
(* and the periodic removal of expired answers.                            *)
(***************************************************************************)
EXTENDS Integers, Sequences

CONSTANTS
    Replicas, Requests,
    PassOf,     \* the pass a request carries, once its hex is decoded
    SpellingOf, \* how the hex of its message was written: "lower" or "upper"
    EpochOf,    \* pass -> issuer key that signed it
    ExpiryOf,   \* pass -> expiry of an NTV2 message, or Legacy
    ReplicaOf,
    PeerOf,     \* request -> socket peer
    HeaderOf,   \* request -> values of x-nil-client-ip
    Proxy,      \* NW_TRUSTED_PROXY_IP
    Clients,    \* canonical client addresses
    Rollout,    \* successive values of NW_TOKEN_PUBKEY: a sequence of sets of keys
    Validity,   \* V2_VALIDITY_SECS + V2_EPOCH_SECS
    Cutoff,     \* NW_LEGACY_TOKEN_CUTOFF
    GrantTtl, RateMax, RateWindow, MaxClock,
    Scenarios   \* what may be requested and what may fail together

FaultKinds ==
    {"timeout",  \* DB_TIMEOUT elapses, or the connection drops, on the upsert
     "deploy",   \* replicas are restarted with the next key list
     "path",     \* no path, no clock, or no grant could be made
     "keys"}     \* the replicas hold different result keys

VARIABLES
    clock,
    generation, \* per replica: which element of Rollout it runs with
    hits,       \* per replica and client: the limiter's bucket
    pc, now,    \* per request
    answer,     \* per request: the request whose path it got, or a refusal
    rows,       \* the nullifiers table
    scenario

vars == <<clock, generation, hits, pc, now, answer, rows, scenario>>

Faults == scenario.faults
Legacy == 0 - 1
Passes == DOMAIN EpochOf
KeyNames == Passes \X {"lower", "upper"}
NoRow == [by |-> "nobody", until |-> 0]
NoBucket == [start |-> 0, used |-> 0]
Refusals == {"none", "refused", "limited", "bad", "unavailable", "lost", "spent"}

\* Nothing is assumed of how many there are, nor of how lifetimes, windows and key
\* lists relate.
ASSUME FleetAssumption ==
    /\ Requests \cap (Refusals \cup {"nobody", "rejected", "legacy"}) = {}
    /\ PassOf \in [Requests -> Passes] /\ ReplicaOf \in [Requests -> Replicas]
    /\ Len(Rollout) \in Nat \ {0} /\ MaxClock \in Nat /\ GrantTtl \in Nat \ {0}
    /\ RateMax \in Nat /\ RateWindow \in Nat
    /\ \A s \in Scenarios : s.faults \subseteq FaultKinds /\ s.requests \subseteq Requests

Init ==
    /\ scenario \in Scenarios
    /\ clock = 0
    /\ generation = [p \in Replicas |-> 1]
    /\ hits = [p \in Replicas |-> [c \in Clients |-> NoBucket]]
    /\ pc = [r \in Requests |-> "idle"]
    /\ now = [r \in Requests |-> 0]
    /\ answer = [r \in Requests |-> "none"]
    /\ rows = [k \in KeyNames |-> NoRow]

-----------------------------------------------------------------------------
(* From the socket to the ledger *)

\* ClientIpPolicy::resolve behind a proxy: the exact peer, and exactly one
\* canonical address in the header.
Attributed(r) == PeerOf[r] = Proxy /\ Len(HeaderOf[r]) = 1 /\ HeaderOf[r][1] \in Clients
ClientOf(r) == HeaderOf[r][1]

\* RateLimiter::check: a hit is counted before it is judged.
Hit(b) ==
    IF b.used = 0 \/ clock - b.start >= RateWindow THEN [start |-> clock, used |-> 1]
    ELSE [b EXCEPT !.used = @ + 1]

\* is_v2_message, v2_message_is_current, legacy_token_allowed.
Current(p, t) ==
    IF ExpiryOf[p] = Legacy THEN t <= Cutoff ELSE t <= ExpiryOf[p] /\ ExpiryOf[p] <= t + Validity

\* Verifier::verify_with_epoch: some key of this replica's list signed the pass.
Verifies(r) == EpochOf[PassOf[r]] \in Rollout[generation[ReplicaOf[r]]]

Finish(r, a) ==
    /\ answer' = [answer EXCEPT ![r] = a]
    /\ pc' = [pc EXCEPT ![r] = "done"]

\* redeem, and redeem_logic up to commit_or_replay: whatever can fail does so
\* before the pass is spent.
Admit(r) ==
    /\ pc[r] = "idle"
    /\ now' = [now EXCEPT ![r] = clock]
    /\ \/ ~Attributed(r) /\ Finish(r, "refused") /\ UNCHANGED hits
       \/ /\ Attributed(r)
          /\ LET bucket == Hit(hits[ReplicaOf[r]][ClientOf(r)])
                 within == bucket.used <= RateMax
                 good   == Current(PassOf[r], clock) /\ Verifies(r)
             IN  /\ hits' = [hits EXCEPT ![ReplicaOf[r]][ClientOf(r)] = bucket]
                 /\ \/ ~within /\ Finish(r, "limited")
                    \/ within /\ ~good /\ Finish(r, "bad")
                    \/ within /\ good /\ "path" \in Faults /\ Finish(r, "unavailable")
                    \/ /\ within /\ good
                       /\ pc' = [pc EXCEPT ![r] = "commit"]
                       /\ UNCHANGED answer
    /\ UNCHANGED <<clock, generation, rows, scenario>>

-----------------------------------------------------------------------------
(* commit_or_replay of the Postgres store *)

\* The ledger's key is the lowercase hex of the decoded message.
Canonical(text) == <<text[1], "lower">>
NullifierKey(r) == Canonical(<<PassOf[r], SpellingOf[r]>>)

\* ReplayCipher::open: only a replica with the sealing replica's key reads it.
Opens(row, r) == "keys" \in Faults => ReplicaOf[row.by] = ReplicaOf[r]

\* COMMIT_SQL: the first row stays; its answer stays as long as it is live.
Upserted(r) ==
    LET row == rows[NullifierKey(r)] IN
    IF row.by = "nobody" THEN [by |-> r, until |-> now[r] + GrantTtl]
    ELSE IF row.until > now[r] THEN row
    ELSE [row EXCEPT !.until = 0]

\* (Mutant: the stored answer is returned however old it is.)
OutcomeStale(row, r) == IF Opens(row, r) THEN row.by ELSE "spent"

\* What the returned row answers.
Outcome(row, r) == IF row.until > now[r] /\ Opens(row, r) THEN row.by ELSE "spent"

Upsert(r) ==
    /\ pc[r] = "commit"
    /\ rows' = [rows EXCEPT ![NullifierKey(r)] = Upserted(r)]
    /\ Finish(r, Outcome(Upserted(r), r))
    /\ UNCHANGED <<clock, generation, hits, now, scenario>>

\* DB_TIMEOUT elapses: the caller is told, the statement is on its way.
TimesOut(r) ==
    /\ "timeout" \in Faults /\ pc[r] = "commit"
    /\ answer' = [answer EXCEPT ![r] = "unavailable"]
    /\ pc' = [pc EXCEPT ![r] = "late"]
    /\ UNCHANGED <<clock, generation, hits, now, rows, scenario>>

\* The server executes it after all, or the connection took it along.
ArrivesLate(r) ==
    /\ pc[r] = "late"
    /\ pc' = [pc EXCEPT ![r] = "done"]
    /\ \/ rows' = [rows EXCEPT ![NullifierKey(r)] = Upserted(r)]
       \/ UNCHANGED rows
    /\ UNCHANGED <<clock, generation, hits, now, answer, scenario>>

-----------------------------------------------------------------------------
(* The fleet *)

\* (Mutant: the sweep also drops the epochs whose key this replica does not hold.)
ClearedByEpoch(p, k) ==
    IF EpochOf[k[1]] \notin Rollout[generation[p]] THEN NoRow
    ELSE IF rows[k].until <= clock THEN [rows[k] EXCEPT !.until = 0] ELSE rows[k]

\* PRUNE_SQL keeps the spent marker; drop_epochs is not called.
Cleared(p, k) == IF rows[k].until <= clock THEN [rows[k] EXCEPT !.until = 0] ELSE rows[k]

\* The cleanup task of replica p.
Prune(p) ==
    /\ rows' = [k \in KeyNames |-> Cleared(p, k)]
    /\ rows' # rows
    /\ UNCHANGED <<clock, generation, hits, pc, now, answer, scenario>>

\* Replica p is restarted with the next key list: its limiter and its requests
\* are gone, a statement it sent may still arrive.
Redeploy(p) ==
    /\ "deploy" \in Faults /\ generation[p] < Len(Rollout)
    /\ generation' = [generation EXCEPT ![p] = @ + 1]
    /\ hits' = [hits EXCEPT ![p] = [c \in Clients |-> NoBucket]]
    /\ LET lost == {r \in Requests : ReplicaOf[r] = p /\ pc[r] = "commit"} IN
       /\ pc' = [r \in Requests |-> IF r \in lost THEN "late" ELSE pc[r]]
       /\ answer' = [r \in Requests |-> IF r \in lost THEN "lost" ELSE answer[r]]
    /\ UNCHANGED <<clock, now, rows, scenario>>

Tick ==
    /\ clock < MaxClock
    /\ clock' = clock + 1
    /\ UNCHANGED <<generation, hits, pc, now, answer, rows, scenario>>

Next ==
    \/ \E r \in scenario.requests : Admit(r) \/ Upsert(r) \/ TimesOut(r) \/ ArrivesLate(r)
    \/ \E p \in Replicas : Prune(p) \/ Redeploy(p)
    \/ Tick

Spec == Init /\ [][Next]_vars

-----------------------------------------------------------------------------
\* Type invariant.
TypeOK ==
    /\ clock \in 0..MaxClock
    /\ generation \in [Replicas -> 1..Len(Rollout)]
    /\ hits \in [Replicas -> [Clients -> [start : 0..MaxClock, used : Nat]]]
    /\ pc \in [Requests -> {"idle", "commit", "late", "done"}]
    /\ now \in [Requests -> 0..MaxClock]
    /\ answer \in [Requests -> Requests \cup Refusals]
    /\ rows \in [KeyNames -> [by : Requests \cup {"nobody"}, until : Nat]]
    /\ scenario \in Scenarios

\* commit_or_replay hands out an earlier path only while its grants live: never a
\* result that its own lifetime had ended for the request that gets it.
AnswersAreLive ==
    \A r \in Requests : answer[r] \in Requests =>
        PassOf[answer[r]] = PassOf[r] /\ now[r] < now[answer[r]] + GrantTtl

\* A pass is spent only by a request that came in its validity and from one known
\* client address, and that request was answered with its own result, or not at all
\* (a timeout, a restart), whichever statement arrives when.
SpentWhileValid ==
    \A k \in KeyNames : rows[k].by # "nobody" =>
        Current(k[1], now[rows[k].by]) /\ Attributed(rows[k].by)
            /\ answer[rows[k].by] \in {rows[k].by, "unavailable", "lost"}

\* What waits for the database was let through, and has no answer yet but that of a
\* timeout or a restart.
WaitingWasAdmitted ==
    \A r \in Requests :
        /\ pc[r] \in {"idle", "commit"} => answer[r] = "none"
        /\ pc[r] \in {"commit", "late"} => Current(PassOf[r], now[r]) /\ Attributed(r)
        /\ pc[r] = "late" => answer[r] \in {"unavailable", "lost"}

\* The row of a pass is under the lowercase spelling, of a request for that pass whose
\* statement has run, and keeps its answer for that request's lifetime or not at all;
\* whoever got a path got that of the row.
RowsAndAnswers ==
    /\ \A k \in KeyNames : LET row == rows[k] IN
          IF row.by = "nobody" THEN row.until = 0
          ELSE /\ k = NullifierKey(row.by) /\ pc[row.by] = "done"
               /\ row.until \in {0, now[row.by] + GrantTtl}
    /\ \A r \in Requests : answer[r] \in Requests =>
          pc[r] = "done" /\ rows[NullifierKey(r)].by = answer[r]

\* Replicas with different key lists over one table: what is answered is live, and
\* what is spent was valid.
ClusterInv ==
    /\ TypeOK /\ WaitingWasAdmitted /\ RowsAndAnswers
    /\ AnswersAreLive /\ SpentWhileValid

Ledger == INSTANCE RedemptionLedger WITH
              Keys <- Passes, KeyOf <- PassOf, owner <- [p \in Passes |-> rows[<<p, "lower">>].by],
              answer <- [r \in Requests |->
                           IF answer[r] \in {"refused", "limited", "bad"} THEN "rejected" ELSE answer[r]]
\* The clustered ledger keeps the promise of the file ledger: across replicas,
\* spellings of the message, late statements, sweeps and key lists in rotation, a
\* pass has one owner for good and only the owner's path is answered for it.
ClusterKeepsPromise == Ledger!LedgerSpec
=============================================================================
