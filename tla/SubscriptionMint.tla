-------------------------- MODULE SubscriptionMint --------------------------
(***************************************************************************)
(* Subscription-gated batch issuance (mint, mint_v1, mint_validated) of    *)
(* one account, served by several Portal replicas over one store.          *)
(*                                                                         *)
(* A request reads the clock once and keeps that reading: it looks its     *)
(* retry identity up, is admitted by the replica's own rate limiter, has   *)
(* its batch signed and commits result and quota charge together.  The     *)
(* store's operations are atomic here; PortalStore shows what the file     *)
(* backend makes of a crash inside one of them.                            *)
(***************************************************************************)
EXTENDS Integers, FiniteSets, FiniteSetsExt

CONSTANTS
    Batches,      \* attempts at POST /v1|v2/tokens/mint, a batch each
    KeyOf,        \* request_key of each attempt
    HashOf,       \* request_hash of each attempt
    CostOf,       \* batch size of each attempt
    PortalOf,     \* the replica that serves it
    MaxTokens,    \* account_rate_max
    Window,       \* MINT_ACCOUNT_RATE_WINDOW
    ResultTtl,    \* MINT_RESULT_TTL_SECS
    ActiveUntil,  \* expiry of the account's subscription
    Horizon,      \* bound on the clock
    MintScenarios \* what may be requested and what may fail together: see mintScenario

MintFaultKinds ==
    {"signer",   \* blind_sign fails
     "store",    \* commit_mint reports an error
     "restart",  \* a replica restarts
     "late"}     \* a request is in flight when its window's row is pruned

Keys == {KeyOf[r] : r \in Batches}
Portals == {PortalOf[r] : r \in Batches}
Free == 0 - 1

\* What the code guarantees of the constants.
ASSUME MintAssumption ==
    /\ CostOf \in [Batches -> Nat \ {0}]
    /\ DOMAIN KeyOf = Batches /\ DOMAIN HashOf = Batches /\ DOMAIN PortalOf = Batches
    /\ MaxTokens \in Nat \ {0} /\ Window \in Nat \ {0} /\ ResultTtl \in Nat \ {0}
    /\ ActiveUntil \in Nat /\ Horizon \in Nat
    /\ \A s \in MintScenarios : s.faults \subseteq MintFaultKinds /\ s.requests \subseteq Batches
    /\ Batches \cap {"nobody", "none", "refused", "conflict", "unpaid", "limited", "failed"} = {}

VARIABLES
    time,        \* wall and monotonic clock
    step,        \* per request: "idle", "lookup", "admit", "commit", "done"
    at,          \* per request: the clock it read
    reserved,    \* per request: window start of its RateLimitReservation, or Free
    bucket,      \* per replica: the account's bucket, [start, used]; start = Free if absent
    results,     \* mint_results: per key the winning request, "nobody" if absent
    quotas,      \* mint_quotas: per window start the tokens used, Free if absent
    reply,       \* per request: the request whose signatures it got, or a refusal
    storedAt,    \* history: when a request's result was stored, or Free
    mintScenario \* rigid: the failures and the requests of this behaviour

MintFaults == mintScenario.faults

stored == <<results, quotas>>
mintVars == <<time, step, at, reserved, bucket, stored, reply, storedAt, mintScenario>>

\* mint_quota: the window of a request is the one its own reading falls in.
WindowOf(now) == now - (now % Window)
Windows == {WindowOf(t) : t \in 0..Horizon}
ExpiresAt(r) == at[r] + ResultTtl
AbsentBucket == [start |-> Free, used |-> 0]

MintInit ==
    /\ mintScenario \in MintScenarios
    /\ time = 0
    /\ step = [r \in Batches |-> "idle"]
    /\ at = [r \in Batches |-> 0]
    /\ reserved = [r \in Batches |-> Free]
    /\ bucket = [p \in Portals |-> AbsentBucket]
    /\ results = [k \in Keys |-> "nobody"]
    /\ quotas = [w \in Windows |-> Free]
    /\ reply = [r \in Batches |-> "none"]
    /\ storedAt = [r \in Batches |-> Free]

Told(r, a) ==
    /\ step' = [step EXCEPT ![r] = "done"]
    /\ reply' = [reply EXCEPT ![r] = a]

-----------------------------------------------------------------------------
(* RateLimiter: the replica's advisory bucket *)

\* charge_n: a new window starts with the first charge after the old one ended.
Charged(b, cost) ==
    IF b.start = Free \/ time - b.start >= Window
    THEN [start |-> time, used |-> cost]
    ELSE [b EXCEPT !.used = @ + cost]

\* refund: only the window that was charged, and an empty bucket is removed.
Refunded(b, start, cost) ==
    LET left == IF b.used > cost THEN b.used - cost ELSE 0
    IN  IF b.start = Free \/ b.start # start THEN b
        ELSE IF left = 0 THEN AbsentBucket ELSE [b EXCEPT !.used = left]

\* Dropping the reservation uncommitted, and committing it.
Refund(r) ==
    /\ bucket' = [bucket EXCEPT ![PortalOf[r]] = Refunded(@, reserved[r], CostOf[r])]
    /\ reserved' = [reserved EXCEPT ![r] = Free]

Keep == UNCHANGED <<bucket, reserved>>

-----------------------------------------------------------------------------
(* The handler *)

\* The clock is read and the challenge consumed (authenticate).
Begin(r) ==
    /\ step[r] = "idle"
    /\ step' = [step EXCEPT ![r] = "lookup"]
    /\ at' = [at EXCEPT ![r] = time]
    /\ UNCHANGED <<time, reserved, bucket, stored, reply, storedAt>>

\* (Mutant: a row is dropped one second before it expires.)
RowEarly(r) ==
    LET w == results[KeyOf[r]]
    IN  IF w # "nobody" /\ ExpiresAt(w) <= at[r] + 1 THEN "nobody" ELSE w

\* The row of r's key once an expired one is removed.
Row(r) ==
    LET w == results[KeyOf[r]]
    IN  IF w # "nobody" /\ ExpiresAt(w) <= at[r] THEN "nobody" ELSE w

\* The answer a live row gives.
FromRow(r) == IF HashOf[Row(r)] = HashOf[r] THEN Row(r) ELSE "conflict"

\* lookup_mint, then the entitlement gate on the record read at authentication.
Lookup(r) ==
    /\ step[r] = "lookup"
    /\ results' = [results EXCEPT ![KeyOf[r]] = Row(r)]
    /\ IF Row(r) # "nobody" THEN Told(r, FromRow(r))
       ELSE IF ActiveUntil <= at[r] THEN Told(r, "unpaid")
       ELSE step' = [step EXCEPT ![r] = "admit"] /\ UNCHANGED reply
    /\ UNCHANGED <<time, at, quotas, reserved, bucket, storedAt>>

\* reserve_n; a refused charge stays in the bucket.  An admitted request signs
\* its batch, which nothing but a failure makes visible, and goes on to commit.
Reserve(r) ==
    /\ step[r] = "admit"
    /\ LET b == Charged(bucket[PortalOf[r]], CostOf[r]) IN
       /\ bucket' = [bucket EXCEPT ![PortalOf[r]] = b]
       /\ IF b.used <= MaxTokens
          THEN /\ reserved' = [reserved EXCEPT ![r] = b.start]
               /\ step' = [step EXCEPT ![r] = "commit"]
               /\ UNCHANGED reply
          ELSE Told(r, "limited") /\ UNCHANGED reserved
    /\ UNCHANGED <<time, at, stored, storedAt>>

\* blind_sign fails on one message of the batch, or returns a wrong length.
SignFails(r) ==
    /\ step[r] = "commit" /\ "signer" \in MintFaults
    /\ Told(r, "failed") /\ Refund(r)
    /\ UNCHANGED <<time, at, stored, storedAt>>

Used(w) == IF quotas[w] = Free THEN 0 ELSE quotas[w]
Fits(r) == Used(WindowOf(at[r])) + CostOf[r] <= MaxTokens

\* The first live result and its charge, in one commit.
Store(r) ==
    /\ results' = [results EXCEPT ![KeyOf[r]] = r]
    /\ quotas' = [quotas EXCEPT ![WindowOf(at[r])] = Used(WindowOf(at[r])) + CostOf[r]]
    /\ storedAt' = [storedAt EXCEPT ![r] = time]

\* Nothing is stored; an expired row is gone.
StoreNothing(r) ==
    /\ results' = [results EXCEPT ![KeyOf[r]] = Row(r)]
    /\ UNCHANGED <<quotas, storedAt>>

\* commit_mint and what mint_validated makes of its outcome.
Commit(r) ==
    /\ step[r] = "commit"
    /\ \/ Row(r) # "nobody" /\ StoreNothing(r) /\ Told(r, FromRow(r)) /\ Refund(r)
       \/ Row(r) = "nobody" /\ ~Fits(r) /\ StoreNothing(r) /\ Told(r, "limited") /\ Keep
       \/ Row(r) = "nobody" /\ Fits(r) /\ Store(r) /\ Told(r, r) /\ Keep
    /\ UNCHANGED <<time, at>>

\* The store reports an error; the commit may have happened all the same.
CommitFails(r) ==
    /\ step[r] = "commit" /\ "store" \in MintFaults
    /\ \/ UNCHANGED <<stored, storedAt>>
       \/ Row(r) = "nobody" /\ Fits(r) /\ Store(r)
    /\ Told(r, "failed") /\ Refund(r)
    /\ UNCHANGED <<time, at>>

-----------------------------------------------------------------------------
InFlight == {r \in Batches : step[r] \notin {"idle", "done"}}

\* A quota window is kept until it has ended.
LiveWindow(w) == w + Window > time

\* No request in flight read the clock in a window that has ended since.
Timely == \A r \in InFlight : LiveWindow(WindowOf(at[r]))

\* prune_mint_results, at startup and every five minutes.
PruneMint ==
    /\ "late" \in MintFaults \/ Timely
    /\ results' = [k \in Keys |-> IF results[k] # "nobody" /\ ExpiresAt(results[k]) <= time
                                  THEN "nobody" ELSE results[k]]
    /\ quotas' = [w \in Windows |-> IF LiveWindow(w) THEN quotas[w] ELSE Free]
    /\ stored' # stored
    /\ UNCHANGED <<time, step, at, reserved, bucket, reply, storedAt>>

\* A replica restarts: its buckets and the requests it was serving are gone.
Restart(p) ==
    /\ "restart" \in MintFaults
    /\ LET gone == {r \in InFlight : PortalOf[r] = p} IN
       /\ step' = [r \in Batches |-> IF r \in gone THEN "done" ELSE step[r]]
       /\ reply' = [r \in Batches |-> IF r \in gone THEN "failed" ELSE reply[r]]
    /\ reserved' = [r \in Batches |-> IF PortalOf[r] = p THEN Free ELSE reserved[r]]
    /\ bucket' = [bucket EXCEPT ![p] = AbsentBucket]
    /\ bucket' # bucket
    /\ UNCHANGED <<time, at, stored, storedAt>>

MintTick ==
    /\ time < Horizon
    /\ time' = time + 1
    /\ UNCHANGED <<step, at, reserved, bucket, stored, reply, storedAt>>

Step(r) == Lookup(r) \/ Reserve(r) \/ SignFails(r) \/ Commit(r) \/ CommitFails(r)

MintNext ==
    /\ \/ \E r \in mintScenario.requests : Begin(r) \/ Step(r)
       \/ PruneMint \/ MintTick
       \/ \E p \in Portals : Restart(p)
    /\ UNCHANGED mintScenario

MintSpec == MintInit /\ [][MintNext]_mintVars

-----------------------------------------------------------------------------
MintRefusals == {"none", "conflict", "unpaid", "limited", "failed"}

\* Type invariant.
MintTypeOK ==
    /\ time \in 0..Horizon
    /\ step \in [Batches -> {"idle", "lookup", "admit", "commit", "done"}]
    /\ at \in [Batches -> 0..Horizon]
    /\ reserved \in [Batches -> 0..Horizon \cup {Free}]
    /\ bucket \in [Portals -> [start : 0..Horizon \cup {Free}, used : Nat]]
    /\ \A p \in Portals : bucket[p].start # Free => bucket[p].used > 0
    /\ results \in [Keys -> Batches \cup {"nobody"}]
    /\ quotas \in [Windows -> 0..MaxTokens \cup {Free}]
    /\ reply \in [Batches -> Batches \cup MintRefusals]
    /\ storedAt \in [Batches -> 0..Horizon \cup {Free}]
    /\ mintScenario \in MintScenarios

Cost(S) == MapThenSumSet(LAMBDA r : CostOf[r], S)
Minted(w) == {r \in Batches : storedAt[r] # Free /\ WindowOf(at[r]) = w}

\* The per-account budget (commit_mint): whatever replicas, retries and failures
\* do, the batches stored in a window never exceed account_rate_max tokens.  (A
\* request that commits after its window's row was pruned starts the row anew.)
QuotaHolds == "late" \notin MintFaults => \A w \in Windows : Cost(Minted(w)) <= MaxTokens

\* A window's row charges each stored batch exactly once: replays, conflicts and
\* refused or failed commits charge nothing (RETAINED_DATA.md: "charge only the
\* winning first result").
ChargedOnce == "late" \notin MintFaults => \A w \in Windows : quotas[w] # Free => quotas[w] = Cost(Minted(w))

\* A retry identity has one result at a time (lookup_mint, commit_mint): a second
\* result is stored under the same key only after the first has expired.
ReplacedOnlyExpired ==
    \A r, s \in Batches :
        r # s /\ KeyOf[r] = KeyOf[s] /\ storedAt[r] # Free /\ storedAt[s] # Free
            => storedAt[r] >= ExpiresAt(s) \/ storedAt[s] >= ExpiresAt(r)

\* Signatures go only to the request hash they were made for, and were stored:
\* no answer carries a batch the quota did not pay for.
AnswersArePaidFor ==
    \A r \in Batches : reply[r] \in Batches =>
        HashOf[reply[r]] = HashOf[r] /\ storedAt[reply[r]] # Free

\* The replica's own limiter: admissions that were not given back never exceed
\* the cap in a window, whatever was refunded to it late (charge_n, refund).
AdmissionsBounded ==
    \A p \in Portals, s \in 0..Horizon :
        LET held == {r \in Batches : PortalOf[r] = p /\ reserved[r] = s}
        IN  Cost(held) <= MaxTokens /\ (bucket[p].start = s => Cost(held) <= bucket[p].used)

\* Batches are stored by requests that then answer, after they read the clock; one
\* leaves the table only when it has expired, and what the table has was stored
\* under that key.
StoredInOrder ==
    /\ \A r \in Batches : at[r] <= time
    /\ \A r \in Batches : storedAt[r] # Free =>
          /\ step[r] = "done" /\ at[r] <= storedAt[r] /\ storedAt[r] <= time
          /\ results[KeyOf[r]] = r \/ ExpiresAt(r) <= time
    /\ \A k \in Keys : results[k] # "nobody" =>
          KeyOf[results[k]] = k /\ storedAt[results[k]] # Free

\* A window loses its row only when it has ended and nobody is still to charge it.
RowsGoLast ==
    "late" \notin MintFaults =>
        \A w \in Windows : quotas[w] = Free /\ Minted(w) # {} =>
            ~LiveWindow(w) /\ \A r \in InFlight : WindowOf(at[r]) # w

\* Windows of the limiter began by now; admitted requests are past it, and an
\* admission outside the bucket's window was made before now.
AdmissionsInOrder ==
    /\ \A p \in Portals : bucket[p].start <= time
    /\ \A r \in Batches : reserved[r] # Free =>
          /\ step[r] \in {"commit", "done"}
          /\ reserved[r] = bucket[PortalOf[r]].start \/ reserved[r] < time

\* The sums are over finitely many: every step stores or admits at most one.
FinitelyMany ==
    /\ IsFiniteSet({r \in Batches : storedAt[r] # Free})
    /\ IsFiniteSet({r \in Batches : reserved[r] # Free})

\* The store between operations (lookup_mint, commit_mint): the budget holds, rows charge
\* what was stored, results are one at a time per identity, and answers come from them.
MintInv ==
    /\ MintTypeOK /\ QuotaHolds /\ ChargedOnce /\ ReplacedOnlyExpired
    /\ AnswersArePaidFor /\ AdmissionsBounded /\ StoredInOrder /\ RowsGoLast
    /\ AdmissionsInOrder /\ FinitelyMany
=============================================================================
