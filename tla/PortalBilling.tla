--------------------------- MODULE PortalBilling ---------------------------
(***************************************************************************)
(* What the Portal sells and to whom: accounts and login challenges,       *)
(* checkout and subscription references, the two payment rails, and the    *)
(* upgrade fence that older versions left behind.                          *)
(*                                                                         *)
(* References live in timed durable sets: a checkout's in `pending`, a     *)
(* subscription's, bound to its account, in `bindings`.  A task drops      *)
(* entries older than the TTL once per interval, counted from the start of *)
(* the process.  Older versions activated a subscription without the       *)
(* account store and recorded that in the fence; the operator may retire   *)
(* it after legacy_activation_fence_retirement_wait.  PortalStore has the  *)
(* store's own commits; here they are single steps.                        *)
(***************************************************************************)
EXTENDS Integers, FiniteSets, TLC

CONSTANTS Accounts,
          Refs,           \* references the CSPRNG yields
          Requests,       \* Requests[r]: records [kind, account, nonce, ref], "" where unused
          OldBindings,    \* <<ref, account>> pairs older versions bound
          Scenarios,      \* records [requests, old, holders, rails, until]: the requests made,
                          \* the old bindings left, the accounts there are, the rails buyers
                          \* use, and the time it ends
          Cap,            \* pending_checkout_max
          Ttl,            \* NW_CHECKOUT_TTL_SECS, at least one interval
          Interval,       \* REPLAY_PRUNE_INTERVAL_SECS
          Skew,           \* how far a stopped machine's clock was ahead: less than an interval
          ChallengeTtl,   \* CHALLENGE_TTL_SECS
          MaxRestarts     \* bound

VARIABLES scenario,    \* rigid
          clock,
          due,         \* when the prune task next runs
          soundSince,  \* running without interruption and failed prunes since then
          restarts,
          pending, bindings, revoked,          \* durable sets
          fence,                               \* legacy activations, read-only
          accounts, activated, issued,         \* the account store
          challenges, card, monero,            \* in memory
          confirming,                          \* references a webhook call found payable
          wallet, charged, refunded,           \* the outside world: payments and refunds
          req,         \* per request: its progress and answer
          handed,      \* history: [ref, of, at] of every reference returned
          acked,       \* history: refunds the processor was told are recorded
          proofs,      \* history: <<nonce, request, age>> of accepted challenges
          extended     \* history: how often a reference extended a subscription

world == <<wallet, charged, refunded>>
volatile == <<challenges, card, monero, confirming>>
sets == <<pending, bindings, revoked, fence>>
store == <<accounts, activated, issued>>
history == <<handed, acked, proofs, extended>>
timing == <<clock, due, soundSince, restarts>>
vars == <<timing, sets, store, volatile, world, req, history>>

OfKind(k) == {r \in scenario.requests : Requests[r].kind = k}
Account(r) == Requests[r].account
Ref(r) == Requests[r].ref
Without(f, S) == [x \in DOMAIN f \ S |-> f[x]]
Told(r, a) == req' = [req EXCEPT ![r] = a]

\* What the last old version left: bindings stamped up to Skew ahead of this
\* clock, and the fence of those among them it had activated.
Init ==
    /\ clock = 1 /\ due = 1 + Interval /\ soundSince = 1 /\ restarts = 0
    /\ pending = <<>> /\ revoked = {}
    /\ scenario \in Scenarios
    /\ bindings \in [scenario.old -> {1, 1 + Skew}] /\ fence \in SUBSET scenario.old
    /\ accounts = scenario.holders
    /\ req = [r \in scenario.requests |-> "idle"]
    /\ activated = {} /\ issued = {}
    /\ challenges = <<>> /\ card = {} /\ monero = {} /\ confirming = {}
    /\ wallet = {b[1] : b \in fence} /\ charged = {} /\ refunded = {}
    /\ handed = {} /\ acked = {} /\ proofs = {}
    /\ extended = [f \in Refs |-> Cardinality({b \in fence : b[1] = f})]

Bought == {h.ref : h \in handed} \cup {b[1] : b \in DOMAIN bindings}
Fresh == Refs \ ({b[1] : b \in OldBindings} \cup {h.ref : h \in handed})

---------------------------------------------------------------------------
(* Accounts and challenges: handlers.rs, auth.rs. *)

create_account(r) ==
    /\ r \in OfKind("create") /\ req[r] = "idle"
    /\ IF Account(r) \in accounts THEN Told(r, "conflict") /\ UNCHANGED accounts
       ELSE Told(r, "created") /\ accounts' = accounts \cup {Account(r)}
    /\ UNCHANGED <<timing, sets, activated, issued, volatile, world, history>>

\* issue: expired nonces are dropped on the way.
account_challenge(n) ==
    /\ n \notin DOMAIN challenges /\ \A p \in proofs : p[1] # n
    /\ LET kept == {c \in DOMAIN challenges : challenges[c] >= clock - ChallengeTtl}
       IN  challenges' = (n :> clock) @@ [c \in kept |-> challenges[c]]
    /\ UNCHANGED <<timing, sets, store, card, monero, confirming, world, req, history>>

\* consume, the first thing authenticate does; the account is read later.
consume(r) ==
    LET n == Requests[r].nonce IN
    /\ r \in OfKind("subscribe") \cup OfKind("activate") \cup OfKind("status") /\ req[r] = "idle"
    /\ challenges' = Without(challenges, {n})
    /\ IF n \in DOMAIN challenges /\ clock - challenges[n] <= ChallengeTtl
       THEN Told(r, "proved") /\ proofs' = proofs \cup {<<n, r, clock - challenges[n]>>}
       ELSE Told(r, "unauthorized") /\ UNCHANGED proofs
    /\ UNCHANGED <<timing, sets, store, card, monero, confirming, world, handed, acked, extended>>

\* account_status: the record read after the proof.
account_status(r) ==
    /\ r \in OfKind("status") /\ req[r] = "proved"
    /\ Told(r, IF Account(r) \in accounts THEN "status" ELSE "unauthorized")
    /\ UNCHANGED <<timing, sets, store, volatile, world, history>>

---------------------------------------------------------------------------
(* References: billing.rs, subscription.rs. *)

\* The check before any entropy or fsync.
checkout(r) ==
    /\ r \in OfKind("checkout") /\ req[r] = "idle"
    /\ Told(r, IF Cardinality(DOMAIN pending) >= Cap THEN "unavailable" ELSE "admitted")
    /\ UNCHANGED <<timing, sets, store, volatile, world, history>>

HasRoom == Cardinality(DOMAIN pending) < Cap

\* insert_if_below_capacity; the reference is returned once it is durable.
insert_if_below_capacity(r) ==
    /\ r \in OfKind("checkout") /\ req[r] = "admitted"
    /\ \/ Told(r, "unavailable") /\ UNCHANGED <<pending, handed>>   \* no room, or the append failed
       \/ /\ HasRoom
          /\ \E f \in Fresh :
                /\ pending' = (f :> clock) @@ pending
                /\ handed' = handed \cup {[ref |-> f, of |-> "checkout", at |-> clock]}
          /\ Told(r, "reference")
    /\ UNCHANGED <<timing, bindings, revoked, fence, store, volatile, world, acked, proofs, extended>>

subscribe(r) ==
    /\ r \in OfKind("subscribe") /\ req[r] = "proved"
    /\ \/ Told(r, "refused") /\ UNCHANGED <<bindings, handed>>   \* no such account, or the append failed
       \/ /\ Account(r) \in accounts
          /\ \E f \in Fresh :
                /\ bindings' = (<<f, Account(r)>> :> clock) @@ bindings
                /\ handed' = handed \cup {[ref |-> f, of |-> Account(r), at |-> clock]}
          /\ Told(r, "reference")
    /\ UNCHANGED <<timing, pending, revoked, fence, store, volatile, world, acked, proofs, extended>>

---------------------------------------------------------------------------
(* The payment rails: monero.rs, cards.rs. *)

is_confirmed(f) == f \in monero \/ (f \in card /\ f \notin revoked)

\* A buyer pays a reference they were handed, on one rail or both.
Pay ==
    /\ \E f \in Bought :
          \/ "monero" \in scenario.rails /\ wallet' = wallet \cup {f} /\ UNCHANGED charged
          \/ "card" \in scenario.rails /\ charged' = charged \cup {f} /\ UNCHANGED wallet
    /\ UNCHANGED <<timing, sets, store, volatile, refunded, req, history>>

Refund ==
    /\ \E f \in charged : refunded' = refunded \cup {f}
    /\ UNCHANGED <<timing, sets, store, volatile, wallet, charged, req, history>>

\* poll_once: transfers with ten confirmations and at least the minimum.
poll_once ==
    /\ monero' = monero \cup wallet
    /\ UNCHANGED <<timing, sets, store, challenges, card, confirming, world, req, history>>

\* webhook, delivered any number of times and in any order.  The checks come
\* first, the insertion under its own mutex later.
confirm(f) ==
    /\ f \in charged /\ f \notin revoked /\ f \in DOMAIN pending
    /\ confirming' = confirming \cup {f}
    /\ UNCHANGED <<timing, sets, store, challenges, card, monero, world, req, history>>

confirmed_insert(f) ==
    /\ f \in confirming
    /\ card' = card \cup {f} /\ confirming' = confirming \ {f}
    /\ UNCHANGED <<timing, sets, store, challenges, monero, world, req, history>>

\* 200 only once the revocation is durable; otherwise the processor retries.
revoke(f) ==
    /\ f \in refunded
    /\ revoked' = revoked \cup {f} /\ card' = card \ {f} /\ acked' = acked \cup {f}
    /\ UNCHANGED <<timing, pending, bindings, fence, store, challenges, monero, confirming, world, req,
                   handed, proofs, extended>>

---------------------------------------------------------------------------
(* What a payment buys: issue_logic, activate. *)

\* The gates of a new issuance; signing and the store come after them.
issue_logic(r) ==
    /\ r \in OfKind("issue") /\ req[r] = "idle"
    /\ Told(r, CASE Ref(r) \in issued -> "answered"
                 [] Ref(r) \notin DOMAIN pending -> "unknown"
                 [] ~is_confirmed(Ref(r)) -> "unpaid"
                 [] OTHER -> "signed")
    /\ UNCHANGED <<timing, sets, store, volatile, world, history>>

commit_issuance(r) ==
    /\ r \in OfKind("issue") /\ req[r] = "signed"
    /\ issued' = issued \cup {Ref(r)} /\ Told(r, "answered")
    /\ UNCHANGED <<timing, sets, accounts, activated, volatile, world, history>>

\* The gates of an activation, and the fence.
activate(r) ==
    LET b == <<Ref(r), Account(r)>> IN
    /\ r \in OfKind("activate") /\ req[r] = "proved"
    /\ Told(r, CASE Account(r) \notin accounts \/ b \notin DOMAIN bindings -> "unauthorized"
                 [] ~is_confirmed(Ref(r)) -> "unpaid"
                 [] b \in fence -> "active"
                 [] OTHER -> "claiming")
    /\ UNCHANGED <<timing, sets, store, volatile, world, history>>

\* activate_subscription: one commit; a reference already claimed replays.
activate_subscription(r) ==
    LET b == <<Ref(r), Account(r)>> IN
    /\ r \in OfKind("activate") /\ req[r] = "claiming"
    /\ activated' = activated \cup {b}
    /\ extended' = [extended EXCEPT ![Ref(r)] = @ + (IF b \in activated THEN 0 ELSE 1)]
    /\ Told(r, "active")
    /\ UNCHANGED <<timing, sets, accounts, issued, volatile, world, handed, acked, proofs>>

---------------------------------------------------------------------------
(* Time, the prune task, restarts and the end of the fence: main.rs. *)

Tick ==
    /\ clock < scenario.until /\ clock < due
    /\ clock' = clock + 1
    /\ UNCHANGED <<due, soundSince, restarts, sets, store, volatile, world, req, history>>

Young(f) == {x \in DOMAIN f : f[x] >= clock - Ttl}

prune_older_than ==
    /\ clock = due
    /\ due' = clock + Interval
    /\ \/ /\ pending' = Without(pending, DOMAIN pending \ Young(pending))
          /\ bindings' = Without(bindings, DOMAIN bindings \ Young(bindings))
          /\ UNCHANGED soundSince
       \/ soundSince' = clock /\ UNCHANGED <<pending, bindings>>
    /\ UNCHANGED <<clock, restarts, revoked, fence, store, volatile, world, req, history>>

\* Requests in flight end without an answer; the sleep of the task starts anew.
Started ==
    /\ due' = clock + Interval /\ soundSince' = clock
    /\ challenges' = <<>> /\ card' = {} /\ monero' = {} /\ confirming' = {}
    /\ req' = [r \in DOMAIN req |->
                  IF req[r] \in {"admitted", "proved", "signed", "claiming"} THEN "lost" ELSE req[r]]

Restart ==
    /\ restarts < MaxRestarts /\ restarts' = restarts + 1
    /\ Started
    /\ UNCHANGED <<clock, sets, store, world, history>>

\* (Mutant: one interval is thought to be margin enough.)
RetirementWaitShort == Ttl + Interval

legacy_activation_fence_retirement_wait == Ttl + 2 * Interval

\* A release without the fence, after the wait that main.rs prints.
Retire ==
    /\ fence # {} /\ clock - soundSince >= legacy_activation_fence_retirement_wait
    /\ fence' = {}
    /\ Started
    /\ UNCHANGED <<clock, restarts, pending, bindings, revoked, store, world, history>>

Nonces == {Requests[r].nonce : r \in {s \in scenario.requests : req[s] = "idle"}} \ {""}

Operation ==
    \/ \E r \in scenario.requests :
          \/ create_account(r) \/ consume(r) \/ account_status(r) \/ checkout(r)
          \/ insert_if_below_capacity(r) \/ subscribe(r) \/ issue_logic(r) \/ commit_issuance(r)
          \/ activate(r) \/ activate_subscription(r)
    \/ \E n \in Nonces : account_challenge(n)
    \/ Pay \/ Refund \/ poll_once
    \/ \E f \in charged : confirm(f) \/ confirmed_insert(f)
    \/ \E f \in refunded : revoke(f)
    \/ Tick \/ prune_older_than \/ Restart \/ Retire

Next == Operation /\ UNCHANGED scenario

---------------------------------------------------------------------------
(* What is promised. *)

TypeOK ==
    /\ clock \in 1..scenario.until /\ due \in clock..(clock + Interval) /\ soundSince <= clock
    /\ DOMAIN pending \subseteq Refs /\ DOMAIN bindings \subseteq Refs \X Accounts
    /\ card \subseteq charged /\ monero \subseteq wallet
    /\ issued \subseteq Refs /\ activated \subseteq Refs \X Accounts

\* A challenge admits one request, within its TTL.  A paid reference extends
\* one subscription once, that of the account it was bound to, even if an older
\* version did so and the fence that says so has been retired.
ExtendedOnce ==
    /\ \A p, q \in proofs : p[1] = q[1] => p = q
    /\ \A p \in proofs : p[3] <= ChallengeTtl
    /\ \A f \in Refs : extended[f] <= 1 /\ (extended[f] = 1 => f \in wallet \cup charged)
    /\ \A b \in activated : b \in OldBindings \/ \E h \in handed : h.ref = b[1] /\ h.of = b[2]

\* The pending set stays within its bound under concurrent checkouts.  A
\* reference a buyer was handed is known until its TTL has passed, whatever
\* restarts come in between.  A refund that was acknowledged is never again
\* counted as a card payment: not after a restart, not when the confirmation
\* is delivered late, twice or while the refund is recorded.  Tokens are issued only for references the
\* Portal minted and was paid for; subscriptions are extended as ExtendedOnce says.
BillingInv ==
    /\ TypeOK /\ ExtendedOnce
    /\ Cardinality(DOMAIN pending) <= Cap
    /\ \A h \in handed : clock <= h.at + Ttl =>
          IF h.of = "checkout" THEN h.ref \in DOMAIN pending
          ELSE <<h.ref, h.of>> \in DOMAIN bindings
    /\ \A f \in acked : is_confirmed(f) => f \in wallet
    /\ \A f \in issued : f \in wallet \cup charged /\ \E h \in handed : h.ref = f /\ h.of = "checkout"
=============================================================================
