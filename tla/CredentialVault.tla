--------------------------- MODULE CredentialVault ---------------------------
(***************************************************************************)
(* The client's sealed credential vault and everything that touches it:    *)
(* the background refill of connection passes, the purchase of one pass,   *)
(* logout and account replacement, and connect, which reserves a pass,     *)
(* brings a tunnel up with it and only then forgets it                     *)
(* (client/src-tauri/src/{tokenstore,tokenrefill,tokens,securestore,lib}). *)
(*                                                                         *)
(* The vault is one file, rewritten whole under one mutex, so a vault      *)
(* transaction is one step.  Its three longer jobs are serialised by the   *)
(* refill gate: "job" is the state of the gate's holder.  Connect does not *)
(* take the gate.                                                          *)
(*                                                                         *)
(* A pass <<q, i>> is the i-th pass of issuance request q.  A pass is      *)
(* reserved once in its life, so it also stands for its reservation's      *)
(* random id.                                                              *)
(***************************************************************************)
EXTENDS Naturals, Sequences, FiniteSets, SequencesExt

CONSTANTS
    Accounts, Payments,
    Connects,        \* concurrent invocations of the connect command
    RefillTarget, RefillLowWatermark,
    MaxStored,       \* MAX_STORED_TOKENS
    Life,            \* clock ticks a v2 message stays current
    MaxRequests, MaxChanges, MaxClock,
    Scenarios        \* who acts, what may fail, and the bounds: see scenario

FaultKinds ==
    {"loss",         \* a Portal or Coordinator answer does not arrive
     "store",        \* the vault cannot be rewritten
     "dirsync",      \* the rewritten vault's directory sync fails
     "crash"}        \* the application stops

ASSUME VaultAssumption ==
    /\ RefillTarget \in Nat /\ RefillLowWatermark \in Nat
    /\ RefillLowWatermark < RefillTarget
    /\ MaxStored \in Nat /\ Life \in Nat \ {0}
    /\ Accounts \cap Payments = {}
    /\ \A s \in Scenarios :
          /\ s.faults \subseteq FaultKinds /\ s.accounts \subseteq Accounts
          /\ s.payments \subseteq Payments /\ s.connects \subseteq Connects
          /\ s.requests \in 0 .. MaxRequests /\ s.ticks \in 0 .. MaxClock

VARIABLES
    clock,
    vault,     \* the sealed file
    asked,     \* every issuance request ever proposed, in order
    signed,    \* the requests the Portal has signed
    job,       \* the holder of the refill gate
    gen,       \* TokenRefillState::generation
    want,      \* the account change waiting for the gate
    engine,    \* the pass the live tunnel was brought up with
    at,        \* per connect command: where it is and its reservation
    sent,      \* passes presented to the Coordinator
    risen,     \* passes a tunnel came up with
    done,      \* passes whose redemption was committed
    era,       \* completed account changes
    report,    \* what the last vault transaction reported
    scenario   \* rigid: what may happen in this behaviour

Faults == scenario.faults

vars == <<clock, vault, asked, signed, job, gen, want, engine, at,
          sent, risen, done, era, report>>

NoAccount == "none"
NoPass == <<0, 0>>
NoJob == [kind |-> "free", pc |-> "idle", gen |-> 0, era |-> 0,
          who |-> NoAccount, req |-> 0, size |-> 0]
Nothing == [pc |-> "idle", pass |-> NoPass]

Requests == 1 .. MaxRequests
Passes == (Requests \X (1 .. RefillTarget)) \cup {NoPass}

EmptyVault == [auth |-> NoAccount, tokens |-> <<>>, mint |-> 0, issue |-> 0,
               receipt |-> NoAccount, pending |-> NoPass, last |-> NoPass]

PassesOf(q) == [i \in 1 .. asked[q].size |-> <<q, i>>]

Current(q) == clock < asked[q].expires
Redeemable(p) == Current(p[1])

\* TokenStore::count: the queue and the reserved pass.
Count(v) == Len(v.tokens) + (IF v.pending = NoPass THEN 0 ELSE 1)

Reserved(v) == IF v.pending = NoPass THEN {} ELSE {v.pending}
Held(v) == ToSet(v.tokens) \cup Reserved(v)

\* VaultV1::validate.
Valid(v) ==
    /\ Count(v) <= MaxStored
    /\ IsInjective(v.tokens)
    /\ v.pending \notin ToSet(v.tokens)

-----------------------------------------------------------------------------
(* Transactions.                                                           *)

\* SecureVault::mutate with the outcome v: it is stored, or an error leaves
\* the file alone, or the file is replaced and the directory sync fails.
Outcomes(v) ==
    IF ~Valid(v) THEN {[vault |-> vault, res |-> "err"]}
    ELSE {[vault |-> v, res |-> "ok"]}
         \cup (IF "store" \in Faults THEN {[vault |-> vault, res |-> "err"]} ELSE {})
         \cup (IF "dirsync" \in Faults THEN {[vault |-> v, res |-> "err"]} ELSE {})

\* TokenStore::prune_expired.
Pruned(v) ==
    [v EXCEPT !.mint = IF v.mint # 0 /\ Current(v.mint) THEN v.mint ELSE 0,
              !.issue = IF v.issue # 0 /\ Current(v.issue) THEN v.issue ELSE 0,
              !.tokens = SelectSeq(v.tokens, Redeemable),
              !.pending = IF v.pending # NoPass /\ Redeemable(v.pending)
                          THEN v.pending ELSE NoPass]

\* TokenStore::reserve_one: an existing reservation is returned again.
Reserve(v) ==
    IF v.pending # NoPass \/ v.tokens = <<>> THEN v
    ELSE [v EXCEPT !.pending = Head(v.tokens), !.tokens = Tail(v.tokens)]

\* TokenStore::begin_mint and begin_paid_issue: what is pending wins.
WithMint(v, q) == IF v.mint = 0 THEN [v EXCEPT !.mint = q] ELSE v
WithIssue(v, q) == IF v.issue = 0 THEN [v EXCEPT !.issue = q] ELSE v

\* TokenStore::commit_mint, of the pending request.
Minted(v, q) == [v EXCEPT !.tokens = v.tokens \o PassesOf(q), !.mint = 0]

\* TokenStore::commit_paid_issue, of the pending request.
Issued(v, q, p) ==
    [v EXCEPT !.tokens = v.tokens \o PassesOf(q), !.issue = 0, !.receipt = p]

\* (Mutant: whatever is reserved is forgotten.)
CompletesAny(v, p) == v.pending # NoPass

\* TokenStore::commit_redemption: only the reservation it names.
Completes(v, p) == v.pending = p
Redeemed(v) == [v EXCEPT !.pending = NoPass, !.last = v.pending]

\* TokenStore::replace_account and clear_all_credentials.
Replaced(a) == [EmptyVault EXCEPT !.auth = a]

-----------------------------------------------------------------------------
Init ==
    /\ scenario \in Scenarios
    /\ clock = 0
    /\ vault \in {Replaced(a) : a \in scenario.accounts \cup {NoAccount}}
    /\ asked = <<>>
    /\ signed = {}
    /\ job = NoJob
    /\ gen = 0
    /\ want = "nothing"
    /\ engine = NoPass
    /\ at = [c \in Connects |-> Nothing]
    /\ sent = {} /\ risen = {} /\ done = {}
    /\ era = 0
    /\ report = "ok"

\* What begin_account_change and begin_credential_operation wait for.
GateIsFree == job = NoJob

Store(v) == \E o \in Outcomes(v) : vault' = o.vault /\ report' = o.res

\* refill_batch_size, below the low watermark.
BatchSize(v) == RefillTarget - Count(v)

\* The request a job is about to make, sealed before it is sent.
Propose(size, who) ==
    /\ Len(asked) < scenario.requests
    /\ asked' = Append(asked, [owner |-> who, size |-> size,
                               expires |-> clock + Life, era |-> job.era])

-----------------------------------------------------------------------------
(* tokenrefill::refill_once with TokenClient::mint_batch_into_store.       *)

\* Under the gate: read the generation, prune, count, load the account and
\* the pending batch.  A full enough stock or a missing account ends it.
RefillBegin ==
    /\ GateIsFree
    /\ \E o \in Outcomes(Pruned(vault)) :
        LET v == o.vault IN
        /\ vault' = v /\ report' = o.res
        /\ IF /\ o.res = "ok"
              /\ Count(v) <= RefillLowWatermark
              /\ v.auth # NoAccount
              /\ v.mint # 0 => asked[v.mint].owner = v.auth
           THEN job' = [kind |-> "refill",
                        pc |-> IF v.mint = 0 THEN "fetching" ELSE "posting",
                        gen |-> gen, era |-> era, who |-> v.auth, req |-> v.mint,
                        size |-> BatchSize(v)]
           ELSE job' = job
    /\ UNCHANGED <<clock, asked, signed, gen, want, engine, at, sent, risen, done, era>>

\* The issuer key has arrived: blind a batch and seal it.
RefillPropose ==
    /\ job.kind = "refill" /\ job.pc = "fetching"
    /\ Propose(job.size, job.who)
    /\ Store(WithMint(vault, Len(asked'))) 
    /\ job' = IF report' = "ok"
              THEN [job EXCEPT !.pc = "posting", !.req = vault'.mint]
              ELSE NoJob
    /\ UNCHANGED <<clock, signed, gen, want, engine, at, sent, risen, done, era>>

\* (Mutant: overtaken by an account change, it posts again and holds on to the gate.)
RefillCommitHoldsGate ==
    /\ job.kind = "refill" /\ job.pc = "signed"
    /\ IF gen = job.gen /\ vault.auth = job.who
       THEN Store(Minted(vault, job.req)) /\ job' = NoJob
       ELSE UNCHANGED <<vault, report>> /\ job' = [job EXCEPT !.pc = "posting"]
    /\ UNCHANGED <<clock, asked, signed, gen, want, engine, at, sent, risen, done, era>>

\* The signatures are back: commit unless the account changed meanwhile.
RefillCommit ==
    /\ job.kind = "refill" /\ job.pc = "signed"
    /\ job' = NoJob
    /\ IF gen = job.gen /\ vault.auth = job.who
       THEN IF vault.mint = job.req
            THEN Store(Minted(vault, job.req))
            ELSE report' = "err" /\ UNCHANGED vault
       ELSE UNCHANGED <<vault, report>>
    /\ UNCHANGED <<clock, asked, signed, gen, want, engine, at, sent, risen, done, era>>

-----------------------------------------------------------------------------
(* lib::buy_tokens with TokenClient::acquire_into_store.                   *)

BuyBegin(p) ==
    /\ GateIsFree
    /\ \E o \in Outcomes(Pruned(vault)) :
        LET v == o.vault IN
        /\ vault' = v /\ report' = o.res
        /\ IF /\ o.res = "ok"
              /\ v.receipt # p
              /\ v.issue # 0 => asked[v.issue].owner = p
           THEN job' = [kind |-> "buy",
                        pc |-> IF v.issue = 0 THEN "fetching" ELSE "posting",
                        gen |-> gen, era |-> era, who |-> p, req |-> v.issue, size |-> 1]
           ELSE job' = job
    /\ UNCHANGED <<clock, asked, signed, gen, want, engine, at, sent, risen, done, era>>

BuyPropose ==
    /\ job.kind = "buy" /\ job.pc = "fetching"
    /\ Propose(1, job.who)
    /\ Store(WithIssue(vault, Len(asked')))
    /\ job' = IF report' = "ok"
              THEN [job EXCEPT !.pc = "posting", !.req = vault'.issue]
              ELSE NoJob
    /\ UNCHANGED <<clock, signed, gen, want, engine, at, sent, risen, done, era>>

BuyCommit ==
    /\ job.kind = "buy" /\ job.pc = "signed"
    /\ job' = NoJob
    /\ \/ vault.issue = job.req /\ Store(Issued(vault, job.req, job.who))
       \/ /\ vault.issue # job.req
          /\ report' = IF vault.issue = 0 /\ vault.receipt = job.who
                       THEN "ok" ELSE "err"
          /\ UNCHANGED vault
    /\ UNCHANGED <<clock, asked, signed, gen, want, engine, at, sent, risen, done, era>>

-----------------------------------------------------------------------------
(* The Portal, as the client sees it.                                      *)

\* A payment is bound to the first request signed for it (HTTP 409).
Conflict(q) ==
    /\ asked[q].owner \in Payments
    /\ \E o \in signed \ {q} : asked[o].owner = asked[q].owner

\* The request is signed, now or again: the Portal answers a repeated one
\* with the same signatures.
PortalSigns ==
    /\ job.pc = "posting" /\ ~Conflict(job.req)
    /\ signed' = signed \cup {job.req}
    /\ job' = [job EXCEPT !.pc = "signed"]
    /\ UNCHANGED <<clock, vault, asked, gen, want, engine, at, sent, risen, done, era, report>>

\* The job ends early: the Portal is unreachable, refuses, or its answer is
\* lost; HTTP timeouts see to it that it ends.
JobFails ==
    /\ job.pc # "idle"
    /\ \/ "loss" \in Faults
       \/ job.pc = "posting" /\ Conflict(job.req)
       \/ job.pc = "fetching" /\ Len(asked) = scenario.requests
    /\ job' = NoJob
    /\ UNCHANGED <<clock, vault, asked, signed, gen, want, engine, at, sent, risen, done, era, report>>

-----------------------------------------------------------------------------
(* logout, confirm_anonymous_account and recover_account.                  *)

\* begin_account_change: cancel an in-flight refill, then wait for the gate.
ChangeBegin(a) ==
    /\ want = "nothing" /\ gen < MaxChanges /\ era < MaxChanges
    /\ want' = a
    /\ gen' = gen + 1
    /\ UNCHANGED <<clock, vault, asked, signed, job, engine, at, sent, risen, done, era, report>>

ChangeDone ==
    /\ want # "nothing" /\ GateIsFree
    /\ Store(Replaced(want))
    /\ era' = IF vault' = vault /\ report' = "err" THEN era ELSE era + 1
    /\ want' = "nothing"
    /\ UNCHANGED <<clock, asked, signed, job, gen, engine, at, sent, risen, done>>

-----------------------------------------------------------------------------
(* lib::connect.                                                           *)

\* Prune, then refuse at once when no pass is left.
ConnectBegin(c) ==
    /\ at[c].pc = "idle"
    /\ Store(Pruned(vault))
    /\ at' = [at EXCEPT ![c].pc =
                IF report' = "ok" /\ Count(vault') > 0 THEN "counted" ELSE "idle"]
    /\ UNCHANGED <<clock, asked, signed, job, gen, want, engine, sent, risen, done, era>>

ConnectReserve(c) ==
    /\ at[c].pc = "counted"
    /\ Store(Reserve(vault))
    /\ at' = [at EXCEPT ![c] = IF report' = "ok"
                               THEN [pc |-> "reserved", pass |-> vault'.pending]
                               ELSE Nothing]
    /\ UNCHANGED <<clock, asked, signed, job, gen, want, engine, sent, risen, done, era>>

\* AppEngine::connect: refused unless disconnected and given a pass; the
\* pass is presented to the Coordinator, and the bring-up works or fails.
EngineConnect(c) ==
    LET p == at[c].pass IN
    /\ at[c].pc = "reserved"
    /\ \/ /\ engine # NoPass \/ p = NoPass
          /\ at' = [at EXCEPT ![c] = Nothing]
          /\ UNCHANGED <<engine, sent, risen>>
       \/ /\ engine = NoPass /\ p # NoPass
          /\ sent' = sent \cup {p}
          /\ \/ /\ Redeemable(p)
                /\ engine' = p
                /\ risen' = risen \cup {p}
                /\ at' = [at EXCEPT ![c].pc = "up"]
             \/ /\ "loss" \in Faults \/ ~Redeemable(p)
                /\ at' = [at EXCEPT ![c] = Nothing]
                /\ UNCHANGED <<engine, risen>>
    /\ UNCHANGED <<clock, vault, asked, signed, job, gen, want, done, era, report>>

\* commit_redemption; when it reports an error the tunnel is taken down.
ConnectCommit(c) ==
    LET p == at[c].pass IN
    /\ at[c].pc = "up"
    /\ \/ Completes(vault, p) /\ Store(Redeemed(vault))
       \/ /\ ~Completes(vault, p)
          /\ report' = IF vault.pending = NoPass /\ vault.last = p THEN "ok" ELSE "err"
          /\ UNCHANGED vault
    /\ done' = done \cup ({vault'.last} \ {NoPass})
    /\ engine' = IF report' = "ok" THEN engine ELSE NoPass
    /\ at' = [at EXCEPT ![c] = Nothing]
    /\ UNCHANGED <<clock, asked, signed, job, gen, want, sent, risen, era>>

Disconnect ==
    /\ engine # NoPass
    /\ engine' = NoPass
    /\ UNCHANGED <<clock, vault, asked, signed, job, gen, want, at, sent, risen, done, era, report>>

-----------------------------------------------------------------------------
\* The application stops; only the vault file outlives it.
Crash ==
    /\ "crash" \in Faults
    /\ job' = NoJob /\ gen' = 0 /\ want' = "nothing" /\ engine' = NoPass
    /\ at' = [c \in Connects |-> Nothing]
    /\ UNCHANGED <<clock, vault, asked, signed, sent, risen, done, era, report>>

Tick ==
    /\ clock < scenario.ticks
    /\ clock' = clock + 1
    /\ UNCHANGED <<vault, asked, signed, job, gen, want, engine, at, sent, risen, done, era, report>>

Step ==
    \/ RefillBegin \/ RefillPropose \/ RefillCommit
    \/ \E p \in scenario.payments : BuyBegin(p)
    \/ BuyPropose \/ BuyCommit
    \/ PortalSigns \/ JobFails
    \/ \E a \in scenario.accounts \cup {NoAccount} : ChangeBegin(a)
    \/ ChangeDone
    \/ \E c \in scenario.connects :
        ConnectBegin(c) \/ ConnectReserve(c) \/ EngineConnect(c) \/ ConnectCommit(c)
    \/ Disconnect \/ Crash \/ Tick
Next == Step /\ UNCHANGED scenario

JobStep ==
    \/ RefillPropose \/ RefillCommit \/ BuyPropose \/ BuyCommit
    \/ PortalSigns \/ JobFails

\* The HTTP client's timeouts end every job, and the gate is a fair mutex: a
\* change that waits for it gets it.
Fairness == WF_vars(JobStep) /\ SF_vars(ChangeDone)

-----------------------------------------------------------------------------
(* Properties.                                                             *)

\* Every variable has its type: the jobs, reservations and vault fields only
\* name requests that exist.
TypeOK ==
    /\ clock \in 0 .. MaxClock
    /\ asked \in Seq([owner : Accounts \cup Payments, size : 1 .. RefillTarget,
                      expires : 1 .. MaxClock + Life, era : 0 .. MaxChanges])
    /\ Len(asked) <= MaxRequests
    /\ vault \in [auth : Accounts \cup {NoAccount}, tokens : Seq(Passes \ {NoPass}),
                  mint : 0 .. Len(asked), issue : 0 .. Len(asked),
                  receipt : Payments \cup {NoAccount},
                  pending : Passes, last : Passes]
    /\ signed \subseteq 1 .. Len(asked)
    /\ job \in [kind : {"free", "refill", "buy"},
                pc : {"idle", "fetching", "posting", "signed"},
                gen : 0 .. MaxChanges, era : 0 .. MaxChanges,
                who : Accounts \cup Payments \cup {NoAccount},
                req : 0 .. Len(asked), size : 0 .. RefillTarget]
    /\ gen \in 0 .. MaxChanges /\ era \in 0 .. MaxChanges
    /\ want \in Accounts \cup {NoAccount, "nothing"}
    /\ engine \in Passes
    /\ at \in [Connects -> [pc : {"idle", "counted", "reserved", "up"}, pass : Passes]]
    /\ sent \cup risen \cup done \subseteq Passes \ {NoPass}
    /\ report \in {"ok", "err"}
    /\ scenario \in Scenarios

\* A pass is in one place: no pass is queued twice or both queued and
\* reserved, and a pass whose redemption was committed never comes back,
\* however often an issuance answer is lost, retried and committed
\* (commit_mint and commit_paid_issue clear what they commit).
NoPassTwice ==
    /\ IsInjective(vault.tokens)
    /\ vault.pending \notin ToSet(vault.tokens)
    /\ Held(vault) \cap done = {}

\* After a logout or an account change nothing of the earlier account is in
\* the vault, and nothing that was in flight puts it back: no pass, pending
\* batch, pending purchase or reservation (begin_account_change's gate).
NothingOfEarlierAccount ==
    \A q \in {p[1] : p \in Held(vault)} \cup ({vault.mint, vault.issue} \ {0}) :
        asked[q].era = era

\* What the Portal has signed is not lost: until it expires or the account
\* changes, a signed request is still pending in the vault, to be retried
\* unchanged, or all its passes were delivered.
SignedIsRecoverable ==
    \A q \in signed :
        (Current(q) /\ asked[q].era = era) =>
            \/ q \in {vault.mint, vault.issue}
            \/ ToSet(PassesOf(q)) \subseteq Held(vault) \cup done

\* A pass once shown to the Coordinator stays reserved until a tunnel came up
\* with it: a failed or crashed attempt never moves on to the next pass and
\* leaves the first one burnt (reserve_one returns the same reservation).
SentStaysReserved ==
    \A p \in sent :
        (Redeemable(p) /\ asked[p[1]].era = era) => p = vault.pending \/ p \in done

\* A pass is only forgotten as redeemed after a tunnel came up with that very
\* pass, with several connects and account changes racing
\* (commit_redemption's reservation id).
ForgottenMeansTunnel == done \subseteq risen

\* Passes minted on the subscription, with those of a pending batch, never
\* exceed REFILL_TARGET: a retried batch was sized for an earlier, emptier
\* vault, and purchases come in between.
StockBounded ==
    LET minted == {p \in Held(vault) : asked[p[1]].owner \in Accounts} IN
    Cardinality(minted) + (IF vault.mint = 0 THEN 0 ELSE asked[vault.mint].size)
        <= RefillTarget

\* A payment the Portal has consumed is not asked for again with a different
\* request while the account is the same and the first request's message is
\* current (lib.rs:688, "response loss/restart never forces a different request
\* for a payment the Portal consumed"; expiry prunes it and does force one).
PaymentKeepsItsRequest ==
    \A q \in signed, r \in 1 .. Len(asked) :
        /\ asked[q].owner \in Payments /\ asked[r].owner = asked[q].owner
        /\ q < r /\ asked[r].era = asked[q].era
        => asked[r].expires >= asked[q].expires + Life

\* The vault between transactions (TokenStore): each pass in one place until its
\* tunnel came up, stock within the target, one request per consumed payment, nothing
\* lost that was signed or shown, and nothing of an earlier account.
VaultInv ==
    /\ TypeOK /\ NoPassTwice /\ ForgottenMeansTunnel /\ StockBounded
    /\ PaymentKeepsItsRequest /\ SignedIsRecoverable /\ SentStaysReserved
    /\ NothingOfEarlierAccount

\* A logout or account change that waits for the gate completes, whatever
\* the job that holds it runs into.
ChangeCompletes == (want # "nothing") ~> (want = "nothing")
=============================================================================
