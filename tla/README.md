# A TLA+ verification of Nil

Nil is a VPN built so that payment, account and traffic cannot be linked.  A
client buys blind-signed connection passes at the **Portal**, redeems one at the
**Coordinator** for a multi-hop path with one single-use grant per node, dials the
**nodes** through one another, and routes the machine's traffic into the tunnel.
This directory models the stateful parts of that system, checks them with TLC on
small instances, and proves the most important results with TLAPS for every size.

## The system and its parts

| Part | Source | State it keeps | Modelled in |
|---|---|---|---|
| Redemption ledger | nil-coordinator `nullifier.rs`, `api.rs` | first result per pass, in a map and an append-only file | `NullifierLedger`, `RedemptionLedger`, `FileImage` |
| Path selection | nil-coordinator `pathsel.rs` | registry, hosts marked down | `PathSelection` |
| Coordinator fleet | nil-coordinator `api.rs`, `main.rs`, `client_ip.rs`, `ratelimit.rs`, Postgres part of `nullifier.rs` | one table, a key list and a limiter per replica | `CoordinatorCluster`, `RedemptionLedger` |
| Audience of grants | nil-core `grant.rs`, registry file, node `authorize_connect` | loaded registries, tunnels | `GrantAudience` |
| Grants at a node | nil-core `grant.rs`, nil-node `grant_replay.rs` | memory-only replay cache | `GrantReplay` |
| Node event loop | nil-node `server.rs`, `pool.rs`, `pqwg.rs` | connections, tunnels, address pool, routes | `NodeServer` |
| Portal file store | nil-portal `store/file.rs`, `tokens.rs`, `subscription.rs` | payments, issued signatures, entitlement, in a snapshot file | `PortalStore` |
| Portal in PostgreSQL | nil-portal `store/postgres.rs` | rows, locks, work left at the server | `PostgresStore`, `RedemptionLedger` |
| Accounts, checkout, payments | nil-portal `account/`, `billing.rs`, `cards.rs`, `monero.rs`, `subscription.rs`, `tokens.rs` | challenges, references, bindings, refunds, the upgrade fence | `PortalBilling` |
| Start of the services, key commands | the three `main.rs` and `config.rs`, nil-portal `hsm.rs`, nil-node `cert.rs`, `attest.rs` | the environment, key files, the HSM | `Startup` |
| Durable single-use sets | nil-core `durable.rs` | keys in an append-only file | `DurableSet`, `FileImage` |
| Subscription minting | nil-portal `mint.rs`, `store/memory.rs`, `ratelimit.rs` | results by retry identity, quota rows, limiter buckets | `SubscriptionMint` |
| Credential vault | client `tokenstore.rs`, `tokens.rs`, `tokenrefill.rs`, `lib.rs`, `engine.rs` | passes, pending requests, reservation, in one sealed file | `CredentialVault` |
| The sealed file | client `securestore.rs`, `securestore/` | vault file, older plaintext files, platform key store | `SecureStore` |
| Settings and launch | client `config.rs`, `trust.rs`, `engine.rs`, `lib.rs`, nil-datapath `launch.rs`, `redeem.rs` | settings in memory, on disk and in the environment | `ClientLaunch` |
| Life of a pass | client, Coordinator and nodes together | all of the above, abstracted | `PassRedemption` |
| Datapath | nil-datapath `lib.rs`, `linux.rs`, client `engine.rs` | the machine's routes, resolver and firewall, and a journal | `Datapath` |
| The same on macOS, Windows | nil-datapath `macos.rs`, `windows.rs` | the same, with pf or profile firewalls | `DesktopNet` |
| Android client | nil-android, client `extension.rs` | app, service, status file, lease, engine | `AndroidShell` |
| Apple client | nil-apple (Swift and C ABI) | controller chains, saved configuration, provider, engine, packet queue | `AppleTunnel` |
| Transport selector | nil-transport `selector.rs`, `cascade.rs` | rungs, winner, open sessions | `TransportSelector` |
| Multi-hop sessions | nil-transport `path.rs`, `masque/mod.rs`, `pqwg.rs` | driver and pump tasks, session maps | `OnionSessions` |

How they interact: the Portal signs what the vault asked for (`CredentialVault`
meets `SubscriptionMint` and `PortalStore` in the request and its answer); the
vault's reserved pass is what `NullifierLedger` spends; the result it seals is a
path of `PathSelection` with grants that `GrantReplay` consumes inside
`NodeServer`; the dialling is `OnionSessions`, or `TransportSelector` for a
single node; and `Datapath` or `DesktopNet` brings up and takes down what they
carry, with parameters that `ClientLaunch` has assembled.  On mobile systems
`AndroidShell` and `AppleTunnel` stand for both.  `CoordinatorCluster` and
`PostgresStore` are what `NullifierLedger` and `PortalStore` become when several
replicas share a database; all four implement `RedemptionLedger`.
`PassRedemption` composes pass, ledger, replay caches and dialling, because the
question it asks (does one pass ever open two tunnels, is one ever lost?) belongs
to none of them alone.

The parts that are not modelled, each with its reason, are listed in
`PROJECT.json` and summed up under "What is not modelled".

## Modules, state and actions

Each component module has the code's state as variables, one action per handler
or per step between two points where something else can happen (an await, a
file operation, a system command, a message), and its properties at the end.
Operators marked `(Mutant: …)` are plausible bugs, used to show that a property
can fail; no specification uses them.  A rigid variable (`faults`, `scenario`,
`kinds`, `setup`) is chosen in `Init` and says which failures and requests
a behaviour may contain, so that one run covers several environments and a
property can be conditional on one.

* **FileImage** (external: the file system).  A file is what the page cache holds
  at its path (`cached`), what the medium holds (`synced`) and the older contents
  that may still be at the path because a rename was not followed by a directory
  sync (`stale`).  `Survivors` is what a power loss may leave.  A killed process
  loses nothing that reached the page cache.
* **NullifierLedger**.  `mem`, `handle`, `disk` are `FileInner`; `lock` is its
  mutex, visible only between two file operations; `legacy` the flat ledger of an
  older release.  `Propose` is `redeem_logic` up to the store, `Replay`,
  `RefuseSpent`, `ScrubOne`, `Append`, `Accept`, `RollBack`, `Poison`,
  `RefuseNoHandle` are `commit_or_replay` and `append_and_sync`, `Sweep` is the
  sweeper, `Open`/`OpenSynced` the start.  `owner` is history.
* **RedemptionLedger** is what every ledger promises: a pass gets one owner, for
  ever, and only its owner's result is answered.  `NullifierLedger` implements it
  as it stands, `PortalStore` with payments for passes.
* **GrantReplay**.  The clocks of the node and the Coordinator, the cache, and a
  history of accepted uses.  `Authorize` is `authorize_connect` to its end;
  `Consume` has the early returns of the cache in their order.  A clock before the
  epoch reads as `u64::MAX`, as `now_unix_secs_for_expiry` has it.
* **NodeServer**.  One action per event of `run`: an accepted Initial, a reply
  from the TUN, closing, a CONNECT-IP that is answered or whose 200 cannot be
  sent, the PQ offer, a finished stream, a datagram, the reaping.
* **PortalStore**.  `Lookup`/`Commit` are `issue_logic`, `Activate` is
  `activate`; `Rename`, `DirSync`, `DirSyncFails`, `EnsureDurable` are `persist`
  and `ensure_durable`, with the write lock held over the two halves; `Prune` and
  `Open` complete it.  Signatures under another result key cannot be opened.
* **DurableSet**.  `DurableSet`, `EpochDurableSet` and `TimedDurableSet` as one: an
  entry is a key with a tag, a compaction keeps some tags.
* **PostgresStore**.  Each statement of a transaction is a step; locks are those of
  the unique index and the rows.  A round trip that times out ends the call and
  leaves the statement in the server's queue; a dropped connection rolls back.
* **CoordinatorCluster**.  `Admit` is `/v1/redeem` up to the store (client address,
  limiter, expiry, signature under the replica's own key list), `Upsert` the one
  statement that spends, `TimesOut`/`ArrivesLate` its failures, `Prune` the sweep,
  `Redeploy` a restart with the next key list.
* **Startup**.  An environment maps variable names to classes of value.  `Pass` and
  `Refuse` take the gates of the program's main in their order; `KeygenCreate`,
  `KeygenWrite`, `KeygenDone` (the sync), `KeygenFailed`, `KeygenAbandoned` and `Provision`
  are the key commands that may run meanwhile.
* **GrantAudience**.  Identifiers are short sequences of characters, length-prefixed
  in `mint` and read back in `parse`.  `Redeem` loads nothing: the registry was
  validated in `Init`, as `from_file` does.  `Connect` is `authorize_connect`.
* **PortalBilling**.  One action per endpoint and webhook, the prune task with its
  interval counted from the start, restarts, and the operator's retirement of the fence.
* **SubscriptionMint**.  `Begin`, `Lookup`, `Reserve`, `Commit` are the awaits of
  `mint_validated`; reservations are returned when dropped (`Refund`).
* **CredentialVault**.  A vault transaction is one step with one of the outcomes of
  `SecureVault::mutate` (kept, not written, written but reported as failed).
  Refill and purchase share a gate; a connect is four steps.
* **SecureStore**.  A directory is the sequence of its states since its last fsync;
  a power cut keeps any one of them.  Migration, `Mutate` with its write, rename,
  syncs and read-back, and destruction are in steps; the key stores differ in what
  can fail.  `unsynced` is history: something rests on a directory that was not synced.
* **ClientLaunch**.  `SetBegin`/`SetWrite`/`SetDone` are `ConfigState::set` with the
  environment written one variable at a time; `ConnectBegin` to `BringUp` are the
  reads of Connect and of the launcher in their order, with what each refuses.
* **Datapath**.  Every system command of `LinuxNet::arm` and `teardown` is a step
  that succeeds, fails before its effect or fails after it.  `net` is the journal in
  `LinuxNet`; `cursor` is the position in the list of addresses that `arm` pins next,
  and `errors` are the restorations of a teardown that failed.
* **DesktopNet**.  `todo` is the list of commands that `arm` or `teardown` of
  `MacNet` or `WinNet` has still to run; one action per kind of command.
* **AndroidShell**.  Commands of the app under its lifecycle mutex, intents in the
  order the OS delivers them, the service's callbacks and poll thread, `teardown` in
  its steps, the death of either process at any of them.
* **AppleTunnel**.  The callback chains of the controller (exclusive on iOS,
  overlapping on macOS), the OS's starts and stops, the provider, the engine thread
  with its bounded queue and the packet in its hand, `nil_stop`, the death of the
  extension or the app.  A callback may come before `nil_start` has returned, and a
  read may still hold the handle that `nil_stop` frees; what it then does is any outcome.
* **TransportSelector**, **OnionSessions**.  A network is which of a rung's stages
  get through it.  A path is the states of its driver and pump tasks, of the
  session maps and of the slots at the nodes.
* **PathSelection**.  The recursion of `extend_path` is a stack of cursors:
  `Push`, `Skip`, `Pop` are the turns of its loops.
* **PassRedemption**.  Vault, ledger, caches and dialling, each with only the state
  the pass depends on; any of its steps may meet a failure.

## Runs

Every passing run explores its whole state space.

| Run | Instance | What it shows |
|---|---|---|
| `ledger` | 3 redemptions of 2 passes, 1 older pass, 3 fault sets; 248,717 states | `LedgerInv`; one response per pass; every proposal is answered; refinement of `RedemptionLedger` |
| `grant_replay` | 3 grants, cache of 2, one restart, skew −1..2 s with 1 s tolerated; 1,677,964 states | single use per process; reuse after a restart within the tolerated skew, or only in the same second if the clocks run together; only live grants fill the cache |
| `node` | 3 connections (2 at a time, 1 per source), pool of 1 or 2; environments within 2 changes of production, 5 builds; 3-hop paths, 2 deployments; 2 references on 2 rails; 1,033,112 states | `NodeInv`: tables agree with tunnels, traffic only as granted, replies only to the holder; `StartupInv`: what serves in a hardened build is hardened, under one identity (see "Disagreements"); `AudienceInv`: a grant is good only at its place of its path; `BillingInv`: what is sold was paid for, once |
| `portal` | 3 attempts on a payment, 3 activations of 2 references; 3 keys in a set of 2; 858,319 states | one token and one period per payment; answers survive power loss; refinement; sets accept a key once and match their file |
| `replicas` | up to 3 of 6 mint requests, 2 replicas, 4 scenarios; transactions of 2 replicas; redemptions over 2 Coordinators in a key rollout; 231,637 states | quota, single charge, replacement only after expiry, limiter; the PostgreSQL store charges, extends and issues once and implements `RedemptionLedger`; one owner per pass over all Coordinators, answers live, spent passes valid |
| `vault` | 6 scenarios of refills, purchase, 2 connects, account changes; 4 platforms of the sealed file, up to 2 failures and 2 stops; 711,706 states | no pass twice, lost, of an earlier account or forgotten early; changes complete; nothing sealed is lost, revived or left in the clear, unless it rests on an unsynced directory |
| `datapath` | 2 connections, 3 failing commands on Linux, macOS and Windows; Android and Apple under process deaths; 358,878 states | no leak window; firewall last; restoration; the engine settles; on mobile systems, a pass is forgotten only for its tunnel, "up" is real, packets are accounted for |
| `pass` | 2 passes, 2-hop paths over 2 nodes, 4 failures of 7 kinds; settings that change during a connect; 467,008 states | one tunnel per pass, no pass lost, no partial path, a lost answer is made good; a tunnel is anchored, split, paid for and not stale |
| `path_selection` | 5 nodes with conflicts, every shuffle of every live part; every network of 3 rungs, twice; 3 hops, 2 of them PQ, 2 failures; 68,641 states | soundness, completeness and termination of the search; first usable rung wins, wrong guesses step down; whole or no onion; tasks end; a dead exit surfaces |
| `ledger_dirsync` | expected violation | see "Disagreements" |
| `node_subnet` | expected violation | see "Disagreements" |
| `datapath_same_host` | expected violation | see "Disagreements" |

Where a run has several parts, its MC module declares the variables of all of them
and a rigid `part`; a behaviour moves one part and the others rest at one initial
state.  The parts share a run, not steps, so the state spaces add up.

A `…Inv` joins a module's type invariant with the relations between its tables;
its conjuncts are named and commented in the module.

**Bounds.**  Each is a named constant.  They are the smallest at which the case
that matters happens: two requests for one pass and one for another; one key more
than the capacity; one connection more than the ceiling; clocks that pass an
expiry and a window; a skew within and one beyond the tolerance; a retry after
a failure *and* a failure of the retry (three failing commands, four failures of
an attempt); a change of settings before, between and after the reads of a connect;
a statement that arrives after its retry; a challenge, a reference and a binding
just inside and just past their time; two replicas with different keys; a packet
queue one shorter than the packets; a registry in which the first choice can be a dead
end. For both ledgers, the Portal's store, minting, the durable sets, grants, the node's
event loop, the life of a pass, path selection and the Linux datapath the proofs remove
the bounds on requests, batches, passes, payments, replicas, grants, keys, capacity,
quotas, nodes, hops, addresses, connections, failures and failing commands. Symmetry is used for the
interchangeable grants of `grant_replay`, which has no liveness property. Deadlock is
not checked where the clock, the connects, the user's taps or the grants of an instance
run out.

**Fairness.**  Weak fairness is assumed of steps the runtime takes by itself: a
handler that holds the ledger's mutex or waits for it (tokio schedules every task
and file operations return); the holder of the engine's mutex; driver and pump
tasks and their timers; the loop of the search.  `CredentialVault` has strong
fairness for a waiting account change, because the gate is tokio's FIFO mutex, and
weak fairness for the job that holds it, whose HTTP calls time out.  Of `DesktopNet`,
`AndroidShell`, `AppleTunnel`, `SecureStore`, `ClientLaunch`, `Startup`,
`GrantAudience`, `PortalBilling` and the database modules only safety is claimed.  Two
assumptions are about users: one whose disconnect failed presses it again
(`Datapath`), and one whose attempt failed tries again (`PassRedemption`).  Failures,
crashes, clocks and peers are never fair.

## Proofs

All proofs are checked by TLAPS with Z3, Zenon and LS4.

* **Redemption ledger** (`NullifierLedgerProofs`), for any
  requests, passes, older passes and clocks.  `TypeCorrect` needs no condition.
  `LedgerInvariant`, `OneResponse`, `SpentIsForever`, `MapMatchesFile` and
  `Implements` (the refinement) assume `ToleratedFaults`: when power can fail,
  directory syncs succeed and processes stop only with the machine.  One response per
  pass is not inductive: a restart trusts the file.  `LedgerInv` adds that the holder
  of the mutex is where it should be (`LockInv`), that the file is the map, or the map
  and the line just appended (`FileFollowsMap`), that the map is exactly the set of
  owned passes (`MapInv`), that every content a crash can leave marks every owned pass
  (`SpentSurvivesCrash`) and nothing foreign (`StrayInv`), that the name of the
  file is on the medium whenever appends are possible (`NameInv`), and that
  answers are the owners' (`AnswerInv`).  Each action has a lemma.
* **Coordinator fleet** (`CoordinatorProofs`), for any replicas, key lists,
  passes, requests and limits.  `ClusterIsSafe` and `ClusterImplementsLedger` (the
  refinement, step by step) assume `FleetAssumption`, which says what kind of thing
  each constant is and nothing about sizes or how lifetimes and key lists relate.  The
  strengthening is in `ClusterInv`: what waits for the database was admitted
  (`WaitingWasAdmitted`), and a row belongs to a request for its pass whose statement
  has run and whose answer it keeps or has forgotten (`RowsAndAnswers`).
* **Portal store** (`PortalStoreProofs`), for any attempts,
  activations, payments, references and periods.  `StoreIsConsistent`,
  `TokenPerPayment` and `IssuanceImplementsLedger` assume `OneKindOfStop`: processes
  are killed or power fails, not both in one behaviour (see "Disagreements").  Failing
  writes and directory syncs, restarts and changed result keys are covered.  That one
  token is issued per payment rests on what a stop may leave on disk: `StoreInv` adds
  who may hold the lock in which state of the file (`LockDiscipline`), that every
  recoverable snapshot knows the owner of every payment, and under the lock exactly the
  holder's claim more (`OwnersKnown`), that answers are the owners' (`OwnersAnswer`), and
  that every claim and every period in every content on disk is in order (`ClaimsFiled`,
  `PeriodsApart`).
* **Subscription minting** (`SubscriptionMintProofs`), for any batches and sizes,
  replicas, caps, windows, lifetimes and combination of failing signers, failing
  commits, restarts and late commits.  `MintIsCharged` has no condition beyond the one
  inside `QuotaHolds` and `ChargedOnce`: no request commits after its window's row was
  pruned (see "Disagreements").  A window's budget is a sum, and a step changes it by
  one batch.  The sum is the library's fold, so the proof first shows that the fold adds
  up (`CostOfNobody`, `CostOfOneMore`: each batch adds its size, in whatever order the
  fold takes them), by a set of least cardinality for which it does not (`Least`).
  The budget is not inductive: a row that is gone restarts at nothing.  `MintInv` adds
  that a row goes only when its window has ended and nobody is still to charge it
  (`RowsGoLast`), that a batch is stored by a request that then ends, and stays in
  the table until it expires (`StoredInOrder`), and that an admission outside the
  limiter's window was made before now (`AdmissionsInOrder`): otherwise the window that
  a charge opens could already hold admissions that its counter does not know.
* **Linux datapath** (`DatapathProofs`), for any default routes, addresses, earlier
  host routes, number of connections and pattern of failing commands, dying pumps and
  kills.  `NoLeak` needs no condition.  `HostIsSafe` and `FirewallGoesLast` assume
  `DistinctAddresses`; without it they are false, which the attempt to prove them
  showed (`datapath_same_host`).  That the firewall goes last is not inductive: the code
  decides by the errors of this teardown.  `HostInv` adds that the errors are exactly
  what the teardown has passed and the journal still holds (`PassedIsRestored`), that
  the journal holds the earlier value of everything that may differ from what the
  connection found (`JournalCovers`), the order in which `arm` fills it (`ArmOrder`),
  and which job runs in which state of the engine (`JobFits`).
* **Grant replay** (`SingleUseProofs`), for any grants, capacity, lifetime, skew
  and number of restarts.  `ReuseIsBounded` holds for every clock: each accepted use
  lies in the window between the start of its process and the tolerated skew
  (`UsesInWindow`), or the same second when the clocks are in step (`InStep`), because
  no grant is then stamped in the future (`StampedInPast`).  `SingleUse` and
  `CacheIsComplete` hold if the wall clock is never set back (`Monotonic`): the cache
  holds every live grant the process accepted, so what is pruned can no longer pass
  verification (`OnceInv`).  `RoomIsForLiveGrants` needs no condition.
* **Durable sets** (`SingleUseProofs`, which instantiates `DurableSet`), for any keys,
  tags, retentions, capacity and any failing calls, kills and power losses together.
  `SetsAcceptOnce`: `insert` reports a key as new once until a compaction drops it, and
  everything a crash can leave of the file has every accepted key.  Unlike the two stores
  above it needs no condition on the kinds of stop: a record that a killed process left
  unsynced only makes its successor refuse a key.  `SetInv` adds what holds between two
  file calls (`CallsFit`: the record in the page cache is of a new key and fits, the new
  file has every key still promised), that no content names a key twice
  (`ContentsAreSets`), and that records are appended only to a file whose name is on the
  medium, behind complete records (`AppendsAreSafe`); without the last a power loss could
  leave a record glued to half of another.  The proof carries it as one predicate on each
  content on disk (`Sound`), so that every file call has to show it of one new content.
* **Path selection** (`CoordinatorProofs`), for any registry, number of hops,
  shuffle and behaviour of the health checker.  `SearchInvariant`,
  `SelectionIsSound` and `SelectionIsComplete`.  Completeness is not inductive: the
  strengthening `LeftBehind` says of every level that the candidates before its
  cursor complete no diverse path with the choices of the levels below.
* **Node event loop** (`NodeServerProofs`), for any connections, sources, pool, ceilings
  and grants.  `NodeSafety` needs no condition.  That an address has one holder is not
  inductive alone: `NodeInv` says what the pool is in terms of the connections
  (`PoolMirrorsTunnels`), so that an assigned address is free (`PickIsFree`, the first
  free one from the cursor on), and that a route belongs to a tunnel and a holder's only
  route is its address (`RoutesFollowTunnels`).  That traffic is granted rests on
  `TunnelsAreGranted`: the policy of a tunnel that is up is that of a consumed grant.
  That the fallback without an address is never taken with a large enough pool is a
  counting argument (`PoolSuffices`): an exhausted pool is held by the other
  connections, which are fewer than the ceiling.
* **Life of a pass** (`PassRedemptionProofs`), for any passes, nodes, hops, lifetimes and
  any number of failures of all seven kinds.  `PassSafety` needs no condition.  The
  tunnels of a pass cannot be counted inductively: a second attempt begins like the
  first.  `PassInv` adds that the attempt dials the path the Coordinator keeps for its
  pass, in order (`AttemptFollowsPath`), that this path is of distinct nodes and issued
  in the past (`LedgerIsSound`), and that every grant of a tunnel's path is consumed,
  expired or of a node restarted since its issue, while an attempt on a pass that had its
  tunnel has got past restarted nodes only (`GrantsAreUsedOnce`).
  `OneTunnelWithoutRestarts` is the plain claim: if no node restarts, a pass opens at
  most one tunnel.
* **Transport selector** (`PassRedemptionProofs`), for any rungs and lists of rungs
  (a rung may be in both), any that are PQ-WireGuard, and any network at each connect.
  `SelectorSafety` needs no condition.  Which rung wins is decided one at a time:
  `SelectorInv` adds that what is left of the cascade is the end of the verdict's order
  and everything before it is unusable (`TriedInOrder`), and how far the rung under way
  has got (`RungUnderWay`).
* **Multi-hop sessions** (`DatapathProofs`), for any number of hops, any that are
  PQ-WireGuard, and any nodes that fail at any time.  `OnionSafety` needs no condition.
  `OnionInv` adds that hops are built from the first and taken down from the last
  (`HopsInOrder`) and that a running task has a session whose token stops it, but for
  the driver that connect waits for (`TasksHaveSessions`); hence after a close every
  task still running has been told to stop (`NoOrphanTask`).  That it then does stop is
  `PathSettles`, which TLC checks.

Besides the conditions above, which are formulas over the constants and the rigid
choice of faults, the constants are constrained only by `LedgerAssumption`,
`FleetAssumption`, `StoreAssumption`, `ConstantsOK`, `GrantAssumption`,
`ServerAssumption`, `MintAssumption` (a batch is of one token or more),
`PassAssumption` (the passes are distinct), `SelectorAssumption`, `OnionAssumption`
(at least one hop) and `RegistryAssumption` (unique ids and endpoints, which
`from_file` enforces), and those of `DurableSet` by `SetAssumption`, a hypothesis of
its theorem.  TLC evaluates each
of them on the instance it checks.

Model-checked only: every liveness property (TLAPS has no `ENABLED` reasoning here):
`ProposedIsAnswered`, `ChangeCompletes`, `EngineSettles`, `LostAnswerIsRetried`,
`SearchEnds`, `PathSettles`, `DeadTunnelSurfaces`; `VaultInv`, because pruning filters
the queue of passes with `SelectSeq`, which is recursive along a sequence, and the
induction rules of the library cannot be instantiated here (for the sums of
`SubscriptionMint` a least counterexample replaces them, for sequences that was not
done); the invariants of macOS and Windows, where the commands are
a list that the model walks; and all other modules.

## Disagreements between the code and what it says

Three are kept as runs that TLC must refute.

* `ledger_dirsync` (`nullifier.rs:541`): after a failed directory sync the rewritten
  file goes on accepting redemptions, and a power loss can bring back the old one
  without them.  The comment there holds for the passes spent before the rewrite only.
* `node_subnet` (`pool.rs:32`): the pool is 10.74.0.0/16, the TUN and the NAT rules
  cover 10.74.0.0/24, and the pool's cursor rotates.
* `datapath_same_host` (nil-datapath `linux.rs:127`): a fallback without a host of its
  own is on the entry node's address (`launch.rs:505`), and `arm` then journals that
  address twice, the second time with the route it pinned itself as the one to put back.
  If only the first entry can be restored, the retried Disconnect puts the pinned route
  back and opens the firewall.  `MacNet` and `WinNet` journal
  no earlier route; they delete what they added.

Others are conditions of properties; dropping the condition (for the first, adding
`{"kill", "power"}` to `MCFaultSets`) reproduces them in the same run, except for the
last two, which the models leave out.

| Condition | Where | Without it |
|---|---|---|
| `ToleratedFaults`, "kill" with "power" | `nullifier.rs:446` | a process killed between write and fsync leaves a line that its successor trusts unsynced |
| `InStep` in `ReuseWindow` | `grant_replay.rs:66` | with a Coordinator clock ahead, the residual window is the tolerated skew, not a second |
| `Monotonic` in `OncePerProcess` | `grant_replay.rs:86` | a clock set back revives a pruned grant |
| "slow" in `UpIsReal`, `NoUseAfterFree`, `DownIsTerminal` | `NilVpnService.kt:294` | a poll that outlasts teardown's second writes over the final status and enters a freed engine |
| `withdrawn` in `StartupInv` | nil-coordinator `main.rs:104`, nil-node `cert.rs:122` | a key file is readable before its sync; a start that reads it serves under a key that the failing command then removes, and the next command's key is another |
| `unsynced` in `NothingLostOrRevived` | `securestore.rs:669`, `:960` | a vault renamed but not synced (a crash, a failed sync) is trusted by the next start, which deletes the plaintext files; a power cut then takes the vault back.  Likewise the plaintext files can return after the vault was destroyed, and on Windows, where unlinks are not flushed, the vault itself |
| the engine's end in `PacketsAccounted` | nil-apple `lib.rs:302` | packets in the queue, or in the hand of a failing send, are lost without being counted by `nil_dropped_packets` |
| "manual" in `CommittedMeansRisen` of `AppleTunnel` | `NilVpnPlugin.swift:213` | a start from the system's settings pairs an old configuration's tunnel with a newer reservation |
| `OneKindOfStop`, "kill" in `Recoverable` | `store/file.rs:374` | a snapshot renamed before a kill is trusted though its name was never synced, and a later power loss takes back what was answered from it |
| "late" in `QuotaHolds`, `ChargedOnce` | `store/memory.rs:213` | a commit after its window's row was pruned starts the row anew |
| expiry in `PaymentKeepsItsRequest` | `lib.rs:687` | an expired request is pruned and the consumed payment asked for another |
| "rollback", `crashed` in `DisconnectedMeansRestored` | nil-datapath `lib.rs:249` | a failed rollback drops the journal |
| `OnlyLoss` in `LostAnswerIsRetried` | `grant_replay.rs:76` | after a failed dial the replayed grants are used up at some node until they expire |
| `Spins` in `DeadTunnelSurfaces` | `masque/mod.rs:601` | a nested driver whose carrier ended spins ahead of its own timers |
| `PqRungs` in `NoOrphanSession` | `pqwg.rs:345` | a failed PQ exchange drops its MASQUE session unclosed |
| `conn.path = <<>>` in `ExceptionsMatch` | `launch.rs:717` | with a path no fallback rung is assembled, yet the firewall is opened for the hosts of the configured ones; the comment there says "only … an actually-assembled fallback rung" |
| nil-transport `path.rs:197` has entropy (`OnionSessions`) | `path.rs:197` | `grant_for` fails after the first hop and `connect` returns without `teardown`; the comment at 182 says any failure tears the onion down |
| a desktop route command that fails changed nothing (`DesktopNet`) | `macos.rs:66`, `windows.rs:147` | a /1 route that was added by a command reporting failure is not journalled, and the teardown leaves it |

Reading the code for the models also showed the following; the models contain the
behaviour where they say so, and no property depends on its absence.

* `launch.rs` reads the environment without the settings' lock, so without a trust
  bundle a tunnel can combine the Coordinator of one version of the settings with
  the pins of another (`ClientLaunch`; with a bundle `Anchored` excludes it).  In a
  debug build, a Coordinator cleared between Connect's snapshot and the engine's
  read leads to a pass marked used that was never redeemed.
* The consent activity of Android does not forward the reservation id, so that the
  service refuses what the activity starts (`AndroidShell`).  A refusal of
  `nativeStart` before `up_with_fd` leaves the detached descriptor open (`tun` is "lost").
* On Apple systems the provider ignores the engine's status 3 (stopped): the OS shows a
  connected tunnel that carries nothing.  On macOS a stop can be overtaken by the
  start chain before it (`AppleTunnel`).
* A status callback that comes before `startTunnel` has stored its handle applies the
  fallback address and MTU, and a first read without the handle ends the read loop.  A
  read in flight at `nil_stop` uses a freed handle; the header of
  `PacketTunnelProvider.swift` asks for these lifetimes to be hardened (`AppleTunnel`).
* `SecureVault::mutate` may report a failure (of the directory sync) after its file has
  replaced the old one; `truth` then allows both.

## What is not modelled

Cryptography, attestation and packet formats are taken as perfect or as a verdict
from outside.  Routing of HTTP requests, headers, retry tokens, checksums, wire types
and one-shot tools have no state of their own.  The user interface only calls
commands that are modelled.  Of the modelled parts the following is left out:

* `ClientLaunch`: nil-cli's redemption with token variables; ports, addresses and
  DNS servers, which are one well-formed or malformed input.
* `SecureStore`: `SecureVault::replace` (nothing calls it), a poisoned mutex, the
  creation of the directory.  `Startup`: what a power cut leaves of a key file.
* `TransportSelector`: a rung that passes the data-plane check and carries nothing
  afterwards.
* `DurableSet`: the fold-in of an older file (no binary calls it) and the variants
  without a file.  `NullifierLedger`: `drop_epochs`, which nothing calls.
* `PathSelection`: the field validators of the registry file; `GrantAudience` has its
  identifiers, `Startup` its presence.
* `OnionSessions`: MTU arithmetic, packet encoding and the handshakes' cryptography.

The node's exit NAT commands, the AmneziaWG responder with its peer table, the REALITY
and wstunnel relays and DAITA's padding are not modelled: relays and packet shapes,
whose only shared state is the responder's table.

## Plan

1. Prove `VaultInv`: what `SelectSeq` keeps of the queue, by a shortest counterexample.
2. The AmneziaWG responder's peer table and the order of the NAT commands.
3. The transparency log's proofs as operators against a reference definition.
