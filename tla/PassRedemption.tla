--------------------------- MODULE PassRedemption ---------------------------
(***************************************************************************)
(* One connection pass end to end: the desktop client reserves it, redeems *)
(* it at the Coordinator for a path and one grant per hop, dials the hops  *)
(* of the path one through the other (nil-transport PathTransport), brings *)
(* the tunnel up and forgets the pass.  Composes what CredentialVault,     *)
(* RedemptionLedger and GrantReplay say of the three parties, each reduced *)
(* to what the others see of it.                                           *)
(***************************************************************************)
EXTENDS Integers, Sequences, FiniteSets, Functions

CONSTANTS
    Passes,       \* the passes the client holds, oldest first (a sequence)
    Nodes,        \* the Coordinator's registry
    PqNodes,      \* nodes that publish a WireGuard key
    PathHops,     \* NW_COORD_PATH_HOPS
    GrantTtl,     \* lifetime of grants and of the sealed redemption result
    PassLife,     \* when the passes expire
    MaxClock,     \* bound on the clock
    MaxFaults,    \* bound on failures
    FaultSets     \* the combinations of failures that may happen

FaultKinds ==
    {"loss",      \* the Coordinator's answer does not arrive
     "dial",      \* a hop is unreachable, or its answer or attestation fails
     "wrap",      \* the PQ-WireGuard handshake with a hop fails
     "local",     \* TUN, routes or firewall cannot be set up
     "store",     \* the vault cannot record the completion
     "crash",     \* the client process dies
     "restart"}   \* a node restarts

ASSUME PassAssumption ==
    /\ Passes \in Seq(Range(Passes)) /\ IsInjective(Passes) /\ "no pass" \notin Range(Passes)
    /\ PqNodes \subseteq Nodes /\ PathHops \in 1..Cardinality(Nodes)
    /\ GrantTtl \in Nat \ {0} /\ PassLife \in Nat /\ MaxClock \in Nat \ {0} /\ MaxFaults \in Nat
    /\ FaultSets \subseteq SUBSET FaultKinds

VARIABLES
    clock,       \* the common wall clock, in seconds
    tokens,      \* VaultV1::tokens
    pending,     \* VaultV1::pending_redemption, a pass or NoPass
    at,          \* the connect command: "idle", "redeem", "dial", "wrap" or "up"
    path,        \* the answer it works with
    hops,        \* PathTransport: the established hops, in dial order
    open,        \* hops whose MASQUE session nobody has closed
    ledger,      \* the Coordinator's first result for each pass, or NoResult
    results,     \* results minted so far
    consumed,    \* grants in the nodes' replay caches
    started,     \* process_started_at of each node
    tunnels,     \* history: tunnels each pass has brought up
    faults,      \* failures so far
    kinds        \* rigid: the failures of this behaviour

vars == <<clock, tokens, pending, at, path, hops, open, ledger, results, consumed, started,
          tunnels, faults>>

Ids == Range(Passes)
NoPass == "no pass"
NoResult == [id |-> 0, nodes |-> <<>>, issued |-> 0]
\* Paths the Coordinator may select: distinct nodes.
Paths == {p \in [1..PathHops -> Nodes] : \A i, j \in 1..PathHops : p[i] = p[j] => i = j}
Expires(result) == result.issued + GrantTtl
\* The grant of one hop of a result.
Grant(result, i) ==
    [id |-> result.id, hop |-> i, node |-> result.nodes[i], expires |-> Expires(result)]

Init ==
    /\ clock = 1      \* the nodes have been running for a while
    /\ tokens = Passes /\ pending = NoPass
    /\ at = "idle" /\ path = NoResult /\ hops = <<>> /\ open = {}
    /\ ledger = [p \in Ids |-> NoResult] /\ results = 0
    /\ consumed = {} /\ started = [n \in Nodes |-> 0]
    /\ tunnels = [p \in Ids |-> 0]
    /\ faults = 0 /\ kinds \in FaultSets

Fault(kind) == kind \in kinds /\ faults < MaxFaults /\ faults' = faults + 1
NoFault == faults' = faults

coordinator == <<ledger, results>>
nodes == <<consumed, started>>
vault == <<tokens, pending>>

(***************************************************************************)
(* The client                                                              *)
(***************************************************************************)

\* StoredToken::is_redeemable_at; the passes of this client expire together.
Expired == clock >= PassLife

\* (Mutant: a new attempt takes a new pass and forgets the pending one.)
ConnectBeginFresh ==
    /\ at = "idle"
    /\ \/ /\ Expired /\ tokens' = <<>> /\ pending' = NoPass
          /\ UNCHANGED at
       \/ /\ ~Expired
          /\ tokens # <<>>
          /\ at' = "redeem"
          /\ pending' = Head(tokens) /\ tokens' = Tail(tokens)
    /\ UNCHANGED <<clock, path, hops, open, coordinator, nodes, tunnels, faults>>

\* connect: expired passes go, a pending reservation is taken up again before
\* another pass is reserved.
ConnectBegin ==
    /\ at = "idle"
    /\ \/ /\ Expired /\ tokens' = <<>> /\ pending' = NoPass
          /\ UNCHANGED at
       \/ /\ ~Expired
          /\ pending # NoPass \/ tokens # <<>>
          /\ at' = "redeem"
          /\ IF pending # NoPass
             THEN UNCHANGED vault
             ELSE pending' = Head(tokens) /\ tokens' = Tail(tokens)
    /\ UNCHANGED <<clock, path, hops, open, coordinator, nodes, tunnels, faults>>

\* The attempt ends in an error, after `closed` sessions were closed.
Fails(closed) ==
    /\ at' = "idle" /\ path' = NoResult /\ hops' = <<>>
    /\ open' = open \ closed

(***************************************************************************)
(* The Coordinator: redeem_logic, commit_or_replay and the answer.         *)
(***************************************************************************)

\* mint_grant for every hop of the selected path.
Propose(nodeSeq) == [id |-> results + 1, nodes |-> nodeSeq, issued |-> clock]
\* (Mutant: a result is never replayed.)
SealedNever(p) == FALSE
\* StoredRecord::live_ciphertext: the first result can still be replayed.
Sealed(p) == ledger[p] # NoResult /\ clock < Expires(ledger[p])

Redeem ==
    /\ at = "redeem"
    /\ \/ /\ ledger[pending] = NoResult
          /\ \E nodeSeq \in Paths :
                ledger' = [ledger EXCEPT ![pending] = Propose(nodeSeq)]
          /\ results' = results + 1
          /\ \/ NoFault /\ at' = "dial" /\ path' = ledger'[pending] /\ UNCHANGED <<hops, open>>
             \/ Fault("loss") /\ Fails({})
       \/ /\ Sealed(pending)
          /\ \/ NoFault /\ at' = "dial" /\ path' = ledger[pending] /\ UNCHANGED <<hops, open>>
             \/ Fault("loss") /\ Fails({})
          /\ UNCHANGED coordinator
       \/ /\ ledger[pending] # NoResult /\ ~Sealed(pending)   \* AlreadyRedeemed
          /\ NoFault /\ Fails({})
          /\ UNCHANGED coordinator
    /\ UNCHANGED <<clock, vault, nodes, tunnels>>

(***************************************************************************)
(* Dialling the path: PathTransport::connect and the nodes' CONNECT-IP.    *)
(***************************************************************************)

\* GrantReplayCache::prune and ::consume, at the node of hop i.
Remembered == {g \in consumed : g.expires > clock}
Accepts(i) ==
    /\ clock < Expires(path)
    /\ path.issued >= started[path.nodes[i]]
    /\ Grant(path, i) \notin consumed

\* teardown of the established hops, the innermost first.
Teardown == Range(hops)

\* Hop 1 is dialled over UDP, every other through the one before it.  A node
\* that refuses, cannot be reached, or whose answer is lost or not attested,
\* ends the attempt; in the last case it has used the grant up.
Dial ==
    /\ at = "dial" /\ Len(hops) < PathHops
    /\ LET i == Len(hops) + 1
       IN  \/ /\ Accepts(i) /\ NoFault
              /\ consumed' = Remembered \cup {Grant(path, i)}
              /\ open' = open \cup {i}
              /\ IF path.nodes[i] \in PqNodes
                 THEN at' = "wrap" /\ UNCHANGED hops
                 ELSE hops' = Append(hops, i) /\ UNCHANGED at
              /\ UNCHANGED path
           \/ /\ Accepts(i) /\ Fault("dial") /\ Fails(Teardown)
              /\ consumed' = Remembered \cup {Grant(path, i)}
           \/ Fault("dial") /\ Fails(Teardown) /\ UNCHANGED consumed
           \/ /\ ~Accepts(i) /\ NoFault /\ Fails(Teardown)
              /\ consumed' = Remembered
    /\ UNCHANGED <<clock, vault, coordinator, started, tunnels>>

\* wrap_session, before the next hop is dialled through the wrapped one.
Wrap ==
    /\ at = "wrap"
    /\ \/ /\ NoFault /\ at' = "dial" /\ hops' = Append(hops, Len(hops) + 1)
          /\ UNCHANGED <<path, open>>
       \/ Fault("wrap") /\ Fails(Teardown \cup {Len(hops) + 1})
    /\ UNCHANGED <<clock, vault, coordinator, nodes, tunnels>>

\* The rest of Tunnel::up and the commit of the redemption.  When the vault
\* cannot record it the tunnel is taken down again and the pass stays pending.
BringUp ==
    /\ at = "dial" /\ Len(hops) = PathHops
    /\ \/ Fault("local") /\ Fails(Teardown) /\ UNCHANGED <<tunnels, pending>>
       \/ /\ tunnels' = [tunnels EXCEPT ![pending] = @ + 1]
          /\ \/ NoFault /\ at' = "up" /\ pending' = NoPass /\ UNCHANGED <<path, hops, open>>
             \/ Fault("store") /\ Fails(Teardown) /\ UNCHANGED pending
    /\ UNCHANGED <<clock, tokens, coordinator, nodes>>

Disconnect ==
    /\ at = "up"
    /\ Fails(Teardown)
    /\ UNCHANGED <<clock, vault, coordinator, nodes, tunnels, faults>>

(***************************************************************************)
(* The environment                                                         *)
(***************************************************************************)

\* The client dies: its connections go with it, its vault stays.  A tunnel may
\* have come up without the vault having heard of it.
Crash ==
    /\ Fault("crash") /\ Fails(open)
    /\ \/ UNCHANGED tunnels
       \/ /\ at = "dial" /\ Len(hops) = PathHops
          /\ tunnels' = [tunnels EXCEPT ![pending] = @ + 1]
    /\ UNCHANGED <<clock, vault, coordinator, nodes>>

\* A node process starts over with an empty replay cache.
NodeRestart(n) ==
    /\ Fault("restart")
    /\ started' = [started EXCEPT ![n] = clock]
    /\ consumed' = {g \in consumed : g.node # n}
    /\ UNCHANGED <<clock, vault, at, path, hops, open, coordinator, tunnels>>

Tick ==
    /\ clock < MaxClock
    /\ clock' = clock + 1
    /\ UNCHANGED <<vault, at, path, hops, open, coordinator, nodes, tunnels, faults>>

Attempt == ConnectBegin \/ Redeem \/ Dial \/ Wrap \/ BringUp

Step == Attempt \/ Disconnect \/ Crash \/ (\E n \in Nodes : NodeRestart(n)) \/ Tick
Next == Step /\ UNCHANGED kinds

Spec == Init /\ [][Next]_<<vars, kinds>>

\* A user whose attempt failed tries again, and an attempt runs to its end.
Fairness == WF_vars(Attempt)

-----------------------------------------------------------------------------
\* What the Coordinator may have recorded for a pass.
Results == [id: Nat, nodes: Paths \cup {<<>>}, issued: 0..MaxClock]

\* Type invariant; a pass is queued once, pending or gone, never two of these.
TypeOK ==
    /\ clock \in 1..MaxClock /\ faults \in 0..MaxFaults /\ results \in Nat
    /\ tokens \in Seq(Ids) /\ IsInjective(tokens)
    /\ pending \in (Ids \ Range(tokens)) \cup {NoPass}
    /\ at \in {"idle", "redeem", "dial", "wrap", "up"}
    /\ path \in Results /\ ledger \in [Ids -> Results]
    /\ hops \in Seq(1..PathHops) /\ open \subseteq 1..PathHops
    /\ started \in [Nodes -> 0..MaxClock]
    /\ tunnels \in [Ids -> Nat]
    /\ kinds \in FaultSets

\* A pass opens at most one tunnel, whatever is lost, retried, restarted or
\* left unrecorded: the vault may offer it again, but the Coordinator then
\* answers with the grants of the first time and the nodes refuse those.  (Time
\* is in whole seconds: a node restarted in the second of the grant's issue
\* cannot tell, and a second tunnel needs that of every node on the path.)
OneTunnelPerPass ==
    \A p \in Ids : tunnels[p] > 1 =>
        \A i \in 1..PathHops : started[ledger[p].nodes[i]] >= ledger[p].issued

\* An attempt that ended leaves no session behind at any hop.
NoPartialPath == at \in {"idle", "redeem"} => open = {}

\* A pass that left the vault was used or has expired.
PassIsNotLost ==
    \A p \in Ids : p \in Range(tokens) \/ p = pending \/ tunnels[p] > 0 \/ Expired

\* Hops whose node has taken its grant in this attempt; the last may still be wrapping.
Dialled == 1..(IF at = "wrap" THEN Len(hops) + 1 ELSE Len(hops))
Dialling == at \in {"dial", "wrap"}

\* The attempt works on the pending pass with the answer the Coordinator keeps for
\* it, and its sessions are those of the hops it has dialled, in path order.
AttemptFollowsPath ==
    /\ Dialling => path = ledger[pending] /\ path # NoResult
    /\ at = "redeem" \/ Dialling => pending # NoPass
    /\ at = "up" => pending = NoPass
    /\ at \in {"idle", "redeem"} => hops = <<>>
    /\ at = "wrap" => Len(hops) < PathHops
    /\ \A i \in 1..Len(hops) : hops[i] = i
    /\ open = Dialled

\* The first result of a pass is a path of distinct nodes, issued in the past.
LedgerIsSound ==
    \A p \in Ids : ledger[p] # NoResult => ledger[p].nodes \in Paths /\ ledger[p].issued \in 1..clock

\* The grant of hop i can only be accepted again by a node restarted since its issue.
Used(result, i) ==
    \/ Grant(result, i) \in consumed
    \/ clock >= Expires(result)
    \/ started[result.nodes[i]] >= result.issued

\* Every tunnel has used the grants of its whole path up, and an attempt on a pass
\* that has had its tunnel gets past restarted nodes only.
GrantsAreUsedOnce ==
    /\ \A p \in Ids : tunnels[p] > 0 =>
          ledger[p] # NoResult /\ \A i \in 1..PathHops : Used(ledger[p], i)
    /\ Dialling => \A i \in Dialled :
          /\ Used(path, i)
          /\ tunnels[pending] > 0 => started[path.nodes[i]] >= path.issued

\* Between steps of an attempt (connect, PathTransport): a pass opens one tunnel, none
\* is lost, and no session outlives the attempt that opened it.
PassInv ==
    /\ TypeOK /\ OneTunnelPerPass /\ NoPartialPath /\ PassIsNotLost
    /\ AttemptFollowsPath /\ LedgerIsSound /\ GrantsAreUsedOnce

\* Only answers of the Coordinator get lost.
OnlyLoss == kinds \subseteq {"loss"}

\* A pass whose attempt lost the Coordinator's answer brings a tunnel up if the
\* user goes on trying within the life of the result (extension_connect: "the next
\* user attempt can then reuse the same still-pending pass").  After a dial that
\* failed at a node which has used its grant up, the replayed grants are refused
\* there until they expire.
LostAnswerIsRetried ==
    (OnlyLoss /\ at = "idle" /\ pending # NoPass)
        ~> (at = "up" \/ Expired \/ (pending # NoPass /\ clock >= Expires(ledger[pending])))
=============================================================================
