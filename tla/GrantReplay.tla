---------------------------- MODULE GrantReplay ----------------------------
(***************************************************************************)
(* Single use of NWG2 tunnel grants at one node: the time checks of        *)
(* nil-core's grant verification followed by nil-node's memory-only replay *)
(* cache, over a sequence of node processes.                               *)
(*                                                                         *)
(* The Coordinator stamps a grant with its own clock, which may run ahead  *)
(* of or behind the node's.  A restarted process has an empty cache and    *)
(* refuses grants stamped before it started.                               *)
(***************************************************************************)
EXTENDS Integers, FiniteSets

CONSTANTS
    Grants,       \* grants the Coordinator may mint for this node
    Ttl,          \* lifetime it gives them
    MaxTtl,       \* MAX_GRANT_TTL_SECS
    MaxSkew,      \* MAX_GRANT_CLOCK_SKEW_SECS
    Capacity,     \* NW_NODE_GRANT_REPLAY_CAPACITY
    Skews,        \* by how much the Coordinator's clock may differ
    MaxClock,     \* bound on the node's clock
    MaxBoots,     \* bound on the number of processes
    FaultSets     \* the combinations of what may go wrong with the clocks

FaultKinds ==
    {"ahead",     \* the Coordinator's clock runs ahead of the node's
     "noclock",   \* SystemTime::now is before the epoch: reads as u64::MAX
     "stepback"}  \* the wall clock is set back

ASSUME GrantAssumption ==
    /\ Ttl \in Nat \ {0} /\ MaxTtl \in Nat /\ MaxSkew \in Nat
    /\ Capacity \in Nat \ {0}
    /\ Skews \subseteq Int
    /\ MaxClock \in Nat /\ MaxBoots \in Nat
    /\ FaultSets \subseteq SUBSET FaultKinds

VARIABLES
    clock,     \* the node's wall clock, in whole seconds
    ahead,     \* the Coordinator's clock minus the node's
    issued,    \* issued_at of each minted grant, NotMinted before
    boot,      \* which process is running
    started,   \* process_started_at
    entries,   \* keys of the replay cache
    uses,      \* history: one record per accepted CONNECT-IP
    verdict,   \* the answer of authorize_connect, if it ran last
    faults     \* rigid: what may go wrong in this behaviour

vars == <<clock, ahead, issued, boot, started, entries, uses, verdict, faults>>

\* u64::MAX: the largest expiry, what a broken clock reads, and, as an issue
\* time, a grant that is not minted.
Forever == MaxClock + Ttl + MaxTtl + MaxSkew + 1
NotMinted == Forever
Minted == {g \in Grants : issued[g] # NotMinted}
Expires(g) == issued[g] + Ttl

Verdicts == {"none", "accepted", "invalid", "mismatch", "expired", "predates",
             "replayed", "capacity"}
Use == [n : Nat, grant : Grants, at : Nat, boot : Nat, from : Nat]

\* now_unix_secs_for_expiry
Readings == {clock} \cup (IF "noclock" \in faults THEN {Forever} ELSE {})

Init ==
    /\ clock = 0
    /\ ahead \in Skews
    /\ faults \in FaultSets
    /\ ahead > 0 => "ahead" \in faults
    /\ issued = [g \in Grants |-> NotMinted]
    /\ boot = 0
    /\ started = 0
    /\ entries = {}
    /\ uses = {}
    /\ verdict = "none"

-----------------------------------------------------------------------------
(* The environment *)

\* grant::mint at the Coordinator.
Mint(g) ==
    /\ g \notin Minted
    /\ Ttl \in 1..MaxTtl
    /\ clock + ahead >= 0
    /\ clock + ahead + Ttl <= Forever
    /\ issued' = [issued EXCEPT ![g] = clock + ahead]
    /\ verdict' = "none"
    /\ UNCHANGED <<clock, ahead, boot, started, entries, uses>>

Tick ==
    /\ clock < MaxClock
    /\ clock' = clock + 1
    /\ verdict' = "none"
    /\ UNCHANGED <<ahead, issued, boot, started, entries, uses>>

\* The node's clock is set back, its difference to the Coordinator's staying
\* within Skews.
StepBack ==
    /\ "stepback" \in faults
    /\ clock > 0
    /\ ahead + 1 \in Skews
    /\ clock' = clock - 1
    /\ ahead' = ahead + 1
    /\ verdict' = "none"
    /\ UNCHANGED <<issued, boot, started, entries, uses>>

-----------------------------------------------------------------------------
(* The node *)

\* A new process: server::run builds an empty cache stamped with its start.
Restart(now) ==
    /\ boot < MaxBoots
    /\ boot' = boot + 1
    /\ started' = now
    /\ entries' = {}
    /\ verdict' = "none"
    /\ UNCHANGED <<clock, ahead, issued, uses>>

\* (Mutant: no tolerance limit on grants from the future.)
NotYetValidNever(g, now) == FALSE

\* verify_authentic: issued_at lies further ahead than the tolerated skew.
NotYetValid(g, now) == issued[g] > now /\ issued[g] - now > MaxSkew

\* verify_authentic and the audience check of verify_for_node.
Verified(g, now) ==
    /\ Ttl \in 1..MaxTtl
    /\ now < Expires(g)
    /\ ~ NotYetValid(g, now)

\* (Mutants: nothing, or one second too much, is pruned.)
PrunedNever(now) == entries
PrunedEarly(now) == {g \in entries : Expires(g) > now + 1}

\* GrantReplayCache::prune
Pruned(now) == {g \in entries : Expires(g) > now}

\* GrantReplayCache::consume after its prune, in the order of its early returns.
Consume(g, now, kept) ==
    IF now >= Expires(g) THEN "expired"
    ELSE IF issued[g] < started THEN "predates"
    ELSE IF g \in kept THEN "replayed"
    ELSE IF Cardinality(kept) >= Capacity THEN "capacity"
    ELSE "accepted"

\* authorize_connect refuses before the cache is touched: the grant does not
\* verify, or its predecessor or nonce is not the one of this connection.
Refuse(g, now) ==
    /\ verdict' \in (IF Verified(g, now) THEN {"mismatch"} ELSE {"invalid"})
    /\ UNCHANGED <<clock, ahead, issued, boot, started, entries, uses>>

\* authorize_connect reaches the cache.
Authorize(g, now) ==
    LET kept == Pruned(now) IN
    /\ Verified(g, now)
    /\ verdict' = Consume(g, now, kept)
    /\ IF verdict' = "accepted"
       THEN /\ entries' = kept \cup {g}
            /\ uses' = uses \cup {[n |-> Cardinality(uses), grant |-> g, at |-> now,
                                   boot |-> boot, from |-> started]}
       ELSE entries' = kept /\ UNCHANGED uses
    /\ UNCHANGED <<clock, ahead, issued, boot, started>>

Step ==
    \/ Tick
    \/ StepBack
    \/ \E g \in Grants : Mint(g)
    \/ \E now \in Readings : Restart(now)
    \/ \E g \in Minted, now \in Readings : Refuse(g, now)
    \/ \E g \in Minted, now \in Readings : Authorize(g, now)

Next == Step /\ UNCHANGED faults

Spec == Init /\ [][Next]_vars

-----------------------------------------------------------------------------
(* Properties *)

\* Type invariant.
TypeOK ==
    /\ clock \in 0..MaxClock
    /\ ahead \in Skews
    /\ issued \in [Grants -> 0..(Forever - Ttl) \cup {NotMinted}]
    /\ boot \in 0..MaxBoots
    /\ started \in 0..Forever
    /\ entries \subseteq Minted
    /\ uses \subseteq Use
    /\ verdict \in Verdicts
    /\ faults \subseteq FaultKinds

\* The node's clock never runs backwards, or runs with the Coordinator's.
Monotonic == "stepback" \notin faults
InStep == faults \cap {"ahead", "stepback"} = {}

\* One process accepts a grant once (grant_replay.rs: "records the pair until
\* the grant expires and refuses a second use"), however many connections
\* present it and whatever is pruned in between, unless its clock is set back:
\* the wall clock then revives a grant that was pruned.
UsedOnce ==
    \A u, v \in uses : u.grant = v.grant /\ u.boot = v.boot => u = v
OncePerProcess == Monotonic => UsedOnce

\* How far ahead of its use a grant's stamp can lie.
Lead == IF InStep THEN 0 ELSE MaxSkew

\* A grant accepted by two processes was accepted by the first of them at most
\* MaxSkew seconds before the other started: the future-stamp limit of grant
\* verification bounds what the issued_at test of the cache lets through.  With
\* clocks in step it was the very second of the restart, as THREAT_MODEL.md says.
ReuseWindow ==
    \A u, v \in uses : u.grant = v.grant /\ u.n < v.n => v.from <= u.at + Lead

\* A process accepts only grants stamped no earlier than its start and no
\* further ahead than the tolerated skew, and never an expired one.
UsesInWindow ==
    \A u \in uses :
        /\ issued[u.grant] # NotMinted
        /\ u.from <= issued[u.grant]
        /\ issued[u.grant] <= u.at + Lead

\* With clocks in step no grant is stamped in the future.
StampedInPast == InStep => ahead <= 0 /\ \A g \in Minted : issued[g] <= clock

\* The cache never outgrows its capacity and, unless the clock is set back,
\* holds every unexpired grant this process accepted, so a full cache refuses
\* and never forgets.
Remembers ==
    /\ Cardinality(entries) <= Capacity
    /\ \A u \in uses : u.boot = boot /\ clock < Expires(u.grant) => u.grant \in entries
CacheRemembers == Monotonic => Remembers

\* A grant is refused for lack of room only while Capacity unexpired grants
\* are held: expired ones never keep new tunnels out (prune runs first).
CapacityMeansLive ==
    [][verdict' = "capacity" =>
         Cardinality({g \in entries : clock < Expires(g)}) >= Capacity]_vars
=============================================================================
