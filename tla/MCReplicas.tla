----------------------------- MODULE MCReplicas -----------------------------
(***************************************************************************)
(* Small instances of what several replicas do over one database: a fleet  *)
(* of Coordinators redeeming passes, subscription minting at the Portal,   *)
(* and the Portal's PostgreSQL store.  A behaviour exercises one of them.  *)
(***************************************************************************)
EXTENDS CoordinatorCluster, SubscriptionMint, TLC

\* A pass of the old key requested thrice, in two spellings and at two replicas;
\* a pass of the new key, a legacy pass, and a request past the proxy.
MCPassOf == ("q1" :> "pa") @@ ("q2" :> "pa") @@ ("q3" :> "pa") @@ ("q4" :> "pb") @@ ("q5" :> "pl")
                @@ ("q6" :> "pb")
MCAsked == DOMAIN MCPassOf
MCSpellingOf == [r \in MCAsked |-> IF r = "q2" THEN "upper" ELSE "lower"]
MCEpochOf == ("pa" :> "old") @@ ("pb" :> "new") @@ ("pl" :> "old")
MCExpiryOf == ("pa" :> 2) @@ ("pb" :> 1) @@ ("pl" :> Legacy)
MCReplicaOf == [r \in MCAsked |-> IF r \in {"q2", "q5"} THEN "west" ELSE "east"]
MCPeerOf == [r \in MCAsked |-> IF r = "q6" THEN "elsewhere" ELSE "proxy"]
MCHeaderOf == [r \in MCAsked |-> <<"c1">>]
MCRollout == <<{"old"}, {"old", "new"}, {"new"}>>
MCScenarios ==
    {[faults |-> {"timeout"}, requests |-> {"q1", "q2", "q3"}],
     [faults |-> {"deploy", "keys"}, requests |-> {"q1", "q2"}],
     [faults |-> {"deploy"}, requests |-> {"q1", "q2", "q4"}],
     [faults |-> {"path"}, requests |-> {"q4", "q5", "q6"}]}

-----------------------------------------------------------------------------
CONSTANTS r1, r2, r3, r4, r5, r6, k1, k2, k3, k4, h1, h2, h3, h4, h5, east, west,
    a1, a2, a3, a4, f1, f2, f3, i1, i2, i3, p1, account

VARIABLE part  \* rigid: the component this behaviour exercises

\* A batch of two, its retry on the other replica, the same id with another
\* batch, and a fresh id that no longer fits beside the first; two further ids
\* on the first batch's replica.
MCBatches == {r1, r2, r3, r4, r5, r6}
MCKeyOf ==
    (r1 :> k1) @@ (r2 :> k1) @@ (r3 :> k1) @@ (r4 :> k2) @@ (r5 :> k3) @@ (r6 :> k4)
MCHashOf ==
    (r1 :> h1) @@ (r2 :> h1) @@ (r3 :> h2) @@ (r4 :> h3) @@ (r5 :> h4) @@ (r6 :> h5)
MCCostOf == [r \in MCBatches |-> IF r \in {r3, r6} THEN 1 ELSE 2]
MCPortalOf == [r \in MCBatches |-> IF r \in {r2, r4} THEN west ELSE east]

\* Retries and races over a store that fails, a quota row pruned under a request
\* in flight, and one replica's limiter under failing signers and restarts.
MCMintScenarios ==
    {[faults |-> {"store"}, requests |-> {r1, r2, r3}],
     [faults |-> {"store"}, requests |-> {r1, r2, r4}],
     [faults |-> {"late"}, requests |-> {r1, r2, r4}],
     [faults |-> {"signer", "restart"}, requests |-> {r1, r5, r6}]}

-----------------------------------------------------------------------------
VARIABLES dbClock, link, client, late, stmt, callNow, got, told, db, locks, minted, dbScenario
dbVars == <<dbClock, link, client, late, stmt, callNow, got, told, db, locks, minted, dbScenario>>

\* Two references, one retried on the other replica, and one for an account that
\* does not exist; one payment with a retry and with another message; the mint
\* batches above.
PgKey ==
    (a1 :> f1) @@ (a2 :> f1) @@ (a3 :> f2) @@ (a4 :> f3) @@ [c \in {i1, i2, i3} |-> p1] @@ MCKeyOf
PgHash == (i1 :> h1) @@ (i2 :> h1) @@ (i3 :> h2) @@ MCHashOf @@ [c \in {a1, a2, a3, a4} |-> h1]
PgReplica == [c \in DOMAIN PgHash |-> IF c \in {a2, a3, i2, r2, r4} THEN west ELSE east]
PgScenarios ==
    {[faults |-> {"timeout"}, calls |-> calls] : calls \in {{a1, a2, a3}, {i1, i2, i3}, {r1, r2, r4}}}
        \cup {[faults |-> {"disconnect"}, calls |-> calls] :
                 calls \in {{a1, a2}, {a3, a4}, {i1, i2}, {r1, r4}}}
        \cup {[faults |-> {"keys"}, calls |-> calls] : calls \in {{i1, i2}, {r1, r2}}}
        \cup {[faults |-> {"late"}, calls |-> {r1, r3, r4}]}

Pg == INSTANCE PostgresStore WITH
          Replicas <- {east, west}, Activations <- {a1, a2, a3, a4}, Issues <- {i1, i2, i3},
          Mints <- {r1, r2, r3, r4}, ReplicaOf <- PgReplica,
          KeyOf <- PgKey, HashOf <- PgHash, CostOf <- MCCostOf, Account <- account, Orphans <- {a4},
          Period <- 2, MaxTokens <- 3, Window <- 2, ResultTtl <- 2, Scenarios <- PgScenarios,
          clock <- dbClock, pc <- stmt, now <- callNow, answer <- told, scenario <- dbScenario

ReplicasInit ==
    /\ part \in {"fleet", "mint", "postgres"}
    /\ Init /\ MintInit /\ Pg!Init
    /\ part # "fleet" => scenario = (CHOOSE s \in MCScenarios : TRUE)
    /\ part # "mint" => mintScenario = (CHOOSE s \in MCMintScenarios : TRUE)
    /\ part # "postgres" => dbScenario = (CHOOSE s \in PgScenarios : TRUE)
ReplicasNext ==
    /\ \/ part = "fleet" /\ Next /\ UNCHANGED <<mintVars, dbVars>>
       \/ part = "mint" /\ MintNext /\ UNCHANGED <<vars, dbVars>>
       \/ part = "postgres" /\ Pg!Next /\ UNCHANGED <<vars, mintVars>>
    /\ UNCHANGED part
ReplicasSpec == ReplicasInit /\ [][ReplicasNext]_<<part, vars, mintVars, dbVars>>

\* PgStore on several replicas: rows, locks, answers and charges agree, across
\* racing transactions, calls that timed out and connections that dropped.
PgInv == Pg!PgInv

\* PgStore keeps the promise of the file store: one owner per payment or reference,
\* whichever replica it was, and only the owner's result is answered.
PgKeepsPromise == Pg!KeepsPromise
=============================================================================
