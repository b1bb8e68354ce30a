---------------------------- MODULE MCServices ------------------------------
(***************************************************************************)
(* The services for TLC: the node's event loop, the start of each service, *)
(* the grants of whole paths, and what the Portal sells.  A behaviour      *)
(* exercises one of them.                                                  *)
(***************************************************************************)
EXTENDS MCNodeServer, TLC

CONSTANTS Builds, Environments

MCBuilds ==
    {[release |-> TRUE, hw |-> FALSE, features |-> {"hsm", "postgres", "card-payments"}],
     [release |-> TRUE, hw |-> FALSE, features |-> {}],
     [release |-> TRUE, hw |-> TRUE, features |-> {}],
     [release |-> FALSE, hw |-> TRUE, features |-> {}],
     [release |-> FALSE, hw |-> FALSE, features |-> {"hsm", "dev-fallbacks"}]}

\* The environments of a production deployment, and of every one that differs
\* from it in at most two variables: one removed, one added, one changed.
AllGood(S) == [n \in S |-> "good"]
Deployed ==
    [portal |-> AllGood({"NW_ISSUED_PATH", "NW_ISSUANCE_STOP_THE_WORLD_CUTOVER",
         "NW_PORTAL_STORE", "NW_PORTAL_RESULT_KEY_FILE", "NW_TOKEN_HSM_MODULE",
         "NW_TOKEN_HSM_PIN_FILE", "NW_TOKEN_HSM_SLOT", "NW_MONERO_RPC", "NW_MONERO_MIN_ATOMIC",
         "NW_PENDING_PATH", "NW_SUB_BINDINGS_PATH", "NW_SUB_ACTIVATED_PATH",
         "NW_TRUSTED_PROXY_IP"}),
     coordinator |-> AllGood({"NW_TOKEN_PUBKEY", "NW_GRANT_SIGNING_KEY_FILE",
         "NW_REDEMPTION_RESULT_KEY_FILE", "NW_GRANT_REALM", "NW_NODE_REGISTRY",
         "NW_NULLIFIER_PATH", "NW_TRUSTED_PROXY_IP"}),
     node |-> ("NW_NODE_TEE" :> "sev-snp") @@ AllGood({"NW_GRANT_VERIFY_KEYS_FILE",
         "NW_GRANT_REALM", "NW_NODE_ID", "NW_NODE_TLS_KEY_FILE", "NW_NODE_ROLE",
         "NW_NODE_MEASUREMENT", "configfs-tsm", "NW_VCEK_PATH"})]
Settings ==
    [portal |-> ({"NW_TOKEN_HSM_PROVISION", "NW_PORTAL_PG_URL", "NW_TOKEN_SECRET",
         "NW_TOKEN_SECRET_FILE", "NW_TOKEN_HSM_PIN", "NW_CARD_WEBHOOK_SECRET",
         "NW_CARD_REVOKED_PATH", "NW_ALLOW_DEV_FALLBACKS"} \X {"good"}) \cup
         {<<"NW_PORTAL_RESULT_KEY_FILE", "wide">>, <<"NW_TOKEN_HSM_PIN_FILE", "wide">>,
          <<"NW_MONERO_RPC", "loopback">>, <<"NW_MONERO_MIN_ATOMIC", "zero">>,
          <<"NW_PENDING_PATH", "bad">>},
     coordinator |-> ({"NW_GRANT_KEY", "NW_GRANT_SIGNING_KEY", "NW_NULLIFIER_DIR",
         "NW_NULLIFIER_PG_URL", "NW_ALLOW_DEV_FALLBACKS"} \X {"good"}) \cup
         ({"NW_PATH_HOPS"} \X {0, 1, 4}) \cup ({"NW_NODE_REGISTRY"} \X {"unpinned", "narrow"})
         \cup {<<"NW_GRANT_TTL_SECS", 0>>, <<"NW_GRANT_REALM", "empty">>,
               <<"NW_TOKEN_PUBKEY", "empty">>},
     node |-> ({"NW_GRANT_KEY", "NW_GRANT_VERIFY_KEYS", "NW_ALLOW_UNGRANTED",
         "NW_NODE_AMNEZIA", "NW_TDX_COLLATERAL"} \X {"good"}) \cup
         ({"NW_VCEK_PATH", "NW_NODE_ROLE", "NW_TRANSPARENCY_BUNDLE"} \X {"bad"}) \cup
         {<<"NW_NODE_TEE", "tdx">>, <<"NW_NODE_MAX_CONNECTIONS", 8>>,
          <<"NW_NODE_MAX_CONNECTIONS_PER_IP", 9>>, <<"NW_NODE_GRANT_REPLAY_CAPACITY", 7>>}]
Near(e, settings) ==
    {e} \cup {[x \in DOMAIN e \ {n} |-> e[x]] : n \in DOMAIN e}
        \cup {(s[1] :> s[2]) @@ e : s \in settings}
MCEnvironments ==
    [p \in DOMAIN Deployed |->
        UNION {Near(e, Settings[p]) : e \in Near(Deployed[p], Settings[p])}]

-----------------------------------------------------------------------------
VARIABLES
    part,  \* rigid: the component this behaviour exercises
    program, build, env, stage, disk, hsm, held, keygen, nextKey, printed, withdrawn,
    served, signed

startVars == <<program, build, env, stage, disk, hsm, held, keygen, nextKey, printed, withdrawn,
               served, signed>>

Start == INSTANCE Startup WITH
             Programs <- {"portal", "coordinator", "node"}, Nodes <- 3, MaxGrantTtl <- 600,
             MaxKeys <- 2, MaxSigned <- 2

\* A path of three with two entries to choose from; the middle has a clone
\* under another TLS key.  Production and staging share a grant key by mistake,
\* and their exits' identifiers join to the same text: ab.c and a.bc.
Node(id, host, role, operator) ==
    [id |-> id, host |-> host, port |-> 443, tee |-> "sev-snp", measurement |-> "image",
     spki |-> host, operator |-> operator, jurisdiction |-> operator, wg_pub |-> "none",
     role |-> role, tcb |-> FALSE, tdx |-> "none", log |-> "none"]
Listed == <<Node(<<"e">>, "h1", "entry", "A"), Node(<<"m">>, "h2", "middle", "B"),
            Node(<<"c">>, "h3", "exit", "C"), Node(<<"b", "c">>, "h3s", "exit", "D"),
            Node(<<"e", ".", "2">>, "h4", "entry", "D")>>
RegistryFiles ==
    {Listed, [Listed EXCEPT ![5].id = Listed[1].id], [Listed EXCEPT ![5].host = "h1"],
     [Listed EXCEPT ![3].id = <<".">>], [Listed EXCEPT ![2].tee = "tdx"],
     [Listed EXCEPT ![2].host = "dns"], [Listed EXCEPT ![2].spki = "none"]}
MachineConfig ==
    [m \in {"h1", "h2", "h2clone", "h3", "h3s"} |->
        [realm |-> IF m = "h3s" THEN <<"a">> ELSE <<"a", "b">>,
         node_id |-> CASE m = "h1" -> <<"e">> [] m = "h3" -> <<"c">> [] m = "h3s" -> <<"b", "c">>
                       [] OTHER -> <<"m">>,
         role |-> CASE m = "h1" -> "entry" [] m \in {"h3", "h3s"} -> "exit" [] OTHER -> "middle",
         tee |-> "sev-snp", measurement |-> "image", keys |-> {"key"}]]
OwnHost == [m \in DOMAIN MachineConfig |-> m]

VARIABLES registry, paths, consumed, tunnels
grantVars == <<registry, paths, consumed, tunnels>>

Grant == INSTANCE GrantAudience WITH
             Files <- RegistryFiles, Signers <- ("prod" :> "key" @@ "staging" :> "key"),
             RealmOf <- ("prod" :> <<"a", "b">> @@ "staging" :> <<"a">>),
             Machines <- DOMAIN MachineConfig, Config <- MachineConfig, Spki <- OwnHost,
             AddressOf <- OwnHost, ClientAddress <- "home", Letters <- {"a", "b", "c", "e", "m", "2"},
             Marks <- {"."}, MaxIdentifier <- 3, Hops <- 3, MaxRedemptions <- 2

-----------------------------------------------------------------------------
VARIABLES
    sale, wall, due, soundSince, restarts, pending, bindings, revoked, fence, accounts, activated,
    issued, challenges, card, monero, confirming, wallet, charged, refunded, req, handed, acked, proofs, extended
billVars ==
    <<sale, wall, due, soundSince, restarts, pending, bindings, revoked, fence, accounts, activated,
      issued, challenges, card, monero, confirming, wallet, charged, refunded, req, handed, acked, proofs, extended>>

\* An activation of what an older version bound; an account created twice that
\* tries another's reference and another's nonce; one reference activated twice;
\* two checkouts for one place, and a token.
Asks(kind, who, nonce, ref) == [kind |-> kind, account |-> who, nonce |-> nonce, ref |-> ref]
BillRequests ==
    "old" :> Asks("activate", "A", "n1", "f0")
    @@ "create" :> Asks("create", "B", "", "") @@ "again" :> Asks("create", "B", "", "")
    @@ "subscribe" :> Asks("subscribe", "A", "n1", "") @@ "status" :> Asks("status", "B", "n1", "")
    @@ "own" :> Asks("activate", "A", "n2", "f1") @@ "twice" :> Asks("activate", "A", "n3", "f1")
    @@ "other" :> Asks("activate", "B", "n2", "f1")
    @@ "buy1" :> Asks("checkout", "", "", "") @@ "buy2" :> Asks("checkout", "", "", "")
    @@ "token" :> Asks("issue", "", "", "f1")
Sale(requests, old, rails, until) ==
    [requests |-> requests, old |-> old, holders |-> {"A"}, rails |-> rails, until |-> until]
BillScenarios ==
    {Sale({"old"}, {<<"f0", "A">>}, {"monero"}, 9),
     Sale({"create", "again", "subscribe", "other", "status"}, {}, {"monero"}, 3),
     Sale({"subscribe", "own", "twice"}, {}, {"monero"}, 2),
     Sale({"buy1", "buy2", "token"}, {}, {"card"}, 5)}

Bill == INSTANCE PortalBilling WITH
            Accounts <- {"A", "B"}, Refs <- {"f0", "f1", "f2"}, Requests <- BillRequests,
            OldBindings <- {<<"f0", "A">>}, Scenarios <- BillScenarios, Cap <- 1, Ttl <- 2,
            Interval <- 2, Skew <- 1, ChallengeTtl <- 1, MaxRestarts <- 1,
            clock <- wall, scenario <- sale

ServicesInit ==
    /\ Init /\ Start!Init /\ Grant!Init /\ Bill!Init
    /\ part \in {"server", "start", "grant", "billing"}
    /\ part # "server" => setup = (CHOOSE s \in Setups : TRUE)
    /\ part # "start" => program = "node" /\ disk["tls"].kind = "absent"
    /\ part # "grant" => registry = [c \in DOMAIN registry |-> <<>>]
    /\ part # "billing" => "create" \in sale.requests
ServicesNext ==
    /\ \/ part = "server" /\ Next /\ UNCHANGED <<startVars, grantVars, billVars>>
       \/ part = "start" /\ Start!Next /\ UNCHANGED <<allVars, grantVars, billVars>>
       \/ part = "grant" /\ Grant!Next /\ UNCHANGED <<allVars, startVars, billVars>>
       \/ part = "billing" /\ Bill!Next /\ UNCHANGED <<allVars, startVars, grantVars>>
    /\ UNCHANGED part
ServicesSpec == ServicesInit /\ [][ServicesNext]_<<part, allVars, startVars, grantVars, billVars>>

\* Whatever the environment, a release or hardware build that serves rests on
\* durable stores, owner-only keys and enforced grants; printed keys are the
\* keys on disk; the Portal signs with the key it advertised; hardened starts
\* of one installation serve under one identity, but for those that read a key
\* which its command then failed to sync and removed.
StartupInv == Start!StartupInv

\* A grant is good only at the machine the registry lists at its place in the
\* path, from the node before it, towards the node after it.
AudienceInv == Grant!AudienceInv

\* Checkouts stay within their bound, references live their TTL across restarts,
\* acknowledged refunds stay refunds, only paid references buy tokens, a challenge
\* admits one request, and a reference extends its account's subscription once, also
\* when an older version did it and the fence has been retired.
BillingInv == Bill!BillingInv
=============================================================================
