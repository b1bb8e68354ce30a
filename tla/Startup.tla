------------------------------ MODULE Startup ------------------------------
(***************************************************************************)
(* How the Portal, the Coordinator and the node start: the environment is  *)
(* resolved gate by gate, in the order of each main, and the process       *)
(* either serves or refuses.  Beside it run the offline commands that      *)
(* make the long-lived keys: the node's TLS key, the Coordinator's grant   *)
(* seed and result key, and the Portal's issuer key pair in its HSM.       *)
(*                                                                         *)
(* An environment is a partial function from variable names to classes of  *)
(* value: "good" (well formed, and what it names opens), "bad", and the    *)
(* few others a gate tells apart.  The key files the commands write are    *)
(* on `disk`, so that a start may read one that is still being written.    *)
(***************************************************************************)
EXTENDS Naturals, Sequences, FiniteSets, TLC

CONSTANTS Programs,       \* a subset of {"portal", "coordinator", "node"}
          Builds,         \* records [release, hw, features]: what was compiled
          Environments,   \* Environments[p]: the environments p is launched in
          Nodes,          \* entries of a well-formed node registry
          MaxGrantTtl,    \* MAX_GRANT_TTL_SECS
          MaxKeys,        \* bound: keys generated in one behaviour
          MaxSigned       \* bound: signatures recorded in one behaviour

VARIABLES program,   \* the program this behaviour is about
          build,     \* the build that was launched last
          env,       \* its environment
          stage,     \* 0: not running; n: gate n is next; Serving; Responder
          disk,      \* key files by name
          hsm,       \* issuer key pairs under the label, in the device
          held,      \* keys the running process has read, by name
          keygen,    \* the file an offline command is writing, or "none"
          nextKey,   \* the next key an entropy source yields
          printed,   \* <<file, key>>: public halves a command has printed
          withdrawn, \* <<file, key>>: written in full, but removed by the failing command
          served,    \* identities a hardened process has served under
          signed     \* <<key advertised, key used>> of the Portal's signatures

vars == <<program, build, env, stage, disk, hsm, held, keygen, nextKey,
          printed, withdrawn, served, signed>>

Serving == 100
Responder == 101   \* a development fallback responder runs instead

KeyFiles == [portal |-> {}, coordinator |-> {"grant", "result"}, node |-> {"tls"}]
Absent == [kind |-> "absent", owner |-> TRUE, key |-> 0]

Has(n) == n \in DOMAIN env
Is(n, v) == Has(n) /\ env[n] = v
Good(n) == Is(n, "good")
Built(f) == f \in build.features

\* dev_env_flag: the name is not even read without debug assertions.
DevFlag(n) == ~build.release /\ Has(n)
DevFallbacks == DevFlag("NW_ALLOW_DEV_FALLBACKS")

\* Builds the compile_error! lines let through.
LegalBuild(b) ==
    /\ b.release => b.features \cap {"dev-fallbacks", "synthetic-attest", "dev-trace"} = {}
    /\ b.hw => b.features \cap {"dev-fallbacks", "synthetic-attest", "dev-trace"} = {}

Strict == build.hw \/ build.release

\* A key file that opens without following a link, is regular, owner-only
\* where that is enforced, and decodes to exactly one key.
ReadableKey(f, enforce) ==
    disk[f].kind = "whole" /\ (enforce => disk[f].owner)

---------------------------------------------------------------------------
(* nil-portal: main.rs, hsm.rs, client_ip.rs. *)

validate_issuance_cutover ==
    build.release => Has("NW_ISSUED_PATH") /\ Has("NW_ISSUANCE_STOP_THE_WORLD_CUTOVER")

ExactlyOneStore ==
    /\ ~(Has("NW_PORTAL_PG_URL") /\ Has("NW_PORTAL_STORE"))
    /\ Has("NW_PORTAL_PG_URL") => Built("postgres")

\* read_portal_result_key is owner-only in every build ("wide" is refused).
load_portal_result_key ==
    IF Has("NW_PORTAL_RESULT_KEY_FILE") THEN Good("NW_PORTAL_RESULT_KEY_FILE")
                                        ELSE ~build.release

\* A path that must open, or the volatile stand-in of a development build.
DurableOrDev(n) == IF Has(n) THEN Good(n) ELSE DevFallbacks

OpenStore ==
    IF Has("NW_PORTAL_PG_URL") THEN Good("NW_PORTAL_PG_URL")
                               ELSE DurableOrDev("NW_PORTAL_STORE")

load_hsm_pin ==
    /\ ~(Has("NW_TOKEN_HSM_PIN_FILE") /\ Has("NW_TOKEN_HSM_PIN"))
    /\ \/ Good("NW_TOKEN_HSM_PIN_FILE")
       \/ Is("NW_TOKEN_HSM_PIN_FILE", "wide") /\ ~build.release
       \/ Good("NW_TOKEN_HSM_PIN") /\ ~build.release

parse_hsm_slot ==
    IF Has("NW_TOKEN_HSM_SLOT") THEN Good("NW_TOKEN_HSM_SLOT") ELSE ~build.release

\* (Mutant: the first object under the label is taken.)
find_any(keys) == keys

\* The object a lookup by label resolves to: none when it is ambiguous.
find_one(keys) == IF Cardinality(keys) = 1 THEN keys ELSE {}

UsesHsm == Has("NW_TOKEN_HSM_MODULE")

\* Only a development fallback may leave the software key readable by others.
ensure_key_file_perms == Is("NW_TOKEN_SECRET_FILE", "wide") => DevFallbacks

load_or_generate_issuer ==
    IF Has("NW_TOKEN_SECRET_FILE")
    THEN ensure_key_file_perms /\ env["NW_TOKEN_SECRET_FILE"] \in {"good", "wide"}
    ELSE IF Has("NW_TOKEN_SECRET") /\ ~build.release THEN Good("NW_TOKEN_SECRET")
                                                      ELSE DevFallbacks

validate_issuer_posture ==
    /\ ~(build.release /\ Has("NW_TOKEN_SECRET"))
    /\ ~(UsesHsm /\ Has("NW_TOKEN_SECRET_FILE"))
    /\ UsesHsm => Built("hsm")
    /\ build.release => UsesHsm

\* The module loads, the slot holds a token, the pin logs in.
OpensDevice == load_hsm_pin /\ parse_hsm_slot /\ Good("NW_TOKEN_HSM_MODULE")

build_issuer ==
    /\ validate_issuer_posture
    /\ IF UsesHsm THEN OpensDevice /\ find_one(hsm) # {} ELSE load_or_generate_issuer

\* "zero" is a minimum that is set and parses.
resolve_min_atomic ==
    IF Has("NW_MONERO_MIN_ATOMIC") THEN env["NW_MONERO_MIN_ATOMIC"] \in {"good", "zero"}
                                   ELSE DevFallbacks

\* "loopback" is a plaintext address on this host, for debug builds only.
require_https_or_debug_loopback(n) == Good(n) \/ (Is(n, "loopback") /\ ~build.release)

MoneroWatcher ==
    Has("NW_MONERO_RPC") =>
        require_https_or_debug_loopback("NW_MONERO_RPC") /\ resolve_min_atomic

PendingSet == DurableOrDev("NW_PENDING_PATH")

\* An empty secret leaves the rail off.
CardRail == Built("card-payments") /\ Good("NW_CARD_WEBHOOK_SECRET")
CardRevocations == CardRail => Good("NW_CARD_REVOKED_PATH")

validate_payment_posture == build.release => Has("NW_MONERO_RPC") \/ CardRail

\* Read-only, and it must exist: load_legacy_fence.
IssuedFence == DurableOrDev("NW_ISSUED_PATH")

SubscriptionSets ==
    /\ Has("NW_SUB_BINDINGS_PATH") => Has("NW_SUB_ACTIVATED_PATH")
    /\ DurableOrDev("NW_SUB_BINDINGS_PATH")
    /\ DurableOrDev("NW_SUB_ACTIVATED_PATH")

client_ip_from_env ==
    IF Has("NW_TRUSTED_PROXY_IP") THEN Good("NW_TRUSTED_PROXY_IP") ELSE ~build.release

PortalGates ==
    << validate_issuance_cutover, ExactlyOneStore, load_portal_result_key, OpenStore,
       build_issuer, MoneroWatcher, PendingSet, CardRevocations, validate_payment_posture,
       IssuedFence, SubscriptionSets, client_ip_from_env >>

---------------------------------------------------------------------------
(* nil-coordinator: config.rs, main.rs. *)

path_hops == IF Has("NW_PATH_HOPS") THEN env["NW_PATH_HOPS"] ELSE 3
grant_ttl == IF Has("NW_GRANT_TTL_SECS") THEN env["NW_GRANT_TTL_SECS"] ELSE 300

\* An empty list disables redemption.
IssuerKeys == Has("NW_TOKEN_PUBKEY") => env["NW_TOKEN_PUBKEY"] \in {"good", "empty"}

load_grant_signing_key_file == ReadableKey("grant", build.release)

load_grant_signer ==
    /\ ~Has("NW_GRANT_KEY")
    /\ ~(Has("NW_GRANT_SIGNING_KEY_FILE") /\ Has("NW_GRANT_SIGNING_KEY"))
    /\ Has("NW_GRANT_SIGNING_KEY_FILE") => load_grant_signing_key_file
    /\ Has("NW_GRANT_SIGNING_KEY") => ~build.release /\ Good("NW_GRANT_SIGNING_KEY")

load_redemption_result_key_file == ReadableKey("result", build.release)

load_redemption_result_key ==
    IF Has("NW_REDEMPTION_RESULT_KEY_FILE") THEN load_redemption_result_key_file
                                            ELSE ~build.release

has_grant_signer == Has("NW_GRANT_SIGNING_KEY_FILE") \/ Has("NW_GRANT_SIGNING_KEY")

\* An empty realm counts as unset.
GrantIdentity ==
    /\ Has("NW_GRANT_REALM") => env["NW_GRANT_REALM"] \in {"good", "empty"}
    /\ has_grant_signer => Good("NW_GRANT_REALM")
    /\ grant_ttl \in 1..MaxGrantTtl

\* "unpinned": every path exists, but a node lacks its TLS pin, transparency
\* key, TCB floor or IPv4 endpoint; "narrow": no diverse path can be formed.
\* Without a file a debug build may use the built-in nodes, which allow 3 hops.
Registry ==
    IF Has("NW_NODE_REGISTRY")
    THEN env["NW_NODE_REGISTRY"] \in {"good", "unpinned"} /\ path_hops <= Nodes
    ELSE DevFallbacks /\ path_hops <= 3

validate_release_posture ==
    build.release =>
        /\ path_hops >= 2
        /\ Good("NW_TOKEN_PUBKEY")
        /\ Has("NW_GRANT_SIGNING_KEY_FILE") /\ Good("NW_GRANT_REALM")
        /\ Has("NW_REDEMPTION_RESULT_KEY_FILE")
        /\ Good("NW_NODE_REGISTRY")

LedgerFile == Has("NW_NULLIFIER_PATH") \/ Has("NW_NULLIFIER_DIR")

file_or_volatile_nullifiers ==
    /\ \A n \in {"NW_NULLIFIER_PATH", "NW_NULLIFIER_DIR"} : Has(n) => Good(n)
    /\ LedgerFile \/ DevFallbacks

OpenLedger ==
    IF Has("NW_NULLIFIER_PG_URL")
    THEN Built("postgres") /\ ~LedgerFile /\ Good("NW_NULLIFIER_PG_URL")
    ELSE file_or_volatile_nullifiers

CoordinatorGates ==
    << path_hops \in 1..8,
       IssuerKeys,
       load_grant_signer, load_redemption_result_key, GrantIdentity, Registry,
       validate_release_posture, OpenLedger, client_ip_from_env >>

---------------------------------------------------------------------------
(* nil-node: config.rs, attest.rs, hw.rs, cert.rs, main.rs. *)

load_grant_verifier ==
    /\ ~(Has("NW_GRANT_VERIFY_KEYS_FILE") /\ Has("NW_GRANT_VERIFY_KEYS"))
    /\ Has("NW_GRANT_VERIFY_KEYS_FILE") => Good("NW_GRANT_VERIFY_KEYS_FILE")
    /\ Has("NW_GRANT_VERIFY_KEYS") => ~Strict /\ Good("NW_GRANT_VERIFY_KEYS")

has_verifier == Has("NW_GRANT_VERIFY_KEYS_FILE") \/ Has("NW_GRANT_VERIFY_KEYS")

validate_complete_grant_identity ==
    /\ \A n \in {"NW_GRANT_REALM", "NW_NODE_ID"} : Has(n) => Good(n)
    /\ has_verifier = Has("NW_GRANT_REALM")
    /\ has_verifier = Has("NW_NODE_ID")

StrictIdentity ==
    Strict => /\ Has("NW_GRANT_VERIFY_KEYS_FILE")
              /\ Has("NW_GRANT_REALM") /\ Has("NW_NODE_ID")
              /\ Has("NW_NODE_TLS_KEY_FILE")

NodeRoleGate == IF Has("NW_NODE_ROLE") THEN Good("NW_NODE_ROLE") ELSE ~Strict

\* Limits are positive, one address may not hold them all, and the replay set
\* outlasts a full house; per address the default is cut down to the maximum.
Limits ==
    LET conns == IF Has("NW_NODE_MAX_CONNECTIONS") THEN env["NW_NODE_MAX_CONNECTIONS"] ELSE 1024
        perIp == IF Has("NW_NODE_MAX_CONNECTIONS_PER_IP")
                 THEN env["NW_NODE_MAX_CONNECTIONS_PER_IP"]
                 ELSE IF conns < 32 THEN conns ELSE 32
        cap == IF Has("NW_NODE_GRANT_REPLAY_CAPACITY")
               THEN env["NW_NODE_GRANT_REPLAY_CAPACITY"] ELSE 65536
    IN [ok |-> conns > 0 /\ perIp > 0 /\ cap > 0 /\ perIp <= conns /\ cap >= conns,
        conns |-> conns, perIp |-> perIp, cap |-> cap]

NodeAttest_from_env ==
    /\ Has("NW_NODE_MEASUREMENT") = Has("NW_NODE_TEE")
    /\ Has("NW_NODE_MEASUREMENT") => Good("NW_NODE_MEASUREMENT")
    /\ Has("NW_NODE_TEE") => env["NW_NODE_TEE"] \in {"sev-snp", "tdx"}

ResponderModes == {"NW_NODE_AMNEZIA", "NW_NODE_WSTUNNEL", "NW_NODE_REALITY"}

FallbackGate == Built("dev-fallbacks") \/ \A n \in ResponderModes : ~Has(n)

\* One whole report: a TSM slot, the proof if one is stapled, and the
\* collateral of the configured technology.
report_evidence ==
    /\ Good("configfs-tsm")
    /\ Has("NW_TRANSPARENCY_BUNDLE") => Good("NW_TRANSPARENCY_BUNDLE")
    /\ Is("NW_NODE_TEE", "sev-snp") => Good("NW_VCEK_PATH")
    /\ Is("NW_NODE_TEE", "tdx") => Good("NW_TDX_COLLATERAL")

HardwarePosture ==
    build.hw => /\ has_verifier /\ Has("NW_NODE_MEASUREMENT")
                /\ report_evidence

\* Owner-only in every build.
read_private_key == ReadableKey("tls", TRUE)

TlsIdentity ==
    IF Has("NW_NODE_TLS_KEY_FILE") THEN read_private_key ELSE ~build.release

NodeGates ==
    << ~Has("NW_GRANT_KEY"), load_grant_verifier, validate_complete_grant_identity,
       StrictIdentity, NodeRoleGate, ~(Strict /\ DevFlag("NW_ALLOW_UNGRANTED")), Limits.ok,
       NodeAttest_from_env, FallbackGate, HardwarePosture, TlsIdentity >>

---------------------------------------------------------------------------
(* The processes. *)

Gates == CASE program = "portal" -> PortalGates
           [] program = "coordinator" -> CoordinatorGates
           [] program = "node" -> NodeGates

\* The keys gate n reads into the process.
ReadsAt(n) ==
    CASE program = "portal" /\ n = 5 /\ UsesHsm -> "issuer" :> (CHOOSE k \in hsm : TRUE)
      [] program = "coordinator" /\ n = 3 /\ Has("NW_GRANT_SIGNING_KEY_FILE") ->
            "grant" :> disk["grant"].key
      [] program = "coordinator" /\ n = 4 /\ Has("NW_REDEMPTION_RESULT_KEY_FILE") ->
            "result" :> disk["result"].key
      [] program = "node" /\ n = 11 /\ Has("NW_NODE_TLS_KEY_FILE") -> "tls" :> disk["tls"].key
      [] OTHER -> <<>>

\* Before a key command ever ran, the operator may have left a readable-by-all
\* key of their own at the path.
Init ==
    /\ program \in Programs
    /\ build = (CHOOSE b \in Builds : TRUE) /\ env = <<>> /\ stage = 0
    /\ disk \in [KeyFiles[program] -> {Absent, [kind |-> "whole", owner |-> FALSE, key |-> 0]}]
    /\ hsm = {} /\ held = <<>> /\ keygen = "none" /\ nextKey = 1
    /\ printed = {} /\ withdrawn = {} /\ served = {} /\ signed = {}

Provisioning == program = "portal" /\ Built("hsm") /\ Has("NW_TOKEN_HSM_PROVISION")

Launch ==
    /\ stage = 0
    /\ \E b \in Builds, e \in Environments[program] :
          /\ LegalBuild(b) /\ (b.hw => program = "node")
          /\ build' = b /\ env' = e
    /\ stage' = 1 /\ held' = <<>>
    /\ UNCHANGED <<program, disk, hsm, keygen, nextKey, printed, withdrawn, served, signed>>

Exit == stage' = 0 /\ env' = <<>> /\ held' = <<>>

\* provision_from_env: generates a pair in the device and exits; running it
\* twice leaves two pairs under one label.
Provision ==
    /\ stage = 1 /\ Provisioning
    /\ IF UsesHsm /\ OpensDevice /\ nextKey <= MaxKeys
       THEN hsm' = hsm \cup {nextKey} /\ nextKey' = nextKey + 1
       ELSE UNCHANGED <<hsm, nextKey>>
    /\ Exit
    /\ UNCHANGED <<program, build, disk, keygen, printed, withdrawn, served, signed>>

ResponderChosen ==
    program = "node" /\ stage = 10 /\ Built("dev-fallbacks")
    /\ \E n \in ResponderModes : DevFlag(n)

Pass ==
    /\ stage \in 1..Len(Gates) /\ ~Provisioning
    /\ Gates[stage]
    /\ held' = held @@ ReadsAt(stage)
    /\ stage' = IF ResponderChosen THEN Responder
                ELSE IF stage = Len(Gates) THEN Serving ELSE stage + 1
    /\ served' = IF stage' = Serving /\ Strict THEN served \cup {held'} ELSE served
    /\ UNCHANGED <<program, build, env, disk, hsm, keygen, nextKey, printed, withdrawn, signed>>

Refuse ==
    /\ stage \in 1..Len(Gates) /\ ~Provisioning
    /\ ~Gates[stage]
    /\ Exit
    /\ UNCHANGED <<program, build, disk, hsm, keygen, nextKey, printed, withdrawn, served, signed>>

\* A crash, a stop, or a port that is taken.
Stop ==
    /\ stage # 0
    /\ Exit
    /\ UNCHANGED <<program, build, disk, hsm, keygen, nextKey, printed, withdrawn, served, signed>>

\* Pkcs11Signer.blind_sign: a fresh session looks the private key up again.
blind_sign ==
    /\ program = "portal" /\ stage = Serving /\ UsesHsm
    /\ Cardinality(signed) < MaxSigned
    /\ \E k \in find_one(hsm) : signed' = signed \cup {<<held["issuer"], k>>}
    /\ UNCHANGED <<program, build, env, stage, disk, hsm, held, keygen, nextKey, printed,
                   withdrawn, served>>

\* create_new(true): the command never replaces a file.
create_new(f) == disk[f].kind = "absent"

KeygenCreate ==
    /\ keygen = "none" /\ nextKey <= MaxKeys
    /\ \E f \in KeyFiles[program] :
          /\ create_new(f)
          /\ keygen' = f
          /\ disk' = [disk EXCEPT ![f] = [kind |-> "partial", owner |-> TRUE, key |-> nextKey]]
    /\ nextKey' = nextKey + 1
    /\ UNCHANGED <<program, build, env, stage, hsm, held, printed, withdrawn, served, signed>>

\* write_all: from here on a start can read the key, which is not yet synced.
KeygenWrite ==
    /\ keygen # "none" /\ disk[keygen].kind = "partial"
    /\ disk' = [disk EXCEPT ![keygen].kind = "whole"]
    /\ UNCHANGED <<program, build, env, stage, hsm, held, keygen, nextKey, printed, withdrawn,
                   served, signed>>

\* sync_all succeeded: the public half is printed.
KeygenDone ==
    /\ keygen # "none" /\ disk[keygen].kind = "whole"
    /\ printed' = printed \cup {<<keygen, disk[keygen].key>>}
    /\ keygen' = "none"
    /\ UNCHANGED <<program, build, env, stage, disk, hsm, held, nextKey, withdrawn, served, signed>>

\* write_all failed on a partial file, or sync_all on a whole one: the file is
\* removed, whoever has read it, and nothing is printed.
KeygenFailed ==
    /\ keygen # "none"
    /\ disk' = [disk EXCEPT ![keygen] = Absent]
    /\ withdrawn' = withdrawn \cup
          {<<f, disk[f].key>> : f \in {g \in {keygen} : disk[g].kind = "whole"}}
    /\ keygen' = "none"
    /\ UNCHANGED <<program, build, env, stage, hsm, held, nextKey, printed, served, signed>>

\* The command is killed, or its remove_file fails too: the file stays as it is.
KeygenAbandoned ==
    /\ keygen # "none"
    /\ keygen' = "none"
    /\ UNCHANGED <<program, build, env, stage, disk, hsm, held, nextKey, printed, withdrawn,
                   served, signed>>

Next ==
    \/ Launch \/ Provision \/ Pass \/ Refuse \/ Stop \/ blind_sign
    \/ KeygenCreate \/ KeygenWrite \/ KeygenDone \/ KeygenFailed \/ KeygenAbandoned

---------------------------------------------------------------------------
(* What is promised. *)

TypeOK ==
    /\ program \in Programs /\ LegalBuild(build)
    /\ stage \in 0..12 \cup {Serving, Responder}
    /\ \A f \in DOMAIN disk : disk[f].kind \in {"absent", "partial", "whole"}
    /\ keygen \in KeyFiles[program] \cup {"none"}
    /\ nextKey \in 1..(MaxKeys + 1)

\* What a hardened process that serves must rest on, program by program.
Hardened ==
    CASE program = "portal" ->
            /\ "issuer" \in DOMAIN held /\ ~Has("NW_TOKEN_SECRET") /\ ~Has("NW_TOKEN_HSM_PIN")
            /\ \A n \in {"NW_ISSUED_PATH", "NW_PENDING_PATH", "NW_SUB_BINDINGS_PATH",
                         "NW_SUB_ACTIVATED_PATH", "NW_PORTAL_RESULT_KEY_FILE",
                         "NW_TRUSTED_PROXY_IP"} : Good(n)
            /\ Good("NW_PORTAL_PG_URL") # Good("NW_PORTAL_STORE")
            /\ \/ Good("NW_MONERO_RPC") /\ Has("NW_MONERO_MIN_ATOMIC")
               \/ CardRail /\ Good("NW_CARD_REVOKED_PATH")
      [] program = "coordinator" ->
            /\ {"grant", "result"} \subseteq DOMAIN held
            /\ \A f \in {"grant", "result"} : disk[f].owner
            /\ \A n \in {"NW_TOKEN_PUBKEY", "NW_GRANT_REALM", "NW_NODE_REGISTRY"} : Good(n)
            /\ path_hops \in 2..Nodes
            /\ Good("NW_NULLIFIER_PG_URL") # LedgerFile
      [] program = "node" ->
            /\ "tls" \in DOMAIN held /\ disk["tls"].owner
            /\ Good("NW_GRANT_VERIFY_KEYS_FILE") /\ Good("NW_GRANT_REALM") /\ Good("NW_NODE_ID")
            /\ ~DevFlag("NW_ALLOW_UNGRANTED") /\ \A n \in ResponderModes : ~Has(n)
            /\ Limits.perIp <= Limits.conns /\ Limits.conns <= Limits.cap
            /\ build.hw => Good("NW_NODE_MEASUREMENT") /\ report_evidence

\* A process of a release (or hardware-attested) build that serves rests on
\* durable stores, owner-only keys and enforced grants, in whatever
\* environment it was launched; it never runs a fallback responder.  What a
\* key command printed is what its file holds.  Every signature of the Portal
\* is made with the key it advertised when it started.  All hardened starts
\* of one installation serve under one identity, but for those that read a key
\* file before its command failed to sync it and took it away.
StartupInv ==
    /\ TypeOK
    /\ stage = Serving /\ (build.release \/ (program = "node" /\ build.hw)) => Hardened
    /\ stage = Responder => ~Strict
    /\ \A p \in printed : disk[p[1]].kind = "whole" /\ disk[p[1]].key = p[2]
    /\ \A s \in signed : s[1] = s[2]
    /\ Cardinality({id \in served : \A f \in DOMAIN id : <<f, id[f]>> \notin withdrawn}) <= 1
=============================================================================
