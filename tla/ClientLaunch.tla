---------------------------- MODULE ClientLaunch ----------------------------
(***************************************************************************)
(* From the client's settings to a tunnel.  ConfigState                    *)
(* (client/src-tauri/src/config.rs) keeps the settings in memory, in a     *)
(* file and, one variable after another, in the process environment.  The  *)
(* Connect command (lib.rs, engine.rs, trust.rs) and the launcher          *)
(* (nil-datapath/src/launch.rs, redeem.rs) read that environment without   *)
(* the settings' lock and turn it into the trust anchors, the path, the    *)
(* rungs and the firewall's exceptions of the tunnel.  The settings may    *)
(* change at any point of it.                                              *)
(*                                                                         *)
(* An empty string is an unset variable, "garbled" one that does not       *)
(* parse.  The application is started without nil-cli's NW_TOKEN.          *)
(***************************************************************************)
EXTENDS Naturals, Sequences

CONSTANTS
    Scenarios,  \* build, fixed environment, settings to choose from, answers, bounds
    Roots,      \* the node measurements of the embedded trust bundle
    Defaults    \* ClientConfig::live_defaults

VARIABLES
    scenario,   \* rigid
    file,       \* config.json: <<>> when missing or garbled, else <<settings>>
    cfg,        \* ConfigState::cfg
    env,        \* the environment variables that follow the settings
    set,        \* the change under way: its settings, the variables still to write
    conn,       \* the Connect command: where it is and what it has read
    left        \* changes, connects and restarts still to come

vars == <<scenario, file, cfg, env, set, conn, left>>

Fixed == scenario.env
Release == scenario.build = "release"
Embedded == scenario.embedded

\* dev_env_flag: no flag is read in a release build.
DevFlag(name) == ~Release /\ name \in Fixed.flags

----------------------------------------------------------------------------
\* The settings.

\* apply_env, in its order.
Variables == <<"url", "host", "measurement", "tee", "killSwitch">>

\* ClientConfig::load: a missing or garbled file falls back to from_env, and that
\* to the default of every variable the process was started without.
Load(f) ==
    IF f # <<>> THEN f[1]
    ELSE [v \in DOMAIN Defaults |->
            IF Fixed.start[v] = "" THEN Defaults[v] ELSE Fixed.start[v]]

\* save: a temporary file, synced, then renamed: a crash leaves the old or the new.
Saved(c) == <<c>>

Settled == [to |-> <<>>, writes |-> <<>>]
Idle == [pc |-> "idle", writes |-> <<>>, seen |-> {}, coordinator |-> FALSE,
         url |-> "", pins |-> {}, key |-> "", host |-> "", killSwitch |-> "",
         unattested |-> FALSE, expected |-> {}, path |-> <<>>, rungs |-> <<>>,
         except |-> {}]

Init ==
    /\ scenario \in Scenarios
    /\ file \in {<<>>} \cup {<<c>> : c \in scenario.settings}
    /\ cfg = Load(file) /\ env = cfg
    /\ set = Settled /\ conn = Idle /\ left = scenario.left

\* (Mutant: the settings are read without their lock.)
MayReadAlways == TRUE
\* ConfigState's lock: many readers or one writer.
MayRead == set.to = <<>>
MayWrite == set.to = <<>> /\ conn.pc # "reapply"

\* ConfigState::set and ::update (toggle_kill_switch): the new settings are saved
\* under the lock.  A save that fails changes nothing and is not a step.
Choices == scenario.settings \cup {[cfg EXCEPT !.killSwitch = k] : k \in {"0", "1"}}
SetBegin ==
    /\ MayWrite /\ left.sets > 0 /\ left' = [left EXCEPT !.sets = @ - 1]
    /\ \E c \in Choices :
         /\ file' = Saved(c) /\ set' = [to |-> <<c>>, writes |-> Variables]
         /\ conn' = IF conn.pc \in {"idle", "up", "loopback"} THEN conn
                    ELSE [conn EXCEPT !.seen = @ \cup {c}]
    /\ UNCHANGED <<scenario, cfg, env>>
SetWrite ==
    /\ set.writes # <<>>
    /\ env' = [env EXCEPT ![set.writes[1]] = set.to[1][set.writes[1]]]
    /\ set' = [set EXCEPT !.writes = Tail(@)]
    /\ UNCHANGED <<scenario, file, cfg, conn, left>>
SetDone ==
    /\ set.to # <<>> /\ set.writes = <<>>
    /\ cfg' = set.to[1] /\ set' = Settled
    /\ UNCHANGED <<scenario, file, env, conn, left>>

\* The application stops anywhere and is started again: ConfigState::new.
Restart ==
    /\ left.restarts > 0 /\ left' = [left EXCEPT !.restarts = @ - 1]
    /\ cfg' = Load(file) /\ env' = Load(file)
    /\ set' = Settled /\ conn' = Idle
    /\ UNCHANGED <<scenario, file>>

----------------------------------------------------------------------------
\* The Connect command, one step per read of something another step may change.

At(pc) == conn.pc = pc /\ UNCHANGED <<scenario, file, cfg, set>>
Reads(pc) == At(pc) /\ UNCHANGED <<env, left>>
Fail == conn' = Idle

\* reapply_env, under the read lock.
ConnectBegin ==
    /\ At("idle") /\ MayRead /\ UNCHANGED env
    /\ left.connects > 0 /\ left' = [left EXCEPT !.connects = @ - 1]
    /\ conn' = [Idle EXCEPT !.pc = "reapply", !.writes = Variables, !.seen = {cfg}]
Reapply ==
    /\ At("reapply") /\ UNCHANGED left
    /\ IF conn.writes = <<>> THEN conn' = [conn EXCEPT !.pc = "snapshot"] /\ UNCHANGED env
       ELSE /\ env' = [env EXCEPT ![conn.writes[1]] = cfg[conn.writes[1]]]
            /\ conn' = [conn EXCEPT !.writes = Tail(@)]

\* require_safe_control_url: plaintext needs a development build, and loopback or a flag.
SafeUrl(url) == \/ url \in {"https", "https2"}
                \/ ~Release /\ (url = "loopback" \/ DevFlag("insecure"))

\* config.get and the refusals before a pass is reserved: the URL, the privileges,
\* no pass at hand.
Snapshot ==
    /\ Reads("snapshot") /\ MayRead
    /\ \/ /\ cfg.url # "" => SafeUrl(cfg.url)
          /\ conn' = [conn EXCEPT !.pc = "engine", !.coordinator = cfg.url # ""]
       \/ Fail

\* AppEngine::connect and is_configured.  What is not configured is refused by a
\* release build and is the loopback seam of the others.
Configured == env.url # "" \/ (~Release /\ (env.host # "" \/ Fixed.path # <<>>))
Engine ==
    /\ Reads("engine")
    /\ CASE Configured -> conn' = [conn EXCEPT !.pc = "url"]
         [] ~Configured /\ Release -> Fail
         [] OTHER -> conn' = [conn EXCEPT !.pc = "loopback"]

\* bring_up_configured: with a Coordinator a pass must have been reserved, without
\* one only a development build goes on.
ReadUrl ==
    /\ Reads("url")
    /\ IF (IF env.url # "" THEN SafeUrl(env.url) /\ conn.coordinator ELSE ~Release)
       THEN conn' = [conn EXCEPT !.url = env.url,
                       !.pc = IF env.url = "" /\ ~Embedded THEN "params" ELSE "trust"]
       ELSE Fail

\* trust.rs: the configured pins select among the embedded ones and never add to
\* them; without a bundle they stand alone, and the garbled ones are dropped.
Pins == ({env.measurement} \cup Fixed.pinned) \ {""}
EffectivePins ==
    IF ~Embedded THEN Pins \ {"garbled"}
    ELSE IF Pins = {} THEN Roots ELSE Roots \cap Pins
EffectiveKey == IF Embedded THEN "ours" ELSE Fixed.logKey
TrustFails ==
    \/ Fixed.logKey = "garbled"
    \/ Embedded /\ ("garbled" \in Pins \/ EffectivePins = {} \/ Fixed.logKey \notin {"", "ours"})
ReadTrust ==
    /\ Reads("trust")
    /\ IF TrustFails THEN Fail
       ELSE conn' = [conn EXCEPT !.pins = EffectivePins, !.key = EffectiveKey,
                       !.pc = IF conn.url = "" THEN "recheck" ELSE "params"]

\* params_from_env up to the expectation.
ReadParams ==
    /\ Reads("params")
    /\ IF Fixed.params = "garbled" THEN Fail
       ELSE conn' = [conn EXCEPT !.pc = "expected",
                       !.host = IF env.host = "" THEN "node" ELSE env.host,
                       !.killSwitch = env.killSwitch, !.unattested = DevFlag("unattested")]

\* NW_PATH, every hop with the one expectation.
StaticPath(expected) ==
    IF Fixed.path = <<>> THEN <<>> ELSE [i \in 1..Fixed.path[1] |-> expected]

\* Where the parameters lead: a Coordinator's path; the static one under the
\* bundle, apply_direct_trust; or from_env, which looks for a Coordinator again.
AfterParams(expected) ==
    CASE conn.url # "" -> conn' = [conn EXCEPT !.pc = "redeem", !.expected = expected]
      [] conn.url = "" /\ ~Embedded -> conn' = [conn EXCEPT !.pc = "recheck", !.expected = expected]
      [] OTHER ->
           IF \A e \in expected : e.measurement \notin conn.pins THEN Fail
           ELSE LET ours == {[e EXCEPT !.key = conn.key] : e \in expected} IN
                conn' = [conn EXCEPT !.pc = "assemble", !.expected = ours,
                           !.path = StaticPath(ours), !.unattested = FALSE]

\* expected_from_env: the measurement, then the TEE with its policy or TCB floor.
ReadExpected ==
    /\ Reads("expected")
    /\ CASE env.measurement = "garbled" -> Fail
         [] env.measurement = "" -> IF Fixed.tdxPolicy # "" THEN Fail ELSE AfterParams({})
         [] OTHER -> conn' = [conn EXCEPT !.pc = "tee",
                                !.expected = {[measurement |-> env.measurement, key |-> Fixed.logKey]}]
TeeFits == CASE env.tee = "tdx" -> Fixed.tdxPolicy = "good" /\ Fixed.minTcb = ""
             [] env.tee \in {"", "sev-snp"} -> Fixed.tdxPolicy = "" /\ Fixed.minTcb # "garbled"
             [] OTHER -> FALSE
ReadTee ==
    /\ Reads("tee")
    /\ IF TeeFits /\ Fixed.logKey # "garbled" THEN AfterParams(conn.expected) ELSE Fail

\* from_env_with_direct_trust and from_env read the Coordinator's variable again,
\* one before the parameters, the other after: it must still be unset.
Recheck ==
    /\ Reads("recheck")
    /\ IF env.url # "" THEN Fail
       ELSE IF Embedded THEN conn' = [conn EXCEPT !.pc = "params"]
       ELSE conn' = [conn EXCEPT !.pc = "assemble", !.path = StaticPath(conn.expected)]

\* path_from_response_with_trust and hop_to_endpoint: one to eight well-formed hops;
\* a release build wants two and their TLS identities.
MinHops == 1
MaxHops == 8
Usable(hops) ==
    /\ Len(hops) \in MinHops..MaxHops /\ (Release => Len(hops) > 1)
    /\ \A i \in DOMAIN hops : hops[i].form = "good" /\ (Release => hops[i].spki)

\* cross_check_trust: every hop is among the client's pins, if it has any, and logged
\* under the client's key, if it has one.
CrossChecked(hops) ==
    \A i \in DOMAIN hops :
        /\ conn.pins # {} => hops[i].measurement \in conn.pins
        /\ conn.key # "" => hops[i].key = conn.key

\* redeem_path: the Coordinator answers, refuses, or does not answer in time.
Redeem ==
    /\ Reads("redeem")
    /\ \/ \E hops \in scenario.answers :
            /\ Usable(hops) /\ CrossChecked(hops)
            /\ conn' = [conn EXCEPT !.pc = "assemble",
                          !.path = [i \in DOMAIN hops |->
                             {[measurement |-> hops[i].measurement, key |-> hops[i].key]}]]
       \/ Fail

----------------------------------------------------------------------------
\* What the launcher assembles.

\* parse_wg_endpoint and the *_fallback_from_env: a rung is there when its node's
\* key is, its host defaults to the node's.
Rung(name) ==
    LET host == Fixed.rungs[name] IN
    IF host = "" THEN <<>> ELSE <<IF host \in {"node", "garbled"} THEN conn.host ELSE host>>
Garbled(names) == \E n \in names : Fixed.rungs[n] = "garbled"
Hosts(rungs) == {rungs[i] : i \in DOMAIN rungs}

\* finish_selector: a fast and a resistant ladder behind the primary.
SelectorRungs == Rung("amnezia") \o Rung("reality") \o Rung("wstunnel")
SelectorFails == Garbled({"amnezia", "reality", "wstunnel"}) \/ Rung("reality") \o Rung("wstunnel") = <<>>

\* The static cascade of development builds.
CascadeRungs == Rung("amnezia") \o Rung("wstunnel")
CascadeFails == Garbled({"amnezia", "wstunnel"}) \/ CascadeRungs = <<>>

\* The hosts the firewall lets through for the cascade: they follow the variables.
CascadeHosts == Hosts(CascadeRungs)

\* assemble: a path, or one node with its fallback rungs.
Assembled(rungs, except) ==
    conn' = [conn EXCEPT !.pc = "dial", !.rungs = rungs, !.except = except]
Assemble ==
    /\ Reads("assemble")
    /\ IF \/ Release /\ Len(conn.path) < 2
          \/ Fixed.flags \cap {"cascade", "selector"} # {} /\ scenario.features = {}
          \/ conn.path = <<>> /\ Fixed.path # <<>>
       THEN Fail
       ELSE IF conn.path # <<>>
       THEN Assembled(<<>>, IF DevFlag("cascade") THEN CascadeHosts ELSE {})
       ELSE IF DevFlag("selector") /\ "selector" \in scenario.features
       THEN IF SelectorFails THEN Fail ELSE Assembled(SelectorRungs, Hosts(SelectorRungs))
       ELSE IF DevFlag("cascade")
       THEN IF CascadeFails THEN Fail ELSE Assembled(CascadeRungs, CascadeHosts)
       ELSE Assembled(<<>>, {})

\* The hops that are dialled: the path's, or the node alone.
Hops == IF conn.path # <<>> THEN conn.path ELSE <<conn.expected>>

\* unattested_gate: a hop without an expectation is refused unless a development
\* build was told otherwise.
Dials == \A i \in DOMAIN Hops : Hops[i] # {} \/ (~Release /\ conn.unattested)

\* Tunnel::up, which may also fail.
BringUp ==
    /\ Reads("dial")
    /\ \/ Dials /\ conn' = [conn EXCEPT !.pc = "up"]
       \/ Fail
Disconnect == (Reads("up") \/ Reads("loopback")) /\ Fail

Next ==
    \/ SetBegin \/ SetWrite \/ SetDone \/ Restart
    \/ ConnectBegin \/ Reapply \/ Snapshot \/ Engine \/ ReadUrl \/ ReadTrust
    \/ ReadParams \/ ReadExpected \/ ReadTee \/ Recheck \/ Redeem
    \/ Assemble \/ BringUp \/ Disconnect

Spec == Init /\ [][Next]_vars

----------------------------------------------------------------------------
Up == conn.pc = "up"

\* Nobody writing, the environment is that of the settings: no connect that writes
\* it again puts an older kill switch back (lib.rs recalls such a fail-open).
EnvironmentFollows == MayWrite => env = cfg

\* A tunnel's kill switch and Coordinator are those of settings in force since its
\* connect began; and if all of them named a measurement, its hops have one of these.
NothingStale ==
    Up => /\ \E c \in conn.seen : c.killSwitch = conn.killSwitch
          /\ \E c \in conn.seen : c.url = conn.url
          /\ (\A c \in conn.seen : c.measurement \notin {"", "garbled"}) =>
               \A i \in DOMAIN Hops : \E e \in Hops[i] :
                   e.measurement \in Fixed.pinned \cup {c.measurement : c \in conn.seen}

\* With an embedded bundle every hop is attested against one of its measurements
\* and logged under its key, with or without a Coordinator, however the settings
\* changed between the reads.
Anchored ==
    (Up /\ Embedded) =>
        \A i \in DOMAIN Hops : \E e \in Hops[i] : e.measurement \in Roots /\ e.key = "ours"

\* A release build's path is split, and has taken a reserved pass to a Coordinator.
SplitAndPaid == (Up /\ Release) => Len(Hops) >= 2 /\ conn.url # "" /\ conn.coordinator

\* Without a path, the firewall is open for the servers of the assembled fallback
\* rungs and for no other.
ExceptionsMatch == (Up /\ conn.path = <<>>) => conn.except = Hosts(conn.rungs)

\* What Connect makes of settings that may change meanwhile (config.rs, trust.rs,
\* launch.rs, redeem.rs) is a tunnel that the settings, the bundle and the build allow.
LaunchInv == EnvironmentFollows /\ NothingStale /\ Anchored /\ SplitAndPaid /\ ExceptionsMatch
=============================================================================
