-------------------------- MODULE MCPassRedemption --------------------------
(***************************************************************************)
(* A small instance of the client's side of a connection for TLC: the life *)
(* of a connection pass, and the way from the client's settings to the     *)
(* tunnel that the pass pays for.  A behaviour exercises one of the two.   *)
(***************************************************************************)
EXTENDS PassRedemption

MCPasses == <<"p1", "p2">>

\* Only lost answers, or everything.
MCFaultSets == {{"loss"}, FaultKinds}

-----------------------------------------------------------------------------
\* Settings and environments.

Live == [url |-> "https", host |-> "", measurement |-> "", tee |-> "sev-snp", killSwitch |-> "1"]
Pinned(m) == [Live EXCEPT !.measurement = m]
\* One node without a Coordinator.
Single(m) == [Live EXCEPT !.url = "", !.host = "h1", !.measurement = m]

Plain == [flags |-> {}, start |-> [v \in DOMAIN Live |-> ""], pinned |-> {}, logKey |-> "",
          params |-> "", tdxPolicy |-> "", minTcb |-> "", path |-> <<>>,
          rungs |-> [amnezia |-> "", reality |-> "", wstunnel |-> ""]]

Hop(m, k) == [measurement |-> m, key |-> k, spki |-> TRUE, form |-> "good"]
Alike(n, hop) == [i \in 1..n |-> hop]
\* What a Coordinator may say: good paths, too short and too long ones, foreign
\* measurements and keys, malformed hops.
Answers ==
    {Alike(n, Hop("pinA", "ours")) : n \in {0, 1, 2, 9}}
    \cup {<<Hop("pinA", "ours"), Hop("pinB", "ours")>>, <<Hop("pinA", "ours"), Hop("other", "ours")>>,
          Alike(2, Hop("other", "")), Alike(2, Hop("pinB", "theirs"))}
    \cup {Alike(2, [Hop("pinA", "ours") EXCEPT !.spki = FALSE]),
          Alike(2, [Hop("pinA", "ours") EXCEPT !.form = "bad"])}

Times(sets, connects, restarts) == [sets |-> sets, connects |-> connects, restarts |-> restarts]
Shipped == [build |-> "release", embedded |-> TRUE, features |-> {}, env |-> Plain,
            settings |-> {Pinned("pinA"), Single("pinB")}, answers |-> Answers, left |-> Times(2, 1, 0)]
Debug == [Shipped EXCEPT !.build = "debug"]
Bare == [Debug EXCEPT !.embedded = FALSE]
WithEnv(s, e) == [s EXCEPT !.env = e, !.left = Times(1, 1, 0)]
Static(n) == [Plain EXCEPT !.path = <<n>>]
Laddered(flags, amnezia, reality, wstunnel) ==
    [Plain EXCEPT !.flags = flags \cup {"unattested"},
        !.rungs = [amnezia |-> amnezia, reality |-> reality, wstunnel |-> wstunnel]]
\* The settings of a single node and a build with the fallback rungs.
Rungs(e) == [WithEnv(Bare, e) EXCEPT !.features = {"selector"}, !.settings = {Single("")},
                                     !.left = Times(0, 1, 0)]

LaunchScenarios ==
    {Shipped, [Shipped EXCEPT !.settings = {Pinned("other"), [Live EXCEPT !.url = "http"]}],
     Debug, Bare, [Debug EXCEPT !.left = Times(1, 2, 1)], [Bare EXCEPT !.settings = {Pinned("pinA"), Pinned("pinB")}],
     [Bare EXCEPT !.settings = {Pinned("garbled"), [Live EXCEPT !.url = "loopback", !.killSwitch = "0"]}]}
    \cup {WithEnv(s, e) : s \in {Shipped, Debug, Bare},
            e \in {[Plain EXCEPT !.pinned = {"pinB", "other"}, !.logKey = "ours"],
                   [Plain EXCEPT !.logKey = "theirs", !.start = [Live EXCEPT !.measurement = "other"]],
                   [Plain EXCEPT !.pinned = {"garbled"}, !.minTcb = "floor"],
                   Static(2), Static(0), [Static(1) EXCEPT !.flags = {"unattested", "insecure"}]}}
    \cup {[WithEnv(Bare, [Plain EXCEPT !.tdxPolicy = p, !.minTcb = t]) EXCEPT
             !.settings = {[Single("pinA") EXCEPT !.tee = tee]}, !.left = Times(0, 1, 0)] :
            p \in {"", "good"}, t \in {"", "floor", "garbled"}, tee \in {"", "tdx", "sgx"}}
    \cup {Rungs(Laddered(f, a, r, w)) : f \in {{"cascade"}, {"selector"}},
            a \in {"", "node", "h2", "garbled"}, r \in {"", "h3"}, w \in {"", "h2", "garbled"}}
    \cup {[Rungs([Laddered({"cascade"}, "h2", "", "") EXCEPT !.path = <<2>>]) EXCEPT !.features = f] :
            f \in {{}, {"selector"}}}

-----------------------------------------------------------------------------
VARIABLES part, settings, file, cfg, env, set, conn, left

launchVars == <<settings, file, cfg, env, set, conn, left>>
all == <<vars, kinds, part, launchVars>>

Launch == INSTANCE ClientLaunch WITH
              Scenarios <- LaunchScenarios, Roots <- {"pinA", "pinB"}, Defaults <- Live,
              scenario <- settings

\* While one part moves, the other rests in an initial state.
ClientInit ==
    /\ part \in {"pass", "launch"}
    /\ Init /\ Launch!Init
    /\ part = "pass" => settings = Shipped /\ file = <<>>
    /\ part = "launch" => kinds = FaultKinds
ClientNext ==
    \/ part = "pass" /\ Next /\ UNCHANGED <<part, launchVars>>
    \/ part = "launch" /\ Launch!Next /\ UNCHANGED <<vars, kinds, part>>
ClientSpec == ClientInit /\ [][ClientNext]_all /\ Fairness

\* What Connect makes of settings that may change meanwhile (config.rs, trust.rs,
\* launch.rs, redeem.rs) is a tunnel that the settings, the bundle and the build allow.
LaunchInv == Launch!LaunchInv
=============================================================================
