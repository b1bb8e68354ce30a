----------------------------- MODULE MCDatapath -----------------------------
(***************************************************************************)
(* Small instances of the client datapaths for TLC: the desktop engine     *)
(* over LinuxNet, and over MacNet or WinNet; the Android shell; the Apple  *)
(* shell.  A behaviour exercises one.                                      *)
(***************************************************************************)
EXTENDS Datapath

\* Two default routes, of which only the metric-0 one is overwritten; the entry
\* node and one fallback, whose address had a host route before.
MCOriginals == {"metric0", "metric100"}
MCReplaced == {"metric0"}
MCAddresses == <<"node", "fallback">>

\* With and without what a clean Disconnect cannot undo: failing rollbacks and
\* a killed process.
MCFaultSets == {{"arm", "down", "pump"}, FaultKinds}

\* A fallback rung on the host of the entry node, and commands of a Disconnect
\* that fail.
MCSameHost == <<"node", "node">>
MCDownFails == {{"down"}}

-----------------------------------------------------------------------------
VARIABLES
    part,  \* rigid: the component this behaviour exercises
    os, osFaults, machine, earlier, journal, state, task, todos, cleanup, killSwitch, guarded,
    failed, ups, killed
osVars == <<os, osFaults, machine, earlier, journal, state, task, todos, cleanup, killSwitch, guarded,
            failed, ups, killed>>

Os == INSTANCE DesktopNet WITH
          Systems <- {"macos", "windows"}, Addresses <- <<"node", "fallback">>,
          HadRoute <- {"fallback"}, MaxFails <- 3, MaxConnects <- 2,
          FaultSets <- {{"arm", "down"}, {"arm", "rollback", "down", "crash"}},
          faults <- osFaults, host <- machine, before <- earlier, net <- journal, engine <- state, job <- task,
          todo <- todos, errors <- cleanup, ks <- killSwitch, fails <- failed,
          connects <- ups, crashed <- killed

VARIABLES
    droid, cmd, attempt, vault, seen, consent, record, lease, looper, bound, sticky, svc, main,
    poller, tun, native, risen, done, incs, dfails, taps
androidVars == <<
    droid, cmd, attempt, vault, seen, consent, record, lease, looper, bound, sticky, svc, main,
    poller, tun, native, risen, done, incs, dfails, taps>>
Answer == [hops |-> 1, tee |-> "sev-snp", measurement |-> "pinned", key |-> "ours", spki |-> "ok",
           grant |-> "both"]
DroidRun(kinds, budget, actions) ==
    [faults |-> kinds, answer |-> Answer, pins |-> {"pinned"}, key |-> "ours",
     build |-> "debug", fails |-> budget, taps |-> actions]
\* One fault against four user actions, two against three; a slow poll; a packaged build; and
\* each way an answer can be unusable, with and without the client's anchors.
Quick == DroidRun({}, 0, 3)
DroidFaults ==
    {"fail", "store", "pump", "lease", "revoke", "service", "app", "age"}
DroidScenarios ==
    {DroidRun(DroidFaults, 1, 4), DroidRun(DroidFaults, 2, 3),
     DroidRun({"slow", "service"}, 1, 3),
     [Quick EXCEPT !.build = "release"]}
    \cup {[DroidRun({"service"}, 1, 2) EXCEPT !.answer = a, !.pins = p, !.key = k] :
            a \in {[Answer EXCEPT !.hops = 2], [Answer EXCEPT !.tee = "tdx"],
                   [Answer EXCEPT !.measurement = "rogue"], [Answer EXCEPT !.measurement = "short"],
                   [Answer EXCEPT !.measurement = "none"], [Answer EXCEPT !.key = "none"],
                   [Answer EXCEPT !.key = "other"], [Answer EXCEPT !.spki = "malformed"],
                   [Answer EXCEPT !.grant = "half"]},
            p \in {{}, {"pinned"}}, k \in {"none", "ours"}}
Droid == INSTANCE AndroidShell WITH
             Scenarios <- DroidScenarios, scenario <- droid, engine <- native, fails <- dfails

VARIABLES
    apple, chains, installed, prefs, conn, prov, calls, eng, atoms, cancelled, ingest,
    sending, sent, dropped, offered, pending, session, raised, committed, afails, touches
appleVars == <<
    apple, chains, installed, prefs, conn, prov, calls, eng, atoms, cancelled, ingest,
    sending, sent, dropped, offered, pending, session, raised, committed, afails, touches>>
Config == [build |-> "debug", allow |-> FALSE, tee |-> "sev-snp", measurement |-> "48 bytes",
           key |-> "log key", floor |-> "none", nonce |-> "32 bytes"]
AppleRun(system, kinds, actions) ==
    [os |-> system, config |-> Config, onDemand |-> system = "macos", faults |-> kinds,
     fails |-> 1, taps |-> actions]
AppleFaults == {"prefs", "connect", "link", "apply", "death"}
AppleScenarios ==
    {AppleRun("ios", AppleFaults, 4), AppleRun("ios", {"manual"}, 3),
     AppleRun("macos", AppleFaults, 4)}
    \cup {[AppleRun("ios", {}, 2) EXCEPT !.config = c] :
            c \in {[Config EXCEPT !.build = "release", !.key = "none"],
                   [Config EXCEPT !.tee = "tdx"], [Config EXCEPT !.measurement = "short"],
                   [Config EXCEPT !.allow = TRUE], [Config EXCEPT !.nonce = "malformed"],
                   [Config EXCEPT !.floor = "malformed"],
                   [Config EXCEPT !.allow = TRUE, !.key = "none", !.measurement = "none"]}}
Apple == INSTANCE AppleTunnel WITH
             Scenarios <- AppleScenarios, Capacity <- 1, MaxPackets <- 3,
             scenario <- apple, risen <- raised, done <- committed, fails <- afails, taps <- touches

DatapathInit ==
    /\ part \in {"linux", "desktop", "android", "apple"}
    /\ Init
    /\ part # "linux" => faults = FaultKinds
    /\ Os!Init
    /\ part # "desktop" => os = "macos" /\ osFaults = {"arm", "down"} /\ machine.fw.pf
    /\ Droid!Init
    /\ part # "android" => droid = [Quick EXCEPT !.build = "release"] /\ consent
    /\ Apple!Init
    /\ part # "apple" => apple = AppleRun("ios", {"manual"}, 3)
DatapathNext ==
    /\ \/ part = "linux" /\ Next /\ UNCHANGED <<osVars, androidVars, appleVars>>
       \/ part = "desktop" /\ Os!Next /\ UNCHANGED <<vars, faults, androidVars, appleVars>>
       \/ part = "android" /\ Droid!Next /\ UNCHANGED <<vars, faults, osVars, appleVars>>
       \/ part = "apple" /\ Apple!Next /\ UNCHANGED <<vars, faults, osVars, androidVars>>
    /\ UNCHANGED part
DatapathSpec ==
    DatapathInit /\ [][DatapathNext]_<<part, vars, faults, osVars, androidVars, appleVars>>
    /\ Fairness

\* On macOS and Windows, too, there is no leak window, the firewall is released
\* last, and Disconnected means the machine is as it was.
DesktopNetInv == Os!DesktopNetInv

\* On Android a pass is forgotten only for its own tunnel, "up" is believed only
\* of the live service process that wrote it, and the poll never enters a freed
\* engine, whichever process dies.
AndroidInv == Droid!AndroidInv

\* On iOS and macOS a session is connected only after attestation, its packets keep
\* their order and are sent, counted or lost with the queue at its end, and a pass is
\* forgotten only for a tunnel brought up with it.
AppleInv == Apple!AppleInv
=============================================================================
