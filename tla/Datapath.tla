------------------------------ MODULE Datapath ------------------------------
(***************************************************************************)
(* The desktop client's system datapath: the engine's connection state     *)
(* machine (client/src-tauri/src/engine.rs), Tunnel::up / Tunnel::down and *)
(* the packet pumps (nil-datapath/src/lib.rs), and the Linux NetControl    *)
(* that rewrites routes, firewall and DNS (nil-datapath/src/linux.rs).     *)
(*                                                                         *)
(* `host` is the machine's networking, which outlives the process.  `net`  *)
(* is the LinuxNet value: the journal of what arm changed.  Every command  *)
(* the code runs may fail, before or after its effect.                     *)
(***************************************************************************)
EXTENDS Integers, Sequences

CONSTANTS
    Originals,      \* the machine's own IPv4 default routes
    Replaced,       \* those with metric 0, which `ip route replace` overwrites
    Addresses,      \* ArmParams::node_ip, then also_except: a sequence
    HadRoute,       \* addresses that already had a host route of their own
    MaxFails,       \* bound on failing commands
    MaxConnects,    \* bound on connection attempts
    FaultSets       \* the combinations of failures that may happen

FaultKinds ==
    {"arm", "rollback", "down",  \* a command of that job
     "pump",        \* a packet pump
     "crash"}       \* the process is killed

ASSUME ConstantsOK ==
    /\ Replaced \subseteq Originals
    /\ "tun" \notin Originals
    /\ Addresses # <<>> /\ DOMAIN Addresses = 1..Len(Addresses)
    /\ FaultSets \subseteq SUBSET FaultKinds
    /\ MaxFails \in Nat /\ MaxConnects \in Nat

VARIABLES
    host,       \* routes, pinned host routes, resolv.conf and firewall chains
    net,        \* LinuxNet: the mutation journal of the current Tunnel
    engine,     \* ConnState
    pc,         \* the step the holder of the engine mutex is at
    job,        \* what that step belongs to: "arm", "rollback" or "down"
    cursor,     \* the position in Addresses that arm pins next
    errors,     \* CleanupErrors: the restorations that failed
    ks,         \* the kill-switch setting of this connection
    pump,       \* the packet pumps: "none", "up" or "dead"
    fails,      \* failing commands so far
    connects,   \* connection attempts so far
    before,     \* the host's networking when the current connection began
    crashed,    \* the process was killed at some point
    faults      \* rigid: the failures of this behaviour

vars == <<host, net, engine, pc, job, cursor, errors, ks, pump, fails, connects, before, crashed>>

Positions == 1..Len(Addresses)
Ips == {Addresses[i] : i \in Positions}
Families == {"v4", "v6"}
HostRoutes == {"none", "own", "pinned"}
Chains == {"off", "open", "drop"}   \* no jump; a jump to a chain without DROP; with it
\* A host route before this connection replaced it: none, or the machine's own.
Pristine ==
    [default |-> Originals,
     pin     |-> [ip \in Ips |-> IF ip \in HadRoute THEN "own" ELSE "none"],
     dns     |-> "original",
     fw      |-> [f \in Families |-> "off"]]

\* The flags that are set; the captured default routes and resolv.conf; and
\* pinned_routes: for each position, in the order they were pinned, the host route
\* it replaced, or "free" when the list holds no entry for it.
LinuxNetDefault ==
    [flags |-> {}, origDefaults |-> {}, dnsBackup |-> "none",
     pinned |-> [i \in Positions |-> "free"]]
Entries(n) == {i \in Positions : n.pinned[i] # "free"}

Blocked(h) == \A f \in Families : h.fw[f] = "drop"
\* The Coordinator and a fresh node are reached over a physical default route
\* that the firewall does not drop.
Online == host.default \cap Originals # {} /\ host.fw["v4"] # "drop"
\* Closing the TUN device removes the routes over it.
WithoutTun(h) == [h EXCEPT !.default = @ \ {"tun"}]

Init ==
    /\ faults \in FaultSets
    /\ host = Pristine
    /\ net = LinuxNetDefault
    /\ engine = "disconnected" /\ pc = "idle" /\ job = "none"
    /\ cursor = 1 /\ errors = {}
    /\ ks = TRUE /\ pump = "none"
    /\ fails = 0 /\ connects = 0 /\ before = Pristine /\ crashed = FALSE

MayFail == job \in faults /\ fails < MaxFails
Fail == MayFail /\ fails' = fails + 1
Succeed == fails' = fails

(***************************************************************************)
(* Connecting: AppEngine::connect, Tunnel::up and LinuxNet::arm.           *)
(***************************************************************************)

\* The mutex is taken, the path redeemed, the transport connected and the TUN
\* opened.  What fails before this point leaves nothing behind.
Connect ==
    /\ engine = "disconnected" /\ pc = "idle" /\ connects < MaxConnects
    /\ Online
    /\ connects' = connects + 1 /\ before' = host
    /\ engine' = "connecting"
    /\ ks' \in BOOLEAN
    /\ net' = [LinuxNetDefault EXCEPT !.flags = {"armed"}]
    /\ pc' = "capture" /\ job' = "arm" /\ cursor' = 1 /\ errors' = {}
    /\ UNCHANGED <<host, pump, fails, crashed>>

\* A failing step of arm makes Tunnel::up roll back with the same journal.
Abort == pc' = "restoreDns" /\ job' = "rollback" /\ UNCHANGED errors
Proceed(step) == pc' = step /\ UNCHANGED <<job, errors>>

ArmCapture ==
    /\ pc = "capture"
    /\ \/ Succeed /\ net' = [net EXCEPT !.origDefaults = host.default] /\ Proceed("node")
       \/ Fail /\ Abort /\ UNCHANGED net
    /\ UNCHANGED <<host, engine, cursor, ks, pump, connects, before, crashed>>

\* prepare_node_route and its entry in the journal, and apply_node_route.
Recorded(i) == [net EXCEPT !.pinned[i] = host.pin[Addresses[i]]]
Applied(i) == [host EXCEPT !.pin[Addresses[i]] = "pinned"]

\* (Mutant: the journal learns of the host route only after the command succeeded.)
PinNodeUnrecorded ==
    /\ pc = "node" /\ cursor' = cursor + 1
    /\ \/ Succeed /\ Proceed("except") /\ net' = Recorded(1) /\ host' = Applied(1)
       \/ Fail /\ Abort /\ host' \in {host, Applied(1)} /\ UNCHANGED net
    /\ UNCHANGED <<engine, ks, pump, connects, before, crashed>>

PinNode ==
    /\ pc = "node" /\ cursor' = cursor + 1
    /\ \/ Succeed /\ Proceed("except") /\ net' = Recorded(1) /\ host' = Applied(1)
       \/ /\ Fail /\ Abort
          /\ \/ UNCHANGED <<net, host>>
             \/ net' = Recorded(1) /\ host' \in {host, Applied(1)}
    /\ UNCHANGED <<engine, ks, pump, connects, before, crashed>>

\* A fallback that cannot be captured or pinned is only logged.
PinFallback ==
    /\ pc = "except" /\ cursor \in Positions
    /\ cursor' = cursor + 1
    /\ \/ Succeed /\ net' = Recorded(cursor) /\ host' = Applied(cursor)
       \/ Fail /\ net' = Recorded(cursor) /\ host' \in {host, Applied(cursor)}
       \/ Fail /\ UNCHANGED <<net, host>>
    /\ UNCHANGED <<engine, pc, job, errors, ks, pump, connects, before, crashed>>

Guarded(h) == [h EXCEPT !.fw = [f \in Families |-> "drop"]]
\* Where arm_kill_switch can stop: a chain is flushed and jumped to before its
\* DROP is appended, and IPv4 is finished before IPv6 is begun.
HalfGuarded(h) ==
    {[h EXCEPT !.fw["v4"] = c] : c \in {h.fw["v4"], "open", "drop"}}
        \cup {[h EXCEPT !.fw["v4"] = "drop", !.fw["v6"] = "open"]}

ArmKillSwitch ==
    /\ pc = "except" /\ cursor \notin Positions
    /\ \/ ~ks /\ Succeed /\ Proceed("flip") /\ UNCHANGED <<net, host>>
       \/ /\ ks /\ net' = [net EXCEPT !.flags = @ \cup {"firewall"}]
          /\ \/ Succeed /\ Proceed("flip") /\ host' = Guarded(host)
             \/ Fail /\ Abort /\ host' \in HalfGuarded(host)
    /\ UNCHANGED <<engine, cursor, ks, pump, connects, before, crashed>>

Flipped(h) == [h EXCEPT !.default = (@ \ Replaced) \cup {"tun"}]

FlipDefault ==
    /\ pc = "flip"
    /\ net' = [net EXCEPT !.flags = @ \cup {"default"}]
    /\ \/ Succeed /\ Proceed("dns") /\ host' = Flipped(host)
       \/ Fail /\ Abort /\ host' \in {host, Flipped(host)}
    /\ UNCHANGED <<engine, cursor, ks, pump, connects, before, crashed>>

\* The last step of arm; on success Tunnel::up spawns the pumps and the engine
\* becomes Connected.
SetDns ==
    /\ pc = "dns"
    /\ \/ /\ Succeed
          /\ net' = [net EXCEPT !.dnsBackup = host.dns, !.flags = @ \cup {"dns"}]
          /\ host' = [host EXCEPT !.dns = "tunnel"]
          /\ pc' = "idle" /\ job' = "none" /\ engine' = "connected" /\ pump' = "up"
          /\ UNCHANGED errors
       \/ /\ Fail /\ Abort
          /\ \/ UNCHANGED <<net, host>>
             \/ /\ net' = [net EXCEPT !.dnsBackup = host.dns, !.flags = @ \cup {"dns"}]
                /\ host' \in {host, [host EXCEPT !.dns = "torn"]}
          /\ UNCHANGED <<engine, pump>>
    /\ UNCHANGED <<cursor, ks, connects, before, crashed>>

(***************************************************************************)
(* LinuxNet::teardown, run by a rollback inside Tunnel::up and by          *)
(* Tunnel::down.  Every restoration is attempted; the firewall goes last.  *)
(***************************************************************************)

RestoreDns ==
    /\ pc = "restoreDns" /\ pc' = "restoreDefault"
    /\ \/ "dns" \notin net.flags /\ Succeed /\ UNCHANGED <<net, host, errors>>
       \/ /\ "dns" \in net.flags /\ Succeed
          /\ net' = [net EXCEPT !.flags = @ \ {"dns"}]
          /\ host' = [host EXCEPT !.dns = net.dnsBackup]
          /\ UNCHANGED errors
       \/ /\ "dns" \in net.flags /\ Fail
          /\ errors' = errors \cup {"dns"}
          /\ host' \in {host, [host EXCEPT !.dns = "torn"]}
          /\ UNCHANGED net
    /\ UNCHANGED <<engine, job, cursor, ks, pump, connects, before, crashed>>

\* (Mutant: a failed restoration of the default routes is only logged.)
RestoreDefaultLogged ==
    /\ pc = "restoreDefault" /\ pc' = "restorePins"
    /\ \/ Succeed /\ host' = IF "default" \in net.flags
                             THEN [host EXCEPT !.default = net.origDefaults] ELSE host
       \/ Fail /\ UNCHANGED host
    /\ net' = [net EXCEPT !.flags = @ \ {"default"}]
    /\ UNCHANGED <<engine, job, cursor, errors, ks, pump, connects, before, crashed>>

\* restore_default_routes deletes every default route, then adds the captured
\* ones; a failing command leaves part of either set.
RestoreDefault ==
    /\ pc = "restoreDefault" /\ pc' = "restorePins"
    /\ \/ "default" \notin net.flags /\ Succeed /\ UNCHANGED <<net, host, errors>>
       \/ /\ "default" \in net.flags /\ Succeed
          /\ net' = [net EXCEPT !.flags = @ \ {"default"}]
          /\ host' = [host EXCEPT !.default = net.origDefaults]
          /\ UNCHANGED errors
       \/ /\ "default" \in net.flags /\ Fail
          /\ errors' = errors \cup {"default"}
          /\ \E left \in (SUBSET host.default) \cup (SUBSET net.origDefaults) :
                 host' = [host EXCEPT !.default = left]
          /\ UNCHANGED net
    /\ UNCHANGED <<engine, job, cursor, ks, pump, connects, before, crashed>>

\* Host routes are restored last pinned first: of several entries for one
\* address, the first pinned has the last word.
RestoredPins(done) ==
    [ip \in Ips |->
        LET mine == {i \in done : Addresses[i] = ip}
        IN  IF mine = {} THEN host.pin[ip]
            ELSE net.pinned[CHOOSE i \in mine : \A j \in mine : i <= j]]

\* `failed` are the entries whose command reports an error, and stay in the list;
\* `done` are those whose command took effect.
RestorePins ==
    /\ pc = "restorePins" /\ pc' = "disarm"
    /\ \E failed \in SUBSET Entries(net) : \E done \in SUBSET Entries(net) :
           /\ Entries(net) \ failed \subseteq done
           /\ \/ failed = {} /\ Succeed /\ UNCHANGED errors
              \/ failed # {} /\ Fail /\ errors' = errors \cup {"pins"}
           /\ host' = [host EXCEPT !.pin = RestoredPins(done)]
           /\ net' = [net EXCEPT !.pinned =
                          [i \in Positions |-> IF i \in failed THEN net.pinned[i] ELSE "free"]]
    /\ UNCHANGED <<engine, job, cursor, ks, pump, connects, before, crashed>>

Pending(n) == n.flags \cap {"dns", "default", "firewall"} # {} \/ Entries(n) # {}
\* Where disarm_kill_switch can stop: each family's jump and chain are tried
\* whatever became of the other's.
HalfReleased(h) ==
    {[h EXCEPT !.fw["v4"] = a, !.fw["v6"] = b] :
        a \in {h.fw["v4"], "open", "off"}, b \in {h.fw["v6"], "open", "off"}}

\* The firewall is released only when nothing before it failed.  A rollback
\* drops the journal and the TUN whatever came of it; a clean down drops the
\* tunnel; a failed down keeps both for the next Disconnect.
Release(h, n, failed) ==
    /\ \/ /\ job = "rollback" \/ ~failed
          /\ net' = LinuxNetDefault /\ host' = WithoutTun(h) /\ engine' = "disconnected"
       \/ /\ job # "rollback" /\ failed
          /\ net' = IF Pending(n) THEN n ELSE [n EXCEPT !.flags = @ \ {"armed"}]
          /\ host' = h /\ engine' = "disconnecting"
    /\ pc' = "idle" /\ job' = "none" /\ errors' = {}

DisarmKillSwitch ==
    /\ pc = "disarm"
    /\ \/ /\ errors = {} /\ "firewall" \in net.flags /\ Succeed
          /\ Release([host EXCEPT !.fw = [f \in Families |-> "off"]],
                     [net EXCEPT !.flags = @ \ {"firewall"}], FALSE)
       \/ /\ errors = {} /\ "firewall" \in net.flags /\ Fail
          /\ \E h \in HalfReleased(host) : Release(h, net, TRUE)
       \/ /\ errors # {} \/ "firewall" \notin net.flags
          /\ Succeed /\ Release(host, net, errors # {})
    /\ UNCHANGED <<cursor, ks, pump, connects, before, crashed>>

(***************************************************************************)
(* The rest of the tunnel's life.                                          *)
(***************************************************************************)

\* (Mutant: a disconnect that failed cannot be tried again.)
DisconnectOnce ==
    /\ engine = "connected" /\ pc = "idle"
    /\ engine' = "disconnecting"
    /\ pump' = "none"
    /\ pc' = "restoreDns" /\ job' = "down" /\ errors' = {}
    /\ UNCHANGED <<host, net, cursor, ks, fails, connects, before, crashed>>

\* AppEngine::disconnect and Tunnel::down: the pumps are cancelled and joined
\* before the teardown.
Disconnect ==
    /\ engine \in {"connected", "disconnecting"} /\ pc = "idle"
    /\ engine' = "disconnecting"
    /\ pump' = "none"
    /\ pc' = "restoreDns" /\ job' = "down" /\ errors' = {}
    /\ UNCHANGED <<host, net, cursor, ks, fails, connects, before, crashed>>

\* A pump that meets an error trips pump_dead and takes its sibling along.
PumpDies ==
    /\ "pump" \in faults /\ pump = "up"
    /\ pump' = "dead"
    /\ UNCHANGED <<host, net, engine, pc, job, cursor, errors, ks, fails, connects, before, crashed>>

\* The process is killed: the machine keeps its firewall, host routes and DNS,
\* and loses the TUN.  The next process starts Disconnected.
Crash ==
    /\ "crash" \in faults /\ ~crashed
    /\ crashed' = TRUE
    /\ host' = WithoutTun(host)
    /\ net' = LinuxNetDefault
    /\ engine' = "disconnected" /\ pc' = "idle" /\ job' = "none"
    /\ cursor' = 1 /\ errors' = {} /\ pump' = "none"
    /\ UNCHANGED <<ks, fails, connects, before>>

ArmStep == ArmCapture \/ PinNode \/ PinFallback \/ ArmKillSwitch \/ FlipDefault \/ SetDns
TeardownStep == RestoreDns \/ RestoreDefault \/ RestorePins \/ DisarmKillSwitch

Step == Connect \/ ArmStep \/ Disconnect \/ TeardownStep \/ PumpDies \/ Crash
Next == Step /\ UNCHANGED faults

Spec == Init /\ [][Next]_<<vars, faults>>

\* The task that holds the engine mutex runs on, and a user whose Disconnect
\* failed presses it again.
Fairness ==
    /\ WF_vars(ArmStep) /\ WF_vars(TeardownStep)
    /\ WF_vars(Disconnect /\ engine = "disconnecting")

-----------------------------------------------------------------------------
ArmSteps == {"capture", "node", "except", "flip", "dns"}
TeardownSteps == {"restoreDns", "restoreDefault", "restorePins", "disarm"}
Networking ==
    [default : SUBSET (Originals \cup {"tun"}), pin : [Ips -> HostRoutes],
     dns : {"original", "tunnel", "torn"}, fw : [Families -> Chains]]
Journals ==
    [flags : SUBSET {"armed", "dns", "default", "firewall"},
     origDefaults : SUBSET (Originals \cup {"tun"}), dnsBackup : {"none", "original", "tunnel", "torn"},
     pinned : [Positions -> HostRoutes \cup {"free"}]]

\* Type invariant.  A live journal is kept exactly while a tunnel exists or a
\* step is running, so that a second arm never finds itself already armed.
TypeOK ==
    /\ host \in Networking /\ before \in Networking
    /\ net \in Journals
    /\ engine \in {"disconnected", "connecting", "connected", "disconnecting"}
    /\ pc \in {"idle"} \cup ArmSteps \cup TeardownSteps
    /\ job \in {"none", "arm", "rollback", "down"}
    /\ cursor \in Positions \cup {Len(Addresses) + 1} /\ errors \subseteq {"dns", "default", "pins"}
    /\ ks \in BOOLEAN /\ crashed \in BOOLEAN
    /\ pump \in {"none", "up", "dead"}
    /\ fails \in 0..MaxFails /\ connects \in 0..MaxConnects
    /\ "armed" \in net.flags <=> engine # "disconnected"
    /\ faults \in FaultSets

\* The holder of the engine mutex is where the state of the engine says, and only
\* a job whose commands may fail has collected errors.
JobFits ==
    /\ pc = "idle" <=> job = "none"
    /\ pc \in ArmSteps <=> job = "arm"
    /\ engine = "connecting" <=> job \in {"arm", "rollback"}
    /\ job = "down" => engine = "disconnecting"
    /\ errors # {} => pc \in TeardownSteps /\ job \in faults

\* The errors are exactly what a teardown has passed and the journal still holds:
\* what was restored is struck off, what failed is kept for another try.
PassedIsRestored ==
    /\ pc = "restoreDns" => errors = {}
    /\ pc = "restoreDefault" => errors = net.flags \cap {"dns"}
    /\ pc = "restorePins" => errors = net.flags \cap {"dns", "default"}
    /\ pc = "disarm" => /\ errors \ {"pins"} = net.flags \cap {"dns", "default"}
                        /\ "pins" \in errors <=> Entries(net) # {}

\* arm fills the journal in order: the firewall comes before the default route, DNS
\* last, and nothing is known of an address that has not been reached.
ArmOrder ==
    /\ pc \in {"capture", "node"} => cursor = 1
    /\ pc \in {"capture", "node", "except"} => net.flags = {"armed"}
    /\ pc \in {"node", "except", "flip"} => net.origDefaults = before.default
    /\ pc \in {"flip", "dns"} /\ ks => Blocked(host)
    /\ job = "arm" => /\ "dns" \notin net.flags
                      /\ \A i \in Positions : i >= cursor => net.pinned[i] = "free"

\* The addresses to pin are pairwise different.  The host of a fallback that is not
\* configured defaults to the entry node's (launch::finish_selector), and then they
\* are not: see DatapathSameHost.cfg.
DistinctAddresses == \A i, j \in Positions : Addresses[i] = Addresses[j] => i = j

\* While a tunnel exists, the journal holds the earlier value of everything that
\* may differ from what the connection found (LinuxNet: record, then execute).
JournalCovers ==
    engine # "disconnected" =>
        /\ "dns" \in net.flags => net.dnsBackup = before.dns
        /\ "dns" \notin net.flags => host.dns = before.dns
        /\ "default" \in net.flags => net.origDefaults = before.default
        /\ "default" \notin net.flags => host.default = before.default
        /\ "firewall" \notin net.flags => host.fw = before.fw
        /\ DistinctAddresses => \A i \in Positions :
               LET ip == Addresses[i]
               IN  IF net.pinned[i] = "free" THEN host.pin[ip] = before.pin[ip]
                   ELSE net.pinned[i] = before.pin[ip]

\* A connection begins over a physical route that the firewall does not drop.
BeganOnline == "tun" \notin before.default /\ before.fw["v4"] # "drop"

\* While the default route goes through the TUN of a connection with the
\* kill-switch on, direct egress is dropped for both address families: during
\* arm, while connected, after the pumps died, and across failed disconnects.
\* Without a tunnel there is no such route.
NoLeakWindow ==
    /\ "tun" \in host.default => engine # "disconnected"
    /\ ks /\ ("tun" \in host.default \/ "default" \in net.flags) => Blocked(host)

\* Once direct egress is dropped it stays dropped, through a dead pump, failed
\* disconnects and a killed process, until routes, host routes and DNS are all
\* as the connection found them: teardown disarms last and never after a failure.
FirewallReleasedLast ==
    [][Blocked(host) /\ ~Blocked(host') =>
        /\ host'.default = before.default
        /\ host'.pin = before.pin
        /\ host'.dns = before.dns]_vars

\* Disconnected means that the machine's networking is exactly what it was before
\* the first connection, unless the process was killed or the rollback of a failed
\* arm failed as well: Tunnel::up then drops the journal a retry would need.
DisconnectedMeansRestored ==
    ~crashed /\ "rollback" \notin faults =>
        /\ before = Pristine
        /\ engine = "disconnected" => host = Pristine

\* The machine's networking fits the state the engine reports (AppEngine, LinuxNet):
\* the journal holds what a teardown needs at every step, nothing leaks while
\* connected, and nothing is left over once disconnected.
HostInv ==
    /\ TypeOK /\ JobFits /\ PassedIsRestored /\ ArmOrder /\ JournalCovers /\ BeganOnline
    /\ NoLeakWindow /\ DisconnectedMeansRestored

\* AppEngine::connect and ::disconnect are decided, whatever Tunnel::up, its rollback
\* and Tunnel::down run into: a disconnect that failed completes after enough retries.
EngineSettles ==
    engine \in {"connecting", "disconnecting"} ~> engine \in {"connected", "disconnected"}
=============================================================================
