----------------------------- MODULE DesktopNet -----------------------------
(***************************************************************************)
(* NetControl on macOS (nil-datapath/src/macos.rs) and Windows             *)
(* (windows.rs), under the Tunnel that Datapath models for Linux.          *)
(*                                                                         *)
(* Both lay two /1 routes over the TUN beside the machine's own default.   *)
(* They differ in order and in the firewall: macOS loads a pf anchor after *)
(* pinning the nodes, Windows adds allow rules and turns every profile's   *)
(* default to Block before anything else.  `todo` is what arm or teardown  *)
(* has still to run, `net` the MacNet or WinNet value.  A route command    *)
(* works or leaves the table alone; pfctl, networksetup and the firewall   *)
(* cmdlets may stop halfway.                                               *)
(***************************************************************************)
EXTENDS Integers, Sequences, FiniteSets, SequencesExt

CONSTANTS Systems,      \* subset of {"macos", "windows"}
          Addresses,    \* the node's and the fallbacks' addresses, in pinning order
          HadRoute,     \* addresses that already have a host route
          MaxFails,     \* bound on failing commands
          MaxConnects,  \* bound on connections
          FaultSets     \* sets of jobs whose commands may fail; "crash": kills

VARIABLES os,        \* rigid
          faults,    \* rigid
          host,      \* the machine's networking
          before,    \* history: the same when the current connection began
          net,       \* the journal of the current Tunnel
          engine,    \* "disconnected", "connecting", "connected" or "disconnecting"
          job,       \* "none", "arm", "rollback" or "down"
          todo,
          errors,    \* CleanupErrors is not empty
          ks,        \* the kill-switch setting of this connection
          guarded,   \* history: this connection's kill-switch was complete
          fails, connects, crashed

vars == <<os, faults, host, before, net, engine, job, todo, errors, ks, guarded, fails, connects, crashed>>

Profiles == {"Domain", "Private", "Public"}
Halves == {"low", "high"}   \* 0.0.0.0/1 and 128.0.0.0/1
Pins == Range(Addresses)

\* PF is off or on; a domain machine may block one profile by policy.
Firewalls ==
    IF os = "macos" THEN [anchor : {"none"}, pf : BOOLEAN]
    ELSE {[rules |-> "none", action |-> a] :
             a \in {[p \in Profiles |-> "Allow"],
                    [p \in Profiles |-> IF p = "Public" THEN "Block" ELSE "Allow"]}}
Blocked(h) ==
    IF os = "macos" THEN h.fw.pf /\ h.fw.anchor = "loaded"
    ELSE \A p \in Profiles : h.fw.action[p] = "Block"
Restored == host.routes = before.routes /\ host.pins = before.pins /\ host.dns = before.dns

Journal ==
    [saved |-> <<>>, touched |-> FALSE, dns |-> "none", dnsTouched |-> FALSE,
     added |-> {}, pinned |-> {}]

Init ==
    /\ os \in Systems /\ faults \in FaultSets
    /\ \E fw \in Firewalls : host = [routes |-> {}, pins |-> HadRoute, dns |-> "original", fw |-> fw]
    /\ before = host
    /\ net = Journal /\ engine = "disconnected" /\ job = "none" /\ todo = <<>>
    /\ errors = FALSE /\ ks = TRUE /\ guarded = FALSE
    /\ fails = 0 /\ connects = 0 /\ crashed = FALSE

PinSteps == [i \in DOMAIN Addresses |-> <<"pin", Addresses[i]>>]
Step(name) == <<name, "">>

\* arm, in the order of each system.
ArmPlan(guard) ==
    IF os = "macos"
    THEN <<Step("capture")>> \o PinSteps
         \o (IF guard THEN <<Step("pf load"), Step("pf enable")>> ELSE <<>>)
         \o <<Step("low"), Step("high"), Step("dns")>>
    ELSE (IF guard THEN <<Step("save"), Step("allow"), Step("block")>> ELSE <<>>)
         \o <<Step("index")>> \o PinSteps \o <<Step("low"), Step("high"), Step("dns")>>

\* teardown: what the journal holds, and the firewall last.
TeardownPlan ==
    (IF net.dnsTouched THEN <<Step("restore dns")>> ELSE <<>>)
    \o SelectSeq(<<Step("drop high"), Step("drop low")>>,
                 LAMBDA s : s = Step(IF "high" \in net.added THEN "drop high" ELSE "")
                            \/ s = Step(IF "low" \in net.added THEN "drop low" ELSE ""))
    \o SelectSeq([i \in DOMAIN Addresses |-> <<"unpin", Addresses[i]>>], LAMBDA s : s[2] \in net.pinned)
    \o (IF ~net.touched THEN <<>>
        ELSE IF os = "macos" THEN <<Step("pf flush"), Step("pf disable")>>
        ELSE <<Step("profiles"), Step("rules")>>)

-----------------------------------------------------------------------------
(* Commands.  Works and Fails are the two outcomes of the step at the head of
   `todo`: the host afterwards and the journal afterwards. *)

At(name) == todo # <<>> /\ Head(todo)[1] = name
Kept == UNCHANGED <<os, faults, before, engine, ks, connects, crashed>>

\* A failing step of arm makes Tunnel::up roll back with the journal it has; one
\* of teardown is collected, and spares the firewall.
Works(h, n) ==
    /\ host' = h /\ net' = n /\ todo' = Tail(todo) /\ UNCHANGED <<fails, job, errors>>
    /\ guarded' = (guarded \/ (job = "arm" /\ ks /\ Blocked(h)))
MayFail == job \in faults /\ fails < MaxFails
Fails(hs, n) ==
    /\ MayFail /\ fails' = fails + 1
    /\ host' \in hs /\ net' = n /\ UNCHANGED guarded
    /\ IF job = "arm" THEN job' = "rollback" /\ todo' = <<Step("begin")>> /\ UNCHANGED errors
       ELSE /\ UNCHANGED job /\ errors' = TRUE
            /\ todo' = SelectSeq(Tail(todo), LAMBDA s : s[1] \notin {"pf flush", "pf disable", "profiles", "rules"})

\* capture_default, if_index_for_name: nothing is changed.
Capture ==
    /\ At("capture") \/ At("index")
    /\ Works(host, net) \/ Fails({host}, net)
    /\ Kept

\* A pin that fails, for instance over an existing route, is logged and not recorded;
\* a Windows machine without a default route pins none.
Pin ==
    /\ At("pin")
    /\ LET ip == Head(todo)[2] IN
       \/ /\ ip \notin host.pins
          /\ Works([host EXCEPT !.pins = @ \cup {ip}], [net EXCEPT !.pinned = @ \cup {ip}])
       \/ (ip \in host.pins \/ "arm" \in faults) /\ Works(host, net)
    /\ Kept

\* arm_pf: PF's state is read, the anchor marked as touched and loaded.
PfLoad ==
    /\ At("pf load")
    /\ LET seen == [net EXCEPT !.saved = <<host.fw.pf>>]
           marked == [seen EXCEPT !.touched = TRUE]
       IN  \/ Works([host EXCEPT !.fw.anchor = "loaded"], marked)
           \/ Fails({host}, net)
           \/ Fails({[host EXCEPT !.fw.anchor = a] : a \in {host.fw.anchor, "partial", "loaded"}}, marked)
    /\ Kept

\* PF is enabled unless it was, and verified.
PfEnable ==
    /\ At("pf enable")
    /\ LET on == [host EXCEPT !.fw.pf = TRUE] IN Works(on, net) \/ Fails({host, on}, net)
    /\ Kept

\* capture_default_outbound, recorded before the first rule.
Save ==
    /\ At("save")
    /\ Works(host, [net EXCEPT !.saved = <<host.fw.action>>, !.touched = TRUE]) \/ Fails({host}, net)
    /\ Kept

\* apply_kill_switch: stale rules go, allow rules come, the profiles turn to Block.
Allow ==
    /\ At("allow")
    /\ LET left(r) == [host EXCEPT !.fw.rules = r]
       IN  Works(left("all"), net) \/ Fails({left(r) : r \in {host.fw.rules, "none", "some", "all"}}, net)
    /\ Kept

Turned(h, S) == [h EXCEPT !.fw.action = [p \in Profiles |-> IF p \in S THEN "Block" ELSE @[p]]]
Block ==
    /\ At("block")
    /\ Works(Turned(host, Profiles), net) \/ Fails({Turned(host, S) : S \in SUBSET Profiles}, net)
    /\ Kept

Flip ==
    /\ At("low") \/ At("high")
    /\ LET half == Head(todo)[1] IN
       \/ Works([host EXCEPT !.routes = @ \cup {half}], [net EXCEPT !.added = @ \cup {half}])
       \/ Fails({host}, net)
    /\ Kept

\* (Mutant: the journal learns of the resolvers only once all are set.)
SetDnsUnrecorded ==
    /\ At("dns") /\ os = "macos"
    /\ LET marked == [net EXCEPT !.dns = host.dns, !.dnsTouched = TRUE]
       IN  \/ Works([host EXCEPT !.dns = "tunnel"], marked)
           \/ Fails({host, [host EXCEPT !.dns = "torn"]}, net)
           \/ Works(host, net)
    /\ Kept

\* macOS changes the service's resolvers, if it finds the service, and records that first.
SetDns ==
    /\ At("dns") /\ os = "macos"
    /\ LET marked == [net EXCEPT !.dns = host.dns, !.dnsTouched = TRUE]
       IN  \/ Works([host EXCEPT !.dns = "tunnel"], marked)
           \/ Fails({host}, net)    \* get_dns
           \/ Fails({host, [host EXCEPT !.dns = "torn"]}, marked)
           \/ Works(host, net)
    /\ Kept

\* On Windows the resolvers belong to the TUN adapter, and a failure is logged.
SetAdapterDns ==
    /\ At("dns") /\ os = "windows"
    /\ Works(host, net)
    /\ Kept

RestoreDns ==
    /\ At("restore dns")
    /\ \/ Works([host EXCEPT !.dns = net.dns], [net EXCEPT !.dnsTouched = FALSE])
       \/ Fails({host, [host EXCEPT !.dns = "torn"]}, net)
    /\ Kept

Unflip ==
    /\ At("drop high") \/ At("drop low")
    /\ LET half == IF At("drop high") THEN "high" ELSE "low" IN
       \/ Works([host EXCEPT !.routes = @ \ {half}], [net EXCEPT !.added = @ \ {half}])
       \/ Fails({host}, net)
    /\ Kept

Unpin ==
    /\ At("unpin")
    /\ LET ip == Head(todo)[2] IN
       \/ Works([host EXCEPT !.pins = @ \ {ip}], [net EXCEPT !.pinned = @ \ {ip}])
       \/ Fails({host}, net)
    /\ Kept

\* The anchor is flushed, then PF disabled again if arm had enabled it.
PfFlush ==
    /\ At("pf flush")
    /\ Works([host EXCEPT !.fw.anchor = "none"], net)
          \/ Fails({host, [host EXCEPT !.fw.anchor = "none"]}, net)
    /\ Kept
PfDisable ==
    /\ At("pf disable")
    /\ LET done == [net EXCEPT !.touched = FALSE]
           off == [host EXCEPT !.fw.pf = FALSE]
       IN  IF net.saved = <<TRUE>> THEN Works(host, done) ELSE Works(off, done) \/ Fails({host}, net)
    /\ Kept

\* disarm_kill_switch: one cmdlet per profile, each tried; the rules when all worked.
Back(h, S) == [h EXCEPT !.fw.action = [p \in Profiles |-> IF p \in S THEN net.saved[1][p] ELSE @[p]]]
RestoreProfiles ==
    /\ At("profiles")
    /\ Works(Back(host, Profiles), net) \/ Fails({Back(host, S) : S \in SUBSET Profiles}, net)
    /\ Kept
RemoveRules ==
    /\ At("rules")
    /\ LET none == [host EXCEPT !.fw.rules = "none"] IN
       Works(none, [net EXCEPT !.touched = FALSE]) \/ Fails({host, none}, net)
    /\ Kept

-----------------------------------------------------------------------------
(* The Tunnel: lib.rs and engine.rs, as in Datapath. *)

Online == ~Blocked(host)
WithoutTun(h) == [h EXCEPT !.routes = {}]

Connect ==
    /\ engine = "disconnected" /\ connects < MaxConnects /\ Online
    /\ connects' = connects + 1 /\ engine' = "connecting" /\ guarded' = FALSE /\ before' = host
    /\ \E guard \in BOOLEAN : ks' = guard /\ todo' = ArmPlan(guard)
    /\ job' = "arm" /\ net' = Journal /\ errors' = FALSE
    /\ UNCHANGED <<os, faults, host, fails, crashed>>

Armed ==
    /\ job = "arm" /\ todo = <<>>
    /\ engine' = "connected" /\ job' = "none"
    /\ UNCHANGED <<os, faults, host, before, net, todo, errors, ks, guarded, fails, connects, crashed>>

Disconnect ==
    /\ engine \in {"connected", "disconnecting"} /\ job = "none"
    /\ engine' = "disconnecting" /\ job' = "down" /\ todo' = TeardownPlan /\ errors' = FALSE
    /\ UNCHANGED <<os, faults, host, before, net, ks, guarded, fails, connects, crashed>>

Rollback ==
    /\ At("begin")
    /\ todo' = TeardownPlan /\ errors' = FALSE
    /\ UNCHANGED <<os, faults, host, before, net, engine, job, ks, guarded, fails, connects, crashed>>

\* A rollback drops journal and TUN whatever came of it, a down only when clean.
TornDown ==
    /\ job \in {"rollback", "down"} /\ todo = <<>>
    /\ job' = "none" /\ errors' = FALSE
    /\ IF job = "rollback" \/ ~errors
       THEN engine' = "disconnected" /\ net' = Journal /\ host' = WithoutTun(host)
       ELSE UNCHANGED <<engine, net, host>>
    /\ UNCHANGED <<os, faults, before, todo, ks, guarded, fails, connects, crashed>>

Crash ==
    /\ "crash" \in faults /\ ~crashed /\ crashed' = TRUE
    /\ host' = WithoutTun(host) /\ net' = Journal
    /\ engine' = "disconnected" /\ job' = "none" /\ todo' = <<>> /\ errors' = FALSE
    /\ UNCHANGED <<os, faults, before, ks, guarded, fails, connects>>

Next ==
    \/ Connect \/ Armed \/ Disconnect \/ Rollback \/ TornDown \/ Crash
    \/ Capture \/ Pin \/ PfLoad \/ PfEnable \/ Save \/ Allow \/ Block \/ Flip \/ SetDns \/ SetAdapterDns
    \/ RestoreDns \/ Unflip \/ Unpin \/ PfFlush \/ PfDisable \/ RestoreProfiles \/ RemoveRules

-----------------------------------------------------------------------------

TypeOK ==
    /\ host.routes \subseteq Halves /\ host.pins \subseteq Pins
    /\ host.dns \in {"original", "tunnel", "torn"}
    /\ engine \in {"disconnected", "connecting", "connected", "disconnecting"}
    /\ net.added \subseteq Halves /\ net.pinned \subseteq Pins \ HadRoute
    /\ fails \in 0..MaxFails /\ connects \in 0..MaxConnects

\* With the kill-switch on, no packet can take a tunnel route while direct egress is
\* possible.  Once direct egress was dropped it stays so, through failed disconnects
\* and kills, until routes, host routes and resolvers are what they were.  And
\* Disconnected means the machine is as it was, its own host routes and its firewall's
\* defaults included, unless it was killed or the rollback of a failed arm failed too.
DesktopNetInv ==
    /\ TypeOK
    /\ ks /\ host.routes # {} => Blocked(host)
    /\ guarded /\ ~Blocked(host) => Restored
    /\ engine = "disconnected" /\ ~crashed /\ "rollback" \notin faults => host = before
=============================================================================
