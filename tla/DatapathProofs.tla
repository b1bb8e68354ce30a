--------------------------- MODULE DatapathProofs ---------------------------
(***************************************************************************)
(* Proofs about the desktop datapath on Linux, for every set of routes,    *)
(* list of addresses, number of connections and pattern of failures: the   *)
(* journal of LinuxNet holds what a teardown needs at every step, nothing  *)
(* leaks around the TUN, and the firewall goes last.  At the end of the    *)
(* module, the sessions and tasks of the multi-hop tunnel that the         *)
(* datapath's pumps run on: OnionInv.                                      *)
(***************************************************************************)
EXTENDS Datapath, OnionSessions, WellFoundedInduction, TLAPS

\* The type invariant without its Boolean variables.
Shapes ==
    /\ host \in Networking /\ before \in Networking
    /\ net \in Journals
    /\ engine \in {"disconnected", "connecting", "connected", "disconnecting"}
    /\ pc \in {"idle"} \cup ArmSteps \cup TeardownSteps
    /\ job \in {"none", "arm", "rollback", "down"}
    /\ cursor \in Positions \cup {Len(Addresses) + 1} /\ errors \subseteq {"dns", "default", "pins"}
    /\ pump \in {"none", "up", "dead"}
    /\ fails \in 0..MaxFails /\ connects \in 0..MaxConnects
    /\ "armed" \in net.flags <=> engine # "disconnected"
    /\ faults \in FaultSets

\* What holds whatever the addresses are.
Core ==
    /\ Shapes /\ JobFits /\ PassedIsRestored /\ ArmOrder /\ JournalCovers /\ BeganOnline
    /\ NoLeakWindow

\* arm begins with the node's address, and the positions are numbers.
LEMMA NodeComesFirst ==
    /\ 1 \in Positions /\ 2 \in Positions \cup {Len(Addresses) + 1}
    /\ Positions \subseteq Nat
    /\ \A i \in Positions : i + 1 \in Positions \cup {Len(Addresses) + 1}
    BY ConstantsOK DEF Positions

\* A new AppEngine on an untouched machine.
LEMMA CoreInit == Init => Core
<1>1. Init => Shapes
    BY ConstantsOK
    DEF Init, Shapes, Pristine, Networking, Journals, HostRoutes, Families, Chains, LinuxNetDefault,
        ArmSteps, TeardownSteps, Positions
<1>2. Init => JobFits /\ PassedIsRestored /\ ArmOrder /\ JournalCovers
    BY DEF Init, JobFits, PassedIsRestored, ArmOrder, JournalCovers, ArmSteps
<1>3. Init => BeganOnline /\ NoLeakWindow
    BY ConstantsOK DEF Init, BeganOnline, NoLeakWindow, Pristine, LinuxNetDefault, Families
<1>. QED
    BY <1>1, <1>2, <1>3 DEF Core

\* A step of arm collects no errors: its failure is returned, and rolled back.
LEMMA ArmPassesNothing ==
    ASSUME JobFits, job = "arm", errors' = errors,
           pc' \notin {"restoreDefault", "restorePins", "disarm"}
    PROVE  PassedIsRestored'
<1>1. errors = {}
    BY DEF JobFits, ArmSteps, TeardownSteps
<1>. QED
    BY <1>1 DEF PassedIsRestored

-----------------------------------------------------------------------------
(***************************************************************************)
(* Connecting.                                                             *)
(***************************************************************************)

\* Connect starts with an empty journal on the networking it remembers.
LEMMA ConnectKeeps ==
    ASSUME Core, Connect, UNCHANGED faults
    PROVE  Core'
<1>1. Shapes'
    <2>1. net' \in Journals
        BY DEF Connect, LinuxNetDefault, Journals
    <2>2. connects' \in 0..MaxConnects
        BY ConstantsOK DEF Core, Shapes, Connect
    <2>. QED
        BY <2>1, <2>2, NodeComesFirst DEF Core, Shapes, Connect, LinuxNetDefault, ArmSteps
<1>2. JobFits'
    BY DEF Core, JobFits, Connect, ArmSteps
<1>3. PassedIsRestored' /\ ArmOrder'
    BY DEF Connect, PassedIsRestored, ArmOrder, LinuxNetDefault
<1>4. JournalCovers'
    BY DEF Connect, JournalCovers, LinuxNetDefault
<1>5. BeganOnline' /\ NoLeakWindow'
    BY DEF Core, Connect, Online, BeganOnline, NoLeakWindow, LinuxNetDefault
<1>. QED
    BY <1>1, <1>2, <1>3, <1>4, <1>5 DEF Core

\* Capturing the default routes changes nothing but the journal.
LEMMA ArmCaptureKeeps ==
    ASSUME Core, ArmCapture, UNCHANGED faults
    PROVE  Core'
<1>1. Shapes'
    BY ConstantsOK
    DEF Core, Shapes, ArmCapture, Networking, Journals, Fail, MayFail, Succeed, Proceed, Abort,
        ArmSteps, TeardownSteps
<1>2. JobFits'
    BY DEF Core, JobFits, ArmCapture, Proceed, Abort, ArmSteps, TeardownSteps
<1>3. PassedIsRestored' /\ ArmOrder'
    <2>1. PassedIsRestored'
        BY ArmPassesNothing DEF Core, JobFits, ArmSteps, ArmCapture, Proceed, Abort
    <2>2. ArmOrder'
        BY DEF Core, Shapes, Journals, JobFits, ArmCapture, ArmOrder, JournalCovers, Proceed, Abort,
               ArmSteps
    <2>. QED
        BY <2>1, <2>2
<1>4. JournalCovers'
    BY DEF Core, Shapes, Journals, ArmCapture, ArmOrder, JournalCovers
<1>5. BeganOnline' /\ NoLeakWindow'
    BY DEF Core, Shapes, Journals, ArmCapture, BeganOnline, NoLeakWindow, Blocked
<1>. QED
    BY <1>1, <1>2, <1>3, <1>4, <1>5 DEF Core

\* Recording and pinning one address, whichever of the two the failure cut off.
LEMMA PinKeeps ==
    ASSUME Core, NEW i \in Positions, i = cursor, job = "arm", engine # "disconnected",
           \/ UNCHANGED <<net, host>>
           \/ net' = Recorded(i) /\ host' \in {host, Applied(i)},
           UNCHANGED <<engine, before, ks>>
    PROVE  /\ host' \in Networking /\ net' \in Journals
           /\ net'.flags = net.flags /\ net'.origDefaults = net.origDefaults
           /\ host'.default = host.default /\ host'.fw = host.fw /\ host'.dns = host.dns
           /\ \A j \in Positions : j >= cursor + 1 => net'.pinned[j] = "free"
           /\ JournalCovers'
<1>1. Addresses[i] \in Ips
    BY DEF Ips
<1>2. host' \in Networking /\ net' \in Journals
    BY <1>1 DEF Core, Shapes, Networking, Journals, HostRoutes, Recorded, Applied
<1>3. net'.flags = net.flags /\ net'.origDefaults = net.origDefaults /\ net'.dnsBackup = net.dnsBackup
    BY DEF Core, Shapes, Journals, Recorded
<1>4. host'.default = host.default /\ host'.fw = host.fw /\ host'.dns = host.dns
    BY DEF Core, Shapes, Networking, Applied
<1>5. \A j \in Positions : j >= cursor + 1 => net'.pinned[j] = "free"
    BY NodeComesFirst DEF Core, Shapes, Journals, ArmOrder, Recorded
<1>6. ASSUME DistinctAddresses, NEW j \in Positions
      PROVE  IF net'.pinned[j] = "free" THEN host'.pin[Addresses[j]] = before.pin[Addresses[j]]
             ELSE net'.pinned[j] = before.pin[Addresses[j]]
    <2>1. net.pinned[i] = "free"
        BY NodeComesFirst DEF Core, ArmOrder
    <2>2. host.pin[Addresses[i]] = before.pin[Addresses[i]]
        BY <1>6, <2>1 DEF Core, JournalCovers
    <2>3. CASE j = i
        BY <1>1, <2>1, <2>2, <2>3
        DEF Core, Shapes, Networking, Journals, HostRoutes, Recorded, Applied
    <2>4. CASE j # i
        <3>1. Addresses[j] # Addresses[i] /\ Addresses[j] \in Ips
            BY <1>6, <2>4 DEF DistinctAddresses, Ips
        <3>2. net'.pinned[j] = net.pinned[j] /\ host'.pin[Addresses[j]] = host.pin[Addresses[j]]
            BY <2>4, <3>1, <1>1 DEF Core, Shapes, Networking, Journals, Recorded, Applied
        <3>. QED
            BY <1>6, <3>2 DEF Core, JournalCovers
    <2>. QED
        BY <2>3, <2>4
<1>7. JournalCovers'
    BY <1>3, <1>4, <1>6 DEF Core, JournalCovers, DistinctAddresses
<1>. QED
    BY <1>2, <1>3, <1>4, <1>5, <1>7

\* The entry node is recorded before it is pinned; a failure rolls back.
LEMMA PinNodeKeeps ==
    ASSUME Core, PinNode, UNCHANGED faults
    PROVE  Core'
<1>1. cursor = 1 /\ job = "arm" /\ engine # "disconnected"
    BY DEF Core, PinNode, ArmOrder, JobFits, ArmSteps
<1>2. /\ host' \in Networking /\ net' \in Journals
      /\ net'.flags = net.flags /\ net'.origDefaults = net.origDefaults
      /\ host'.default = host.default /\ host'.fw = host.fw
      /\ \A j \in Positions : j >= cursor + 1 => net'.pinned[j] = "free"
      /\ JournalCovers'
    BY <1>1, NodeComesFirst, PinKeeps DEF PinNode
<1>3. Shapes'
    BY <1>1, <1>2, NodeComesFirst, ConstantsOK
    DEF Core, Shapes, PinNode, Proceed, Abort, Fail, MayFail, Succeed, ArmSteps, TeardownSteps
<1>4. JobFits'
    BY DEF Core, JobFits, PinNode, Proceed, Abort, ArmSteps, TeardownSteps
<1>5. PassedIsRestored' /\ ArmOrder'
    <2>1. PassedIsRestored'
        BY ArmPassesNothing DEF Core, JobFits, ArmSteps, PinNode, Proceed, Abort
    <2>2. ArmOrder'
        BY <1>1, <1>2 DEF Core, PinNode, ArmOrder, Proceed, Abort
    <2>. QED
        BY <2>1, <2>2
<1>6. BeganOnline' /\ NoLeakWindow'
    BY <1>2 DEF Core, PinNode, BeganOnline, NoLeakWindow, Blocked
<1>. QED
    BY <1>2, <1>3, <1>4, <1>5, <1>6 DEF Core

\* A fallback is recorded before it is pinned, or skipped.
LEMMA PinFallbackKeeps ==
    ASSUME Core, PinFallback, UNCHANGED faults
    PROVE  Core'
<1>1. cursor \in Positions /\ job = "arm" /\ engine # "disconnected"
    BY DEF Core, PinFallback, JobFits, ArmSteps
<1>2. /\ host' \in Networking /\ net' \in Journals
      /\ net'.flags = net.flags /\ net'.origDefaults = net.origDefaults
      /\ host'.default = host.default /\ host'.fw = host.fw
      /\ \A j \in Positions : j >= cursor + 1 => net'.pinned[j] = "free"
      /\ JournalCovers'
    BY <1>1, PinKeeps DEF PinFallback
<1>3. Shapes'
    BY <1>1, <1>2, NodeComesFirst, ConstantsOK DEF Core, Shapes, PinFallback, Fail, MayFail, Succeed
<1>4. JobFits'
    BY DEF Core, JobFits, PinFallback
<1>5. PassedIsRestored' /\ ArmOrder'
    <2>1. PassedIsRestored'
        BY ArmPassesNothing DEF Core, JobFits, ArmSteps, PinFallback
    <2>2. ArmOrder'
        BY <1>1, <1>2 DEF Core, PinFallback, ArmOrder
    <2>. QED
        BY <2>1, <2>2
<1>6. BeganOnline' /\ NoLeakWindow'
    BY <1>2 DEF Core, PinFallback, BeganOnline, NoLeakWindow, Blocked
<1>. QED
    BY <1>2, <1>3, <1>4, <1>5, <1>6 DEF Core

\* The firewall is flagged before it is touched, and closed before the flip.
LEMMA ArmKillSwitchKeeps ==
    ASSUME Core, ArmKillSwitch, UNCHANGED faults
    PROVE  Core'
<1>1. host' \in Networking /\ host'.default = host.default /\ host'.dns = host.dns /\ host'.pin = host.pin
    <2>1. ASSUME NEW fw \in [Families -> Chains], host' = [host EXCEPT !.fw = fw]
          PROVE  <1>1!:
        BY <2>1 DEF Core, Shapes, Networking
    <2>2. CASE host' = host
        BY <2>2 DEF Core, Shapes
    <2>3. CASE host' = Guarded(host)
        BY Zenon, <2>1, <2>3 DEF Guarded, Chains
    <2>4. CASE host' \in HalfGuarded(host)
        <3>1. host.fw \in [Families -> Chains] /\ "v4" \in Families /\ "v6" \in Families
            BY DEF Core, Shapes, Networking, Families
        <3>2. ASSUME NEW c \in {host.fw["v4"], "open", "drop"}, host' = [host EXCEPT !.fw["v4"] = c]
              PROVE  <1>1!:
            BY <2>1, <3>1, <3>2 DEF Chains
        <3>3. ASSUME host' = [host EXCEPT !.fw["v4"] = "drop", !.fw["v6"] = "open"]
              PROVE  <1>1!:
            BY Zenon, <3>1, <3>3 DEF Core, Shapes, Networking, Chains
        <3>. QED
            BY <2>4, <3>2, <3>3 DEF HalfGuarded
    <2>. QED
        BY <2>2, <2>3, <2>4 DEF ArmKillSwitch
<1>2. /\ net' \in Journals /\ net'.origDefaults = net.origDefaults /\ net'.pinned = net.pinned
      /\ net'.dnsBackup = net.dnsBackup
      /\ ks => net'.flags = net.flags \cup {"firewall"}
      /\ ~ks => net' = net
    <2>1. CASE ks
        BY <2>1 DEF Core, Shapes, Journals, ArmKillSwitch
    <2>2. CASE ~ks
        BY <2>2 DEF Core, Shapes, Journals, ArmKillSwitch
    <2>. QED
        BY <2>1, <2>2
<1>3. "firewall" \notin net'.flags => host' = host
    BY <1>2 DEF ArmKillSwitch
<1>4. pc' = "flip" /\ ks => Blocked(host')
    BY DEF Core, Shapes, Networking, ArmKillSwitch, Guarded, Blocked, Families, Abort
<1>5. Shapes'
    BY <1>1, <1>2, ConstantsOK
    DEF Core, Shapes, ArmKillSwitch, Proceed, Abort, Fail, MayFail, Succeed, ArmSteps, TeardownSteps
<1>6. JobFits'
    BY DEF Core, JobFits, ArmKillSwitch, Proceed, Abort, ArmSteps, TeardownSteps
<1>7. PassedIsRestored' /\ ArmOrder'
    <2>1. PassedIsRestored'
        BY ArmPassesNothing DEF Core, JobFits, ArmSteps, ArmKillSwitch, Proceed, Abort
    <2>2. ArmOrder'
        BY <1>2, <1>4 DEF Core, JobFits, ArmSteps, ArmKillSwitch, ArmOrder, Proceed, Abort
    <2>. QED
        BY <2>1, <2>2
<1>8. JournalCovers'
    BY <1>1, <1>2, <1>3 DEF Core, ArmKillSwitch, JournalCovers, DistinctAddresses
<1>9. BeganOnline' /\ NoLeakWindow'
    BY <1>1, <1>2 DEF Core, JobFits, ArmSteps, ArmOrder, ArmKillSwitch, BeganOnline, NoLeakWindow, JournalCovers
<1>. QED
    BY <1>5, <1>6, <1>7, <1>8, <1>9 DEF Core

\* The default route is flagged as changed before it is flipped.
LEMMA FlipDefaultKeeps ==
    ASSUME Core, FlipDefault, UNCHANGED faults
    PROVE  Core'
<1>1. host' \in Networking /\ host'.fw = host.fw /\ host'.dns = host.dns /\ host'.pin = host.pin
    BY DEF Core, Shapes, Networking, FlipDefault, Flipped
<1>2. /\ net' \in Journals /\ net'.origDefaults = net.origDefaults /\ net'.pinned = net.pinned
      /\ net'.dnsBackup = net.dnsBackup /\ net'.flags = net.flags \cup {"default"}
    BY DEF Core, Shapes, Journals, FlipDefault
<1>3. Shapes'
    BY <1>1, <1>2, ConstantsOK
    DEF Core, Shapes, FlipDefault, Proceed, Abort, Fail, MayFail, Succeed, ArmSteps, TeardownSteps
<1>4. JobFits'
    BY DEF Core, JobFits, FlipDefault, Proceed, Abort, ArmSteps, TeardownSteps
<1>5. PassedIsRestored' /\ ArmOrder'
    <2>1. PassedIsRestored'
        BY ArmPassesNothing DEF Core, JobFits, ArmSteps, FlipDefault, Proceed, Abort
    <2>2. ArmOrder'
        BY <1>1, <1>2 DEF Core, JobFits, ArmSteps, FlipDefault, ArmOrder, Blocked, Proceed, Abort
    <2>. QED
        BY <2>1, <2>2
<1>6. JournalCovers'
    BY <1>1, <1>2 DEF Core, FlipDefault, ArmOrder, JournalCovers, DistinctAddresses
<1>7. BeganOnline' /\ NoLeakWindow'
    BY <1>1, <1>2
    DEF Core, JobFits, ArmSteps, ArmOrder, FlipDefault, BeganOnline, NoLeakWindow, Blocked
<1>. QED
    BY <1>3, <1>4, <1>5, <1>6, <1>7 DEF Core

\* resolv.conf is backed up before it is written.
LEMMA SetDnsKeeps ==
    ASSUME Core, SetDns, UNCHANGED faults
    PROVE  Core'
<1>1. /\ host' \in Networking
      /\ host'.fw = host.fw /\ host'.default = host.default /\ host'.pin = host.pin
    BY DEF Core, Shapes, Networking, SetDns
<1>2. /\ net' \in Journals /\ net'.origDefaults = net.origDefaults /\ net'.pinned = net.pinned
      /\ \/ UNCHANGED <<net, host>>
         \/ net'.flags = net.flags \cup {"dns"} /\ net'.dnsBackup = host.dns
    <2>1. CASE net' = net /\ host' = host
        BY <2>1 DEF Core, Shapes
    <2>2. CASE net' = [net EXCEPT !.dnsBackup = host.dns, !.flags = @ \cup {"dns"}]
        <3>1. host.dns \in {"original", "tunnel", "torn"}
            BY DEF Core, Shapes, Networking
        <3>. QED
            BY Zenon, <2>2, <3>1 DEF Core, Shapes, Journals
    <2>. QED
        BY <2>1, <2>2 DEF SetDns
<1>3. Shapes'
    BY <1>1, <1>2, ConstantsOK
    DEF Core, Shapes, JobFits, SetDns, Abort, Fail, MayFail, Succeed, ArmSteps, TeardownSteps
<1>4. JobFits'
    BY DEF Core, JobFits, SetDns, Abort, ArmSteps, TeardownSteps
<1>5. PassedIsRestored' /\ ArmOrder'
    <2>1. PassedIsRestored'
        BY ArmPassesNothing DEF Core, JobFits, ArmSteps, SetDns, Abort
    <2>2. ArmOrder'
        BY DEF Core, SetDns, ArmOrder, Abort
    <2>. QED
        BY <2>1, <2>2
<1>6. JournalCovers'
    <2>1. engine # "disconnected"
        BY DEF Core, JobFits, SetDns, ArmSteps
    <2>2. "dns" \notin net.flags /\ host.dns = before.dns
        BY <2>1 DEF Core, JobFits, SetDns, ArmSteps, ArmOrder, JournalCovers
    <2>. QED
        BY <1>1, <1>2, <2>1, <2>2 DEF Core, SetDns, JournalCovers, DistinctAddresses
<1>7. BeganOnline' /\ NoLeakWindow'
    BY <1>1, <1>2 DEF Core, JobFits, ArmSteps, SetDns, BeganOnline, NoLeakWindow, Blocked
<1>. QED
    BY <1>3, <1>4, <1>5, <1>6, <1>7 DEF Core

-----------------------------------------------------------------------------
(***************************************************************************)
(* Teardown.                                                               *)
(***************************************************************************)

\* A restored resolv.conf is struck off; a failure is remembered.
LEMMA RestoreDnsKeeps ==
    ASSUME Core, RestoreDns, UNCHANGED faults
    PROVE  Core'
<1>0. job \in {"rollback", "down"} /\ engine # "disconnected"
    BY DEF Core, Shapes, JobFits, RestoreDns, ArmSteps, TeardownSteps
<1>1. /\ host' \in Networking
      /\ host'.fw = host.fw /\ host'.default = host.default /\ host'.pin = host.pin
    <2>1. "dns" \in net.flags => net.dnsBackup = before.dns
        BY <1>0 DEF Core, JournalCovers
    <2>. QED
        BY <2>1 DEF Core, Shapes, Networking, RestoreDns
<1>2. /\ net' \in Journals /\ net'.origDefaults = net.origDefaults /\ net'.pinned = net.pinned
      /\ net'.dnsBackup = net.dnsBackup
      /\ \/ errors' = errors \cup {"dns"} /\ "dns" \in net.flags /\ net' = net
         \/ net'.flags = net.flags \ {"dns"} /\ host'.dns = before.dns /\ errors' = errors
    <2>1. CASE "dns" \notin net.flags
        BY <1>0, <2>1 DEF Core, Shapes, Journals, JournalCovers, RestoreDns
    <2>2. CASE "dns" \in net.flags
        <3>1. CASE errors' = errors \cup {"dns"} /\ net' = net
            BY <2>2, <3>1 DEF Core, Shapes
        <3>2. CASE /\ net' = [net EXCEPT !.flags = @ \ {"dns"}]
                   /\ host' = [host EXCEPT !.dns = net.dnsBackup] /\ errors' = errors
            BY <1>0, <2>2, <3>2 DEF Core, Shapes, Journals, Networking, JournalCovers
        <3>. QED
            BY <2>2, <3>1, <3>2 DEF RestoreDns
    <2>. QED
        BY <2>1, <2>2
<1>3. Shapes'
    BY <1>1, <1>2, ConstantsOK
    DEF Core, Shapes, RestoreDns, Fail, MayFail, Succeed, TeardownSteps
<1>4. JobFits'
    BY <1>0 DEF Core, JobFits, RestoreDns, Fail, MayFail, ArmSteps, TeardownSteps
<1>5. PassedIsRestored' /\ ArmOrder'
    <2>1. PassedIsRestored'
        BY <1>2 DEF Core, RestoreDns, PassedIsRestored
    <2>2. ArmOrder'
        BY <1>0, <1>2 DEF RestoreDns, ArmOrder
    <2>. QED
        BY <2>1, <2>2
<1>6. JournalCovers'
    BY <1>0, <1>1, <1>2 DEF Core, RestoreDns, JournalCovers, DistinctAddresses
<1>7. BeganOnline' /\ NoLeakWindow'
    BY <1>1, <1>2 DEF Core, RestoreDns, BeganOnline, NoLeakWindow, Blocked
<1>. QED
    BY <1>3, <1>4, <1>5, <1>6, <1>7 DEF Core

\* The captured default routes are put back, or the failure is remembered.
LEMMA RestoreDefaultKeeps ==
    ASSUME Core, RestoreDefault, UNCHANGED faults
    PROVE  Core'
<1>0. job \in {"rollback", "down"} /\ engine # "disconnected"
    BY DEF Core, Shapes, JobFits, RestoreDefault, ArmSteps, TeardownSteps
<1>1. /\ host' \in Networking
      /\ host'.fw = host.fw /\ host'.dns = host.dns /\ host'.pin = host.pin
    <2>1. ASSUME NEW left \in SUBSET (Originals \cup {"tun"}), host' = [host EXCEPT !.default = left]
          PROVE  <1>1!:
        BY <2>1 DEF Core, Shapes, Networking
    <2>2. host.default \subseteq Originals \cup {"tun"} /\ net.origDefaults \subseteq Originals \cup {"tun"}
        BY DEF Core, Shapes, Networking, Journals
    <2>3. \/ host' = host
          \/ \E left \in SUBSET (Originals \cup {"tun"}) : host' = [host EXCEPT !.default = left]
        <3>1. CASE host' = host \/ host' = [host EXCEPT !.default = net.origDefaults]
            BY <2>2, <3>1
        <3>2. CASE \E left \in (SUBSET host.default) \cup (SUBSET net.origDefaults) :
                       host' = [host EXCEPT !.default = left]
            <4>1. PICK left \in (SUBSET host.default) \cup (SUBSET net.origDefaults) :
                           host' = [host EXCEPT !.default = left]
                BY <3>2
            <4>2. left \subseteq host.default \/ left \subseteq net.origDefaults
                OBVIOUS
            <4>3. left \in SUBSET (Originals \cup {"tun"})
                BY <2>2, <4>2
            <4>. QED
                BY <4>1, <4>3
        <3>. QED
            BY <3>1, <3>2 DEF RestoreDefault
    <2>. QED
        BY Zenon, <2>1, <2>3 DEF Core, Shapes
<1>2. /\ net' \in Journals /\ net'.origDefaults = net.origDefaults /\ net'.pinned = net.pinned
      /\ net'.dnsBackup = net.dnsBackup
      /\ \/ errors' = errors \cup {"default"} /\ "default" \in net.flags /\ net' = net
         \/ net'.flags = net.flags \ {"default"} /\ host'.default = before.default /\ errors' = errors
    <2>1. CASE "default" \notin net.flags
        BY <1>0, <2>1 DEF Core, Shapes, Journals, JournalCovers, RestoreDefault
    <2>2. CASE "default" \in net.flags
        <3>1. CASE errors' = errors \cup {"default"} /\ net' = net
            BY <2>2, <3>1 DEF Core, Shapes
        <3>2. CASE /\ net' = [net EXCEPT !.flags = @ \ {"default"}]
                   /\ host' = [host EXCEPT !.default = net.origDefaults] /\ errors' = errors
            BY <1>0, <2>2, <3>2 DEF Core, Shapes, Journals, Networking, JournalCovers
        <3>. QED
            BY <2>2, <3>1, <3>2 DEF RestoreDefault
    <2>. QED
        BY <2>1, <2>2
<1>3. Shapes'
    BY <1>1, <1>2, ConstantsOK
    DEF Core, Shapes, RestoreDefault, Fail, MayFail, Succeed, TeardownSteps
<1>4. JobFits'
    BY <1>0 DEF Core, JobFits, RestoreDefault, Fail, MayFail, ArmSteps, TeardownSteps
<1>5. PassedIsRestored' /\ ArmOrder'
    <2>1. PassedIsRestored'
        BY <1>2 DEF Core, RestoreDefault, PassedIsRestored
    <2>2. ArmOrder'
        BY <1>0, <1>2 DEF RestoreDefault, ArmOrder
    <2>. QED
        BY <2>1, <2>2
<1>6. JournalCovers'
    BY <1>0, <1>1, <1>2 DEF Core, RestoreDefault, JournalCovers, DistinctAddresses
<1>7. BeganOnline' /\ NoLeakWindow'
    BY <1>0, <1>1, <1>2 DEF Core, RestoreDefault, BeganOnline, NoLeakWindow, Blocked
<1>. QED
    BY <1>3, <1>4, <1>5, <1>6, <1>7 DEF Core

\* The first pinned of the entries for an address is one of them.
LEMMA FirstOf ==
    ASSUME NEW S, S \subseteq Positions, S # {}
    PROVE  (CHOOSE i \in S : \A j \in S : i <= j) \in S
<1>1. PICK i \in S : \A j \in S : ~(<<j, i>> \in OpToRel(<, Nat))
    BY Zenon, NatLessThanWellFounded, WFMin, NodeComesFirst
<1>2. \A j \in S : i <= j
    <2>. TAKE j \in S
    <2>. i \in Nat /\ j \in Nat
        BY NodeComesFirst
    <2>. ~(j < i)
        BY Zenon, <1>1 DEF OpToRel
    <2>. QED
        OBVIOUS
<1>. QED
    BY <1>2

\* What is put back on an address is an earlier host route, and with distinct
\* addresses it is that of its only entry.
LEMMA RestoredPinsTyped ==
    ASSUME Core, NEW done \in SUBSET Entries(net)
    PROVE  RestoredPins(done) \in [Ips -> HostRoutes]
<1>1. SUFFICES ASSUME NEW ip \in Ips
               PROVE  RestoredPins(done)[ip] \in HostRoutes
    BY DEF RestoredPins
<1>. DEFINE mine == {i \in done : Addresses[i] = ip}
            first == CHOOSE i \in mine : \A j \in mine : i <= j
<1>2. RestoredPins(done)[ip] = IF mine = {} THEN host.pin[ip] ELSE net.pinned[first]
    BY DEF RestoredPins
<1>3. CASE mine = {}
    BY <1>2, <1>3 DEF Core, Shapes, Networking
<1>4. CASE mine # {}
    <2>1. mine \subseteq Positions
        BY DEF Entries
    <2>2. first \in mine
        BY Zenon, <1>4, <2>1, FirstOf
    <2>3. net.pinned[first] # "free" /\ first \in Positions
        BY <2>2 DEF Entries
    <2>. QED
        BY <1>2, <1>4, <2>3 DEF Core, Shapes, Journals
<1>. QED
    BY <1>3, <1>4

\* With distinct addresses, what is put back is what the address's own entry holds.
LEMMA RestoredPinsExact ==
    ASSUME Core, DistinctAddresses, NEW done \in SUBSET Entries(net), NEW i \in Positions
    PROVE  RestoredPins(done)[Addresses[i]] = IF i \in done THEN net.pinned[i] ELSE host.pin[Addresses[i]]
<1>. DEFINE mine == {j \in done : Addresses[j] = Addresses[i]}
            first == CHOOSE k \in mine : \A j \in mine : k <= j
<1>1. Addresses[i] \in Ips
    BY DEF Ips
<1>2. RestoredPins(done)[Addresses[i]] = IF mine = {} THEN host.pin[Addresses[i]] ELSE net.pinned[first]
    BY Zenon, <1>1 DEF RestoredPins
<1>3. mine = IF i \in done THEN {i} ELSE {}
    BY DEF DistinctAddresses, Entries
<1>4. ASSUME i \in done PROVE first = i
    <2>1. mine \subseteq Positions /\ mine # {}
        BY <1>3, <1>4
    <2>2. first \in mine
        BY Zenon, <2>1, FirstOf
    <2>. QED
        BY <1>3, <1>4, <2>2
<1>. QED
    BY Zenon, <1>2, <1>3, <1>4

\* Entries whose restoration failed stay in the journal; the others are restored.
LEMMA RestorePinsKeeps ==
    ASSUME Core, RestorePins, UNCHANGED faults
    PROVE  Core'
<1>0. job \in {"rollback", "down"} /\ engine # "disconnected"
    BY DEF Core, Shapes, JobFits, RestorePins, ArmSteps, TeardownSteps
<1>1. PICK failed \in SUBSET Entries(net), done \in SUBSET Entries(net) :
          /\ Entries(net) \ failed \subseteq done
          /\ \/ failed = {} /\ Succeed /\ UNCHANGED errors
             \/ failed # {} /\ Fail /\ errors' = errors \cup {"pins"}
          /\ host' = [host EXCEPT !.pin = RestoredPins(done)]
          /\ net' = [net EXCEPT !.pinned =
                         [i \in Positions |-> IF i \in failed THEN net.pinned[i] ELSE "free"]]
    BY Zenon DEF RestorePins
<1>2. /\ host' \in Networking /\ host'.fw = host.fw /\ host'.dns = host.dns /\ host'.default = host.default
      /\ host'.pin = RestoredPins(done)
    BY <1>1, RestoredPinsTyped DEF Core, Shapes, Networking
<1>3. /\ net' \in Journals /\ net'.origDefaults = net.origDefaults /\ net'.flags = net.flags
      /\ net'.dnsBackup = net.dnsBackup
      /\ \A i \in Positions : net'.pinned[i] = IF i \in failed THEN net.pinned[i] ELSE "free"
    BY <1>1 DEF Core, Shapes, Journals
<1>4. Shapes'
    BY <1>0, <1>1, <1>2, <1>3, ConstantsOK
    DEF Core, Shapes, RestorePins, Fail, MayFail, Succeed, TeardownSteps
<1>5. JobFits'
    BY <1>0, <1>1 DEF Core, JobFits, RestorePins, Fail, MayFail, ArmSteps, TeardownSteps
<1>6. PassedIsRestored' /\ ArmOrder'
    <2>1. Entries(net)' = failed
        BY <1>0, <1>1, <1>3 DEF Entries
    <2>2. PassedIsRestored'
        BY <1>1, <1>3, <2>1 DEF Core, RestorePins, PassedIsRestored
    <2>3. ArmOrder'
        BY <1>0, <1>1, <1>3 DEF RestorePins, ArmOrder
    <2>. QED
        BY <2>2, <2>3
<1>7. ASSUME DistinctAddresses, NEW i \in Positions
      PROVE  IF net'.pinned[i] = "free" THEN host'.pin[Addresses[i]] = before.pin[Addresses[i]]
             ELSE net'.pinned[i] = before.pin[Addresses[i]]
    <2>1. host'.pin[Addresses[i]] = IF i \in done THEN net.pinned[i] ELSE host.pin[Addresses[i]]
        BY <1>2, <1>7, RestoredPinsExact
    <2>2. /\ net.pinned[i] = "free" => host.pin[Addresses[i]] = before.pin[Addresses[i]]
          /\ net.pinned[i] # "free" => net.pinned[i] = before.pin[Addresses[i]]
        BY <1>0, <1>7 DEF Core, JournalCovers
    <2>3. i \in done \cup failed <=> net.pinned[i] # "free"
        BY <1>1 DEF Entries
    <2>. QED
        BY <1>3, <2>1, <2>2, <2>3
<1>8. JournalCovers'
    BY <1>0, <1>2, <1>3, <1>7 DEF Core, RestorePins, JournalCovers, DistinctAddresses
<1>9. BeganOnline' /\ NoLeakWindow'
    BY <1>2, <1>3 DEF Core, RestorePins, BeganOnline, NoLeakWindow, Blocked
<1>. QED
    BY <1>4, <1>5, <1>6, <1>8, <1>9 DEF Core

\* Without errors, everything but the firewall is as the connection found it.
LEMMA CleanMeansRestored ==
    ASSUME Core, pc = "disarm", errors = {}
    PROVE  /\ host.default = before.default /\ host.dns = before.dns
           /\ net.flags \cap {"dns", "default"} = {}
           /\ DistinctAddresses => host.pin = before.pin
<1>1. engine # "disconnected"
    BY DEF Core, JobFits, ArmSteps, Shapes, TeardownSteps
<1>2. net.flags \cap {"dns", "default"} = {} /\ Entries(net) = {}
    BY DEF Core, PassedIsRestored
<1>3. host.default = before.default /\ host.dns = before.dns
    BY <1>1, <1>2 DEF Core, JournalCovers
<1>4. ASSUME DistinctAddresses PROVE host.pin = before.pin
    <2>1. host.pin \in [Ips -> HostRoutes] /\ before.pin \in [Ips -> HostRoutes]
        BY DEF Core, Shapes, Networking
    <2>2. ASSUME NEW i \in Positions PROVE host.pin[Addresses[i]] = before.pin[Addresses[i]]
        BY <1>1, <1>2, <1>4 DEF Core, JournalCovers, Entries
    <2>. QED
        BY <2>1, <2>2 DEF Ips
<1>. QED
    BY <1>2, <1>3, <1>4

\* Without a tunnel there is neither a journal nor a route over the TUN.
LEMMA DroppedKeeps ==
    ASSUME Core, NEW h \in Networking, host' = WithoutTun(h), net' = LinuxNetDefault,
           engine' = "disconnected", pc' = "idle", job' = "none", errors' = {},
           cursor' \in {1, cursor}, pump' \in {"none", pump}, fails' \in 0..MaxFails,
           UNCHANGED <<connects, before, faults>>
    PROVE  Core'
<1>1. host' \in Networking /\ "tun" \notin host'.default
    BY DEF WithoutTun, Networking
<1>2. net' \in Journals /\ net'.flags = {}
    BY DEF LinuxNetDefault, Journals
<1>3. Shapes'
    BY <1>1, <1>2, NodeComesFirst DEF Core, Shapes
<1>4. JobFits' /\ PassedIsRestored' /\ ArmOrder' /\ JournalCovers'
    BY DEF JobFits, PassedIsRestored, ArmOrder, JournalCovers, ArmSteps
<1>5. BeganOnline' /\ NoLeakWindow'
    BY <1>1, <1>2 DEF Core, BeganOnline, NoLeakWindow
<1>. QED
    BY <1>3, <1>4, <1>5 DEF Core

\* What disarm_kill_switch leaves behind is a state of the firewall only.
LEMMA ReleasedTyped ==
    ASSUME Core, NEW h, h = [host EXCEPT !.fw = [f \in Families |-> "off"]] \/ h \in HalfReleased(host)
    PROVE  h \in Networking /\ h.default = host.default /\ h.dns = host.dns /\ h.pin = host.pin
<1>1. host.fw \in [Families -> Chains] /\ "v4" \in Families /\ "v6" \in Families
    BY DEF Core, Shapes, Networking, Families
<1>2. CASE h = [host EXCEPT !.fw = [f \in Families |-> "off"]]
    BY <1>2 DEF Core, Shapes, Networking, Chains
<1>3. CASE h \in HalfReleased(host)
    <2>1. PICK a \in {host.fw["v4"], "open", "off"}, b \in {host.fw["v6"], "open", "off"} :
              h = [host EXCEPT !.fw["v4"] = a, !.fw["v6"] = b]
        BY <1>3 DEF HalfReleased
    <2>2. a \in Chains /\ b \in Chains
        BY <1>1 DEF Chains
    <2>. QED
        BY Zenon, <1>1, <2>1, <2>2 DEF Core, Shapes, Networking
<1>. QED
    BY <1>2, <1>3

\* The firewall is released last, and a failed down keeps its journal.
LEMMA DisarmKillSwitchKeeps ==
    ASSUME Core, DisarmKillSwitch, UNCHANGED faults
    PROVE  Core'
<1>1. fails' \in 0..MaxFails
    <2>1. Succeed \/ Fail
        BY Zenon DEF DisarmKillSwitch
    <2>. QED
        BY <2>1, ConstantsOK DEF Core, Shapes, Fail, MayFail, Succeed
<1>2. /\ pc = "disarm" /\ pc' = "idle" /\ job' = "none" /\ errors' = {} /\ job \in {"rollback", "down"}
      /\ UNCHANGED <<cursor, ks, pump, connects, before, crashed>>
    BY DEF Core, Shapes, JobFits, ArmSteps, DisarmKillSwitch, Release
<1>3. \E h \in Networking :
         /\ h.default = host.default /\ h.dns = host.dns /\ h.pin = host.pin
         /\ h = host \/ (errors = {} /\ "firewall" \in net.flags)
         /\ \/ net' = LinuxNetDefault /\ host' = WithoutTun(h) /\ engine' = "disconnected"
            \/ /\ job = "down" /\ host' = h /\ engine' = "disconnecting"
               /\ errors # {} \/ "firewall" \in net.flags
               /\ net' = IF Pending(net) THEN net ELSE [net EXCEPT !.flags = @ \ {"armed"}]
    <2>1. host \in Networking
        BY DEF Core, Shapes
    <2>2. CASE /\ errors = {} /\ "firewall" \in net.flags
               /\ Release([host EXCEPT !.fw = [f \in Families |-> "off"]],
                          [net EXCEPT !.flags = @ \ {"firewall"}], FALSE)
        BY <2>2, ReleasedTyped DEF Release
    <2>3. CASE errors = {} /\ "firewall" \in net.flags /\ \E h \in HalfReleased(host) : Release(h, net, TRUE)
        <3>1. PICK h \in HalfReleased(host) : Release(h, net, TRUE)
            BY Zenon, <2>3
        <3>. QED
            BY <1>2, <2>3, <3>1, ReleasedTyped DEF Release
    <2>4. CASE Release(host, net, errors # {})
        BY <1>2, <2>1, <2>4 DEF Release
    <2>. QED
        BY Zenon, <2>2, <2>3, <2>4 DEF DisarmKillSwitch
<1>4. PICK h \in Networking : <1>3!(h)
    BY <1>3
<1>5. CASE net' = LinuxNetDefault /\ host' = WithoutTun(h) /\ engine' = "disconnected"
    BY <1>1, <1>2, <1>5, DroppedKeeps
<1>6. CASE /\ job = "down" /\ host' = h /\ engine' = "disconnecting"
           /\ errors # {} \/ "firewall" \in net.flags
           /\ net' = IF Pending(net) THEN net ELSE [net EXCEPT !.flags = @ \ {"armed"}]
    <2>1. Pending(net)
        BY <1>2, <1>6 DEF Core, Shapes, PassedIsRestored, Pending
    <2>2. net' = net /\ engine = "disconnecting"
        BY <1>6, <2>1 DEF Core, JobFits
    <2>3. Shapes'
        BY Zenon, <1>1, <1>2, <1>6, <2>2 DEF Core, Shapes
    <2>4. JobFits' /\ PassedIsRestored' /\ ArmOrder'
        BY <1>2, <1>6 DEF JobFits, PassedIsRestored, ArmOrder, ArmSteps
    <2>5. JournalCovers'
        BY <1>2, <1>4, <1>6, <2>2 DEF Core, JournalCovers, DistinctAddresses
    <2>6. BeganOnline' /\ NoLeakWindow'
        <3>1. CASE h = host
            BY <1>2, <1>6, <2>2, <3>1 DEF Core, BeganOnline, NoLeakWindow
        <3>2. CASE errors = {} /\ "firewall" \in net.flags
            BY <1>2, <1>4, <1>6, <2>2, <3>2, CleanMeansRestored DEF Core, BeganOnline, NoLeakWindow
        <3>. QED
            BY <1>4, <3>1, <3>2
    <2>. QED
        BY <2>3, <2>4, <2>5, <2>6 DEF Core
<1>. QED
    BY <1>4, <1>5, <1>6

\* Disconnect, a dying pump and a killed process.
LEMMA OthersKeep ==
    ASSUME Core, Disconnect \/ PumpDies \/ Crash, UNCHANGED faults
    PROVE  Core'
<1>1. CASE Disconnect
    <2>1. Shapes'
        BY <1>1 DEF Core, Shapes, Disconnect, TeardownSteps
    <2>2. JobFits' /\ PassedIsRestored' /\ ArmOrder'
        BY <1>1 DEF Core, JobFits, Disconnect, PassedIsRestored, ArmOrder, ArmSteps
    <2>3. JournalCovers' /\ BeganOnline' /\ NoLeakWindow'
        BY ZenonT(40), <1>1 DEF Core, Disconnect, JournalCovers, DistinctAddresses, BeganOnline, NoLeakWindow, Blocked
    <2>. QED
        BY <2>1, <2>2, <2>3 DEF Core
<1>2. CASE PumpDies
    <2>1. Shapes'
        BY <1>2 DEF Core, Shapes, Entries, PumpDies
    <2>2. JobFits' /\ PassedIsRestored' /\ ArmOrder'
        BY <1>2 DEF Core, JobFits, PassedIsRestored, ArmOrder, PumpDies
    <2>3. JournalCovers' /\ BeganOnline' /\ NoLeakWindow'
        BY ZenonT(40), <1>2 DEF Core, PumpDies, JournalCovers, DistinctAddresses, BeganOnline, NoLeakWindow, Blocked
    <2>. QED
        BY Zenon, <2>1, <2>2, <2>3 DEF Core
<1>3. CASE Crash
    <2>1. host \in Networking /\ fails' \in 0..MaxFails
        BY <1>3 DEF Core, Shapes, Crash
    <2>. QED
        BY <1>3, <2>1, DroppedKeeps DEF Crash
<1>. QED
    BY <1>1, <1>2, <1>3

-----------------------------------------------------------------------------
(***************************************************************************)
(* The theorems.                                                           *)
(***************************************************************************)

\* No step of the engine, of LinuxNet or of a failure breaks the journal.
LEMMA CoreStep == Core /\ [Next]_<<vars, faults>> => Core'
<1>. SUFFICES ASSUME Core, [Next]_<<vars, faults>> PROVE Core'
    OBVIOUS
<1>1. CASE UNCHANGED <<vars, faults>>
    <2>1. Shapes'
        BY ZenonT(40), <1>1 DEF vars, Core, Shapes, Entries
    <2>2. JobFits' /\ PassedIsRestored' /\ ArmOrder'
        BY ZenonT(40), <1>1 DEF vars, Core, JobFits, PassedIsRestored, ArmOrder
    <2>3. JournalCovers' /\ BeganOnline' /\ NoLeakWindow'
        BY ZenonT(40), <1>1 DEF vars, Core, JournalCovers, DistinctAddresses, BeganOnline, NoLeakWindow, Blocked
    <2>. QED
        BY Zenon, <2>1, <2>2, <2>3 DEF Core
<1>2. CASE Connect /\ UNCHANGED faults
    BY <1>2, ConnectKeeps
<1>3. CASE ArmStep /\ UNCHANGED faults
    BY <1>3, ArmCaptureKeeps, PinNodeKeeps, PinFallbackKeeps, ArmKillSwitchKeeps, FlipDefaultKeeps,
       SetDnsKeeps DEF ArmStep
<1>4. CASE TeardownStep /\ UNCHANGED faults
    BY <1>4, RestoreDnsKeeps, RestoreDefaultKeeps, RestorePinsKeeps, DisarmKillSwitchKeeps
    DEF TeardownStep
<1>5. CASE (Disconnect \/ PumpDies \/ Crash) /\ UNCHANGED faults
    BY <1>5, OthersKeep
<1>. QED
    BY <1>1, <1>2, <1>3, <1>4, <1>5 DEF Next, Step

\* The journal is in order in every state of every behaviour.
LEMMA CoreHolds == Spec => []Core
    BY CoreInit, CoreStep, PTL DEF Spec

\* LinuxNet::arm and ::teardown, whatever the addresses and whatever fails: while
\* the kill-switch is on, no default route leads into the TUN unless direct egress
\* is dropped for both address families, and without a tunnel there is no such route.
THEOREM NoLeak == Spec => []NoLeakWindow
<1>1. Core => NoLeakWindow
    BY DEF Core
<1>. QED
    BY <1>1, CoreHolds, PTL

\* A step that ends a tunnel either restores the machine, or the process was
\* killed, or the rollback of a failed arm failed as well.
LEMMA RestoredStep ==
    ASSUME DistinctAddresses, Core, DisconnectedMeansRestored, [Next]_<<vars, faults>>
    PROVE  DisconnectedMeansRestored'
<1>. SUFFICES ASSUME ~crashed', "rollback" \notin faults'
              PROVE  before' = Pristine /\ (engine' = "disconnected" => host' = Pristine)
    BY DEF DisconnectedMeansRestored
<1>1. CASE UNCHANGED <<vars, faults>>
    BY <1>1 DEF vars, DisconnectedMeansRestored
<1>2. CASE Connect /\ UNCHANGED faults
    BY <1>2 DEF Connect, DisconnectedMeansRestored
<1>3. CASE (ArmStep \/ Disconnect \/ PumpDies) /\ UNCHANGED faults
    <2>1. engine' # "disconnected" \/ (engine' = engine /\ host' = host)
        BY <1>3
        DEF Core, JobFits, ArmSteps, ArmStep, ArmCapture, PinNode, PinFallback, ArmKillSwitch, FlipDefault,
            SetDns, Disconnect, PumpDies
    <2>2. UNCHANGED <<before, crashed>>
        BY <1>3
        DEF ArmStep, ArmCapture, PinNode, PinFallback, ArmKillSwitch, FlipDefault, SetDns, Disconnect,
            PumpDies
    <2>. QED
        BY <1>3, <2>1, <2>2 DEF DisconnectedMeansRestored
<1>4. CASE (RestoreDns \/ RestoreDefault \/ RestorePins) /\ UNCHANGED faults
    BY <1>4
    DEF Core, Shapes, JobFits, ArmSteps, TeardownSteps, RestoreDns, RestoreDefault, RestorePins,
        DisconnectedMeansRestored
<1>5. CASE DisarmKillSwitch /\ UNCHANGED faults
    <2>1. before = Pristine /\ before' = before
        BY <1>5 DEF DisarmKillSwitch, DisconnectedMeansRestored
    <2>2. SUFFICES ASSUME engine' = "disconnected" PROVE host' = Pristine
        BY <2>1
    <2>3. errors = {}
        BY <1>5, <2>2 DEF Core, Shapes, JobFits, ArmSteps, DisarmKillSwitch, Release
    <2>4. host.default = before.default /\ host.dns = before.dns /\ host.pin = before.pin
        BY <1>5, <2>3, CleanMeansRestored DEF DisarmKillSwitch
    <2>5. host \in Networking /\ host.default \ {"tun"} = Originals
        BY <2>1, <2>4, ConstantsOK DEF Core, Shapes, Pristine
    <2>6. ASSUME NEW h \in Networking, host' = WithoutTun(h), h.fw = [f \in Families |-> "off"],
                 h.default = host.default, h.dns = host.dns, h.pin = host.pin
          PROVE  host' = Pristine
        BY <2>1, <2>4, <2>5, <2>6 DEF WithoutTun, Networking, Pristine
    <2>7. CASE "firewall" \in net.flags
        <3>1. host' = WithoutTun([host EXCEPT !.fw = [f \in Families |-> "off"]])
            BY <1>5, <2>2, <2>3, <2>7 DEF Core, Shapes, JobFits, ArmSteps, DisarmKillSwitch, Release,
                                          Fail, MayFail
        <3>2. ([host EXCEPT !.fw = [f \in Families |-> "off"]]).fw = [f \in Families |-> "off"]
            BY <2>5 DEF Networking
        <3>. QED
            BY Zenon, <2>6, <3>1, <3>2, ReleasedTyped
    <2>8. CASE "firewall" \notin net.flags
        <3>1. host' = WithoutTun(host)
            BY <1>5, <2>2, <2>8 DEF DisarmKillSwitch, Release
        <3>2. host.fw = before.fw
            BY <1>5, <2>8 DEF Core, Shapes, JobFits, ArmSteps, TeardownSteps, DisarmKillSwitch, JournalCovers
        <3>. QED
            BY <2>1, <2>5, <2>6, <3>1, <3>2 DEF Pristine
    <2>. QED
        BY <2>7, <2>8
<1>6. CASE Crash
    BY <1>6 DEF Crash
<1>. QED
    BY <1>1, <1>2, <1>3, <1>4, <1>5, <1>6 DEF Next, Step, TeardownStep

\* Boolean settings stay Boolean.
LEMMA BooleansHold == Spec => [](ks \in BOOLEAN /\ crashed \in BOOLEAN)
<1>. DEFINE B == ks \in BOOLEAN /\ crashed \in BOOLEAN
<1>1. Init => B
    BY Zenon DEF Init
<1>2. B /\ [Next]_<<vars, faults>> => B'
    BY Zenon DEF vars, Next, Step, ArmStep, TeardownStep, Connect, ArmCapture, PinNode, PinFallback, ArmKillSwitch,
           FlipDefault, SetDns, RestoreDns, RestoreDefault, RestorePins, DisarmKillSwitch, Disconnect,
           PumpDies, Crash
<1>. QED
    BY <1>1, <1>2, PTL DEF Spec

\* AppEngine and LinuxNet with pairwise different addresses, for every pattern of
\* failing commands, dying pumps and kills: the journal always holds what a teardown
\* needs, nothing leaks around the TUN, and Disconnected means that the machine is as
\* it was unless the process was killed or a rollback failed.
THEOREM HostIsSafe == ASSUME DistinctAddresses PROVE Spec => []HostInv
<1>1. Init => DisconnectedMeansRestored
    BY DEF Init, DisconnectedMeansRestored
<1>2. Core /\ DisconnectedMeansRestored /\ [Next]_<<vars, faults>> => DisconnectedMeansRestored'
    BY RestoredStep
<1>3. Core /\ ks \in BOOLEAN /\ crashed \in BOOLEAN /\ DisconnectedMeansRestored => HostInv
    BY DEF Core, Shapes, HostInv, TypeOK
<1>. QED
    BY <1>1, <1>2, <1>3, CoreHolds, BooleansHold, PTL DEF Spec

\* LinuxNet::teardown with pairwise different addresses: once direct egress is
\* dropped, no step opens it again before the routes, the host routes and DNS are
\* those the connection found.
THEOREM FirewallGoesLast == ASSUME DistinctAddresses PROVE Spec => FirewallReleasedLast
<1>. DEFINE Sane == /\ host'.default = before.default /\ host'.pin = before.pin
                    /\ host'.dns = before.dns
<1>1. ASSUME Core, Core', [Next]_<<vars, faults>>, Blocked(host), ~Blocked(host')
      PROVE  Sane
    <2>1. host'.fw # host.fw
        BY <1>1 DEF Blocked
    <2>2. CASE ArmKillSwitch
        <3>1. host.fw = before.fw /\ before.fw["v4"] # "drop"
            BY <1>1, <2>2 DEF Core, JobFits, ArmSteps, ArmOrder, JournalCovers, BeganOnline, ArmKillSwitch
        <3>. QED
            BY <1>1, <3>1 DEF Blocked, Families
    <2>3. CASE DisarmKillSwitch
        <3>1. errors = {}
            BY <1>1, <2>1, <2>3 DEF Core, Shapes, Networking, DisarmKillSwitch, Release, WithoutTun
        <3>2. host.default = before.default /\ host.dns = before.dns /\ host.pin = before.pin
            BY <1>1, <2>3, <3>1, CleanMeansRestored DEF DisarmKillSwitch
        <3>3. \E h \in Networking : /\ h.default = host.default /\ h.dns = host.dns /\ h.pin = host.pin
                                    /\ host' \in {h, WithoutTun(h)}
            <4>1. PICK h : /\ \/ h = [host EXCEPT !.fw = [f \in Families |-> "off"]]
                              \/ h \in HalfReleased(host) \/ h = host
                           /\ host' \in {h, WithoutTun(h)}
                BY <2>3 DEF DisarmKillSwitch, Release
            <4>2. h \in Networking /\ h.default = host.default /\ h.dns = host.dns /\ h.pin = host.pin
                BY <1>1, <4>1, ReleasedTyped DEF Core, Shapes
            <4>. QED
                BY <4>1, <4>2
        <3>4. PICK h \in Networking : <3>3!(h)
            BY <3>3
        <3>5. h.default \ {"tun"} = h.default
            BY <1>1, <3>2, <3>4 DEF Core, BeganOnline
        <3>6. host'.default = h.default /\ host'.dns = h.dns /\ host'.pin = h.pin
            BY Zenon, <3>4, <3>5 DEF WithoutTun, Networking
        <3>. QED
            BY <3>2, <3>4, <3>6
    <2>4. host'.fw = host.fw \/ ArmKillSwitch \/ DisarmKillSwitch
        <3>1. CASE Connect \/ ArmCapture \/ Disconnect \/ PumpDies \/ UNCHANGED <<vars, faults>>
            BY <3>1 DEF vars, Connect, ArmCapture, Disconnect, PumpDies
        <3>2. CASE PinNode \/ PinFallback
            BY <1>1, <3>2 DEF PinNode, PinFallback, Applied, Core, Shapes, Networking
        <3>3. CASE FlipDefault \/ RestoreDefault \/ Crash
            BY <1>1, <3>3 DEF FlipDefault, Flipped, RestoreDefault, Crash, WithoutTun, Core, Shapes, Networking
        <3>4. CASE SetDns \/ RestoreDns
            BY <1>1, <3>4 DEF SetDns, RestoreDns, Core, Shapes, Networking
        <3>5. CASE RestorePins
            BY <1>1, <3>5 DEF RestorePins, Core, Shapes, Networking
        <3>. QED
            BY <1>1, <3>1, <3>2, <3>3, <3>4, <3>5 DEF Next, Step, ArmStep, TeardownStep
    <2>. QED
        BY <2>1, <2>2, <2>3, <2>4
<1>2. Core /\ Core' /\ [Next]_<<vars, faults>> => [Blocked(host) /\ ~Blocked(host') => Sane]_vars
    BY <1>1
<1>. QED
    BY <1>2, CoreHolds, PTL DEF Spec, FirewallReleasedLast
-----------------------------------------------------------------------------
\* What is kept step by step, from which the rest of OnionInv follows.
OnionKept == OnionTypeOK /\ HopsInOrder /\ TasksHaveSessions

\* Hops built and taken down in order make whole tunnels and leave nothing behind.
LEMMA OnionKeptIsEnough ==
    ASSUME OnionKept
    PROVE  OnionInv
<1> USE OnionAssumption
<1>1. ASSUME NEW i \in HopNumbers
      PROVE  /\ InOrder(i) /\ CanBeStopped(i)
             /\ session[i] \in {"none", "open", "closed"} /\ pq[i] \in {"none", "open", "closed"}
    BY DEF OnionKept, OnionTypeOK, HopsInOrder, TasksHaveSessions
<1>2. StageFits /\ hop \in Int
    BY DEF OnionKept, OnionTypeOK, HopsInOrder
<1>3. NoPartialOnion
    BY <1>1, <1>2 DEF NoPartialOnion, InOrder, StageFits, HopNumbers
<1>4. UpMeansWhole
    BY <1>1, <1>2 DEF UpMeansWhole, InOrder, StageFits, HopNumbers
<1>5. NoOrphanTask
    BY <1>1, <1>3 DEF NoOrphanTask, NoPartialOnion, CanBeStopped
<1>6. QED
    BY <1>3, <1>4, <1>5 DEF OnionInv, OnionKept

\* Before connect no hop has a task or a session.
LEMMA OnionStarts == OnionInit => OnionKept
<1> SUFFICES ASSUME OnionInit PROVE OnionKept
    OBVIOUS
<1>1. OnionTypeOK
    BY OnionAssumption DEF OnionInit, OnionTypeOK
<1>2. HopsInOrder /\ TasksHaveSessions
    BY OnionAssumption
       DEF OnionInit, HopsInOrder, StageFits, InOrder, TasksHaveSessions, CanBeStopped, HopNumbers
<1>3. QED
    BY <1>1, <1>2 DEF OnionKept

\* Types are kept by every step of the path, of a task and of a node.
LEMMA OnionTypes ==
    ASSUME OnionKept, OnionNext
    PROVE  OnionTypeOK'
<1> USE OnionAssumption DEF taskVars, sessionMaps, nodeVars
<1>a. /\ pathAt = "wrap" => hop \in HopNumbers
      /\ pathAt \in {"dial", "close"} => hop \in 0..(PathHops + 1)
      /\ pathAt = "dial" => hop >= 1
    BY DEF OnionKept, OnionTypeOK, HopsInOrder, StageFits, HopNumbers
<1>b. OnionTypeOK
    BY DEF OnionKept
<1>1. CASE ConnectPath
    BY <1>a, <1>b, <1>1 DEF ConnectPath, OnionTypeOK, HopNumbers
<1>2. CASE Dial
    BY <1>a, <1>b, <1>2 DEF Dial, OnionTypeOK, HopNumbers
<1>3. CASE Established
    BY <1>a, <1>b, <1>3 DEF Established, OnionTypeOK, HopNumbers
<1>4. CASE Refused
    BY <1>a, <1>b, <1>4 DEF Refused, Unwind, Fault, OnionTypeOK, HopNumbers
<1>5. CASE HandshakeTimeout
    BY <1>a, <1>b, <1>5 DEF HandshakeTimeout, Unwind, Fault, NoFault, OnionTypeOK, HopNumbers
<1>6. CASE Wrapped
    BY <1>a, <1>b, <1>6 DEF Wrapped, OnionTypeOK, HopNumbers
<1>7. CASE WrapFails
    BY <1>a, <1>b, <1>7 DEF WrapFails, Unwind, Fault, NoFault, OnionTypeOK, HopNumbers
<1>8. CASE TunnelUp
    BY <1>a, <1>b, <1>8 DEF TunnelUp, OnionTypeOK, HopNumbers
<1>9. CASE CloseHop
  <2>1. pq' \in [HopNumbers -> {"none", "open", "closed"}]
    BY <1>b, <1>9 DEF CloseHop, OnionTypeOK
  <2>2. session' \in [HopNumbers -> {"none", "open", "closed"}]
    BY <1>b, <1>9 DEF CloseHop, OnionTypeOK
  <2>3. hop' \in 0..(PathHops + 1)
    BY <1>a, <1>9 DEF CloseHop
  <2>4. QED
    BY <1>b, <1>9, <2>1, <2>2, <2>3 DEF CloseHop, OnionTypeOK
<1>10. CASE Closed
    BY <1>a, <1>b, <1>10 DEF Closed, OnionTypeOK, HopNumbers
<1>11. CASE TunnelDown
    BY <1>a, <1>b, <1>11 DEF TunnelDown, OnionTypeOK, HopNumbers
<1>12. CASE DatapathDies
    BY <1>a, <1>b, <1>12 DEF DatapathDies, OnionTypeOK, HopNumbers
<1>13. ASSUME NEW j \in HopNumbers, DriverStops(j) PROVE OnionTypeOK'
    BY <1>a, <1>b, <1>13 DEF DriverStops, OnionTypeOK, HopNumbers
<1>14. ASSUME NEW j \in HopNumbers, DriverNotices(j) PROVE OnionTypeOK'
    BY <1>a, <1>b, <1>14 DEF DriverNotices, OnionTypeOK, HopNumbers
<1>15. ASSUME NEW j \in HopNumbers, PumpEnds(j) PROVE OnionTypeOK'
    BY <1>a, <1>b, <1>15 DEF PumpEnds, OnionTypeOK, HopNumbers
<1>16. ASSUME NEW j \in HopNumbers, NodeIdles(j) PROVE OnionTypeOK'
    BY <1>a, <1>b, <1>16 DEF NodeIdles, OnionTypeOK, HopNumbers
<1>17. ASSUME NEW j \in Failing, FallsSilent(j) PROVE OnionTypeOK'
    BY <1>a, <1>b, <1>17 DEF FallsSilent, Fault, OnionTypeOK, HopNumbers
<1>18. ASSUME NEW j \in Failing, NodeCloses(j) PROVE OnionTypeOK'
    BY <1>a, <1>b, <1>18 DEF NodeCloses, Fault, OnionTypeOK, HopNumbers
<1> QED
    BY <1>1, <1>2, <1>3, <1>4, <1>5, <1>6, <1>7, <1>8, <1>9, <1>10,
       <1>11, <1>12, <1>13, <1>14, <1>15, <1>16, <1>17, <1>18
       DEF OnionNext, Path, Task

\* Every step leaves the stage and its hop fitting.
LEMMA StageStep ==
    ASSUME OnionKept, OnionNext
    PROVE  StageFits'
<1> USE OnionAssumption DEF taskVars, sessionMaps, nodeVars
<1>a. StageFits /\ hop \in Int
    BY DEF OnionKept, OnionTypeOK, HopsInOrder
<1>1. CASE ConnectPath
    BY <1>a, <1>1 DEF ConnectPath, StageFits
<1>2. CASE Dial
    BY <1>a, <1>2 DEF Dial, StageFits
<1>3. CASE Established
    BY <1>a, <1>3 DEF Established, StageFits
<1>4. CASE Refused
    BY <1>a, <1>4 DEF Refused, Unwind, StageFits
<1>5. CASE HandshakeTimeout
    BY <1>a, <1>5 DEF HandshakeTimeout, Unwind, StageFits
<1>6. CASE Wrapped
    BY <1>a, <1>6 DEF Wrapped, StageFits
<1>7. CASE WrapFails
    BY <1>a, <1>7 DEF WrapFails, Unwind, StageFits
<1>8. CASE TunnelUp
    BY <1>a, <1>8 DEF TunnelUp, StageFits
<1>9. CASE CloseHop
    BY <1>a, <1>9 DEF CloseHop, StageFits
<1>10. CASE Closed
    BY <1>a, <1>10 DEF Closed, StageFits
<1>11. CASE TunnelDown
    BY <1>a, <1>11 DEF TunnelDown, StageFits
<1>12. CASE DatapathDies
    BY <1>a, <1>12 DEF DatapathDies, StageFits
<1>13. ASSUME NEW j \in HopNumbers, DriverStops(j) PROVE StageFits'
    BY <1>a, <1>13 DEF DriverStops, StageFits
<1>14. ASSUME NEW j \in HopNumbers, DriverNotices(j) PROVE StageFits'
    BY <1>a, <1>14 DEF DriverNotices, StageFits
<1>15. ASSUME NEW j \in HopNumbers, PumpEnds(j) PROVE StageFits'
    BY <1>a, <1>15 DEF PumpEnds, StageFits
<1>16. ASSUME NEW j \in HopNumbers, NodeIdles(j) PROVE StageFits'
    BY <1>a, <1>16 DEF NodeIdles, StageFits
<1>17. ASSUME NEW j \in Failing, FallsSilent(j) PROVE StageFits'
    BY <1>a, <1>17 DEF FallsSilent, StageFits
<1>18. ASSUME NEW j \in Failing, NodeCloses(j) PROVE StageFits'
    BY <1>a, <1>18 DEF NodeCloses, StageFits
<1> QED
    BY <1>1, <1>2, <1>3, <1>4, <1>5, <1>6, <1>7, <1>8, <1>9, <1>10,
       <1>11, <1>12, <1>13, <1>14, <1>15, <1>16, <1>17, <1>18
       DEF OnionNext, Path, Task

\* Every step leaves every hop on its side of the one at work, and its tasks with
\* their sessions.
LEMMA HopStep ==
    ASSUME OnionKept, OnionNext, NEW i \in HopNumbers
    PROVE  InOrder(i)' /\ CanBeStopped(i)'
<1> USE OnionAssumption DEF taskVars, sessionMaps, nodeVars
<1>a. /\ InOrder(i) /\ CanBeStopped(i) /\ StageFits
      /\ hop \in Int /\ i \in Int /\ i >= 1 /\ i <= PathHops
    BY DEF OnionKept, OnionTypeOK, HopsInOrder, TasksHaveSessions, HopNumbers
<1>b. /\ DOMAIN driver = HopNumbers /\ DOMAIN session = HopNumbers
      /\ DOMAIN pq = HopNumbers /\ DOMAIN wgPump = HopNumbers
    BY DEF OnionKept, OnionTypeOK
<1>c. /\ driver = [k \in HopNumbers |-> driver[k]] /\ session = [k \in HopNumbers |-> session[k]]
      /\ pq = [k \in HopNumbers |-> pq[k]] /\ wgPump = [k \in HopNumbers |-> wgPump[k]]
    BY DEF OnionKept, OnionTypeOK
<1>1. CASE ConnectPath
    BY <1>a, <1>b, <1>c, <1>1 DEF ConnectPath, InOrder, CanBeStopped, StageFits
<1>2. CASE Dial
    BY <1>a, <1>b, <1>c, <1>2 DEF Dial, InOrder, CanBeStopped, StageFits
<1>3. CASE Established
  <2>1. /\ pathAt = "dial" /\ hop <= PathHops
        /\ IF hop \in PqHops
           THEN pathAt' = "wrap" /\ hop' = hop ELSE pathAt' = "dial" /\ hop' = hop + 1
    BY <1>3 DEF Established
  <2>2. CASE i = hop
    <3>1. pq' = pq /\ wgPump' = wgPump /\ driver'[i] = "ready" /\ session'[i] = "open"
      BY <1>b, <1>c, <1>3, <2>2 DEF Established
    <3>2. QED
      BY <1>a, <2>1, <2>2, <3>1 DEF InOrder, CanBeStopped, StageFits
  <2>3. CASE i # hop
    <3>1. pq' = pq /\ wgPump' = wgPump /\ driver'[i] = driver[i] /\ session'[i] = session[i]
      BY <1>b, <1>c, <1>3, <2>3 DEF Established
    <3>2. QED
      BY <1>a, <2>1, <2>3, <3>1 DEF InOrder, CanBeStopped, StageFits
  <2>4. QED
    BY <2>2, <2>3
<1>4. CASE Refused
  <2>1. pathAt = "dial" /\ pathAt' = "close" /\ hop' = hop - 1
    BY Zenon, <1>4 DEF Refused, Unwind
  <2>2. /\ session' = session /\ wgPump' = wgPump /\ pq' = pq
        /\ driver'[i] = IF i = hop THEN "gone" ELSE driver[i]
    BY <1>b, <1>c, <1>4 DEF Refused
  <2>3. InOrder(i)'
    BY <1>a, <2>1, <2>2 DEF InOrder
  <2>4. CanBeStopped(i)'
    BY <1>a, <2>1, <2>2 DEF CanBeStopped
  <2>5. QED
    BY Zenon, <2>3, <2>4
<1>5. CASE HandshakeTimeout
  <2>1. pathAt = "dial" /\ pathAt' = "close" /\ hop' = hop - 1
    BY Zenon, <1>5 DEF HandshakeTimeout, Unwind
  <2>2. /\ driver' = driver /\ wgPump' = wgPump /\ pq' = pq /\ driver[hop] = "shaking"
        /\ session'[i] = IF i = hop THEN "closed" ELSE session[i]
    BY <1>b, <1>c, <1>5 DEF HandshakeTimeout
  <2>3. InOrder(i)'
    BY <1>a, <2>1, <2>2 DEF InOrder
  <2>4. CanBeStopped(i)'
    BY <1>a, <2>1, <2>2 DEF CanBeStopped
  <2>5. QED
    BY Zenon, <2>3, <2>4
<1>6. CASE Wrapped
  <2>1. pathAt = "wrap" /\ pathAt' = "dial" /\ hop' = hop + 1
    BY <1>6 DEF Wrapped
  <2>2. CASE i = hop
    <3>1. driver' = driver /\ session' = session /\ pq'[i] = "open" /\ wgPump'[i] = "running"
      BY <1>b, <1>c, <1>6, <2>2 DEF Wrapped
    <3>2. QED
      BY <1>a, <2>1, <2>2, <3>1 DEF InOrder, CanBeStopped, StageFits
  <2>3. CASE i # hop
    <3>1. driver' = driver /\ session' = session /\ pq'[i] = pq[i] /\ wgPump'[i] = wgPump[i]
      BY <1>b, <1>c, <1>6, <2>3 DEF Wrapped
    <3>2. QED
      BY <1>a, <2>1, <2>3, <3>1 DEF InOrder, CanBeStopped, StageFits
  <2>4. QED
    BY <2>2, <2>3
<1>7. CASE WrapFails
    BY <1>a, <1>b, <1>c, <1>7 DEF WrapFails, Unwind, InOrder, CanBeStopped, StageFits
<1>8. CASE TunnelUp
    BY <1>a, <1>b, <1>c, <1>8 DEF TunnelUp, InOrder, CanBeStopped, StageFits
<1>9. CASE CloseHop
  <2>1. pathAt = "close" /\ hop > 0 /\ pathAt' = "close" /\ hop' = hop - 1
    BY <1>9 DEF CloseHop
  <2>2. CASE i = hop
    <3>1. /\ driver' = driver /\ wgPump' = wgPump /\ session'[i] = "closed"
          /\ pq'[i] = (IF i \in PqHops THEN "closed" ELSE pq[i])
      BY <1>b, <1>c, <1>9, <2>2 DEF CloseHop
    <3>2. QED
      BY <1>a, <2>1, <2>2, <3>1 DEF InOrder, CanBeStopped, StageFits
  <2>3. CASE i # hop
    <3>1. driver' = driver /\ wgPump' = wgPump /\ session'[i] = session[i] /\ pq'[i] = pq[i]
      BY <1>b, <1>c, <1>9, <2>3 DEF CloseHop
    <3>2. QED
      BY <1>a, <2>1, <2>3, <3>1 DEF InOrder, CanBeStopped, StageFits
  <2>4. QED
    BY <2>2, <2>3
<1>10. CASE Closed
    BY <1>a, <1>b, <1>c, <1>10 DEF Closed, InOrder, CanBeStopped, StageFits
<1>11. CASE TunnelDown
    BY <1>a, <1>b, <1>c, <1>11 DEF TunnelDown, InOrder, CanBeStopped, StageFits
<1>12. CASE DatapathDies
    BY <1>a, <1>b, <1>c, <1>12 DEF DatapathDies, InOrder, CanBeStopped, StageFits
<1>13. ASSUME NEW j \in HopNumbers, DriverStops(j) PROVE InOrder(i)' /\ CanBeStopped(i)'
    BY <1>a, <1>b, <1>c, <1>13 DEF DriverStops, InOrder, CanBeStopped, StageFits
<1>14. ASSUME NEW j \in HopNumbers, DriverNotices(j) PROVE InOrder(i)' /\ CanBeStopped(i)'
    BY <1>a, <1>b, <1>c, <1>14 DEF DriverNotices, InOrder, CanBeStopped, StageFits
<1>15. ASSUME NEW j \in HopNumbers, PumpEnds(j) PROVE InOrder(i)' /\ CanBeStopped(i)'
    BY <1>a, <1>b, <1>c, <1>15 DEF PumpEnds, InOrder, CanBeStopped, StageFits
<1>16. ASSUME NEW j \in HopNumbers, NodeIdles(j) PROVE InOrder(i)' /\ CanBeStopped(i)'
    BY <1>a, <1>b, <1>c, <1>16 DEF NodeIdles, InOrder, CanBeStopped, StageFits
<1>17. ASSUME NEW j \in Failing, FallsSilent(j) PROVE InOrder(i)' /\ CanBeStopped(i)'
    BY <1>a, <1>b, <1>c, <1>17 DEF FallsSilent, InOrder, CanBeStopped, StageFits
<1>18. ASSUME NEW j \in Failing, NodeCloses(j) PROVE InOrder(i)' /\ CanBeStopped(i)'
    BY <1>a, <1>b, <1>c, <1>18 DEF NodeCloses, InOrder, CanBeStopped, StageFits
<1> QED
    BY <1>1, <1>2, <1>3, <1>4, <1>5, <1>6, <1>7, <1>8, <1>9, <1>10,
       <1>11, <1>12, <1>13, <1>14, <1>15, <1>16, <1>17, <1>18
       DEF OnionNext, Path, Task

\* Every step of PathTransport::connect and ::close, of a task and of a node keeps
\* the hops in order and every task with its session.
LEMMA OnionStep == OnionKept /\ [OnionNext]_onionVars => OnionKept'
<1> SUFFICES ASSUME OnionKept, [OnionNext]_onionVars PROVE OnionKept'
    OBVIOUS
<1>1. CASE OnionNext
  <2>1. OnionTypeOK' /\ StageFits'
    BY <1>1, OnionTypes, StageStep
  <2>2. \A i \in HopNumbers : InOrder(i)' /\ CanBeStopped(i)'
    BY <1>1, HopStep
  <2>3. QED
    BY <2>1, <2>2 DEF OnionKept, HopsInOrder, TasksHaveSessions
<1>2. CASE UNCHANGED onionVars
    BY Zenon, <1>2 DEF onionVars, OnionKept, OnionTypeOK, HopsInOrder, StageFits, InOrder,
                       TasksHaveSessions, CanBeStopped
<1>3. QED
    BY <1>1, <1>2

\* PathTransport over any number of hops, whichever of them are PQ-WireGuard and
\* whichever nodes fail: every reachable state satisfies OnionInv.
THEOREM OnionSafety == OnionSpec => []OnionInv
<1>1. OnionKept => OnionInv
    BY OnionKeptIsEnough
<1>2. QED
    BY OnionStarts, OnionStep, <1>1, PTL DEF OnionSpec
=============================================================================
