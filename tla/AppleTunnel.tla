---------------------------- MODULE AppleTunnel -----------------------------
(***************************************************************************)
(* The Apple client: the container app's controller (NilVpnPlugin.swift on *)
(* iOS, driven under Rust's lifecycle mutex; NilControlBridge.swift on     *)
(* macOS, whose calls overlap), the VPN configuration and connection kept  *)
(* by the OS, PacketTunnelProvider.swift in the extension, and the engine  *)
(* thread behind the C ABI of nil-apple.  The controller works in chains   *)
(* of callbacks (load, save, reload, start); the provider's callbacks, the *)
(* engine thread and the OS run side by side.                              *)
(***************************************************************************)
EXTENDS Integers, Sequences, FiniteSets, SequencesExt

CONSTANTS
    Scenarios,   \* see Init
    Capacity,    \* INGEST_QUEUE_CAPACITY
    MaxPackets   \* bound on packets the flow delivers

FaultKinds ==
    {"prefs",      \* preferences cannot be loaded or saved; consent is declined
     "connect",    \* the node is unreachable or its attestation fails
     "link",       \* the transport fails under the engine
     "apply",      \* setTunnelNetworkSettings fails
     "death",      \* the OS ends the extension or the app at any point
     "manual"}     \* the user starts the tunnel from the OS settings

VARIABLES
    scenario,   \* rigid: [os, config, onDemand, faults, fails, taps]
    chains,     \* the controller's callback chains in flight
    installed,  \* the system extension: "none", "asked" or "active"
    prefs,      \* the saved manager: [id, onDemand], id 0 before startVpn saved one
    conn,       \* NEVPNStatus
    prov,       \* the provider: [pc, tunnel, completion, settings, reading, holds]
    calls,      \* history: completions of the current startTunnel
    eng,        \* the engine thread
    atoms,      \* what the engine stored for the provider: mtu and address set
    cancelled,  \* the CancellationToken
    ingest,     \* the bounded packet queue of this session's handle
    sending,    \* the packet the engine took from it and is sending, if any
    sent,       \* history: packets the transport accepted, in order
    dropped,    \* dropped_packets
    offered,    \* history: packets the flow has delivered to this session
    pending,    \* the reservation the app has not yet completed, 0 when none
    session,    \* history: the reservation of the running provider session
    risen, done,  \* history: reservations whose engine came up; committed ones
    fails, taps

controller == <<chains, installed, prefs, pending, done>>
packets == <<ingest, sending, sent, dropped, offered>>
provider == <<prov, calls, eng, atoms, cancelled, session, risen>>
vars == <<controller, conn, provider, packets, fails, taps>>

Fault(kind) ==
    kind \in scenario.faults /\ fails < scenario.fails /\ fails' = fails + 1
NoFault == fails' = fails
Tap == taps < scenario.taps /\ taps' = taps + 1

NoProvider == [pc |-> "none", tunnel |-> "nil", completion |-> FALSE, settings |-> "none",
               reading |-> FALSE, holds |-> FALSE]
Passes == 2
Init ==
    /\ scenario \in Scenarios
    /\ chains = <<>>
    /\ installed = IF scenario.os = "ios" THEN "active" ELSE "none"
    /\ prefs = [id |-> 0, onDemand |-> FALSE] /\ conn = "disconnected"
    /\ prov = NoProvider /\ calls = 0 /\ eng = "none" /\ atoms = FALSE /\ cancelled = FALSE
    /\ ingest = <<>> /\ sending = <<>> /\ sent = <<>> /\ dropped = 0 /\ offered = 0
    /\ pending = 1 /\ session = 0 /\ risen = {} /\ done = {}
    /\ fails = 0 /\ taps = 0

-----------------------------------------------------------------------------
(* The controller in the container app                                     *)

\* activateSystemExtension: one request at a time.
Activate ==
    /\ scenario.os = "macos" /\ installed = "none" /\ Tap /\ installed' = "asked"
    /\ UNCHANGED <<chains, prefs, pending, done, conn, provider, packets, fails>>
\* didFinishWithResult or didFailWithError.
Activated ==
    /\ installed = "asked"
    /\ \/ NoFault /\ installed' = "active"
       \/ Fault("prefs") /\ installed' = "none"
    /\ UNCHANGED <<chains, prefs, pending, done, conn, provider, packets, taps>>

\* statusVpn: the connection's status, with the configured reservation.
VpnState ==
    CASE conn = "connected" -> "up" [] conn = "connecting" -> "connecting" [] OTHER -> "down"

\* Rust holds the lifecycle mutex on iOS; the macOS exports do not exclude
\* each other.  (MaxChains bounds how many are modelled at once.)
MaxChains == 2
Free == Len(chains) < (IF scenario.os = "ios" THEN 1 ELSE MaxChains)

\* (Mutant: a start does not look at the status first.)
StartVpnAnyState ==
    /\ Free /\ Tap /\ pending # 0
    /\ chains' = Append(chains, [kind |-> "start", pc |-> "load", id |-> pending])
    /\ UNCHANGED <<installed, prefs, pending, done, conn, provider, packets, fails>>

\* extension_connect on iOS, and nil_macos_start_tunnel.
StartVpn ==
    /\ Free /\ Tap /\ pending # 0
    /\ scenario.os = "ios" => VpnState = "down"
    /\ chains' = Append(chains, [kind |-> "start", id |-> pending,
                                 pc |-> IF scenario.os = "ios" THEN "prepare" ELSE "load"])
    /\ UNCHANGED <<installed, prefs, pending, done, conn, provider, packets, fails>>
\* prepareVpn: consent comes with the first save, before any pass is redeemed.
ChainPrepare(i) ==
    /\ chains[i].pc = "prepare"
    /\ \/ NoFault /\ chains' = [chains EXCEPT ![i].pc = "load"]
       \/ Fault("prefs") /\ chains' = RemoveAt(chains, i)
    /\ UNCHANGED <<installed, prefs, pending, done, conn, provider, packets, taps>>
\* stopVpn and nil_macos_stop_tunnel.
StopVpn ==
    /\ Free /\ Tap
    /\ chains' = Append(chains, [kind |-> "stop", pc |-> "load", id |-> 0])
    /\ UNCHANGED <<installed, prefs, pending, done, conn, provider, packets, fails>>

Moved(i, pc) == chains' = [chains EXCEPT ![i].pc = pc]
Ended(i) == chains' = RemoveAt(chains, i)

\* loadAllFromPreferences: NIL's own manager or a new one; an error ends the
\* chain.  A stop disables the on-demand rule first and saves that.
ChainLoad(i) ==
    /\ chains[i].pc = "load"
    /\ \/ /\ NoFault
          /\ Moved(i, IF chains[i].kind = "start" \/ prefs.onDemand THEN "save" ELSE "issue")
       \/ Fault("prefs") /\ Ended(i)
    /\ UNCHANGED <<installed, prefs, pending, done, conn, provider, packets, taps>>

\* What a chain saves: a stop clears the on-demand rule; a start replaces the
\* configuration, and on macOS sets the rule as asked.
Saving(chain) ==
    IF chain.kind = "stop" THEN [prefs EXCEPT !.onDemand = FALSE]
    ELSE [id |-> chain.id, onDemand |-> scenario.onDemand]
\* saveToPreferences; a stop goes on whatever it returns, a start gives up.
ChainSave(i) ==
    /\ chains[i].pc = "save"
    /\ \/ /\ NoFault /\ Moved(i, "issue")
          /\ prefs' = Saving(chains[i])
       \/ /\ Fault("prefs") /\ UNCHANGED prefs
          /\ IF chains[i].kind = "stop" THEN Moved(i, "issue") ELSE Ended(i)
    /\ UNCHANGED <<installed, pending, done, conn, provider, packets, taps>>

\* The OS begins a session with the saved configuration.
Begin ==
    /\ conn' = "connecting" /\ prov' = [NoProvider EXCEPT !.pc = "start"]
    /\ calls' = 0 /\ session' = prefs.id

\* startVPNTunnel after the reload.  Starting what runs does nothing; what is
\* disconnecting, or not installed, refuses.
ChainStart(i) ==
    /\ chains[i].pc = "issue" /\ chains[i].kind = "start" /\ Ended(i)
    /\ IF conn = "disconnected" /\ installed = "active"
       THEN Begin /\ UNCHANGED <<eng, atoms, cancelled, risen>>
       ELSE UNCHANGED <<conn, provider>>
    /\ UNCHANGED <<installed, prefs, pending, done, packets, fails, taps>>
\* stopVPNTunnel.
ChainStop(i) ==
    /\ chains[i].pc = "issue" /\ chains[i].kind = "stop" /\ Ended(i)
    /\ conn' = IF conn \in {"connecting", "connected"} THEN "disconnecting" ELSE conn
    /\ UNCHANGED <<installed, prefs, pending, done, provider, packets, fails, taps>>

\* The on-demand rule, or the user in the OS settings, starts the tunnel.
OsStarts ==
    /\ conn = "disconnected" /\ installed = "active" /\ prefs.id # 0
    /\ \/ prefs.onDemand /\ NoFault /\ Tap
       \/ Fault("manual") /\ taps' = taps
    /\ Begin
    /\ UNCHANGED <<controller, eng, atoms, cancelled, risen, packets>>

\* extension_connection_status on iOS: "up" with the exact reservation
\* completes the pass; the next one is reserved when it is needed.
Commit ==
    /\ scenario.os = "ios" /\ chains = <<>>
    /\ pending # 0 /\ VpnState = "up" /\ prefs.id = pending
    /\ done' = done \cup {pending} /\ pending' = (pending + 1) % (Passes + 1)
    /\ UNCHANGED <<chains, installed, prefs, conn, provider, packets, fails, taps>>

-----------------------------------------------------------------------------
(* PacketTunnelProvider and the engine thread                              *)

\* nil_start's gates: no unattested release engine, no TDX, a policy parses
\* strictly and is never dropped, a release needs the log key, what is attested
\* needs 48 bytes of measurement, and a nonce is 32 bytes or absent.
NilStartAccepts(c) ==
    /\ c.allow => c.build = "debug" /\ c.key = "none" /\ c.floor = "none"
    /\ c.tee # "tdx" /\ c.floor # "malformed" /\ c.key # "malformed"
    /\ c.key = "none" /\ ~c.allow => c.build = "debug"
    /\ ~c.allow => c.measurement = "48 bytes"
    /\ c.nonce # "malformed"

\* The OS ends the extension process, and with it the handle, its queue and its
\* counter.
Gone ==
    /\ prov' = NoProvider /\ eng' = "none" /\ atoms' = FALSE /\ cancelled' = FALSE
    /\ conn' = "disconnected"
    /\ ingest' = <<>> /\ sending' = <<>> /\ sent' = <<>> /\ dropped' = 0 /\ offered' = 0

\* startTunnel: a bad configuration completes with an error; otherwise the
\* engine thread is spawned, and the handle is stored when nil_start returns.
StartTunnel ==
    /\ prov.pc = "start"
    /\ \/ /\ NilStartAccepts(scenario.config)
          /\ prov' = [prov EXCEPT !.pc = "storing", !.completion = TRUE]
          /\ eng' = "connecting" /\ UNCHANGED <<calls, atoms, cancelled, conn, packets>>
       \/ ~NilStartAccepts(scenario.config) /\ calls' = calls + 1 /\ Gone
    /\ UNCHANGED <<controller, session, risen, fails, taps>>
StoreHandle ==
    /\ prov.pc = "storing" /\ prov' = [prov EXCEPT !.pc = "running", !.tunnel = "live"]
    /\ UNCHANGED <<controller, conn, calls, eng, atoms, cancelled, session, risen, packets,
                   fails, taps>>

\* status 1: mtu and address are stored, then applySettingsAndRead reads them
\* through the handle, and falls back to 10.74.0.2 and 1280 when nil_start has
\* not yet returned one.
EngineConnected ==
    /\ eng = "connecting" /\ eng' = "running" /\ atoms' = TRUE
    /\ risen' = risen \cup {session}
    /\ prov' = [prov EXCEPT !.settings =
                    IF prov.tunnel # "nil" /\ atoms' THEN "assigned" ELSE "fallback"]
    /\ UNCHANGED <<controller, conn, calls, cancelled, session, packets, fails, taps>>
\* status 2: the held completion gets the error.
EngineFails ==
    /\ eng = "connecting" /\ Fault("connect")
    /\ calls' = calls + (IF prov.completion THEN 1 ELSE 0) /\ Gone
    /\ UNCHANGED <<controller, session, risen, taps>>

\* setTunnelNetworkSettings calls back: the held completion is called, once,
\* and reading begins.
SettingsApplied ==
    /\ prov.settings # "none" /\ prov.completion
    /\ calls' = calls + 1
    /\ \/ /\ NoFault
          /\ prov' = [prov EXCEPT !.completion = FALSE, !.reading = TRUE]
          /\ conn' = IF conn = "connecting" THEN "connected" ELSE conn
          /\ UNCHANGED <<eng, atoms, cancelled, packets>>
       \/ Fault("apply") /\ Gone
    /\ UNCHANGED <<controller, session, risen, taps>>

\* readLoop: the callback takes the handle, or ends the loop without one.
ReadPackets ==
    /\ prov.reading /\ ~prov.holds /\ offered < MaxPackets
    /\ IF prov.tunnel = "live"
       THEN prov' = [prov EXCEPT !.holds = TRUE] /\ offered' = offered + 1
       ELSE prov' = [prov EXCEPT !.reading = FALSE] /\ UNCHANGED offered
    /\ UNCHANGED <<controller, conn, calls, eng, atoms, cancelled, session, risen, ingest, sending,
                   sent, dropped, fails, taps>>
\* nil_ingest_packets and enqueue_packet: queued, or dropped and counted when
\* the queue is full or its receiver is gone.
IngestPacket ==
    /\ prov.holds /\ prov.tunnel = "live" /\ prov' = [prov EXCEPT !.holds = FALSE]
    /\ IF eng \in {"running", "closing"} /\ Len(ingest) < Capacity
       THEN ingest' = Append(ingest, offered) /\ UNCHANGED dropped
       ELSE dropped' = dropped + 1 /\ UNCHANGED ingest
    /\ UNCHANGED <<controller, conn, calls, eng, atoms, cancelled, session, risen, sending, sent,
                   offered, fails, taps>>
\* The same with a handle that nil_stop freed under the reader: nothing comes of
\* it, or the process dies.
IngestFreed ==
    /\ prov.holds /\ prov.tunnel = "freed"
    /\ \/ /\ prov' = [prov EXCEPT !.holds = FALSE]
          /\ UNCHANGED <<conn, eng, atoms, cancelled, packets>>
       \/ Gone
    /\ UNCHANGED <<controller, calls, session, risen, fails, taps>>

\* The engine's select!: a queued packet is taken, and nothing else looked at
\* until the transport has accepted it.
EngineTake ==
    /\ eng = "running" /\ sending = <<>> /\ ingest # <<>>
    /\ sending' = <<Head(ingest)>> /\ ingest' = Tail(ingest)
    /\ UNCHANGED <<controller, conn, provider, sent, dropped, offered, fails, taps>>
EngineSend ==
    /\ eng = "running" /\ sending # <<>>
    /\ sent' = sent \o sending /\ sending' = <<>>
    /\ UNCHANGED <<controller, conn, provider, ingest, dropped, offered, fails, taps>>
\* The loop breaks on cancellation or on a transport error, which takes the
\* packet being sent with it; the queue stays open while the session is closed,
\* and is then lost with its receiver.
EngineBreaks ==
    /\ eng = "running" /\ eng' = "closing"
    /\ (cancelled /\ sending = <<>> /\ NoFault) \/ Fault("link")
    /\ sending' = <<>>
    /\ UNCHANGED <<controller, conn, prov, calls, atoms, cancelled, session, risen, ingest, sent,
                   dropped, offered, taps>>
EngineEnds ==
    /\ eng = "closing" /\ eng' = "ended"
    /\ ingest' = <<>>
    /\ UNCHANGED <<controller, conn, prov, calls, atoms, cancelled, session, risen, sending, sent,
                   dropped, offered, fails, taps>>

\* stopTunnel: nil_stop cancels and waits for the engine thread, which does
\* not look at the token while it connects; then the handle is freed.
StopTunnel ==
    /\ conn = "disconnecting" /\ prov.pc = "running"
    /\ prov' = [prov EXCEPT !.pc = "joining"] /\ cancelled' = TRUE
    /\ UNCHANGED <<controller, conn, calls, eng, atoms, session, risen, packets, fails, taps>>
StopJoined ==
    /\ prov.pc = "joining" /\ eng = "ended"
    /\ prov' = [prov EXCEPT !.pc = "stopped", !.tunnel = "freed"]
    /\ UNCHANGED <<controller, conn, calls, eng, atoms, cancelled, session, risen, packets, fails,
                   taps>>
StopCompletes ==
    /\ prov.pc = "stopped" /\ Gone
    /\ UNCHANGED <<controller, calls, session, risen, fails, taps>>

\* The OS ends a process at any point: the extension, or the app and its chains.
ExtensionDies ==
    /\ prov.pc # "none" /\ Fault("death") /\ Gone
    /\ UNCHANGED <<controller, calls, session, risen, taps>>
AppDies ==
    /\ chains # <<>> /\ Fault("death") /\ chains' = <<>>
    /\ UNCHANGED <<installed, prefs, pending, done, conn, provider, packets, taps>>

Step ==
    \/ Activate \/ Activated \/ StartVpn \/ StopVpn \/ Commit
    \/ \E i \in DOMAIN chains : \/ ChainPrepare(i) \/ ChainLoad(i) \/ ChainSave(i)
                               \/ ChainStart(i) \/ ChainStop(i)
    \/ OsStarts \/ StartTunnel \/ StoreHandle \/ EngineConnected \/ EngineFails
    \/ SettingsApplied \/ ReadPackets \/ IngestPacket \/ IngestFreed
    \/ EngineTake \/ EngineSend \/ EngineBreaks \/ EngineEnds
    \/ StopTunnel \/ StopJoined \/ StopCompletes \/ ExtensionDies \/ AppDies
Next == Step /\ UNCHANGED scenario
Spec == Init /\ [][Next]_<<vars, scenario>>

-----------------------------------------------------------------------------
\* startTunnel's completion handler is called at most once, and a session is
\* shown connected only when its engine came up and its settings are applied.
ConnectedIsAttested ==
    /\ calls <= 1
    /\ conn = "connected" => session \in risen /\ calls = 1 /\ prov.settings # "none"

\* Packets reach the transport in the order they were read, none twice, and the
\* queue is bounded.  Until the engine's loop ends, every packet of the session is
\* sent, on its way or counted by nil_dropped_packets; its end loses at most the
\* queue and the packet being sent uncounted, as long as there is a handle to ask.
PacketsAccounted ==
    LET onTheWay == sent \o sending \o ingest
        known == Len(onTheWay) + dropped + (IF prov.holds THEN 1 ELSE 0)
    IN  /\ \A i, j \in DOMAIN onTheWay : i < j => onTheWay[i] < onTheWay[j]
        /\ Len(ingest) <= Capacity
        /\ eng \in {"none", "connecting", "running"} => known = offered
        /\ prov.tunnel # "freed" => offered - known \in 0..(Capacity + 1)

\* On iOS a pass is forgotten only for a tunnel brought up with it, unless the
\* user starts an old configuration from the settings meanwhile.
CommittedMeansRisen == "manual" \notin scenario.faults => done \subseteq risen

\* What the controller, the provider and the engine keep among them.
AppleInv == ConnectedIsAttested /\ PacketsAccounted /\ CommittedMeansRisen
=============================================================================
