---------------------------- MODULE AndroidShell ----------------------------
(***************************************************************************)
(* The Android client: the Tauri app process (the extension_* commands of  *)
(* client/src-tauri/src/lib.rs over the Kotlin plugin NilVpnPlugin), the   *)
(* separate :vpn process (NilVpnService, whose engine is nil-android over  *)
(* Tunnel::up_with_fd), and what connects them: intents the OS delivers to *)
(* the service's main thread in order, one status file, and a file lock    *)
(* (the lease) that the kernel releases when the service process dies.     *)
(* Either process may die at any step; the vault survives.                 *)
(***************************************************************************)
EXTENDS Integers, Sequences, FiniteSets, SequencesExt

CONSTANT Scenarios  \* see Init

FaultKinds ==
    {"fail",     \* connect, attestation, establish or startForeground fails
     "store",    \* the vault cannot record the completion
     "pump",     \* a pump of the engine exits
     "slow",     \* a poll outlasts the second that teardown waits for it
     "lease",    \* onCreate cannot take the lease (a status probe holds it)
     "revoke",   \* the user or another VPN revokes the VPN permission
     "service",  \* the :vpn process is killed
     "app",      \* the app process is killed
     "age"}      \* thirty seconds pass without a heartbeat

VARIABLES
    scenario,  \* rigid: [faults, answer, pins, key, build, fails, taps]
    cmd,       \* the command holding the lifecycle mutex: [op, pc, id]
    attempt,   \* the reservation id the WebView polls, 0 when none
    vault,     \* [stock, pending, last]: TokenStore, reservation ids as numbers
    seen,      \* history: the last status the plugin gave, with the truth then
    consent,   \* VpnService.prepare() returns null
    record,    \* the status file: [state, id, fresh, inc]
    lease,     \* the incarnation whose lock is held, 0 when none
    looper,    \* messages for the service's main thread, in order
    bound,     \* the OS has a service record
    sticky,    \* what the last onStartCommand returned
    svc,       \* the NilVpnService instance
    main,      \* where the main thread is: "loop", "native", "join", "free", "after"
    poller,    \* the poll thread: [pc, state, id, inc]
    tun,       \* who owns the TUN descriptor
    engine,    \* the engine behind the handle: "none", "up", "dead" or "freed"
    risen,     \* history: reservations whose engine came up
    done,      \* history: reservations committed
    incs,      \* incarnations created so far
    fails, taps  \* faults and user actions so far

app == <<cmd, attempt, vault, seen, done>>
service == <<svc, main, poller, tun, engine, risen, sticky, incs, lease>>
vars == <<app, consent, record, looper, bound, service, fails, taps>>

NoCmd == [op |-> "idle", pc |-> "idle", id |-> 0]
NoService == [made |-> FALSE, inc |-> 0, handle |-> FALSE, pfd |-> FALSE, running |-> FALSE,
              stopping |-> FALSE, torndown |-> FALSE, id |-> 0, after |-> "loop"]
NoPoll == [pc |-> "none", state |-> "down", id |-> 0, inc |-> 0]
Msg(kind, id) == [kind |-> kind, id |-> id]

Fault(kind) ==
    kind \in scenario.faults /\ fails < scenario.fails /\ fails' = fails + 1
NoFault == fails' = fails
\* A user action of the behaviour's budget.
Tap == taps < scenario.taps /\ taps' = taps + 1
Passes == 2    \* in the vault at first

Init ==
    /\ scenario \in Scenarios
    /\ cmd = NoCmd /\ attempt = 0 /\ consent \in BOOLEAN
    /\ vault = [stock |-> Passes, pending |-> 0, last |-> 0]
    /\ seen = [state |-> "down", id |-> 0, real |-> TRUE]
    /\ record = [state |-> "down", id |-> 0, fresh |-> FALSE, inc |-> 0]
    /\ lease = 0 /\ looper = <<>> /\ bound = FALSE /\ sticky = FALSE
    /\ svc = NoService /\ main = "loop" /\ poller = NoPoll
    /\ tun = "none" /\ engine = "none" /\ risen = {} /\ done = {}
    /\ incs = 0 /\ fails = 0 /\ taps = 0

-----------------------------------------------------------------------------
(* What the path service answered, and what is made of it.                 *)

\* start_args_from_response_with_trust: exactly one hop, not TDX, measured,
\* measurement and log key as the client's independent anchors want them,
\* SPKI well-formed, grant and nonce together or not at all.
StartArgsUsable(a) ==
    /\ a.hops = 1 /\ a.tee # "tdx"
    /\ a.measurement # "none" /\ (scenario.pins # {} => a.measurement \in scenario.pins)
    /\ a.key # "malformed" /\ (scenario.key # "none" => a.key = scenario.key)
    /\ a.spki # "malformed"
    /\ a.grant \in {"both", "none"}

\* The log key that crosses the bridge: the client's own where it has one.
BridgedKey == IF scenario.key # "none" THEN scenario.key ELSE scenario.answer.key

\* The gates of nativeStart, all before the descriptor is adopted: the policy
\* parses, a packaged engine has the log key, the measurement has 48 bytes;
\* grant and nonce come together.
PolicyAccepted(a) ==
    /\ a.tee # "tdx"
    /\ scenario.build = "release" => BridgedKey # "none"
    /\ a.measurement # "short"
GrantPaired(a) == a.grant \in {"both", "none"}
NativeAccepts(a) == PolicyAccepted(a) /\ GrantPaired(a)

-----------------------------------------------------------------------------
(* NilVpnPlugin                                                            *)

\* startForegroundService and startService: a message for the service, which
\* the OS creates first when it has none.
Dispatch(kind, id) ==
    /\ looper' = looper \o (IF bound THEN <<>> ELSE <<Msg("create", 0)>>) \o <<Msg(kind, id)>>
    /\ bound' = TRUE

\* liveVpnServiceIncarnation: the lock is held, by the writer of the record.
SameLiveService == lease # 0 /\ lease = record.inc

\* statusVpn.
VpnState ==
    CASE record.state = "down" -> "down"
      [] ~record.fresh -> "dead"
      [] record.state = "connecting" -> "connecting"
      [] SameLiveService -> record.state
      [] OTHER -> "dead"
VpnReservation ==
    IF record.fresh /\ (SameLiveService \/ VpnState = "connecting") THEN record.id ELSE 0

\* The plugin's answer to the command, with what the service really was.
ReadStatus ==
    seen' = [state |-> VpnState, id |-> VpnReservation,
             real |-> svc.handle /\ engine \in {"up", "dead"} /\ svc.id = VpnReservation]

\* stopVpn, the last step of a command that gives up; and of Disconnect.
StopVpn ==
    /\ cmd.pc = "stop"
    /\ Dispatch("stop", 0) /\ cmd' = NoCmd
    /\ UNCHANGED <<attempt, vault, seen, done, consent, record, service, fails, taps>>

-----------------------------------------------------------------------------
(* The commands of the app                                                 *)

At(pc) == cmd' = [cmd EXCEPT !.pc = pc]

\* extension_connect: the current status first.  A dead session is stopped
\* before anything is redeemed.
ConnectBegin ==
    /\ cmd = NoCmd /\ Tap /\ ReadStatus
    /\ cmd' = CASE VpnState = "down" -> [op |-> "connect", pc |-> "prepare", id |-> 0]
                [] VpnState = "dead" -> [op |-> "connect", pc |-> "stop", id |-> 0]
                [] OTHER -> NoCmd
    /\ UNCHANGED <<attempt, vault, done, consent, record, looper, bound, service, fails>>

\* prepareVpn: without consent the dialog is shown and nothing is reserved.
ConnectPrepare ==
    /\ cmd.pc = "prepare"
    /\ \/ consent /\ At("reserve") /\ UNCHANGED consent
       \/ ~consent /\ cmd' = NoCmd /\ consent' \in BOOLEAN
    /\ UNCHANGED <<attempt, vault, seen, done, record, looper, bound, service, fails, taps>>

\* prepare_extension_start up to the reservation: a packaged build refuses
\* first; a pending reservation is returned again.
ConnectReserve ==
    /\ cmd.pc = "reserve"
    /\ \/ /\ scenario.build = "debug" /\ vault.pending + vault.stock > 0
          /\ vault' = IF vault.pending # 0 THEN vault
                      ELSE [vault EXCEPT !.pending = 1 + Passes - vault.stock, !.stock = @ - 1]
          /\ cmd' = [cmd EXCEPT !.pc = "redeem", !.id = vault'.pending]
       \/ /\ scenario.build = "release" \/ vault.pending + vault.stock = 0
          /\ cmd' = NoCmd /\ UNCHANGED vault
    /\ UNCHANGED <<attempt, seen, done, consent, record, looper, bound, service, fails, taps>>

\* resolve_start_args: an unreachable path service or an unusable path keeps
\* the reservation.
ConnectRedeem ==
    /\ cmd.pc = "redeem"
    /\ \/ StartArgsUsable(scenario.answer) /\ At("start") /\ NoFault
       \/ ~StartArgsUsable(scenario.answer) /\ cmd' = NoCmd /\ NoFault
       \/ Fault("fail") /\ cmd' = NoCmd
    /\ UNCHANGED <<attempt, vault, seen, done, consent, record, looper, bound, service, taps>>

\* startVpn: "connecting" is published before the service is dispatched;
\* when it is rejected the command stops what may have started.
ConnectStart ==
    /\ cmd.pc = "start"
    /\ \/ /\ consent
          /\ record' = [state |-> "connecting", id |-> cmd.id, fresh |-> TRUE, inc |-> 0]
          /\ Dispatch("start", cmd.id)
          /\ attempt' = cmd.id /\ cmd' = NoCmd
       \/ /\ ~consent /\ At("stop") /\ UNCHANGED <<attempt, record, looper, bound>>
    /\ UNCHANGED <<vault, seen, done, consent, service, fails, taps>>

\* redemption_binding: the pending reservation, else the last completed one.
Binding == IF vault.pending # 0 THEN vault.pending ELSE vault.last

\* The reservation a status must echo: the one the WebView polls for, or the
\* one the vault is bound to.
Expected(op) == IF op = "poll" THEN attempt ELSE Binding

\* extension_connection_status and extension_status up to the decision: what
\* is up or connecting must be this reservation's; only "up" goes on.
StatusBegin(op) ==
    /\ cmd = NoCmd /\ Tap /\ ReadStatus
    /\ op = "poll" => attempt # 0
    /\ LET id == Expected(op)
           matches == id # 0 /\ VpnReservation = id
           ghost == op = "status" /\ VpnState = "connecting" /\ vault.pending = 0
       IN  cmd' = CASE VpnState \in {"down", "dead"} -> NoCmd
                    [] ~matches \/ ghost -> [op |-> op, pc |-> "stop", id |-> 0]
                    [] VpnState = "connecting" \/ (op = "status" /\ vault.pending = 0) -> NoCmd
                    [] OTHER -> [op |-> op, pc |-> "commit", id |-> id]
    /\ UNCHANGED <<attempt, vault, done, consent, record, looper, bound, service, fails>>

\* commit_redemption: of the pending reservation it names; the last completed
\* one may be named again while nothing is pending; an error stops the VPN.
StatusCommit ==
    /\ cmd.pc = "commit"
    /\ \/ /\ vault.pending = cmd.id /\ NoFault
          /\ vault' = [vault EXCEPT !.pending = 0, !.last = cmd.id]
          /\ done' = done \cup {cmd.id} /\ cmd' = NoCmd
       \/ /\ vault.pending # cmd.id /\ NoFault
          /\ cmd' = IF vault.pending = 0 /\ vault.last = cmd.id THEN NoCmd
                    ELSE [cmd EXCEPT !.pc = "stop"]
          /\ UNCHANGED <<vault, done>>
       \/ Fault("store") /\ At("stop") /\ UNCHANGED <<vault, done>>
    /\ UNCHANGED <<attempt, seen, consent, record, looper, bound, service, taps>>

\* extension_disconnect.
DisconnectBegin ==
    /\ cmd = NoCmd /\ Tap
    /\ cmd' = [op |-> "disconnect", pc |-> "stop", id |-> 0]
    /\ UNCHANGED <<attempt, vault, seen, done, consent, record, looper, bound, service, fails>>

\* replace_account and logout: the vault forgets its reservation (modelled in
\* CredentialVault), between any two steps of a command, since they do not take the
\* lifecycle mutex; a live native session is not touched.
AccountChange ==
    /\ Tap /\ vault # [stock |-> 0, pending |-> 0, last |-> 0]
    /\ vault' = [stock |-> 0, pending |-> 0, last |-> 0]
    /\ UNCHANGED <<cmd, attempt, seen, done, consent, record, looper, bound, service, fails>>

\* VpnConsentActivity: an intent with every extra but the reservation id.
ConsentActivity ==
    /\ cmd = NoCmd /\ Tap /\ consent /\ Dispatch("start", 0)
    /\ UNCHANGED <<app, consent, record, service, fails>>

-----------------------------------------------------------------------------
(* NilVpnService, on the main thread of the :vpn process                   *)

\* writeStatus, by an instance.
Write(state) ==
    record' = [state |-> state, id |-> svc.id, fresh |-> TRUE, inc |-> svc.inc]

Deliver(kind) ==
    /\ main = "loop" /\ looper # <<>> /\ Head(looper).kind = kind /\ looper' = Tail(looper)
\* stopSelf: the OS destroys the instance after what it has already delivered,
\* except while the TUN is open, when it stays bound.
StopSelf(queue, open) ==
    /\ looper' = IF bound /\ open = "none" THEN Append(queue, Msg("destroy", 0)) ELSE queue
    /\ bound' = (bound /\ open # "none")

\* onCreate: the lease and a random incarnation, or neither.
OnCreate ==
    /\ Deliver("create")
    /\ poller.pc = "none"     \* a poll that outlasts its instance ends before the next
    /\ \/ NoFault /\ incs' = incs + 1 /\ lease' = incs'
       \/ Fault("lease") /\ UNCHANGED <<incs, lease>>
    /\ svc' = [NoService EXCEPT !.made = TRUE, !.inc = lease']
    /\ UNCHANGED <<app, consent, record, bound, main, poller, tun, engine, risen, sticky, taps>>

\* (Mutant: a second start takes the session over.)
SessionIdle == TRUE

\* Nothing of an earlier session is still owned.
NoSession == ~svc.handle /\ ~svc.pfd /\ ~svc.running

\* onStart's refusals: without the lease; while a session owns resources (no
\* status, no stop); restarted by the OS without an intent; without a valid
\* reservation id; when startForeground or establish fails.
OnStartRefused ==
    /\ main = "loop" /\ looper # <<>> /\ Head(looper).kind \in {"start", "null"}
    /\ LET id == Head(looper).id
           restarted == Head(looper).kind = "null"
       IN  \/ /\ svc.inc = 0
              /\ NoFault /\ Write("down") /\ StopSelf(Tail(looper), tun) /\ UNCHANGED svc
           \/ /\ svc.inc # 0 /\ ~NoSession
              /\ NoFault /\ looper' = Tail(looper) /\ UNCHANGED <<record, bound, svc>>
           \/ /\ svc.inc # 0 /\ NoSession /\ restarted
              /\ NoFault /\ Write("down") /\ looper' = Tail(looper) /\ UNCHANGED <<bound, svc>>
           \/ /\ svc.inc # 0 /\ NoSession /\ ~restarted
              /\ \/ id = 0 /\ NoFault
                 \/ id # 0 /\ Fault("fail")
                 \/ id # 0 /\ ~consent /\ NoFault      \* establish() returns null
              /\ svc' = [svc EXCEPT !.id = id]
              /\ record' = [state |-> "down", id |-> id, fresh |-> TRUE, inc |-> svc.inc]
              /\ StopSelf(Tail(looper), tun)
    /\ sticky' = FALSE
    /\ UNCHANGED <<app, consent, lease, main, poller, tun, engine, risen, incs, taps>>

\* onStart up to nativeStart: "connecting", and the TUN captures all traffic.
OnStart ==
    /\ Deliver("start") /\ Head(looper).id # 0
    /\ svc.inc # 0 /\ NoSession /\ consent
    /\ svc' = [svc EXCEPT !.id = Head(looper).id, !.pfd = TRUE]
    /\ record' = [state |-> "connecting", id |-> Head(looper).id, fresh |-> TRUE, inc |-> svc.inc]
    /\ tun' = "engine" /\ main' = "native"
    /\ UNCHANGED <<app, consent, bound, lease, poller, engine, risen, sticky, incs, fails, taps>>

\* Tunnel::up_with_fd adopts the descriptor before it dials, so a failure (or
\* an address other than the one the TUN already has) closes it.
UpWithFd(up) ==
    \/ up /\ NoFault /\ UNCHANGED tun
    \/ ~up /\ Fault("fail") /\ tun' = "none"

\* nativeStart: refused before the descriptor is adopted (it
\* then stays open, and nobody owns it), failed after (it is closed), or up;
\* then the health poll begins.
NativeStart ==
    /\ main = "native" /\ main' = "loop"
    /\ \/ /\ NativeAccepts(scenario.answer) /\ UpWithFd(TRUE)
          /\ engine' = "up" /\ risen' = risen \cup {svc.id}
          /\ svc' = [svc EXCEPT !.handle = TRUE, !.running = TRUE]
          /\ poller' = [pc |-> "sleep", state |-> "up", id |-> svc.id, inc |-> svc.inc]
          /\ Write("up") /\ sticky' = TRUE /\ UNCHANGED <<looper, bound>>
       \/ /\ \/ NativeAccepts(scenario.answer) /\ UpWithFd(FALSE)
             \/ ~NativeAccepts(scenario.answer) /\ NoFault /\ tun' = "lost"
          /\ Write("down") /\ sticky' = FALSE
          /\ StopSelf(looper, tun')
          /\ UNCHANGED <<svc, poller, engine, risen>>
    /\ UNCHANGED <<app, consent, lease, incs, taps>>

\* The poll thread still belongs to the instance, whose teardown has not begun.
Polling == svc.inc = poller.inc /\ ~svc.stopping

\* startPolling's loop: wake and enter nativeStatus with the handle; leave it,
\* and go on to publish unless teardown has begun; publish, and sleep again.
PollWake ==
    /\ poller.pc = "sleep" /\ poller' = [poller EXCEPT !.pc = "native"]
    /\ UNCHANGED <<app, consent, record, looper, bound, svc, main, tun, engine, risen, sticky,
                   incs, lease, fails, taps>>
PollStatus ==
    /\ poller.pc = "native"
    /\ poller' = IF Polling
                 THEN [poller EXCEPT !.pc = "publish", !.state = IF engine = "up" THEN "up" ELSE "dead"]
                 ELSE NoPoll
    /\ UNCHANGED <<app, consent, record, looper, bound, svc, main, tun, engine, risen, sticky,
                   incs, lease, fails, taps>>
PollPublish ==
    /\ poller.pc = "publish"
    /\ record' = [state |-> poller.state, id |-> poller.id, fresh |-> TRUE,
                  inc |-> IF svc.inc = poller.inc THEN svc.inc ELSE 0]
    /\ poller' = IF Polling /\ svc.running THEN [poller EXCEPT !.pc = "sleep"] ELSE NoPoll
    /\ UNCHANGED <<app, consent, looper, bound, svc, main, tun, engine, risen, sticky, incs,
                   lease, fails, taps>>

\* teardown, from ACTION_STOP, onRevoke and onDestroy: once per instance.
TeardownBegin ==
    /\ main = "loop" /\ looper # <<>> /\ Head(looper).kind \in {"stop", "revoke", "destroy"}
    /\ looper' = Tail(looper)
    /\ svc' = [svc EXCEPT !.after = Head(looper).kind, !.torndown = TRUE,
                          !.stopping = svc.stopping \/ ~svc.torndown,
                          !.running = svc.running /\ svc.torndown]
    /\ main' = IF svc.torndown THEN "after" ELSE "join"
    /\ poller' = IF poller.pc = "sleep" THEN NoPoll ELSE poller     \* interrupt()
    /\ UNCHANGED <<app, consent, record, bound, tun, engine, risen, sticky, incs, lease,
                   fails, taps>>

\* The poll thread has ended, or one second has passed; the terminal status.
TeardownJoined ==
    /\ main = "join" /\ main' = "free"
    /\ \/ poller.pc = "none" /\ NoFault
       \/ poller.pc # "none" /\ Fault("slow")
    /\ Write("down")
    /\ UNCHANGED <<app, consent, looper, bound, svc, poller, tun, engine, risen, sticky, incs,
                   lease, taps>>

\* nativeStop takes the tunnel down and frees the engine, whose descriptor
\* closes with it; closing the detached one does nothing; the lease goes last.
TeardownFree ==
    /\ main = "free" /\ main' = "after"
    /\ engine' = IF svc.handle THEN "freed" ELSE engine
    /\ tun' = IF tun = "lost" THEN "lost" ELSE "none"
    /\ svc' = [svc EXCEPT !.handle = FALSE, !.pfd = FALSE, !.inc = 0]
    /\ lease' = 0
    /\ UNCHANGED <<app, consent, record, looper, bound, poller, risen, sticky, incs, fails, taps>>

\* What the callback does after teardown: stopSelf, or the instance is gone.
TeardownAfter ==
    /\ main = "after" /\ main' = "loop"
    /\ IF svc.after = "destroy"
       THEN svc' = NoService /\ engine' = "none" /\ UNCHANGED <<looper, bound, sticky, tun>>
       ELSE /\ UNCHANGED <<svc, engine, tun>>
            /\ sticky' = (sticky /\ svc.after # "stop")
            /\ StopSelf(looper, tun)
    /\ UNCHANGED <<app, consent, record, poller, risen, incs, lease, fails, taps>>

-----------------------------------------------------------------------------
(* Faults                                                                  *)

\* A pump exits: the engine lives on, the TUN blackholes.
PumpDies ==
    /\ engine = "up" /\ Fault("pump") /\ engine' = "dead"
    /\ UNCHANGED <<app, consent, record, looper, bound, svc, main, poller, tun, risen, sticky,
                   incs, lease, taps>>

\* The permission is withdrawn; an instance that holds it is told.
Revoke ==
    /\ consent /\ Fault("revoke") /\ consent' = FALSE
    /\ looper' = IF tun = "none" THEN looper ELSE Append(looper, Msg("revoke", 0))
    /\ UNCHANGED <<app, record, bound, service, taps>>

\* No heartbeat for STATUS_MAX_AGE_MS.
Age ==
    /\ record.fresh /\ poller.pc = "none" /\ Fault("age")
    /\ record' = [record EXCEPT !.fresh = FALSE]
    /\ UNCHANGED <<app, consent, looper, bound, service, taps>>

\* The :vpn process is killed: lock, engine and descriptor go with it, and a
\* sticky service is created again without an intent.
ServiceDies ==
    /\ svc.made /\ Fault("service")
    /\ svc' = NoService /\ main' = "loop" /\ poller' = NoPoll
    /\ tun' = "none" /\ engine' = "none" /\ lease' = 0
    /\ looper' = IF sticky /\ bound THEN <<Msg("create", 0), Msg("null", 0)>> ELSE <<>>
    /\ bound' = (sticky /\ bound) /\ sticky' = FALSE
    /\ UNCHANGED <<app, consent, record, risen, incs, taps>>

\* The app process is killed: the command in flight and the WebView are lost.
AppDies ==
    /\ cmd # NoCmd \/ attempt # 0
    /\ Fault("app") /\ cmd' = NoCmd /\ attempt' = 0
    /\ UNCHANGED <<vault, seen, done, consent, record, looper, bound, service, taps>>

Step ==
    \/ ConnectBegin \/ ConnectPrepare \/ ConnectReserve \/ ConnectRedeem \/ ConnectStart
    \/ \E op \in {"poll", "status"} : StatusBegin(op)
    \/ StatusCommit \/ DisconnectBegin \/ StopVpn \/ AccountChange \/ ConsentActivity
    \/ OnCreate \/ OnStartRefused \/ OnStart \/ NativeStart
    \/ PollWake \/ PollStatus \/ PollPublish
    \/ TeardownBegin \/ TeardownJoined \/ TeardownFree \/ TeardownAfter
    \/ PumpDies \/ Revoke \/ Age \/ ServiceDies \/ AppDies
Next == Step /\ UNCHANGED scenario
Spec == Init /\ [][Next]_<<vars, scenario>>

-----------------------------------------------------------------------------
Orderly == "slow" \notin scenario.faults

\* A pass is forgotten only for a tunnel brought up with that reservation.
CommittedMeansRisen == done \subseteq risen

\* What the app is told is up really is: the instance that wrote it holds the
\* engine of that reservation.
UpIsReal == Orderly /\ seen.state = "up" => seen.real

\* The health poll never enters an engine that nativeStop has freed, and at
\* most the instance's own engine exists.
NoUseAfterFree == Orderly /\ poller.pc = "native" => engine \in {"up", "dead"}
OneEngine == engine \in {"up", "dead"} => svc.handle /\ tun = "engine"

\* Once an instance has published its terminal "down", nothing of it overwrites
\* that.
DownIsTerminal ==
    Orderly /\ main \in {"free", "after"} => record.state \in {"down", "connecting"}

\* An engine comes up only for a path that the client's own anchors allow.
AnchoredEngine ==
    risen # {} =>
        /\ scenario.build = "debug"
        /\ scenario.answer.tee # "tdx" /\ scenario.answer.hops = 1
        /\ scenario.pins # {} => scenario.answer.measurement \in scenario.pins
        /\ scenario.key # "none" => scenario.answer.key = scenario.key

\* What the app and the service promise each other, whatever dies between.
AndroidInv ==
    /\ CommittedMeansRisen /\ UpIsReal /\ NoUseAfterFree /\ OneEngine /\ DownIsTerminal
    /\ AnchoredEngine
=============================================================================
