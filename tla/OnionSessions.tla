--------------------------- MODULE OnionSessions ---------------------------
(***************************************************************************)
(* The tasks behind a multi-hop tunnel (nil-transport masque, pqwg, path): *)
(* one MASQUE driver per hop, a PQ-WireGuard pump where the hop has a      *)
(* WireGuard key, and the packet pumps of the datapath on the exit         *)
(* session.  Hop i+1's QUIC packets ride the carrier of hop i: its PQ      *)
(* session, else its MASQUE session.  One tunnel, from connect to close,   *)
(* while nodes fall silent or end their connection.  What grants and       *)
(* passes do is in PassRedemption.                                         *)
(***************************************************************************)
EXTENDS Integers, FiniteSets

CONSTANTS
    PathHops,     \* number of hops, at least one
    PqHops,       \* hops with a wg_pub
    Failing,      \* hops whose node may fall silent or close
    MaxFaults     \* bound on failures

HopNumbers == 1..PathHops

ASSUME OnionAssumption ==
    /\ PathHops \in Nat \ {0} /\ PqHops \subseteq HopNumbers /\ Failing \subseteq HopNumbers
    /\ MaxFaults \in Nat

VARIABLES
    pathAt,     \* PathTransport: "idle", "dial", "wrap", "up", "close" or "done"
    hop,        \* the hop it dials, wraps or closes next
    driver,     \* each hop's driver task: "none", "shaking", "ready" or "gone"
    session,    \* MasqueTransport::sessions: "none", "open", or "closed" and cancelled
    pq,         \* PqWgTransport::sessions, the same
    wgPump,     \* each PQ session's pump task: "none", "running" or "gone"
    pumps,      \* the datapath's pumps: "none", "running" or "dead"
    link,       \* each hop's node: "up", "silent", or "closed" the connection
    slot,       \* the address-pool slot at each node: "none", "held" or "free"
    nodeFaults  \* failures so far

onionVars == <<pathAt, hop, driver, session, pq, wgPump, pumps, link, slot, nodeFaults>>
taskVars == <<driver, wgPump, pumps>>
sessionMaps == <<session, pq>>
nodeVars == <<link, slot>>

OnionInit ==
    /\ pathAt = "idle" /\ hop = 1
    /\ driver = [i \in HopNumbers |-> "none"] /\ session = [i \in HopNumbers |-> "none"]
    /\ pq = [i \in HopNumbers |-> "none"] /\ wgPump = [i \in HopNumbers |-> "none"]
    /\ pumps = "none"
    /\ link = [i \in HopNumbers |-> "up"] /\ slot = [i \in HopNumbers |-> "none"]
    /\ nodeFaults = 0

Fault == nodeFaults < MaxFaults /\ nodeFaults' = nodeFaults + 1
NoFault == nodeFaults' = nodeFaults

\* recv on the carrier of hop i returns an error at once: the session is out of
\* its map, or the task that fed its channel has ended.
RecvFails(i) ==
    IF i \in PqHops
    THEN pq[i] # "open" \/ wgPump[i] = "gone"
    ELSE session[i] # "open" \/ driver[i] = "gone"

\* driver_run's select is biased: shutdown first, then the packet channel.  A
\* nested driver whose channel keeps failing takes that branch every time; its
\* QUIC timers, and its outbound and control queues, are not looked at.
Spins(i) == i > 1 /\ RecvFails(i - 1)

\* Packets of hop i's connection get to its node and back.
Carries(j) == driver[j] = "ready" /\ ~Spins(j) /\ ~RecvFails(j) /\ link[j] = "up"
Reaches(i) == link[i] = "up" /\ \A j \in 1..(i - 1) : Carries(j)
Working(i) == driver[i] = "ready" /\ ~Spins(i) /\ Reaches(i)

(***************************************************************************)
(* PathTransport::connect                                                  *)
(***************************************************************************)

\* The datapath asks for the tunnel.
ConnectPath ==
    /\ pathAt = "idle"
    /\ pathAt' = "dial"
    /\ UNCHANGED <<hop, taskVars, sessionMaps, nodeVars, nodeFaults>>

\* connect or connect_nested, up to the wait for the driver's answer.
Dial ==
    /\ pathAt = "dial" /\ hop <= PathHops /\ driver[hop] = "none"
    /\ driver' = [driver EXCEPT ![hop] = "shaking"]
    /\ UNCHANGED <<pathAt, hop, sessionMaps, wgPump, pumps, nodeVars, nodeFaults>>

\* The CONNECT-IP response arrived and the attestation holds.
Established ==
    /\ pathAt = "dial" /\ hop <= PathHops /\ driver[hop] = "shaking" /\ Reaches(hop)
    /\ driver' = [driver EXCEPT ![hop] = "ready"]
    /\ session' = [session EXCEPT ![hop] = "open"]
    /\ slot' = [slot EXCEPT ![hop] = "held"]
    /\ IF hop \in PqHops
       THEN pathAt' = "wrap" /\ UNCHANGED hop
       ELSE hop' = hop + 1 /\ UNCHANGED pathAt
    /\ UNCHANGED <<pq, wgPump, pumps, link, nodeFaults>>

\* Unwinding starts with the hop before the one that failed.
Unwind == pathAt' = "close" /\ hop' = hop - 1

\* The node refuses or fails its attestation: the driver says so and ends.
Refused ==
    /\ pathAt = "dial" /\ hop <= PathHops /\ driver[hop] = "shaking" /\ Reaches(hop) /\ Fault
    /\ driver' = [driver EXCEPT ![hop] = "gone"]
    /\ Unwind
    /\ UNCHANGED <<sessionMaps, wgPump, pumps, nodeVars>>

\* HANDSHAKE_TIMEOUT: the driver is told to stop.  The node may have answered.
HandshakeTimeout ==
    /\ pathAt = "dial" /\ hop <= PathHops /\ driver[hop] = "shaking"
    /\ IF Reaches(hop) THEN Fault ELSE NoFault
    /\ session' = [session EXCEPT ![hop] = "closed"]
    /\ \/ Reaches(hop) /\ slot' = [slot EXCEPT ![hop] = "held"]
       \/ UNCHANGED slot
    /\ Unwind
    /\ UNCHANGED <<taskVars, pq, link>>

\* wrap_session succeeded.
Wrapped ==
    /\ pathAt = "wrap" /\ Working(hop)
    /\ pq' = [pq EXCEPT ![hop] = "open"] /\ wgPump' = [wgPump EXCEPT ![hop] = "running"]
    /\ pathAt' = "dial" /\ hop' = hop + 1
    /\ UNCHANGED <<driver, pumps, session, nodeVars, nodeFaults>>

\* (Mutant: the MASQUE session of the hop is left to itself.)
WrapFailsOpen ==
    /\ pathAt = "wrap"
    /\ IF Working(hop) THEN Fault ELSE NoFault
    /\ Unwind
    /\ UNCHANGED <<taskVars, sessionMaps, nodeVars>>

\* The PQ exchange fails or times out: the hop's MASQUE session is closed first.
WrapFails ==
    /\ pathAt = "wrap"
    /\ IF Working(hop) THEN Fault ELSE NoFault
    /\ session' = [session EXCEPT ![hop] = "closed"]
    /\ Unwind
    /\ UNCHANGED <<taskVars, pq, nodeVars>>

\* The exit session is handed to the datapath.
TunnelUp ==
    /\ pathAt = "dial" /\ hop = PathHops + 1
    /\ pathAt' = "up" /\ pumps' = "running"
    /\ UNCHANGED <<hop, driver, wgPump, sessionMaps, nodeVars, nodeFaults>>

(***************************************************************************)
(* Closing: PathTransport::close and ::teardown, the innermost hop first.  *)
(***************************************************************************)

\* Tunnel::down stops its pumps before it closes the session.
TunnelDown ==
    /\ pathAt = "up"
    /\ pathAt' = "close" /\ hop' = PathHops /\ pumps' = "none"
    /\ UNCHANGED <<driver, wgPump, sessionMaps, nodeVars, nodeFaults>>

\* close only takes the session out of its map and cancels its task's token.
CloseHop ==
    /\ pathAt = "close" /\ hop > 0
    /\ session' = [session EXCEPT ![hop] = "closed"]
    /\ pq' = IF hop \in PqHops THEN [pq EXCEPT ![hop] = "closed"] ELSE pq
    /\ hop' = hop - 1
    /\ UNCHANGED <<pathAt, taskVars, nodeVars, nodeFaults>>

Closed ==
    /\ pathAt = "close" /\ hop = 0
    /\ pathAt' = "done"
    /\ UNCHANGED <<hop, taskVars, sessionMaps, nodeVars, nodeFaults>>

(***************************************************************************)
(* The tasks                                                               *)
(***************************************************************************)

\* (Mutant: the channel comes before the shutdown token.)
DriverStopsLast(i) ==
    /\ driver[i] \in {"shaking", "ready"} /\ session[i] = "closed" /\ ~Spins(i)
    /\ driver' = [driver EXCEPT ![i] = "gone"]
    /\ slot' = IF Reaches(i) /\ slot[i] = "held" THEN [slot EXCEPT ![i] = "free"] ELSE slot
    /\ UNCHANGED <<pathAt, hop, sessionMaps, wgPump, pumps, link, nodeFaults>>

\* shutdown.cancelled(): say good-bye through the channel, if it still carries.
DriverStops(i) ==
    /\ driver[i] \in {"shaking", "ready"} /\ session[i] = "closed"
    /\ driver' = [driver EXCEPT ![i] = "gone"]
    /\ slot' = IF Reaches(i) /\ slot[i] = "held" THEN [slot EXCEPT ![i] = "free"] ELSE slot
    /\ UNCHANGED <<pathAt, hop, sessionMaps, wgPump, pumps, link, nodeFaults>>

\* The node closed the connection or the request stream, or the idle timer
\* fired: conn.is_closed().  A silent node, a silent or closed hop on the way,
\* and a lost good-bye all come to the idle timer.
DriverNotices(i) ==
    /\ driver[i] = "ready" /\ ~Spins(i) /\ ~Reaches(i)
    /\ driver' = [driver EXCEPT ![i] = "gone"]
    /\ UNCHANGED <<pathAt, hop, sessionMaps, wgPump, pumps, nodeVars, nodeFaults>>

\* (Mutant: the pump goes on when the MASQUE session has ended.)
PumpEndsCancelled(i) ==
    /\ wgPump[i] = "running" /\ pq[i] = "closed"
    /\ wgPump' = [wgPump EXCEPT ![i] = "gone"]
    /\ UNCHANGED <<pathAt, hop, driver, pumps, sessionMaps, nodeVars, nodeFaults>>

\* pump: cancelled, or the MASQUE session's channel is at its end.
PumpEnds(i) ==
    /\ wgPump[i] = "running"
    /\ pq[i] = "closed" \/ session[i] = "closed" \/ driver[i] = "gone"
    /\ wgPump' = [wgPump EXCEPT ![i] = "gone"]
    /\ UNCHANGED <<pathAt, hop, driver, pumps, sessionMaps, nodeVars, nodeFaults>>

\* spawn_pumps: recv on the exit session fails.
DatapathDies ==
    /\ pathAt = "up" /\ pumps = "running" /\ RecvFails(PathHops)
    /\ pumps' = "dead"
    /\ UNCHANGED <<pathAt, hop, driver, wgPump, sessionMaps, nodeVars, nodeFaults>>

(***************************************************************************)
(* The nodes                                                               *)
(***************************************************************************)

\* A node, or the way to it, stops answering.
FallsSilent(i) ==
    /\ link[i] = "up" /\ Fault
    /\ link' = [link EXCEPT ![i] = "silent"]
    /\ UNCHANGED <<pathAt, hop, taskVars, sessionMaps, slot>>

\* A node ends the connection and says so.
NodeCloses(i) ==
    /\ link[i] = "up" /\ slot[i] = "held" /\ Fault
    /\ link' = [link EXCEPT ![i] = "closed"]
    /\ slot' = [slot EXCEPT ![i] = "free"]
    /\ UNCHANGED <<pathAt, hop, taskVars, sessionMaps>>

\* A node's idle timeout.
NodeIdles(i) ==
    /\ slot[i] = "held" /\ ~Working(i)
    /\ slot' = [slot EXCEPT ![i] = "free"]
    /\ UNCHANGED <<pathAt, hop, taskVars, sessionMaps, link, nodeFaults>>

Path == Dial \/ Established \/ Refused \/ HandshakeTimeout \/ Wrapped \/ WrapFails \/ TunnelUp
        \/ CloseHop \/ Closed
Task(i) == DriverStops(i) \/ DriverNotices(i) \/ PumpEnds(i)
OnionNext ==
    \/ ConnectPath \/ Path \/ TunnelDown \/ DatapathDies
    \/ \E i \in HopNumbers : Task(i) \/ NodeIdles(i)
    \/ \E i \in Failing : FallsSilent(i) \/ NodeCloses(i)

OnionSpec == OnionInit /\ [][OnionNext]_onionVars

-----------------------------------------------------------------------------
\* Type invariant.
OnionTypeOK ==
    /\ pathAt \in {"idle", "dial", "wrap", "up", "close", "done"} /\ hop \in 0..(PathHops + 1)
    /\ driver \in [HopNumbers -> {"none", "shaking", "ready", "gone"}]
    /\ session \in [HopNumbers -> {"none", "open", "closed"}]
    /\ pq \in [HopNumbers -> {"none", "open", "closed"}]
    /\ wgPump \in [HopNumbers -> {"none", "running", "gone"}]
    /\ pumps \in {"none", "running", "dead"}
    /\ link \in [HopNumbers -> {"up", "silent", "closed"}]
    /\ slot \in [HopNumbers -> {"none", "held", "free"}]
    /\ nodeFaults \in 0..MaxFaults

\* A connect that failed, or a close, leaves no session in any map: no partial
\* onion lingers (PathTransport::connect's unwinding).
NoPartialOnion == pathAt = "done" => \A i \in HopNumbers : session[i] # "open" /\ pq[i] # "open"

\* A tunnel is handed out only with every hop established, and as long as nobody
\* closes it its sessions stay registered.
UpMeansWhole ==
    pathAt = "up" => \A i \in HopNumbers : session[i] = "open" /\ (i \in PqHops => pq[i] = "open")

\* Nothing of a path is left, here or at the nodes.
Released ==
    /\ pathAt = "done"
    /\ \A i \in HopNumbers :
          driver[i] \in {"none", "gone"} /\ wgPump[i] # "running" /\ slot[i] # "held"

\* PathTransport::connect and ::close are decided whichever node fails, and unless
\* the tunnel is up every task ends and every node gets its address-pool slot back,
\* in whatever order the tasks see their tokens and their carriers vanish.
PathSettles == pathAt \in {"dial", "wrap", "close"} ~> (pathAt = "up" \/ Released)

\* An exit that falls silent or closes surfaces as a transport error to the
\* datapath's pumps, unless the tunnel is closed first (spawn_pumps, and what the
\* datapath's watchdog waits for), or the carrier of an inner hop has ended: that
\* hop's driver then spins and nobody hears of it.
DeadTunnelSurfaces ==
    (pathAt = "up" /\ link[PathHops] # "up")
        ~> (pumps = "dead" \/ pathAt # "up" \/ \E i \in HopNumbers : Spins(i))

\* Which hop is at work in which stage; the datapath's pumps run only on a whole
\* tunnel.
StageFits ==
    /\ pathAt \in {"idle", "dial", "wrap", "up"} => hop >= 1
    /\ pathAt = "idle" => hop = 1
    /\ pathAt = "up" => hop = PathHops + 1
    /\ pathAt \in {"wrap", "close", "done"} => hop <= PathHops
    /\ pathAt = "done" => hop = 0
    /\ pumps # "none" <=> pathAt = "up"

\* connect builds the hops from the first on and close takes them down from the
\* last: the hops on one side of the one at work are whole, on the other untouched
\* or out of their maps.
InOrder(i) ==
    /\ pq[i] # "none" => i \in PqHops
    /\ pathAt \in {"idle", "dial", "wrap", "up"} =>
           /\ i < hop => session[i] = "open" /\ (i \in PqHops => pq[i] = "open")
           /\ i >= hop => pq[i] = "none"
           /\ i > hop => driver[i] = "none" /\ session[i] = "none"
    /\ i = hop =>
           /\ pathAt = "idle" => driver[i] = "none"
           /\ pathAt \in {"idle", "dial"} => session[i] = "none"
           /\ pathAt = "wrap" => i \in PqHops /\ session[i] = "open"
    /\ pathAt \in {"close", "done"} /\ i > hop => session[i] # "open" /\ pq[i] # "open"
HopsInOrder == StageFits /\ \A i \in HopNumbers : InOrder(i)

\* A running driver or pump has a session whose token stops it, but for the driver
\* a connect is waiting for.
CanBeStopped(i) ==
    /\ driver[i] \in {"shaking", "ready"} => session[i] # "none" \/ (pathAt = "dial" /\ i = hop)
    /\ session[i] = "open" => driver[i] \in {"ready", "gone"}
    /\ wgPump[i] = "running" => pq[i] # "none"
TasksHaveSessions == \A i \in HopNumbers : CanBeStopped(i)

\* After a failed connect or a close every task that still runs has been told to
\* stop (MasqueTransport::close, PqWgTransport::close): none is left to itself.
NoOrphanTask ==
    pathAt = "done" =>
        \A i \in HopNumbers :
            /\ driver[i] \in {"shaking", "ready"} => session[i] = "closed"
            /\ wgPump[i] = "running" => pq[i] = "closed"

\* PathTransport::connect hands out whole tunnels; its unwinding and ::close leave
\* no session in any map and no task that was not told to stop.
OnionInv ==
    /\ OnionTypeOK /\ HopsInOrder /\ TasksHaveSessions
    /\ NoPartialOnion /\ UpMeansWhole /\ NoOrphanTask
=============================================================================
