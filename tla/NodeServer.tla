---------------------------- MODULE NodeServer -----------------------------
(***************************************************************************)
(* The single event loop of nil-node: QUIC connections behind Retry, one   *)
(* CONNECT-IP tunnel per connection, the inner address pool, the routes    *)
(* from inner addresses to connections, and the reaping of closed          *)
(* connections at the end of each turn of the loop.                        *)
(*                                                                         *)
(* A turn handles one event of tokio::select!, then drives every           *)
(* connection, then reaps.  Connections that close in a turn are still     *)
(* present while the others are driven; select! never sees them.           *)
(***************************************************************************)
EXTENDS Integers, FiniteSets, FiniteSetsExt

CONSTANTS
    Conns,       \* connection ids (the SCID a client copies from the Retry)
    Peers,       \* validated source addresses
    Grants,      \* NWG2 grants for this node
    NextHop,     \* the signed onward socket of each grant, Anywhere at an exit
    Targets,     \* destinations a client's inner packet may carry
    First,       \* the first assignable host of the pool
    Gateway,     \* the node's own inner address
    Subnet,      \* inner addresses the TUN and the NAT rules cover
    Strangers,   \* further inner sources a client may write into a packet
    MaxConnections, MaxPerIp, MaxLearned,
    Setups       \* how a node may be set up: see setup

VARIABLES
    conn,     \* per id: "absent", "open" or "closed" (not yet reaped)
    peer,     \* Client.peer_ip
    tunnel,   \* CONNECT-IP stream: "none", "up" or "finished"
    policy,   \* PacketPolicy of the accepted grant
    addr,     \* Client.assigned_ip
    pq,       \* "off", "pending" or "ready": the inner PQ-WireGuard responder
    cursor, inUse, byConn,   \* AddressPool
    routes,   \* client_routes
    spent,    \* grants the replay cache has consumed
    toTun,    \* the packet just written to the TUN
    toClient, \* the reply just sent to a client
    setup     \* rigid: the last assignable host, and whether PQ-WireGuard is on

Last == setup.last
PqWg == setup.pqwg
Anywhere == "anywhere"
NoAddr == 0 - 1
Nobody == "nobody"
Hosts == First..Last
Sources == Hosts \cup Strangers

ASSUME ServerAssumption ==
    /\ First \in Nat
    /\ \A s \in Setups : s.last \in Nat /\ s.last >= First /\ s.pqwg \in {"off", "pending"}
    /\ Strangers \subseteq Nat /\ IsFiniteSet(Strangers) /\ IsFiniteSet(Conns)
    /\ NextHop \in [Grants -> Targets \cup {Anywhere}]
    /\ Nobody \notin Conns /\ Anywhere \notin Targets
    /\ MaxConnections \in Nat /\ MaxPerIp \in Nat /\ MaxLearned \in Nat

client == <<conn, peer, tunnel, policy, addr, pq>>
pool == <<cursor, inUse, byConn>>
vars == <<client, pool, routes, spent, toTun, toClient>>
allVars == <<vars, setup>>

Present == {c \in Conns : conn[c] # "absent"}
Quiet == toTun' = {} /\ toClient' = {}

Init ==
    /\ setup \in Setups
    /\ conn = [c \in Conns |-> "absent"]
    /\ peer = [c \in Conns |-> Nobody]
    /\ tunnel = [c \in Conns |-> "none"]
    /\ policy = [c \in Conns |-> Nobody]
    /\ addr = [c \in Conns |-> NoAddr]
    /\ pq = [c \in Conns |-> PqWg]
    /\ cursor = First
    /\ inUse = {Gateway} \cap Hosts
    /\ byConn = [c \in Conns |-> NoAddr]
    /\ routes = [a \in Sources |-> Nobody]
    /\ spent = {}
    /\ toTun = {}
    /\ toClient = {}

-----------------------------------------------------------------------------
(* AddressPool *)

Span == Last - First + 1
\* The d-th candidate from the cursor, wrapping round.
Candidate(d) == IF cursor + d > Last THEN cursor + d - Span ELSE cursor + d
\* How far the cursor moves to the first free address.
FreeAt == {d \in 0..(Span - 1) : Candidate(d) \notin inUse}

\* AddressPool::assign: the address for a new holder, NoAddr when exhausted.
Pick == IF FreeAt = {} THEN NoAddr ELSE Candidate(Min(FreeAt))

\* The pool after assigning `a`; an exhausted pool's cursor comes round to itself.
Assigned(c, a) ==
    /\ byConn' = [byConn EXCEPT ![c] = a]
    /\ inUse' = IF a = NoAddr THEN inUse ELSE inUse \cup {a}
    /\ cursor' = IF a = NoAddr THEN cursor ELSE IF a >= Last THEN First ELSE a + 1

\* Assigned and released again: only the cursor has moved.
AssignedInVain(a) ==
    /\ cursor' = IF a = NoAddr THEN cursor ELSE IF a >= Last THEN First ELSE a + 1
    /\ UNCHANGED <<inUse, byConn>>

\* AddressPool::release, for every connection of S.
Release(S) ==
    /\ byConn' = [c \in Conns |-> IF c \in S THEN NoAddr ELSE byConn[c]]
    /\ inUse' = inUse \ {byConn[c] : c \in S}
    /\ UNCHANGED cursor

-----------------------------------------------------------------------------
(* Events of select!: no closed connection is left from the previous turn *)

AllReaped == \A c \in Conns : conn[c] # "closed"

\* connection_capacity_available
Room(p) ==
    /\ Cardinality(Present) < MaxConnections
    /\ Cardinality({c \in Present : peer[c] = p}) < MaxPerIp

\* handle_packet: an Initial whose Retry token is valid for its source.
Accept(c, p) ==
    /\ AllReaped
    /\ conn[c] = "absent" /\ Room(p)
    /\ conn' = [conn EXCEPT ![c] = "open"]
    /\ peer' = [peer EXCEPT ![c] = p]
    /\ Quiet
    /\ UNCHANGED <<tunnel, policy, addr, pq, pool, routes, spent>>

\* A packet from the TUN goes to the connection its destination routes to.
Reply(a) ==
    /\ AllReaped
    /\ routes[a] # Nobody
    /\ tunnel[routes[a]] = "up"
    /\ toClient' = {[conn |-> routes[a], dst |-> a]}
    /\ toTun' = {}
    /\ UNCHANGED <<client, pool, routes, spent>>

\* A connection times out, fails or is closed by its peer.
Close(c) ==
    /\ conn[c] = "open"
    /\ conn' = [conn EXCEPT ![c] = "closed"]
    /\ Quiet
    /\ UNCHANGED <<peer, tunnel, policy, addr, pq, pool, routes, spent>>

-----------------------------------------------------------------------------
(* drive_h3 *)

\* CONNECT-IP on a connection without one; authorize_connect consumes the
\* grant, an address is assigned and the 200 goes out.  (Any other outcome of
\* authorize_connect, and a second CONNECT-IP, change nothing.)
Connect(c, g) ==
    /\ c \in Present /\ tunnel[c] = "none"
    /\ g \notin spent
    /\ spent' = spent \cup {g}
    /\ tunnel' = [tunnel EXCEPT ![c] = "up"]
    /\ policy' = [policy EXCEPT ![c] = NextHop[g]]
    /\ addr' = [addr EXCEPT ![c] = Pick]
    /\ Assigned(c, Pick)
    /\ routes' = IF Pick = NoAddr THEN routes ELSE [routes EXCEPT ![Pick] = c]
    /\ Quiet
    /\ UNCHANGED <<conn, peer, pq>>

\* (Mutant: the address is kept for a tunnel that never came up.)
ConnectUnsentKeeps(c, g) ==
    /\ c \in Present /\ tunnel[c] = "none"
    /\ g \notin spent
    /\ spent' = spent \cup {g}
    /\ Assigned(c, Pick)
    /\ Quiet
    /\ UNCHANGED <<client, routes>>

\* The same, but the 200 cannot be sent: the grant stays spent, the address
\* goes back and another CONNECT-IP may follow.
ConnectUnsent(c, g) ==
    /\ c \in Present /\ tunnel[c] = "none"
    /\ g \notin spent
    /\ spent' = spent \cup {g}
    /\ AssignedInVain(Pick)
    /\ Quiet
    /\ UNCHANGED <<client, routes>>

\* The control stream delivers a PQ offer: the responder is (re)built.
Offer(c) ==
    /\ c \in Present /\ tunnel[c] # "none" /\ pq[c] # "off"
    /\ pq' = [pq EXCEPT ![c] = "ready"]
    /\ Quiet
    /\ UNCHANGED <<conn, peer, tunnel, policy, addr, pool, routes, spent>>

\* Finished or Reset on the CONNECT-IP stream.
Finish(c) ==
    /\ c \in Present /\ tunnel[c] = "up"
    /\ tunnel' = [tunnel EXCEPT ![c] = "finished"]
    /\ policy' = [policy EXCEPT ![c] = Nobody]
    /\ Quiet
    /\ UNCHANGED <<conn, peer, addr, pq, pool, routes, spent>>

-----------------------------------------------------------------------------
(* Client datagrams to the TUN *)

\* PacketPolicy::admits
Admits(c, dst) == policy[c] = Anywhere \/ policy[c] = dst

\* learn_client_route: the packet's source is, or becomes, this client's.
Learns(c, src) ==
    \/ routes[src] = c
    \/ /\ routes[src] = Nobody
       /\ \/ addr[c] = src
          \/ /\ addr[c] = NoAddr
             /\ Cardinality({a \in Sources : routes[a] = c}) < MaxLearned

\* A datagram that decodes (and, on a PQ node, decapsulates) to an IP packet.
Datagram(c, src, dst) ==
    /\ c \in Present /\ tunnel[c] = "up"
    /\ pq[c] # "pending"
    /\ Admits(c, dst)
    /\ Learns(c, src)
    /\ routes' = [routes EXCEPT ![src] = c]
    /\ toTun' = {[conn |-> c, src |-> src, dst |-> dst]}
    /\ toClient' = {}
    /\ UNCHANGED <<client, pool, spent>>

-----------------------------------------------------------------------------
(* The end of a turn *)

\* The Client records of S are dropped.
Forget(S) ==
    /\ conn' = [c \in Conns |-> IF c \in S THEN "absent" ELSE conn[c]]
    /\ peer' = [c \in Conns |-> IF c \in S THEN Nobody ELSE peer[c]]
    /\ tunnel' = [c \in Conns |-> IF c \in S THEN "none" ELSE tunnel[c]]
    /\ policy' = [c \in Conns |-> IF c \in S THEN Nobody ELSE policy[c]]
    /\ addr' = [c \in Conns |-> IF c \in S THEN NoAddr ELSE addr[c]]
    /\ pq' = [c \in Conns |-> IF c \in S THEN PqWg ELSE pq[c]]

\* Closed connections leave, their addresses are released, their routes go.
Reap ==
    LET gone == {c \in Conns : conn[c] = "closed"} IN
    /\ gone # {}
    /\ Forget(gone)
    /\ Release(gone)
    /\ routes' = [a \in Sources |-> IF routes[a] \in gone THEN Nobody ELSE routes[a]]
    /\ Quiet
    /\ UNCHANGED spent

Step ==
    \/ \E c \in Conns, p \in Peers : Accept(c, p)
    \/ \E a \in Sources : Reply(a)
    \/ \E c \in Conns : Close(c) \/ Offer(c) \/ Finish(c)
    \/ \E c \in Conns, g \in Grants : Connect(c, g) \/ ConnectUnsent(c, g)
    \/ \E c \in Conns, src \in Sources, dst \in Targets : Datagram(c, src, dst)
    \/ Reap

Next == Step /\ UNCHANGED setup

Spec == Init /\ [][Next]_allVars

-----------------------------------------------------------------------------
(* Properties *)

\* Type invariant.
TypeOK ==
    /\ conn \in [Conns -> {"absent", "open", "closed"}]
    /\ peer \in [Conns -> Peers \cup {Nobody}]
    /\ tunnel \in [Conns -> {"none", "up", "finished"}]
    /\ policy \in [Conns -> Targets \cup {Anywhere, Nobody}]
    /\ addr \in [Conns -> Hosts \cup {NoAddr}]
    /\ pq \in [Conns -> {"off", "pending", "ready"}]
    /\ cursor \in Hosts
    /\ inUse \subseteq Hosts
    /\ byConn \in [Conns -> Hosts \cup {NoAddr}]
    /\ routes \in [Sources -> Conns \cup {Nobody}]
    /\ spent \subseteq Grants
    /\ \A t \in toTun : t.conn \in Conns /\ t.src \in Sources /\ t.dst \in Targets
    /\ \A t \in toClient : t.conn \in Conns /\ t.dst \in Sources
    /\ setup \in Setups

\* Connections that hold an inner address.
Holder(c) == addr[c] # NoAddr

\* The pool and the connections agree: an address is in use exactly while one
\* present connection holds it through a tunnel, no two hold the same, and
\* nothing leaks through failed responses, finished streams or closing.
PoolMirrorsTunnels ==
    /\ inUse = ({Gateway} \cap Hosts) \cup {addr[c] : c \in {x \in Conns : Holder(x)}}
    /\ byConn = addr
    /\ \A c \in Conns : Holder(c) => c \in Present /\ tunnel[c] # "none"
    /\ \A c, d \in Conns : Holder(c) /\ Holder(d) /\ addr[c] = addr[d] => c = d
    /\ \A c \in Conns : Holder(c) => addr[c] # Gateway

\* An assigned address routes to its holder and a holder has no other route,
\* even where clients without an address learned routes before; every route
\* belongs to a present connection with a tunnel, within the learning cap.
RoutesFollowTunnels ==
    /\ \A c \in Conns : Holder(c) => {a \in Sources : routes[a] = c} = {addr[c]}
    /\ \A a \in Sources : routes[a] # Nobody =>
          routes[a] \in Present /\ tunnel[routes[a]] # "none"
    /\ \A c \in Conns : c \in Present /\ addr[c] = NoAddr =>
          Cardinality({a \in Sources : routes[a] = c}) <= MaxLearned

\* The ceilings of connection_capacity_available hold in every turn.
Ceilings ==
    /\ Cardinality(Present) <= MaxConnections
    /\ \A p \in Peers : Cardinality({c \in Present : peer[c] = p}) <= MaxPerIp

\* What reaches the TUN comes through a granted tunnel, goes where its signed
\* policy says, and never carries an address assigned to another connection.
OnlyGrantedTraffic ==
    \A t \in toTun :
        /\ tunnel[t.conn] = "up"
        /\ \E g \in spent : NextHop[g] \in {Anywhere, t.dst}
        /\ policy[t.conn] \in {Anywhere, t.dst}
        /\ \A c \in Conns \ {t.conn} : Holder(c) => addr[c] # t.src

\* Only a present connection has a tunnel, and while it is up its policy is that of a
\* grant this node has consumed.
TunnelsAreGranted ==
    \A c \in Conns :
        /\ tunnel[c] # "none" => c \in Present
        /\ tunnel[c] = "up" => \E g \in spent : policy[c] = NextHop[g]

\* A reply is only sent through a live tunnel, and never to anyone but the
\* holder when its destination is an assigned address.
RepliesReachHolder ==
    \A t \in toClient :
        /\ conn[t.conn] = "open" /\ tunnel[t.conn] = "up"
        /\ \A c \in Conns : Holder(c) /\ addr[c] = t.dst => c = t.conn

\* With a pool at least as large as the connection ceiling the fallback
\* without an address is never taken.
EveryTunnelHasAddress ==
    Cardinality(Hosts \ {Gateway}) >= MaxConnections =>
        \A c \in Present : tunnel[c] # "none" => addr[c] # NoAddr

\* The event loop's tables agree with its tunnels (addresses, routes and ceilings)
\* through accepting, failing answers, closing and reaping, so that traffic goes where
\* a grant lets it and replies reach the holder of their address.
NodeInv ==
    /\ TypeOK /\ Ceilings /\ PoolMirrorsTunnels /\ RoutesFollowTunnels
    /\ TunnelsAreGranted /\ OnlyGrantedTraffic /\ RepliesReachHolder /\ EveryTunnelHasAddress

\* config.rs and exit.rs: the tunnel subnet, which the TUN and the NAT rules
\* cover, is where the clients' inner addresses lie.
AssignedInSubnet ==
    \A c \in Conns : Holder(c) => addr[c] \in Subnet
=============================================================================
