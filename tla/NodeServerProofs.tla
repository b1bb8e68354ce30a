-------------------------- MODULE NodeServerProofs --------------------------
(***************************************************************************)
(* NodeInv is inductive: the tables of the node's event loop agree with    *)
(* its tunnels for every pool, every ceiling and every order of events.    *)
(***************************************************************************)
EXTENDS NodeServer, FiniteSetTheorems, TLAPS

\* The bounds of the pool are those of one of the set-ups; NoAddr is no address.
LEMMA PoolBounds ==
    ASSUME setup \in Setups
    PROVE  /\ First \in Nat /\ Last \in Nat /\ First <= Last
           /\ Hosts \subseteq Nat /\ Sources \subseteq Nat /\ Hosts \subseteq Sources
           /\ NoAddr \notin Sources /\ NoAddr \notin Hosts
<1>1. First \in Nat /\ Last \in Nat /\ First <= Last
    BY ServerAssumption DEF Last
<1>2. Strangers \subseteq Nat
    BY ServerAssumption
<1> QED
    BY <1>1, <1>2 DEF Hosts, Sources, NoAddr

\* The finite sets that the ceilings count.
LEMMA Finite ==
    ASSUME setup \in Setups
    PROVE  IsFiniteSet(Conns) /\ IsFiniteSet(Hosts) /\ IsFiniteSet(Sources)
<1>1. IsFiniteSet(Conns) /\ IsFiniteSet(Strangers)
    BY ServerAssumption
<1>2. IsFiniteSet(Hosts)
    BY PoolBounds, FS_Interval DEF Hosts
<1> QED
    BY Zenon, <1>1, <1>2, FS_Union DEF Sources

\* A set of naturals has its minimum among its members.
LEMMA MinIsMember ==
    ASSUME NEW S, S \subseteq Nat, S # {}
    PROVE  Min(S) \in S
<1>1. PICK i \in S : \A j \in S : ~(<<j, i>> \in OpToRel(<, Nat))
    BY Zenon, NatLessThanWellFounded, WFMin
<1>2. \A j \in S : i <= j
  <2> TAKE j \in S
  <2> i \in Nat /\ j \in Nat
      OBVIOUS
  <2> ~(j < i)
      BY Zenon, <1>1 DEF OpToRel
  <2> QED
      OBVIOUS
<1> QED
    BY Zenon, <1>2 DEF Min

\* AddressPool::assign hands out a free address of the range, and none only when
\* every address is taken: the cursor comes past all of them.
LEMMA PickIsFree ==
    ASSUME setup \in Setups, cursor \in Hosts
    PROVE  \/ Pick \in Hosts /\ Pick \notin inUse
           \/ Pick = NoAddr /\ Hosts \subseteq inUse
<1>0. First \in Nat /\ Last \in Nat /\ First <= Last /\ cursor \in First..Last
    BY PoolBounds DEF Hosts
<1>1. ASSUME NEW d \in 0..(Span - 1) PROVE Candidate(d) \in Hosts
    BY <1>0, <1>1 DEF Candidate, Span, Hosts
<1>2. CASE FreeAt = {}
  <2>1. ASSUME NEW a \in Hosts PROVE a \in inUse
    <3>1. \E d \in 0..(Span - 1) : Candidate(d) = a
      <4> DEFINE d == IF a >= cursor THEN a - cursor ELSE a - cursor + Span
      <4>1. d \in 0..(Span - 1) /\ Candidate(d) = a
          BY <1>0, <2>1 DEF Candidate, Span, Hosts
      <4> QED
          BY <4>1
    <3> QED
        BY <1>2, <3>1 DEF FreeAt
  <2> QED
      BY <1>2, <2>1 DEF Pick
<1>3. CASE FreeAt # {}
  <2>1. FreeAt \subseteq Nat
      BY <1>0 DEF FreeAt, Span
  <2>2. Min(FreeAt) \in FreeAt
      BY Zenon, <1>3, <2>1, MinIsMember
  <2> QED
      BY <1>1, <1>3, <2>2 DEF Pick, FreeAt
<1> QED
    BY <1>2, <1>3

\* The steps of the event loop; the set-up never changes.
LEMMA Steps ==
    ASSUME Next
    PROVE  /\ setup' = setup
           /\ \/ \E c \in Conns, p \in Peers : Accept(c, p)
              \/ \E a \in Sources : Reply(a)
              \/ \E c \in Conns : Close(c)
              \/ \E c \in Conns : Offer(c)
              \/ \E c \in Conns : Finish(c)
              \/ \E c \in Conns, g \in Grants : Connect(c, g)
              \/ \E c \in Conns, g \in Grants : ConnectUnsent(c, g)
              \/ \E c \in Conns, src \in Sources, dst \in Targets : Datagram(c, src, dst)
              \/ Reap
BY DEF Next, Step

\* What depends on the set-up alone stays as it is.
LEMMA SetupStays ==
    ASSUME setup' = setup
    PROVE  Hosts' = Hosts /\ Sources' = Sources /\ Last' = Last /\ PqWg' = PqWg
BY DEF Hosts, Sources, Last, PqWg

-----------------------------------------------------------------------------
(* Types *)

\* Which parts of the state each event may touch.
LEMMA TypeStep ==
    ASSUME NodeInv, Next
    PROVE  TypeOK'
<1>0. TypeOK /\ setup' = setup /\ Hosts' = Hosts /\ Sources' = Sources /\ PqWg' = PqWg
    BY Steps, SetupStays DEF NodeInv
<1>1. PqWg \in {"off", "pending"} /\ NextHop \in [Grants -> Targets \cup {Anywhere}]
    BY <1>0, ServerAssumption DEF TypeOK, PqWg
<1>2. Pick \in Hosts \cup {NoAddr} /\ (Pick # NoAddr => Pick \in Sources)
    BY <1>0, PickIsFree, PoolBounds DEF TypeOK
<1>3. cursor' \in Hosts
  <2>1. \A a \in Hosts : (IF a >= Last THEN First ELSE a + 1) \in Hosts
      BY <1>0, PoolBounds DEF TypeOK, Hosts
  <2>2. cursor' = cursor \/ (Pick # NoAddr /\ cursor' = IF Pick >= Last THEN First ELSE Pick + 1)
      BY Steps DEF Accept, Reply, Close, Offer, Finish, Connect, ConnectUnsent, Datagram, Reap, Assigned,
          AssignedInVain, Release, pool
  <2> QED
      BY <1>0, <1>2, <2>1, <2>2 DEF TypeOK
<1>4. CASE \E c \in Conns, p \in Peers : Accept(c, p)
    BY <1>0, <1>3, <1>4 DEF Accept, TypeOK, Quiet, pool
<1>5. CASE \E a \in Sources : Reply(a)
    BY <1>0, <1>3, <1>5 DEF Reply, TypeOK, client, pool
<1>6. CASE \E c \in Conns : Close(c) \/ Offer(c) \/ Finish(c)
    BY <1>0, <1>3, <1>6 DEF Close, Offer, Finish, TypeOK, Quiet, pool
<1>7. CASE \E c \in Conns, g \in Grants : Connect(c, g)
  <2>1. PICK c \in Conns, g \in Grants : Connect(c, g)
      BY <1>7
  <2>2. /\ tunnel' \in [Conns -> {"none", "up", "finished"}] /\ spent' \subseteq Grants
        /\ policy' \in [Conns -> Targets \cup {Anywhere, Nobody}]
      BY <1>0, <1>1, <2>1 DEF Connect, TypeOK
  <2>3. /\ addr' \in [Conns -> Hosts \cup {NoAddr}] /\ byConn' \in [Conns -> Hosts \cup {NoAddr}]
        /\ inUse' \subseteq Hosts
      BY <1>0, <1>2, <2>1 DEF Connect, Assigned, TypeOK
  <2>4. routes' \in [Sources -> Conns \cup {Nobody}]
      BY <1>0, <1>2, <2>1 DEF Connect, TypeOK
  <2> QED
      BY <1>0, <1>3, <2>1, <2>2, <2>3, <2>4 DEF Connect, TypeOK, Quiet
<1>8. CASE \E c \in Conns, g \in Grants : ConnectUnsent(c, g)
    BY <1>0, <1>3, <1>8 DEF ConnectUnsent, AssignedInVain, TypeOK, Quiet, client
<1>9. CASE \E c \in Conns, src \in Sources, dst \in Targets : Datagram(c, src, dst)
    BY <1>0, <1>3, <1>9 DEF Datagram, TypeOK, client, pool
<1>10. CASE Reap
  <2>1. /\ conn' \in [Conns -> {"absent", "open", "closed"}]
        /\ peer' \in [Conns -> Peers \cup {Nobody}]
        /\ tunnel' \in [Conns -> {"none", "up", "finished"}]
        /\ policy' \in [Conns -> Targets \cup {Anywhere, Nobody}]
        /\ addr' \in [Conns -> Hosts \cup {NoAddr}]
        /\ pq' \in [Conns -> {"off", "pending", "ready"}]
      BY <1>0, <1>1, <1>10 DEF Reap, Forget, TypeOK
  <2>2. byConn' \in [Conns -> Hosts \cup {NoAddr}] /\ inUse' \subseteq Hosts
      BY <1>0, <1>10 DEF Reap, Release, TypeOK
  <2>3. routes' \in [Sources -> Conns \cup {Nobody}]
      BY Zenon, <1>0, <1>10 DEF Reap, TypeOK
  <2> QED
      BY <1>0, <1>3, <1>10, <2>1, <2>2, <2>3 DEF Reap, TypeOK, Quiet
<1> QED
    BY <1>4, <1>5, <1>6, <1>7, <1>8, <1>9, <1>10, Steps

-----------------------------------------------------------------------------
(* Ceilings *)

\* Connections come with Accept, and go with Reap.
LEMMA PresentStep ==
    ASSUME NodeInv, Next
    PROVE  \/ \E c \in Conns, p \in Peers : Accept(c, p)
           \/ Present' = Present /\ UNCHANGED peer
           \/ Reap /\ Present' = Present \ {c \in Conns : conn[c] = "closed"}
                   /\ \A c \in Present' : peer'[c] = peer[c]
<1>1. CASE \E c \in Conns : Close(c)
    BY <1>1 DEF Close, Present, NodeInv, TypeOK
<1>2. CASE Reap
    BY <1>2 DEF Reap, Forget, Present, NodeInv, TypeOK
<1>3. CASE UNCHANGED <<conn, peer>>
    BY <1>3 DEF Present
<1> QED
    BY <1>1, <1>2, <1>3, Steps DEF Reply, Offer, Finish, Connect, ConnectUnsent, Datagram, client

\* connection_capacity_available admits nobody beyond its ceilings.
LEMMA CeilingStep ==
    ASSUME NodeInv, Next
    PROVE  Ceilings'
<1>0. /\ IsFiniteSet(Present) /\ \A p \in Peers : IsFiniteSet({c \in Present : peer[c] = p})
      /\ MaxConnections \in Nat /\ MaxPerIp \in Nat
  <2>1. IsFiniteSet(Conns) /\ Present \subseteq Conns
      BY Finite DEF NodeInv, TypeOK, Present
  <2>2. MaxConnections \in Nat /\ MaxPerIp \in Nat
      BY ServerAssumption
  <2>3. IsFiniteSet(Present)
      BY <2>1, FS_Subset
  <2>4. ASSUME NEW p \in Peers PROVE IsFiniteSet({c \in Present : peer[c] = p})
    <3>1. {c \in Present : peer[c] = p} \in SUBSET Present
        OBVIOUS
    <3> QED
        BY <2>3, <3>1, FS_Subset
  <2> QED
      BY <2>2, <2>3, <2>4
<1>1. ASSUME NEW S, NEW T, IsFiniteSet(T), S \subseteq T, NEW n \in Nat, Cardinality(T) <= n
      PROVE  Cardinality(S) <= n
    BY <1>1, FS_Subset, FS_CardinalityType
<1>2. ASSUME NEW S, NEW T, NEW x, IsFiniteSet(T), S \subseteq T \cup {x}, NEW n \in Nat, Cardinality(T) < n
      PROVE  Cardinality(S) <= n
  <2>0. Cardinality(T) \in Nat
      BY <1>2, FS_CardinalityType
  <2>1. IsFiniteSet(T \cup {x}) /\ Cardinality(T \cup {x}) <= Cardinality(T) + 1
      BY <1>2, <2>0, FS_AddElement
  <2>2. IsFiniteSet(S) /\ Cardinality(S) <= Cardinality(T \cup {x}) /\ Cardinality(S) \in Nat
        /\ Cardinality(T \cup {x}) \in Nat
      BY <1>2, <2>1, FS_Subset, FS_CardinalityType
  <2> QED
      BY <1>2, <2>0, <2>1, <2>2
<1>3. Ceilings
    BY DEF NodeInv
<1>4. CASE \E c \in Conns, p \in Peers : Accept(c, p)
  <2>1. PICK c \in Conns, p \in Peers : Accept(c, p)
      BY <1>4
  <2>2. /\ Present' = Present \cup {c} /\ Room(p)
        /\ {d \in Present' : peer'[d] = p} \subseteq {d \in Present : peer[d] = p} \cup {c}
        /\ \A q \in Peers \ {p} : {d \in Present' : peer'[d] = q} \subseteq {d \in Present : peer[d] = q}
      BY <2>1 DEF Accept, Present, NodeInv, TypeOK
  <2>3. Cardinality(Present') <= MaxConnections
      BY Zenon, <1>0, <1>2, <2>2 DEF Room
  <2>4. ASSUME NEW q \in Peers PROVE Cardinality({d \in Present' : peer'[d] = q}) <= MaxPerIp
    <3>1. CASE q = p
        BY Zenon, <1>0, <1>2, <2>2, <3>1 DEF Room
    <3>2. CASE q # p
        BY Zenon, <1>0, <1>1, <1>3, <2>2, <3>2 DEF Ceilings
    <3> QED
        BY <3>1, <3>2
  <2> QED
      BY <2>3, <2>4 DEF Ceilings
<1>5. CASE Present' \subseteq Present /\ \A c \in Present' : peer'[c] = peer[c]
  <2>1. Cardinality(Present') <= MaxConnections
      BY <1>0, <1>1, <1>3, <1>5 DEF Ceilings
  <2>2. ASSUME NEW q \in Peers PROVE Cardinality({d \in Present' : peer'[d] = q}) <= MaxPerIp
    <3>1. {d \in Present' : peer'[d] = q} \subseteq {d \in Present : peer[d] = q}
        BY <1>5
    <3> QED
        BY ZenonT(40), <1>0, <1>1, <1>3, <3>1 DEF Ceilings
  <2> QED
      BY <2>1, <2>2 DEF Ceilings
<1> QED
    BY <1>4, <1>5, PresentStep

-----------------------------------------------------------------------------
(* Addresses and routes *)

\* Events that neither assign nor release an address keep every tunnel's connection.
LEMMA PoolRests ==
    ASSUME NodeInv, Next, ~Reap, ~ \E c \in Conns, g \in Grants : Connect(c, g)
    PROVE  /\ UNCHANGED <<addr, byConn, inUse>> /\ Present \subseteq Present'
           /\ \A c \in Conns : (tunnel'[c] = "none") <=> (tunnel[c] = "none")
<1>1. Present \subseteq Present'
    BY PresentStep DEF Accept, Present, NodeInv, TypeOK
<1>2. \A c \in Conns : (tunnel'[c] = "none") <=> (tunnel[c] = "none")
    BY Steps DEF Accept, Reply, Close, Offer, Finish, ConnectUnsent, Datagram, client, NodeInv, TypeOK
<1>3. UNCHANGED <<addr, byConn, inUse>>
    BY Steps DEF Accept, Reply, Close, Offer, Finish, ConnectUnsent, Datagram, AssignedInVain, client, pool
<1> QED
    BY <1>1, <1>2, <1>3

\* What Connect does for a connection that has no address yet.
LEMMA ConnectFacts ==
    ASSUME NodeInv, Next, NEW c \in Conns, NEW g \in Grants, Connect(c, g)
    PROVE  /\ c \in Present /\ Present' = Present /\ tunnel[c] = "none"
           /\ addr[c] = NoAddr /\ addr' = [addr EXCEPT ![c] = Pick] /\ byConn' = [byConn EXCEPT ![c] = Pick]
           /\ tunnel' = [tunnel EXCEPT ![c] = "up"]
           /\ \A a \in Sources : routes[a] # c
           /\ \/ /\ Pick \in Hosts /\ Pick \in Sources /\ Pick # NoAddr /\ Pick \notin inUse
                 /\ inUse' = inUse \cup {Pick} /\ routes' = [routes EXCEPT ![Pick] = c]
              \/ /\ Pick = NoAddr /\ Hosts \subseteq inUse
                 /\ inUse' = inUse /\ routes' = routes
<1>1. c \in Present /\ tunnel[c] = "none" /\ Present' = Present
    BY DEF Connect, Present
<1>2. addr[c] = NoAddr
    BY <1>1 DEF NodeInv, PoolMirrorsTunnels, Holder
<1>3. \A a \in Sources : routes[a] # c
  <2>1. c # Nobody
      BY ServerAssumption
  <2> QED
      BY <1>1, <2>1 DEF NodeInv, RoutesFollowTunnels
<1>4. \/ Pick \in Hosts /\ Pick \in Sources /\ Pick # NoAddr /\ Pick \notin inUse
      \/ Pick = NoAddr /\ Hosts \subseteq inUse
    BY PickIsFree, PoolBounds DEF NodeInv, TypeOK
<1> QED
    BY <1>1, <1>2, <1>3, <1>4 DEF Connect, Assigned

\* The pool and the tunnels go on agreeing when an address is assigned or released.
LEMMA PoolStep ==
    ASSUME NodeInv, Next
    PROVE  PoolMirrorsTunnels'
<1>0. TypeOK /\ PoolMirrorsTunnels /\ Hosts' = Hosts
    BY Steps, SetupStays DEF NodeInv
<1>1. CASE \E c \in Conns, g \in Grants : Connect(c, g)
  <2>1. PICK c \in Conns, g \in Grants : Connect(c, g)
      BY <1>1
  <2>2. CASE Pick = NoAddr
    <3>1. addr' = addr /\ byConn' = byConn /\ inUse' = inUse
        BY <1>0, <2>1, <2>2, ConnectFacts DEF TypeOK, PoolMirrorsTunnels
    <3> QED
        BY <1>0, <2>1, <3>1, ConnectFacts DEF TypeOK, PoolMirrorsTunnels, Holder
  <2>3. CASE Pick # NoAddr
    <3>1. /\ addr'[c] = Pick /\ \A d \in Conns \ {c} : addr'[d] = addr[d]
          /\ Pick \in Hosts /\ Pick \notin inUse /\ inUse' = inUse \cup {Pick} /\ addr[c] = NoAddr
          /\ byConn' = addr'
        BY <1>0, <2>1, <2>3, ConnectFacts DEF TypeOK, PoolMirrorsTunnels
    <3>2. inUse' = ({Gateway} \cap Hosts) \cup {addr'[d] : d \in {x \in Conns : Holder(x)'}}
        BY <1>0, <2>3, <3>1 DEF PoolMirrorsTunnels, Holder
    <3>3. \A d \in Conns : Holder(d)' => d \in Present' /\ tunnel'[d] # "none"
        BY <1>0, <2>1, <3>1, ConnectFacts DEF PoolMirrorsTunnels, Holder, TypeOK
    <3>4. \A d, e \in Conns : Holder(d)' /\ Holder(e)' /\ addr'[d] = addr'[e] => d = e
        BY <1>0, <3>1 DEF PoolMirrorsTunnels, Holder
    <3>5. \A d \in Conns : Holder(d)' => addr'[d] # Gateway
        BY <1>0, <3>1 DEF PoolMirrorsTunnels, Holder
    <3> QED
        BY <3>1, <3>2, <3>3, <3>4, <3>5, <1>0 DEF PoolMirrorsTunnels
  <2> QED
      BY <2>2, <2>3
<1>2. CASE Reap
  <2> DEFINE gone == {c \in Conns : conn[c] = "closed"}
  <2>1. /\ \A c \in Conns : addr'[c] = IF c \in gone THEN NoAddr ELSE addr[c]
        /\ \A c \in Conns : tunnel'[c] = IF c \in gone THEN "none" ELSE tunnel[c]
        /\ Present' = Present \ gone
        /\ byConn' = addr' /\ inUse' = inUse \ {addr[c] : c \in gone}
      BY <1>0, <1>2 DEF Reap, Forget, Release, TypeOK, PoolMirrorsTunnels, Present
  <2> HIDE DEF gone
  <2>2. NoAddr \notin Hosts
      BY <1>0, PoolBounds DEF TypeOK
  <2>3. inUse' = ({Gateway} \cap Hosts) \cup {addr'[d] : d \in {x \in Conns : Holder(x)'}}
      BY <1>0, <2>1, <2>2 DEF PoolMirrorsTunnels, Holder, gone
  <2> QED
      BY <1>0, <2>1, <2>3 DEF PoolMirrorsTunnels, Holder
<1>3. CASE /\ UNCHANGED <<addr, byConn, inUse>> /\ Present \subseteq Present'
           /\ \A c \in Conns : (tunnel'[c] = "none") <=> (tunnel[c] = "none")
    BY <1>0, <1>3 DEF PoolMirrorsTunnels, Holder
<1> QED
    BY <1>1, <1>2, <1>3, PoolRests

\* The routes of one connection can be counted.
LEMMA RoutesFinite ==
    ASSUME NodeInv
    PROVE  /\ \A c \in Conns : IsFiniteSet({a \in Sources : routes[a] = c})
           /\ MaxLearned \in Nat
<1>1. IsFiniteSet(Sources) /\ MaxLearned \in Nat
    BY Finite, ServerAssumption DEF NodeInv, TypeOK
<1>2. ASSUME NEW c \in Conns PROVE IsFiniteSet({a \in Sources : routes[a] = c})
  <2>1. {a \in Sources : routes[a] = c} \in SUBSET Sources
      OBVIOUS
  <2> QED
      BY <1>1, <2>1, FS_Subset
<1> QED
    BY <1>1, <1>2

\* A connection that only loses routes stays within the learning cap.
LEMMA FewerRoutes ==
    ASSUME NodeInv, NEW c \in Conns, NEW S, S \subseteq {a \in Sources : routes[a] = c},
           Cardinality({a \in Sources : routes[a] = c}) <= MaxLearned
    PROVE  Cardinality(S) <= MaxLearned
<1> DEFINE R == {a \in Sources : routes[a] = c}
<1>1. IsFiniteSet(R) /\ MaxLearned \in Nat
    BY RoutesFinite
<1>2. S \in SUBSET R /\ Cardinality(R) <= MaxLearned
    OBVIOUS
<1> HIDE DEF R
<1>3. IsFiniteSet(S) /\ Cardinality(S) <= Cardinality(R)
    BY <1>1, <1>2, FS_Subset
<1>4. Cardinality(S) \in Nat /\ Cardinality(R) \in Nat
    BY <1>1, <1>3, FS_CardinalityType
<1> QED
    BY <1>1, <1>2, <1>3, <1>4

\* learn_client_route counts before it adds.
LEMMA OneMoreRoute ==
    ASSUME NodeInv, NEW c \in Conns, NEW s, NEW S, S \subseteq {a \in Sources : routes[a] = c} \cup {s},
           Cardinality({a \in Sources : routes[a] = c}) < MaxLearned
    PROVE  Cardinality(S) <= MaxLearned
<1> DEFINE R == {a \in Sources : routes[a] = c}
<1>1. IsFiniteSet(R) /\ MaxLearned \in Nat
    BY RoutesFinite
<1>2. S \in SUBSET (R \cup {s}) /\ Cardinality(R) < MaxLearned
    OBVIOUS
<1> HIDE DEF R
<1>3. Cardinality(R) \in Nat
    BY <1>1, FS_CardinalityType
<1>4. IsFiniteSet(R \cup {s}) /\ Cardinality(R \cup {s}) <= Cardinality(R) + 1
    BY <1>1, <1>3, FS_AddElement
<1>5. IsFiniteSet(S) /\ Cardinality(S) <= Cardinality(R \cup {s})
    BY <1>2, <1>4, FS_Subset
<1>6. Cardinality(S) \in Nat /\ Cardinality(R \cup {s}) \in Nat
    BY <1>4, <1>5, FS_CardinalityType
<1> QED
    BY <1>1, <1>2, <1>3, <1>4, <1>5, <1>6

\* Routes go to the holders of their addresses, through assigning, learning and reaping.
LEMMA RouteStep ==
    ASSUME NodeInv, Next
    PROVE  RoutesFollowTunnels'
<1>0. /\ TypeOK /\ RoutesFollowTunnels /\ PoolMirrorsTunnels /\ TunnelsAreGranted /\ Sources' = Sources
      /\ Nobody \notin Conns /\ MaxLearned \in Nat
    BY Steps, SetupStays, ServerAssumption DEF NodeInv
<1>1. ASSUME NEW c \in Conns, c \in Present, addr[c] = NoAddr
      PROVE  Cardinality({a \in Sources : routes[a] = c}) <= MaxLearned
    BY <1>0, <1>1, Zenon DEF RoutesFollowTunnels
<1>2. ASSUME NEW c \in Conns, {a \in Sources : routes'[a] = c} = {}
      PROVE  Cardinality({a \in Sources : routes'[a] = c}) <= MaxLearned
    BY SMTT(30), <1>0, <1>2, FS_EmptySet
<1>3. CASE \E c \in Conns, g \in Grants : Connect(c, g)
  <2>1. PICK c \in Conns, g \in Grants : Connect(c, g)
      BY <1>3
  <2>2. /\ Present' = Present /\ c \in Present /\ addr[c] = NoAddr
        /\ addr'[c] = Pick /\ tunnel'[c] = "up" /\ \A a \in Sources : routes[a] # c
        /\ \A d \in Conns \ {c} : addr'[d] = addr[d] /\ tunnel'[d] = tunnel[d]
      BY <1>0, <2>1, ConnectFacts DEF TypeOK
  <2>3. CASE Pick = NoAddr
    <3>1. routes' = routes
        BY <2>1, <2>3, ConnectFacts
    <3>2. ASSUME NEW d \in Conns, d \in Present, addr'[d] = NoAddr
          PROVE  Cardinality({a \in Sources : routes'[a] = d}) <= MaxLearned
      <4>1. CASE d = c
          BY <1>2, <2>2, <3>1, <4>1
      <4>2. CASE d # c
          BY <1>1, <2>2, <3>1, <3>2, <4>2
      <4> QED
          BY <4>1, <4>2
    <3>3. \A d \in Conns : Holder(d)' => {a \in Sources : routes'[a] = d} = {addr'[d]}
        BY Zenon, <1>0, <2>2, <2>3, <3>1 DEF RoutesFollowTunnels, Holder
    <3>4. \A a \in Sources : routes'[a] # Nobody => routes'[a] \in Present /\ tunnel'[routes'[a]] # "none"
        BY SMTT(30), <1>0, <2>2, <3>1 DEF RoutesFollowTunnels, TypeOK
    <3> QED
        BY <1>0, <2>2, <3>2, <3>3, <3>4 DEF RoutesFollowTunnels
  <2>4. CASE Pick # NoAddr
    <3>1. /\ Pick \in Sources /\ Pick \notin inUse
          /\ routes'[Pick] = c /\ \A a \in Sources \ {Pick} : routes'[a] = routes[a]
        BY <1>0, <2>1, <2>4, ConnectFacts DEF TypeOK
    <3>2. ASSUME NEW d \in Conns, d \in Present, addr'[d] = NoAddr
          PROVE  Cardinality({a \in Sources : routes'[a] = d}) <= MaxLearned
      <4>1. d # c /\ addr[d] = NoAddr
          BY <2>2, <2>4, <3>2
      <4>2. {a \in Sources : routes'[a] = d} \subseteq {a \in Sources : routes[a] = d}
          BY <3>1, <4>1
      <4> QED
          BY Zenon, <1>1, <3>2, <4>1, <4>2, FewerRoutes
    <3>3. ASSUME NEW d \in Conns, Holder(d)' PROVE {a \in Sources : routes'[a] = d} = {addr'[d]}
      <4>1. CASE d = c
          BY <2>2, <3>1, <4>1
      <4>2. CASE d # c
        <5>1. addr[d] \in inUse /\ {a \in Sources : routes[a] = d} = {addr[d]}
            BY Zenon, <1>0, <2>2, <3>3, <4>2 DEF RoutesFollowTunnels, PoolMirrorsTunnels, Holder
        <5> QED
            BY <2>2, <3>1, <4>2, <5>1
      <4> QED
          BY <4>1, <4>2
    <3>4. ASSUME NEW a \in Sources, routes'[a] # Nobody
          PROVE  routes'[a] \in Present /\ tunnel'[routes'[a]] # "none"
        BY SMTT(30), <1>0, <2>2, <3>1, <3>4 DEF RoutesFollowTunnels, TypeOK
    <3> QED
        BY Zenon, <1>0, <2>2, <3>2, <3>3, <3>4 DEF RoutesFollowTunnels
  <2> QED
      BY <2>3, <2>4
<1>4. CASE \E c \in Conns, src \in Sources, dst \in Targets : Datagram(c, src, dst)
  <2>1. PICK c \in Conns, src \in Sources, dst \in Targets : Datagram(c, src, dst)
      BY Zenon, <1>4
  <2>2. /\ c \in Present /\ Present' = Present /\ tunnel[c] = "up" /\ UNCHANGED <<addr, tunnel>>
        /\ Learns(c, src) /\ routes'[src] = c /\ \A a \in Sources \ {src} : routes'[a] = routes[a]
      BY Zenon, <1>0, <2>1 DEF Datagram, client, TypeOK, Present
  <2>3. addr[c] = NoAddr \/ routes[src] = c
      BY <1>0, <2>2 DEF Learns, RoutesFollowTunnels, Holder
  <2>4. routes[src] \in {c, Nobody}
      BY <2>2 DEF Learns
  <2>5. ASSUME NEW d \in Conns, d \in Present, addr[d] = NoAddr
        PROVE  Cardinality({a \in Sources : routes'[a] = d}) <= MaxLearned
    <3>1. CASE d = c /\ routes[src] # c
      <4>1. Cardinality({a \in Sources : routes[a] = c}) < MaxLearned
        <5>1. ~(addr[c] = src)
            BY <1>0, <2>5, <3>1, PoolBounds DEF TypeOK
        <5> QED
            BY <2>2, <3>1, <5>1 DEF Learns
      <4>2. {a \in Sources : routes'[a] = d} \subseteq {a \in Sources : routes[a] = c} \cup {src}
          BY <2>2, <3>1
      <4> QED
          BY <4>1, <4>2, OneMoreRoute
    <3>2. CASE d # c \/ routes[src] = c
      <4>1. {a \in Sources : routes'[a] = d} \subseteq {a \in Sources : routes[a] = d}
          BY <2>2, <3>2
      <4> QED
          BY Zenon, <1>1, <2>5, <4>1, FewerRoutes
    <3> QED
        BY <3>1, <3>2
  <2>6. ASSUME NEW d \in Conns, Holder(d) PROVE {a \in Sources : routes'[a] = d} = {addr[d]}
    <3>1. {a \in Sources : routes[a] = d} = {addr[d]}
        BY <1>0, <2>6 DEF RoutesFollowTunnels
    <3>2. routes[src] = c \/ d # c
        BY <2>3, <2>6 DEF Holder
    <3>3. routes[src] = d => c = d
        BY <1>0, <2>4
    <3> QED
        BY <2>2, <3>1, <3>2, <3>3
  <2>7. ASSUME NEW a \in Sources, routes'[a] # Nobody
        PROVE  routes'[a] \in Present /\ tunnel[routes'[a]] # "none"
      BY <1>0, <2>2, <2>7 DEF RoutesFollowTunnels
  <2> QED
      BY <1>0, <2>2, <2>5, <2>6, <2>7 DEF RoutesFollowTunnels, Holder
<1>5. CASE Reap
  <2> DEFINE gone == {c \in Conns : conn[c] = "closed"}
  <2>1. /\ \A c \in Conns : addr'[c] = IF c \in gone THEN NoAddr ELSE addr[c]
        /\ \A c \in Conns : tunnel'[c] = IF c \in gone THEN "none" ELSE tunnel[c]
        /\ Present' = Present \ gone
        /\ \A a \in Sources : routes'[a] = IF routes[a] \in gone THEN Nobody ELSE routes[a]
      BY Zenon, <1>0, <1>5 DEF Reap, Forget, Present, TypeOK
  <2> HIDE DEF gone
  <2>2. ASSUME NEW d \in Conns, d \in Present', addr'[d] = NoAddr
        PROVE  Cardinality({a \in Sources : routes'[a] = d}) <= MaxLearned
    <3>1. d \in Present /\ addr[d] = NoAddr /\ {a \in Sources : routes'[a] = d} \subseteq {a \in Sources : routes[a] = d}
        BY <1>0, <2>1, <2>2
    <3> QED
        BY ZenonT(40), <1>1, <3>1, FewerRoutes
  <2>3. ASSUME NEW d \in Conns, Holder(d)' PROVE {a \in Sources : routes'[a] = d} = {addr'[d]}
    <3>1. d \notin gone /\ {a \in Sources : routes[a] = d} = {addr[d]}
        BY <1>0, <2>1, <2>3 DEF RoutesFollowTunnels, Holder
    <3> QED
        BY <1>0, <2>1, <3>1
  <2>4. ASSUME NEW a \in Sources, routes'[a] # Nobody
        PROVE  routes'[a] \in Present' /\ tunnel'[routes'[a]] # "none"
      BY <1>0, <2>1, <2>4 DEF RoutesFollowTunnels, TypeOK
  <2> QED
      BY Zenon, <1>0, <2>2, <2>3, <2>4 DEF RoutesFollowTunnels
<1>6. CASE /\ UNCHANGED <<addr, routes>> /\ Present \subseteq Present'
           /\ \A c \in Conns : (tunnel'[c] = "none") <=> (tunnel[c] = "none")
  <2>1. ASSUME NEW d \in Conns, addr[d] = NoAddr
        PROVE  Cardinality({a \in Sources : routes'[a] = d}) <= MaxLearned
    <3>1. CASE d \in Present
        BY <1>1, <1>6, <2>1, <3>1
    <3>2. CASE d \notin Present
      <4>1. {a \in Sources : routes'[a] = d} = {}
          BY <1>0, <1>6, <3>2 DEF RoutesFollowTunnels
      <4> QED
          BY <1>2, <4>1
    <3> QED
        BY <3>1, <3>2
  <2> QED
      BY <1>0, <1>6, <2>1 DEF RoutesFollowTunnels, Holder, TypeOK
<1>7. ASSUME ~ \E c \in Conns, src \in Sources, dst \in Targets : Datagram(c, src, dst),
             ~Reap, ~ \E c \in Conns, g \in Grants : Connect(c, g)
      PROVE  UNCHANGED routes
    BY <1>7, Steps DEF Accept, Reply, Close, Offer, Finish, ConnectUnsent
<1> QED
    BY <1>3, <1>4, <1>5, <1>6, <1>7, PoolRests

-----------------------------------------------------------------------------
(* Traffic *)

\* A tunnel comes with a consumed grant and goes with its connection.
LEMMA GrantedStep ==
    ASSUME NodeInv, Next
    PROVE  TunnelsAreGranted'
<1>0. TypeOK /\ TunnelsAreGranted
    BY Zenon DEF NodeInv
<1>1. CASE \E c \in Conns, g \in Grants : Connect(c, g)
  <2>1. PICK c \in Conns, g \in Grants : Connect(c, g)
      BY <1>1
  <2>2. /\ c \in Present /\ Present' = Present /\ spent' = spent \cup {g}
        /\ policy'[c] = NextHop[g]
        /\ \A d \in Conns \ {c} : tunnel'[d] = tunnel[d] /\ policy'[d] = policy[d]
      BY <1>0, <2>1 DEF Connect, TypeOK, Present
  <2> QED
      BY SMTT(30), <1>0, <2>2 DEF TunnelsAreGranted
<1>2. CASE Reap
  <2>1. \A c \in Conns :
          /\ c \in Present' \/ tunnel'[c] = "none" \/ c \notin Present
          /\ tunnel'[c] # "none" => tunnel'[c] = tunnel[c] /\ policy'[c] = policy[c]
      BY Zenon, <1>0, <1>2 DEF Reap, Forget, Present, TypeOK
  <2>2. spent' = spent
      BY <1>2 DEF Reap
  <2> QED
      BY Zenon, <1>0, <2>1, <2>2 DEF TunnelsAreGranted
<1>3. ASSUME ~Reap, ~ \E c \in Conns, g \in Grants : Connect(c, g) PROVE TunnelsAreGranted'
  <2>1. spent \subseteq spent' /\ \A c \in Conns : tunnel'[c] = "up" => tunnel[c] = "up" /\ policy'[c] = policy[c]
      BY ZenonT(40), <1>0, <1>3, Steps DEF Accept, Reply, Close, Offer, Finish, ConnectUnsent, Datagram, client, TypeOK
  <2> QED
      BY Zenon, <1>0, <1>3, <2>1, PoolRests DEF TunnelsAreGranted
<1> QED
    BY <1>1, <1>2, <1>3

\* PacketPolicy::admits and learn_client_route stand before every write to the TUN.
LEMMA TrafficStep ==
    ASSUME NodeInv, Next
    PROVE  OnlyGrantedTraffic'
<1>1. CASE toTun' = {}
    BY Zenon, <1>1 DEF OnlyGrantedTraffic
<1>2. CASE \E c \in Conns, src \in Sources, dst \in Targets : Datagram(c, src, dst)
  <2>1. PICK c \in Conns, src \in Sources, dst \in Targets : Datagram(c, src, dst)
      BY <1>2
  <2> DEFINE t == [conn |-> c, src |-> src, dst |-> dst]
  <2>2. toTun' = {t} /\ UNCHANGED <<client, spent>>
      BY <2>1 DEF Datagram
  <2>3. tunnel'[c] = "up" /\ policy'[c] \in {Anywhere, dst}
      BY <2>1 DEF Datagram, Admits, client
  <2>4. \E g \in spent' : NextHop[g] \in {Anywhere, dst}
    <3>1. tunnel[c] = "up" /\ policy[c] \in {Anywhere, dst} /\ spent' = spent
        BY <2>2, <2>3 DEF client
    <3> QED
        BY <3>1 DEF NodeInv, TunnelsAreGranted
  <2>5. \A d \in Conns \ {c} : Holder(d)' => addr'[d] # src
    <3>1. routes'[src] = c /\ Sources' = Sources
        BY ZenonT(40), <2>1, Steps, SetupStays DEF Datagram, NodeInv, TypeOK
    <3>2. \A d \in Conns : Holder(d)' => {a \in Sources : routes'[a] = d} = {addr'[d]}
        BY Zenon, <3>1, RouteStep DEF RoutesFollowTunnels
    <3> QED
        BY Zenon, <3>1, <3>2
  <2> QED
      BY SMTT(30), <2>2, <2>3, <2>4, <2>5 DEF OnlyGrantedTraffic
<1> QED
    BY ZenonT(40), <1>1, <1>2, Steps DEF Accept, Reply, Close, Offer, Finish, Connect, ConnectUnsent, Reap, Quiet

\* A packet from the TUN follows the route of its destination.
LEMMA ReplyStep ==
    ASSUME NodeInv, Next
    PROVE  RepliesReachHolder'
<1>1. CASE toClient' = {}
    BY Zenon, <1>1 DEF RepliesReachHolder
<1>2. CASE \E a \in Sources : Reply(a)
  <2>1. PICK a \in Sources : Reply(a)
      BY <1>2
  <2>2. /\ toClient' = {[conn |-> routes[a], dst |-> a]} /\ UNCHANGED client
        /\ tunnel[routes[a]] = "up" /\ routes[a] # Nobody /\ AllReaped
      BY Zenon, <2>1 DEF Reply
  <2>3. routes[a] \in Conns /\ conn[routes[a]] = "open"
      BY <2>2 DEF NodeInv, TypeOK, RoutesFollowTunnels, Present, AllReaped
  <2>4. \A c \in Conns : Holder(c) /\ addr[c] = a => c = routes[a]
      BY DEF NodeInv, RoutesFollowTunnels
  <2> QED
    <3>1. conn' = conn /\ tunnel' = tunnel /\ addr' = addr
        BY Zenon, <2>2 DEF client
    <3>2. \A c \in Conns : Holder(c)' = Holder(c)
        BY Zenon, <3>1 DEF Holder
    <3>3. \A t \in toClient' : t.conn = routes[a] /\ t.dst = a
        BY <2>2
    <3> QED
        BY Zenon, <2>2, <2>3, <2>4, <3>1, <3>2, <3>3 DEF RepliesReachHolder
<1> QED
    BY Zenon, <1>1, <1>2, Steps DEF Accept, Close, Offer, Finish, Connect, ConnectUnsent, Datagram, Reap, Quiet

\* When the pool is exhausted for a connection, the other connections hold all of it:
\* a pool as large as the connection ceiling is never exhausted.
LEMMA PoolSuffices ==
    ASSUME NodeInv, NEW c \in Present, addr[c] = NoAddr, Hosts \subseteq inUse
    PROVE  Cardinality(Hosts \ {Gateway}) < MaxConnections
<1> DEFINE Holders == {d \in Conns : Holder(d)}
           held == [d \in Holders |-> addr[d]]
<1>1. /\ IsFiniteSet(Present) /\ Holders \subseteq Present \ {c} /\ MaxConnections \in Nat
      /\ Cardinality(Present) <= MaxConnections
  <2>1. IsFiniteSet(Conns) /\ Present \in SUBSET Conns /\ MaxConnections \in Nat
      BY Finite, ServerAssumption DEF NodeInv, TypeOK, Present
  <2>2. IsFiniteSet(Present)
      BY <2>1, FS_Subset
  <2>3. Holders \subseteq Present \ {c}
      BY DEF NodeInv, PoolMirrorsTunnels, Holder
  <2> QED
      BY Zenon, <2>1, <2>2, <2>3 DEF NodeInv, Ceilings
<1>2. held \in Surjection(Holders, Hosts \ {Gateway})
  <2>1. \A d \in Holders : addr[d] \in Hosts \ {Gateway}
      BY DEF NodeInv, TypeOK, PoolMirrorsTunnels, Holder
  <2>2. \A a \in Hosts \ {Gateway} : \E d \in Holders : addr[d] = a
      BY DEF NodeInv, PoolMirrorsTunnels
  <2> QED
      BY <2>1, <2>2 DEF Surjection
<1> HIDE DEF Holders, held
<1>3. IsFiniteSet(Present \ {c}) /\ Cardinality(Present \ {c}) = Cardinality(Present) - 1
    BY <1>1, FS_RemoveElement
<1>4. IsFiniteSet(Holders) /\ Cardinality(Holders) <= Cardinality(Present \ {c})
    BY <1>1, <1>3, FS_Subset
<1>5. IsFiniteSet(Hosts \ {Gateway}) /\ Cardinality(Hosts \ {Gateway}) <= Cardinality(Holders)
    BY <1>2, <1>4, FS_Surjection
<1>6. /\ Cardinality(Present) \in Nat /\ Cardinality(Holders) \in Nat /\ Cardinality(Hosts \ {Gateway}) \in Nat
      /\ Cardinality(Present \ {c}) \in Nat
    BY Zenon, <1>1, <1>3, <1>4, <1>5, FS_CardinalityType
<1> QED
    BY <1>1, <1>3, <1>4, <1>5, <1>6

\* The fallback without an address is taken only where the pool is smaller than the ceiling.
LEMMA AddressStep ==
    ASSUME NodeInv, Next
    PROVE  EveryTunnelHasAddress'
<1>0. Hosts' = Hosts
    BY Steps, SetupStays
<1> SUFFICES ASSUME Cardinality(Hosts \ {Gateway}) >= MaxConnections, NEW c \in Present', tunnel'[c] # "none"
             PROVE  addr'[c] # NoAddr
    BY <1>0 DEF EveryTunnelHasAddress
<1>1. \A d \in Present : tunnel[d] # "none" => addr[d] # NoAddr
    BY DEF NodeInv, EveryTunnelHasAddress
<1>2. CASE \E d \in Conns, g \in Grants : Connect(d, g)
  <2>1. PICK d \in Conns, g \in Grants : Connect(d, g)
      BY Zenon, <1>2
  <2>2. CASE c # d
    <3>1. Present' = Present /\ addr' = [addr EXCEPT ![d] = Pick] /\ tunnel' = [tunnel EXCEPT ![d] = "up"]
        BY Zenon, <2>1, ConnectFacts
    <3>2. c \in Conns /\ addr \in [Conns -> Hosts \cup {NoAddr}] /\ tunnel \in [Conns -> {"none", "up", "finished"}]
        BY Zenon, <3>1 DEF NodeInv, TypeOK, Present
    <3> QED
        BY <1>1, <2>2, <3>1, <3>2
  <2>3. CASE c = d
    <3>1. Pick # NoAddr
      <4>1. ASSUME Hosts \subseteq inUse PROVE FALSE
        <5>1. Cardinality(Hosts \ {Gateway}) < MaxConnections
            BY ZenonT(40), <2>1, <4>1, ConnectFacts, PoolSuffices
        <5>2. Cardinality(Hosts \ {Gateway}) \in Nat /\ MaxConnections \in Nat
          <6>1. IsFiniteSet(Hosts \ {Gateway})
              BY Finite, FS_RemoveElement DEF NodeInv, TypeOK
          <6> QED
              BY <6>1, FS_CardinalityType, ServerAssumption
        <5> QED
            BY <5>1, <5>2
      <4> QED
          BY <2>1, <4>1, ConnectFacts
    <3>2. addr' = [addr EXCEPT ![d] = Pick] /\ addr \in [Conns -> Hosts \cup {NoAddr}]
        BY Zenon, <2>1, ConnectFacts DEF NodeInv, TypeOK
    <3> QED
        BY Zenon, <2>3, <3>1, <3>2
  <2> QED
      BY <2>2, <2>3
<1>3. CASE Reap
    BY <1>1, <1>3 DEF Reap, Forget, Present, NodeInv, TypeOK
<1>4. ASSUME ~Reap, ~ \E d \in Conns, g \in Grants : Connect(d, g) PROVE addr'[c] # NoAddr
  <2>1. c \in Conns /\ tunnel[c] # "none"
      BY <1>4, PoolRests DEF Present
  <2>2. c \in Present
      BY <2>1 DEF NodeInv, TunnelsAreGranted
  <2> QED
      BY <1>1, <1>4, <2>1, <2>2, PoolRests
<1> QED
    BY <1>2, <1>3, <1>4

-----------------------------------------------------------------------------
(* The theorem *)

\* A node starts with an empty table of connections and the gateway's address taken.
LEMMA InitNode == Init => NodeInv
<1> SUFFICES ASSUME Init PROVE NodeInv
    OBVIOUS
<1>1. /\ setup \in Setups /\ PqWg \in {"off", "pending"}
      /\ MaxConnections \in Nat /\ MaxPerIp \in Nat /\ MaxLearned \in Nat
    BY ServerAssumption DEF Init, PqWg
<1>2. First \in Hosts
    BY <1>1, PoolBounds DEF Hosts
<1>3. TypeOK
    BY <1>1, <1>2 DEF Init, TypeOK
<1>4. Present = {} /\ \A p \in Peers : {c \in Present : peer[c] = p} = {}
    BY DEF Init, Present
<1>5. Ceilings
    BY <1>1, <1>4, FS_EmptySet DEF Ceilings
<1>6. PoolMirrorsTunnels
    BY DEF Init, PoolMirrorsTunnels, Holder
<1>7. RoutesFollowTunnels /\ TunnelsAreGranted /\ EveryTunnelHasAddress
    BY Zenon, <1>4 DEF Init, RoutesFollowTunnels, TunnelsAreGranted, EveryTunnelHasAddress, Holder
<1>8. OnlyGrantedTraffic /\ RepliesReachHolder
    BY Zenon DEF Init, OnlyGrantedTraffic, RepliesReachHolder
<1> QED
    BY <1>3, <1>5, <1>6, <1>7, <1>8 DEF NodeInv

\* Nothing of NodeInv speaks of more than the state.
LEMMA StutterNode == NodeInv /\ UNCHANGED allVars => NodeInv'
<1> SUFFICES ASSUME NodeInv, UNCHANGED allVars PROVE NodeInv'
    OBVIOUS
<1>1. /\ setup' = setup /\ conn' = conn /\ peer' = peer /\ tunnel' = tunnel /\ policy' = policy
      /\ addr' = addr /\ pq' = pq /\ cursor' = cursor /\ inUse' = inUse /\ byConn' = byConn
      /\ routes' = routes /\ spent' = spent /\ toTun' = toTun /\ toClient' = toClient
    BY Zenon DEF allVars, vars, client, pool
<1>2. /\ Present' = Present /\ Hosts' = Hosts /\ Sources' = Sources
      /\ \A c \in Conns : Holder(c)' = Holder(c)
    BY Zenon, <1>1, SetupStays DEF Present, Holder
<1>3. TypeOK' /\ Ceilings' /\ PoolMirrorsTunnels'
    BY ZenonT(40), <1>1, <1>2, SetupStays DEF NodeInv, TypeOK, Ceilings, PoolMirrorsTunnels
<1>4. RoutesFollowTunnels' /\ TunnelsAreGranted'
    BY Zenon, <1>1, <1>2, SetupStays DEF NodeInv, RoutesFollowTunnels, TunnelsAreGranted
<1>5. OnlyGrantedTraffic' /\ RepliesReachHolder' /\ EveryTunnelHasAddress'
    BY Zenon, <1>1, <1>2, SetupStays DEF NodeInv, OnlyGrantedTraffic, RepliesReachHolder, EveryTunnelHasAddress
<1> QED
    BY <1>3, <1>4, <1>5 DEF NodeInv

\* The event loop of nil-node, for every number of connections, pool and set of grants: its
\* tables agree with its tunnels through accepting, failed answers, closing and reaping;
\* ceilings hold; traffic goes where a consumed grant lets it; replies reach the holder.
THEOREM NodeSafety == Spec => []NodeInv
<1>1. Init => NodeInv
    BY InitNode
<1>2. NodeInv /\ [Next]_allVars => NodeInv'
    BY TypeStep, CeilingStep, PoolStep, RouteStep, GrantedStep, TrafficStep, ReplyStep, AddressStep,
        StutterNode DEF NodeInv
<1> QED
    BY <1>1, <1>2, PTL DEF Spec
=============================================================================
