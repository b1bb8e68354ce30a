------------------------ MODULE PassRedemptionProofs ------------------------
(***************************************************************************)
(* PassInv is inductive: whatever is lost, refused, retried, restarted or  *)
(* left unrecorded, a pass opens one tunnel, is not lost, and leaves no    *)
(* session behind.  A client of one node dials it with the transport that  *)
(* TransportSelector chooses: SelectorInv, at the end of the module.       *)
(***************************************************************************)
EXTENDS PassRedemption, TransportSelector, TLAPS

\* Head and Tail of a queue without repetitions: the reserved pass leaves the
\* queue, and leaves the others in it.
LEMMA QueueSplits ==
    ASSUME NEW S, NEW q \in Seq(S), q # <<>>, IsInjective(q)
    PROVE  /\ Head(q) \in S /\ Tail(q) \in Seq(S) /\ IsInjective(Tail(q))
           /\ Head(q) \notin Range(Tail(q))
           /\ Range(q) = {Head(q)} \cup Range(Tail(q))
<1>1. Head(q) = q[1] /\ Len(q) \in Nat \ {0} /\ Head(q) \in S
    OBVIOUS
<1>2. /\ Tail(q) \in Seq(S) /\ DOMAIN Tail(q) = 1..(Len(q) - 1)
      /\ \A i \in 1..(Len(q) - 1) : Tail(q)[i] = q[i + 1]
    OBVIOUS
<1>3. DOMAIN q = 1..Len(q)
    OBVIOUS
<1>4. IsInjective(Tail(q)) /\ Head(q) \notin Range(Tail(q))
    BY <1>1, <1>2, <1>3 DEF IsInjective, Range
<1>5. Range(q) = {Head(q)} \cup Range(Tail(q))
  <2>1. ASSUME NEW i \in 1..Len(q) PROVE q[i] \in {Head(q)} \cup Range(Tail(q))
    <3>1. CASE i = 1
        BY <3>1, <1>1
    <3>2. CASE i # 1
      <4>1. i - 1 \in 1..(Len(q) - 1) /\ (i - 1) + 1 = i
          BY <3>2, <1>1
      <4> QED
          BY Zenon, <4>1, <1>2 DEF Range
    <3> QED
        BY <3>1, <3>2
  <2>2. \A i \in 1..(Len(q) - 1) : q[i + 1] \in Range(q)
      BY <1>1, <1>3 DEF Range
  <2>3. Head(q) \in Range(q)
      BY <1>1, <1>3 DEF Range
  <2> QED
      BY <2>1, <2>2, <2>3, <1>2, <1>3 DEF Range
<1> QED
    BY <1>1, <1>2, <1>4, <1>5

\* The numbers among the constants.
LEMMA Numbers ==
    /\ PathHops \in Nat \ {0} /\ GrantTtl \in Nat \ {0} /\ PassLife \in Nat
    /\ MaxClock \in Nat \ {0} /\ MaxFaults \in Nat
<1>1. PathHops \in 1..Cardinality(Nodes)
    BY Zenon, PassAssumption
<1>2. /\ GrantTtl \in Nat \ {0} /\ PassLife \in Nat
      /\ MaxClock \in Nat \ {0} /\ MaxFaults \in Nat
    BY Zenon, PassAssumption
<1> QED
    BY <1>1, <1>2

\* Expires is a number of seconds for every result the Coordinator records.
LEMMA ExpiresType ==
    ASSUME NEW r \in Results
    PROVE  Expires(r) \in Nat /\ r.issued \in Nat /\ r.issued <= MaxClock /\ Expires(r) > r.issued
BY Numbers DEF Results, Expires

\* mint_grant's result is not NoResult and is a recordable one.
LEMMA ProposeType ==
    ASSUME TypeOK, NEW nodeSeq \in Paths
    PROVE  /\ Propose(nodeSeq) \in Results /\ Propose(nodeSeq) # NoResult
           /\ Propose(nodeSeq).nodes = nodeSeq /\ Propose(nodeSeq).issued = clock
BY Numbers DEF TypeOK, Results, Propose, NoResult

\* NoResult is what an attempt without an answer works with.
LEMMA NoResultType == NoResult \in Results
BY Numbers DEF NoResult, Results

\* What membership in Seq says of a sequence.
LEMMA SeqFacts ==
    ASSUME NEW S, NEW q \in Seq(S)
    PROVE  /\ Len(q) \in Nat /\ DOMAIN q = 1..Len(q) /\ \A i \in 1..Len(q) : q[i] \in S
           /\ \A e \in S : /\ Append(q, e) \in Seq(S) /\ Len(Append(q, e)) = Len(q) + 1
                           /\ \A i \in 1..Len(q) : Append(q, e)[i] = q[i]
                           /\ Append(q, e)[Len(q) + 1] = e
           /\ <<>> \in Seq(S)
OBVIOUS

\* The steps of Next; `kinds` never changes.
LEMMA Steps ==
    ASSUME Next
    PROVE  /\ kinds' = kinds
           /\ \/ ConnectBegin \/ Redeem \/ Dial \/ Wrap \/ BringUp \/ Disconnect \/ Crash \/ Tick
              \/ \E n \in Nodes : NodeRestart(n)
BY DEF Next, Step, Attempt

\* teardown closes exactly the established hops.
LEMMA TeardownIsEstablished ==
    ASSUME TypeOK, AttemptFollowsPath
    PROVE  Teardown = 1..Len(hops) /\ Len(hops) \in 0..PathHops
<1>1. \A i \in 1..Len(hops) : hops[i] = i
    BY DEF AttemptFollowsPath
<1> SUFFICES ASSUME hops \in Seq(1..PathHops)
             PROVE  Teardown = 1..Len(hops) /\ Len(hops) \in 0..PathHops
    BY DEF TypeOK
<1>2. Len(hops) \in Nat /\ DOMAIN hops = 1..Len(hops) /\ \A i \in 1..Len(hops) : hops[i] \in 1..PathHops
    BY Zenon, SeqFacts
<1>3. Teardown = 1..Len(hops)
  <2>1. Teardown = {hops[i] : i \in 1..Len(hops)}
      BY <1>2, Zenon DEF Teardown, Range
  <2> QED
      BY <2>1, <1>1
<1>4. Len(hops) <= PathHops
  <2>1. CASE Len(hops) = 0
      BY <2>1, Numbers
  <2>2. CASE Len(hops) # 0
    <3>1. Len(hops) \in 1..Len(hops)
        BY <2>2, <1>2
    <3> QED
        BY <3>1, <1>1, <1>2, Numbers
  <2> QED
      BY <2>1, <2>2
<1> QED
    BY <1>2, <1>3, <1>4, Numbers

\* In an attempt that fails, or whose client dies, every session is closed.
LEMMA AttemptEnds ==
    ASSUME TypeOK, AttemptFollowsPath, Next, at' = "idle"
    PROVE  \/ UNCHANGED <<at, path, hops, open>>
           \/ path' = NoResult /\ hops' = <<>> /\ open' = {}
<1> USE TeardownIsEstablished, Numbers DEF AttemptFollowsPath, Dialling, Dialled
<1>1. CASE ConnectBegin
    BY <1>1 DEF ConnectBegin
<1>2. CASE Redeem
  <2>1. open = {}
      BY <1>2 DEF Redeem
  <2> QED
      BY <1>2, <2>1 DEF Redeem, Fails
<1>3. CASE Dial
  <2>1. open = 1..Len(hops) /\ Fails(Teardown)
      BY <1>3 DEF Dial, TypeOK
  <2> QED
      BY <2>1 DEF Fails
<1>4. CASE Wrap
  <2>1. open = 1..(Len(hops) + 1) /\ Fails(Teardown \cup {Len(hops) + 1})
      BY <1>4 DEF Wrap
  <2> QED
      BY <2>1 DEF Fails
<1>5. CASE BringUp \/ Disconnect
  <2>1. open = 1..Len(hops) /\ Fails(Teardown)
      BY <1>5 DEF BringUp, Disconnect
  <2> QED
      BY <2>1 DEF Fails
<1>6. CASE Crash
    BY <1>6 DEF Crash, Fails
<1>7. CASE Tick
    BY <1>7 DEF Tick
<1>8. CASE \E n \in Nodes : NodeRestart(n)
    BY <1>8 DEF NodeRestart
<1> QED
    BY <1>1, <1>2, <1>3, <1>4, <1>5, <1>6, <1>7, <1>8, Steps

\* The parts of the type that each action of the attempt may change.
LEMMA TypeStep ==
    ASSUME PassInv, Next
    PROVE  TypeOK'
<1> USE Numbers
<1>1. kinds' = kinds
    BY Steps
<1>2. clock' \in 1..MaxClock /\ faults' \in 0..MaxFaults /\ results' \in Nat
  <2>1. clock \in 1..MaxClock /\ faults \in 0..MaxFaults /\ results \in Nat
      BY Zenon DEF PassInv, TypeOK
  <2>2. clock' = clock \/ (clock < MaxClock /\ clock' = clock + 1)
      BY Zenon, Steps DEF ConnectBegin, Redeem, Dial, Wrap, BringUp, Disconnect, Crash, Tick, NodeRestart
  <2>3. faults' = faults \/ (faults < MaxFaults /\ faults' = faults + 1)
      BY ZenonT(40), Steps DEF ConnectBegin, Redeem, Dial, Wrap, BringUp, Disconnect, Crash, Tick, NodeRestart,
          Fault, NoFault
  <2>4. results' = results \/ results' = results + 1
      BY Zenon, Steps DEF ConnectBegin, Redeem, Dial, Wrap, BringUp, Disconnect, Crash, Tick, NodeRestart,
          coordinator
  <2> QED
      BY <2>1, <2>2, <2>3, <2>4
<1>3. tokens' \in Seq(Ids) /\ IsInjective(tokens') /\ pending' \in (Ids \ Range(tokens')) \cup {NoPass}
  <2>1. CASE ConnectBegin
    <3>1. CASE UNCHANGED vault
        BY <3>1 DEF vault, PassInv, TypeOK
    <3>2. CASE tokens' = <<>> /\ pending' = NoPass
        BY <3>2 DEF IsInjective, Range
    <3>3. CASE tokens # <<>> /\ pending' = Head(tokens) /\ tokens' = Tail(tokens)
        BY <3>3, QueueSplits DEF PassInv, TypeOK
    <3> QED
        BY <2>1, <3>1, <3>2, <3>3 DEF ConnectBegin
  <2>2. CASE UNCHANGED tokens /\ (pending' = pending \/ pending' = NoPass)
      BY Zenon, <2>2 DEF PassInv, TypeOK
  <2>3. ASSUME ~ConnectBegin PROVE UNCHANGED tokens /\ (pending' = pending \/ pending' = NoPass)
      BY <2>3, Steps DEF Redeem, Dial, Wrap, BringUp, Disconnect, Crash, Tick, NodeRestart, vault
  <2> QED
      BY <2>1, <2>2, <2>3
<1>4. at' \in {"idle", "redeem", "dial", "wrap", "up"}
    BY Zenon, Steps DEF PassInv, TypeOK, ConnectBegin, Redeem, Dial, Wrap, BringUp, Disconnect, Crash,
        Tick, NodeRestart, Fails
<1>5. ledger' \in [Ids -> Results]
  <2>1. CASE UNCHANGED ledger
      BY <2>1 DEF PassInv, TypeOK
  <2>2. CASE \E nodeSeq \in Paths : ledger' = [ledger EXCEPT ![pending] = Propose(nodeSeq)]
      BY ZenonT(40), <2>2, ProposeType DEF PassInv, TypeOK
  <2> QED
      BY <2>1, <2>2, Steps DEF ConnectBegin, Redeem, Dial, Wrap, BringUp, Disconnect, Crash,
          Tick, NodeRestart, coordinator
<1>6. path' \in Results
  <2>1. (ledger'[pending] \in Results /\ ledger[pending] \in Results) \/ at # "redeem"
    <3>1. at = "redeem" => pending \in Ids
        BY Zenon DEF PassInv, AttemptFollowsPath, TypeOK
    <3> QED
        BY <3>1, <1>5 DEF PassInv, TypeOK
  <2>2. path' = NoResult \/ path' = path \/ (at = "redeem" /\ path' \in {ledger[pending], ledger'[pending]})
      BY Zenon, Steps DEF ConnectBegin, Redeem, Dial, Wrap, BringUp, Disconnect, Crash,
          Tick, NodeRestart, Fails
  <2> QED
      BY <2>1, <2>2, NoResultType DEF PassInv, TypeOK
<1>7. started' \in [Nodes -> 0..MaxClock]
  <2>1. CASE UNCHANGED started
      BY <2>1 DEF PassInv, TypeOK
  <2>2. CASE \E n \in Nodes : started' = [started EXCEPT ![n] = clock]
      BY SMTT(30), <2>2 DEF PassInv, TypeOK
  <2> QED
      BY Zenon, <2>1, <2>2, Steps DEF ConnectBegin, Redeem, Dial, Wrap, BringUp, Disconnect, Crash,
          Tick, NodeRestart, nodes
<1>8. tunnels' \in [Ids -> Nat]
  <2>1. CASE UNCHANGED tunnels
      BY <2>1 DEF PassInv, TypeOK
  <2>2. CASE at = "dial" /\ tunnels' = [tunnels EXCEPT ![pending] = @ + 1]
    <3>1. pending \in Ids
        BY Zenon, <2>2 DEF PassInv, AttemptFollowsPath, TypeOK, Dialling
    <3> QED
        BY <2>2, <3>1 DEF PassInv, TypeOK
  <2> QED
      BY <2>1, <2>2, Steps DEF ConnectBegin, Redeem, Dial, Wrap, BringUp, Disconnect, Crash,
          Tick, NodeRestart
<1>9. hops' \in Seq(1..PathHops) /\ open' \subseteq 1..PathHops
  <2>0. hops \in Seq(1..PathHops) /\ open \subseteq 1..PathHops
      BY DEF PassInv, TypeOK
  <2>1. CASE UNCHANGED <<hops, open>>
      BY <2>1 DEF PassInv, TypeOK
  <2>2. CASE at' = "idle"
    <3>1. UNCHANGED <<hops, open>> \/ (hops' = <<>> /\ open' = {})
        BY <2>2, AttemptEnds DEF PassInv
    <3>2. CASE hops' = <<>> /\ open' = {}
        BY <3>2
    <3> QED
        BY <3>1, <3>2, <2>1
  <2>3. CASE Dial /\ at' # "idle"
    <3>1. Len(hops) + 1 \in 1..PathHops /\ open' = open \cup {Len(hops) + 1}
        BY <2>3, TeardownIsEstablished DEF Dial, Fails, PassInv
    <3>2. open' \subseteq 1..PathHops
        BY Zenon, <3>1, <2>0
    <3>3. ASSUME hops' = Append(hops, Len(hops) + 1) PROVE hops' \in Seq(1..PathHops)
        BY <3>1, <3>3, <2>0
    <3> QED
        BY <2>3, <2>0, <3>2, <3>3 DEF Dial, Fails
  <2>4. CASE Wrap /\ at' # "idle"
    <3>1. /\ Len(hops) + 1 \in 1..PathHops
          /\ hops' = Append(hops, Len(hops) + 1)
          /\ open' = open
        BY <2>4, TeardownIsEstablished DEF Wrap, Fails, PassInv, AttemptFollowsPath
    <3> QED
        BY <3>1 DEF PassInv, TypeOK
  <2> QED
      BY <2>2, <2>1, <2>3, <2>4, Steps DEF ConnectBegin, Redeem, BringUp, Disconnect, Crash,
          Tick, NodeRestart, Fails
<1> QED
    BY Zenon, <1>1, <1>2, <1>3, <1>4, <1>5, <1>6, <1>7, <1>8, <1>9 DEF PassInv, TypeOK

\* An attempt keeps to the pass, the answer and the order of the path it began with.
LEMMA AttemptStep ==
    ASSUME PassInv, Next
    PROVE  AttemptFollowsPath'
<1> USE Numbers
<1>0. TypeOK /\ AttemptFollowsPath
    BY DEF PassInv
<1>1. CASE UNCHANGED <<at, path, hops, open>>
  <2>1. at = "redeem" \/ Dialling \/ at = "up" => UNCHANGED <<pending, ledger>>
      BY <1>1, Steps DEF ConnectBegin, Redeem, Dial, Wrap, BringUp, Disconnect, Crash, Tick,
          NodeRestart, Fails, Dialling, vault, coordinator
  <2> QED
      BY SMTT(30), <1>0, <1>1, <2>1 DEF AttemptFollowsPath, Dialling, Dialled
<1>2. CASE at' = "idle"
  <2>1. CASE path' = NoResult /\ hops' = <<>> /\ open' = {}
      BY <1>2, <2>1 DEF AttemptFollowsPath, Dialling, Dialled
  <2> QED
      BY <1>0, <1>1, <1>2, <2>1, AttemptEnds
<1>3. CASE ConnectBegin /\ at' # "idle"
  <2>1. /\ at = "idle" /\ at' = "redeem" /\ UNCHANGED <<path, hops, open>>
        /\ pending' # NoPass
    <3>1. \A i \in 1..Len(tokens) : tokens[i] \in Ids
        BY <1>0 DEF TypeOK
    <3>2. tokens # <<>> => Head(tokens) \in Ids
        BY <1>0, QueueSplits DEF TypeOK
    <3>3. NoPass \notin Ids
        BY PassAssumption, Zenon DEF NoPass, Ids
    <3> QED
        BY <1>3, <3>2, <3>3 DEF ConnectBegin, vault
  <2> QED
      BY <1>0, <2>1 DEF AttemptFollowsPath, Dialling, Dialled
<1>4. CASE Redeem /\ at' # "idle"
  <2>1. /\ at = "redeem" /\ at' = "dial" /\ UNCHANGED <<hops, open, pending>>
        /\ path' = ledger'[pending]
      BY <1>4 DEF Redeem, Fails, vault, coordinator
  <2>2. pending \in Ids /\ pending # NoPass
      BY <1>0, <2>1 DEF AttemptFollowsPath, TypeOK
  <2>3. ledger'[pending] # NoResult
    <3>1. CASE ledger[pending] # NoResult /\ UNCHANGED ledger
        BY <3>1
    <3>2. CASE \E nodeSeq \in Paths : ledger' = [ledger EXCEPT ![pending] = Propose(nodeSeq)]
      <4>1. PICK nodeSeq \in Paths : ledger' = [ledger EXCEPT ![pending] = Propose(nodeSeq)]
          BY Zenon, <3>2
      <4>2. Propose(nodeSeq) # NoResult
          BY <1>0, ProposeType
      <4>3. ledger'[pending] = Propose(nodeSeq)
          BY <1>0, <2>2, <4>1 DEF TypeOK
      <4> QED
          BY <4>2, <4>3
    <3> QED
        BY <1>4, <3>1, <3>2 DEF Redeem, Sealed, coordinator
  <2>4. at = "redeem" => open = {} /\ hops = <<>>
      BY <1>0 DEF AttemptFollowsPath, Dialled
  <2> QED
      BY <2>1, <2>2, <2>3, <2>4 DEF AttemptFollowsPath, Dialling, Dialled
<1>5. CASE (Dial \/ Wrap) /\ at' # "idle"
  <2> DEFINE n == Len(hops)
  <2>1. /\ Dialling /\ Dialling' /\ UNCHANGED <<pending, ledger, path>>
        /\ \/ at = "dial" /\ at' = "wrap" /\ hops' = hops /\ open' = open \cup {n + 1} /\ n < PathHops
           \/ at = "dial" /\ at' = "dial" /\ hops' = Append(hops, n + 1) /\ open' = open \cup {n + 1}
           \/ at = "wrap" /\ at' = "dial" /\ hops' = Append(hops, n + 1) /\ open' = open
      BY <1>5 DEF Dial, Wrap, Dialling, Fails, vault, coordinator
  <2>2. hops \in Seq(1..PathHops) /\ n \in Nat /\ \A i \in 1..n : hops[i] = i
      BY <1>0 DEF TypeOK, AttemptFollowsPath
  <2>3. ASSUME hops' = Append(hops, n + 1)
        PROVE  Len(hops') = n + 1 /\ \A i \in 1..(n + 1) : hops'[i] = i
      BY <2>2, <2>3
  <2>4. open = Dialled /\ path = ledger[pending] /\ path # NoResult /\ pending # NoPass
      BY <1>0, <2>1 DEF AttemptFollowsPath
  <2> HIDE DEF n
  <2>5. (1..n) \cup {n + 1} = 1..(n + 1)
      BY <2>2
  <2>6. open = IF at = "wrap" THEN 1..(n + 1) ELSE 1..n
      BY <2>4 DEF Dialled, n
  <2>7. CASE at' = "wrap"
    <3>1. hops' = hops /\ open' = 1..(n + 1) /\ n < PathHops
        BY Zenon, <2>1, <2>7, <2>5, <2>6
    <3> QED
        BY <1>0, <2>1, <2>4, <2>7, <3>1 DEF AttemptFollowsPath, Dialling, Dialled, n
  <2>8. CASE at' = "dial"
    <3>1. Len(hops') = n + 1 /\ \A i \in 1..(n + 1) : hops'[i] = i
        BY <2>1, <2>3, <2>8
    <3>2. open' = 1..(n + 1)
        BY Zenon, <2>1, <2>8, <2>5, <2>6
    <3> QED
        BY <2>1, <2>4, <2>8, <3>1, <3>2 DEF AttemptFollowsPath, Dialling, Dialled
  <2> QED
      BY <2>1, <2>7, <2>8 DEF Dialling
<1>6. CASE BringUp /\ at' # "idle"
  <2>1. at = "dial" /\ at' = "up" /\ pending' = NoPass /\ UNCHANGED <<path, hops, open>>
      BY SMTT(30), <1>6 DEF BringUp, Fails
  <2> QED
      BY <1>0, <2>1 DEF AttemptFollowsPath, Dialling, Dialled
<1> QED
    BY <1>1, <1>2, <1>3, <1>4, <1>5, <1>6, Steps DEF Disconnect, Crash, Tick, NodeRestart, Fails

\* A first result is never replaced: redeem answers with it or not at all.
LEMMA ResultStays ==
    ASSUME PassInv, Next, NEW p \in Ids, ledger[p] # NoResult
    PROVE  ledger'[p] = ledger[p]
<1>1. CASE UNCHANGED ledger
    BY <1>1
<1>2. CASE ledger[pending] = NoResult
        /\ \E nodeSeq \in Paths : ledger' = [ledger EXCEPT ![pending] = Propose(nodeSeq)]
    BY Zenon, <1>2 DEF PassInv, TypeOK
<1> QED
    BY <1>1, <1>2, Steps DEF ConnectBegin, Redeem, Dial, Wrap, BringUp, Disconnect, Crash,
        Tick, NodeRestart, coordinator

\* Time goes on, and a node's start is only ever moved to the present.
LEMMA TimeGoesOn ==
    ASSUME PassInv, Next
    PROVE  /\ clock \in Nat /\ clock' \in Nat /\ clock <= clock'
           /\ \A n \in Nodes : started'[n] = started[n] \/ started'[n] = clock
<1>1. clock \in Nat /\ clock' \in Nat /\ clock <= clock'
  <2>1. clock \in 1..MaxClock /\ (clock' = clock \/ clock' = clock + 1)
      BY Zenon, Steps DEF PassInv, TypeOK, ConnectBegin, Redeem, Dial, Wrap, BringUp, Disconnect,
          Crash, Tick, NodeRestart
  <2> QED
      BY <2>1, Numbers
<1>2. CASE UNCHANGED started
    BY <1>1, <1>2
<1>3. CASE \E n \in Nodes : started' = [started EXCEPT ![n] = clock]
    BY <1>1, <1>3 DEF PassInv, TypeOK
<1> QED
    BY Zenon, <1>1, <1>2, <1>3, Steps DEF ConnectBegin, Redeem, Dial, Wrap, BringUp, Disconnect,
        Crash, Tick, NodeRestart, nodes

\* The Coordinator records paths of distinct nodes and the time of issue.
LEMMA LedgerStep ==
    ASSUME PassInv, Next
    PROVE  LedgerIsSound'
<1> SUFFICES ASSUME NEW p \in Ids, ledger'[p] # NoResult
             PROVE  ledger'[p].nodes \in Paths /\ ledger'[p].issued \in 1..clock'
    BY DEF LedgerIsSound
<1>1. CASE ledger[p] # NoResult
  <2>1. ledger[p].nodes \in Paths /\ ledger[p].issued \in 1..clock
      BY Zenon, <1>1 DEF PassInv, LedgerIsSound
  <2> QED
      BY <1>1, <2>1, ResultStays, TimeGoesOn
<1>2. CASE ledger[p] = NoResult
  <2>1. p = pending /\ \E nodeSeq \in Paths : ledger' = [ledger EXCEPT ![pending] = Propose(nodeSeq)]
      BY Zenon, <1>2, Steps DEF ConnectBegin, Redeem, Dial, Wrap, BringUp, Disconnect, Crash,
          Tick, NodeRestart, coordinator, PassInv, TypeOK
  <2>2. PICK nodeSeq \in Paths : ledger' = [ledger EXCEPT ![pending] = Propose(nodeSeq)]
      BY Zenon, <2>1
  <2>3. ledger'[p] = Propose(nodeSeq)
      BY <2>1, <2>2 DEF PassInv, TypeOK
  <2>4. Propose(nodeSeq).nodes = nodeSeq /\ Propose(nodeSeq).issued = clock
      BY ProposeType DEF PassInv
  <2> QED
      BY SMTT(30), <2>3, <2>4, TimeGoesOn DEF PassInv, TypeOK
<1> QED
    BY <1>1, <1>2

\* A node that started after the issue of a grant never forgets that.
LEMMA RestartStays ==
    ASSUME PassInv, Next, NEW r \in Results, r.issued <= clock, NEW n \in Nodes,
           started[n] >= r.issued
    PROVE  started'[n] >= r.issued
BY Zenon, TimeGoesOn, ExpiresType DEF PassInv, TypeOK

\* A used grant stays used: replay caches forget only what has expired, unless
\* the node starts over.
LEMMA UsedStays ==
    ASSUME PassInv, Next, NEW r \in Results, r.nodes \in Paths, r.issued <= clock,
           NEW i \in 1..PathHops, Used(r, i)
    PROVE  Used(r, i)'
<1>1. r.nodes[i] \in Nodes
    BY Zenon DEF Paths
<1>2. Expires(r) \in Nat /\ r.issued \in Nat
    BY ExpiresType
<1>3. CASE clock >= Expires(r)
    BY <1>2, <1>3, TimeGoesOn DEF Used
<1>4. CASE started[r.nodes[i]] >= r.issued
    BY <1>1, <1>4, RestartStays DEF Used
<1>5. CASE Grant(r, i) \in consumed /\ clock < Expires(r)
  <2>1. Grant(r, i).expires = Expires(r) /\ Grant(r, i).node = r.nodes[i]
      BY DEF Grant
  <2>2. CASE \E n \in Nodes : NodeRestart(n)
    <3>1. PICK n \in Nodes : NodeRestart(n)
        BY Zenon, <2>2
    <3>2. CASE n = r.nodes[i]
        BY Zenon, <1>1, <1>2, <3>1, <3>2, TimeGoesOn DEF NodeRestart, Used, PassInv, TypeOK
    <3>3. CASE n # r.nodes[i]
        BY <1>5, <2>1, <3>1, <3>3 DEF NodeRestart, Used
    <3> QED
        BY <3>2, <3>3
  <2>3. CASE Remembered \subseteq consumed'
    <3>1. Grant(r, i) \in Remembered
        BY <1>5, <2>1, <1>2, TimeGoesOn DEF Remembered
    <3> QED
        BY <2>3, <3>1 DEF Used
  <2>4. CASE UNCHANGED consumed
      BY <1>5, <2>4 DEF Used
  <2> QED
      BY ZenonT(40), <2>2, <2>3, <2>4, Steps DEF ConnectBegin, Redeem, Dial, Wrap, BringUp, Disconnect,
          Crash, Tick, nodes
<1> QED
    BY <1>2, <1>3, <1>4, <1>5, TimeGoesOn DEF Used

\* A recorded result, as a value of its own: what was used of it stays used.
LEMMA RecordedStays ==
    ASSUME PassInv, Next, NEW p \in Ids, ledger[p] # NoResult, NEW i \in 1..PathHops
    PROVE  /\ Used(ledger[p], i) => Used(ledger[p], i)'
           /\ started[ledger[p].nodes[i]] >= ledger[p].issued
                 => (started[ledger[p].nodes[i]] >= ledger[p].issued)'
<1>1. PICK r \in Results : r = ledger[p]
    BY DEF PassInv, TypeOK
<1>2. ledger'[p] = r
    BY <1>1, ResultStays
<1>3. r.nodes \in Paths /\ r.issued <= clock
    BY <1>1, TimeGoesOn DEF PassInv, LedgerIsSound
<1>4. r.nodes[i] \in Nodes
    BY Zenon, <1>3 DEF Paths
<1>5. ASSUME Used(ledger[p], i) PROVE Used(ledger[p], i)'
  <2>1. Used(r, i)
      BY <1>1, <1>5
  <2>2. Used(r, i)'
      BY <2>1, <1>3, UsedStays
  <2> QED
      BY <2>2, <1>2 DEF Used
<1>6. ASSUME started[ledger[p].nodes[i]] >= ledger[p].issued
      PROVE  (started[ledger[p].nodes[i]] >= ledger[p].issued)'
    BY Zenon, <1>1, <1>2, <1>3, <1>4, <1>6, RestartStays
<1> QED
    BY <1>5, <1>6

\* Tunnels are only counted, and only when the whole path of the pending pass stands.
LEMMA TunnelStep ==
    ASSUME PassInv, Next, NEW p \in Ids
    PROVE  \/ tunnels'[p] = tunnels[p]
           \/ /\ tunnels'[p] = tunnels[p] + 1 /\ p = pending /\ at = "dial"
              /\ Dialled = 1..PathHops /\ UNCHANGED ledger
<1>1. CASE UNCHANGED tunnels
    BY <1>1
<1>2. CASE /\ at = "dial" /\ Len(hops) = PathHops /\ UNCHANGED ledger
           /\ tunnels' = [tunnels EXCEPT ![pending] = @ + 1]
  <2>1. Dialled = 1..PathHops
      BY Zenon, <1>2 DEF Dialled
  <2> QED
      BY <1>2, <2>1 DEF PassInv, TypeOK
<1> QED
    BY Zenon, <1>1, <1>2, Steps DEF ConnectBegin, Redeem, Dial, Wrap, BringUp, Disconnect, Crash,
        Tick, NodeRestart, coordinator

\* What the hops of the attempt say of the pending pass.
LEMMA DialledFacts ==
    ASSUME PassInv, Dialling
    PROVE  /\ pending \in Ids /\ path = ledger[pending] /\ ledger[pending] # NoResult
           /\ \A i \in Dialled :
                /\ Used(ledger[pending], i)
                /\ tunnels[pending] > 0 => started[ledger[pending].nodes[i]] >= ledger[pending].issued
BY DEF PassInv, TypeOK, AttemptFollowsPath, GrantsAreUsedOnce

\* A second tunnel needs every node of the path restarted since the issue.
LEMMA OneTunnelStep ==
    ASSUME PassInv, Next
    PROVE  OneTunnelPerPass'
<1> SUFFICES ASSUME NEW p \in Ids, tunnels'[p] > 1, NEW i \in 1..PathHops
             PROVE  (started[ledger[p].nodes[i]] >= ledger[p].issued)'
    BY DEF OneTunnelPerPass
<1>0. tunnels[p] \in Nat
    BY DEF PassInv, TypeOK
<1>1. CASE tunnels[p] > 1
  <2>1. ledger[p] # NoResult /\ started[ledger[p].nodes[i]] >= ledger[p].issued
      BY <1>0, <1>1 DEF PassInv, OneTunnelPerPass, GrantsAreUsedOnce
  <2> QED
      BY <2>1, RecordedStays
<1>2. CASE ~(tunnels[p] > 1)
  <2>1. tunnels[p] > 0 /\ p = pending /\ at = "dial" /\ Dialled = 1..PathHops
      BY <1>0, <1>2, TunnelStep
  <2>2. ledger[p] # NoResult /\ started[ledger[p].nodes[i]] >= ledger[p].issued
      BY <2>1, DialledFacts DEF Dialling
  <2> QED
      BY <2>2, RecordedStays
<1> QED
    BY <1>1, <1>2

\* A tunnel has used up the grants of its whole path.
LEMMA TunnelUsesGrants ==
    ASSUME PassInv, Next, NEW p \in Ids, tunnels'[p] > 0
    PROVE  ledger'[p] # NoResult /\ \A i \in 1..PathHops : Used(ledger[p], i)'
<1>0. tunnels[p] \in Nat
    BY DEF PassInv, TypeOK
<1>1. ledger[p] # NoResult /\ \A i \in 1..PathHops : Used(ledger[p], i)
  <2>1. CASE tunnels[p] > 0
      BY <2>1 DEF PassInv, GrantsAreUsedOnce
  <2>2. CASE ~(tunnels[p] > 0)
      BY Zenon, <1>0, <2>2, TunnelStep, DialledFacts DEF Dialling
  <2> QED
      BY <2>1, <2>2
<1> QED
    BY <1>1, RecordedStays, ResultStays

\* A hop that accepts has its grant used up; that it accepts on a pass which has
\* had its tunnel shows that its node restarted.
LEMMA GrantsStep ==
    ASSUME PassInv, Next
    PROVE  GrantsAreUsedOnce'
<1> SUFFICES ASSUME Dialling', NEW i \in Dialled'
             PROVE  /\ Used(path, i)'
                    /\ (tunnels[pending] > 0 => started[path.nodes[i]] >= path.issued)'
    BY TunnelUsesGrants DEF GrantsAreUsedOnce
<1> USE Numbers
<1>1. pending' = pending /\ path' = ledger'[pending] /\ (Dialling \/ at = "redeem")
  <2>1. pending' = pending /\ (Dialling \/ at = "redeem")
      BY ZenonT(40), Steps DEF ConnectBegin, Redeem, Dial, Wrap, BringUp, Disconnect, Crash, Tick, NodeRestart,
          Fails, Dialling, vault
  <2> QED
      BY <2>1, AttemptStep DEF AttemptFollowsPath
<1>2. Dialling
  <2>1. CASE Redeem
    <3>1. hops' = <<>> /\ Dialled' = {}
        BY <2>1 DEF Redeem, Fails, PassInv, AttemptFollowsPath, Dialling, Dialled
    <3> QED
        BY <3>1
  <2> QED
      BY Zenon, <1>1, <2>1, Steps DEF ConnectBegin, Dial, Wrap, BringUp, Disconnect, Crash, Tick, NodeRestart,
          Fails, Dialling
<1>3. pending \in Ids /\ ledger[pending] # NoResult /\ path = ledger[pending] /\ path' = ledger[pending]
    BY <1>1, <1>2, DialledFacts, ResultStays
<1>4. tunnels'[pending] = tunnels[pending]
  <2>1. UNCHANGED tunnels
      BY Zenon, Steps DEF ConnectBegin, Redeem, Dial, Wrap, BringUp, Disconnect, Crash, Tick, NodeRestart,
          Fails, Dialling
  <2> QED
      BY Zenon, <2>1
<1>5. i \in 1..PathHops
  <2>1. TypeOK' /\ AttemptFollowsPath'
      BY Zenon, TypeStep, AttemptStep
  <2> QED
      BY <2>1 DEF TypeOK, AttemptFollowsPath
<1>6. CASE i \in Dialled
  <2>1. Used(ledger[pending], i)
        /\ (tunnels[pending] > 0 => started[ledger[pending].nodes[i]] >= ledger[pending].issued)
      BY <1>2, <1>6, DialledFacts
  <2>2. PICK p \in Ids : p = pending
      BY Zenon, <1>3
  <2>3. Used(ledger[p], i)'
        /\ (tunnels[p] > 0 => (started[ledger[p].nodes[i]] >= ledger[p].issued)')
      BY <1>3, <1>5, <2>1, <2>2, RecordedStays
  <2>4. ledger'[p] = path'
      BY SMTT(30), <1>1, <2>2
  <2> QED
      BY ZenonT(40), <1>1, <1>4, <2>2, <2>3, <2>4 DEF Used
<1>7. CASE i \notin Dialled
  <2>1. /\ Dial /\ i = Len(hops) + 1 /\ Accepts(i)
        /\ consumed' = Remembered \cup {Grant(path, i)} /\ UNCHANGED <<path, started, clock>>
    <3>1. Len(hops) \in Nat
        BY SMTT(30) DEF PassInv, TypeOK
    <3>2. CASE Dial
      <4>1. at = "dial" /\ at' \in {"dial", "wrap"}
          BY Zenon, <3>2 DEF Dial, Dialling
      <4>2. i = Len(hops) + 1
        <5>1. \/ at' = "wrap" /\ hops' = hops
              \/ at' = "dial" /\ hops' = Append(hops, Len(hops) + 1)
            BY Zenon, <3>2, <4>1 DEF Dial, Fails
        <5>2. hops \in Seq(1..PathHops)
            BY Zenon DEF PassInv, TypeOK
        <5>3. Dialled' \subseteq 1..(Len(hops) + 1) /\ Dialled = 1..Len(hops)
            BY <4>1, <5>1, <5>2 DEF Dialled
        <5> QED
            BY <1>7, <3>1, <5>3
      <4> QED
          BY <3>2, <4>1, <4>2 DEF Dial, Fails
    <3>3. CASE ~Dial
      <4>1. CASE Wrap
        <5>1. at = "wrap" /\ at' = "dial" /\ hops' = Append(hops, Len(hops) + 1)
            BY Zenon, <4>1 DEF Wrap, Fails, Dialling
        <5>2. hops \in Seq(1..PathHops)
            BY Zenon DEF PassInv, TypeOK
        <5>3. Len(hops') = Len(hops) + 1
            BY <3>1, <5>1, <5>2
        <5> QED
            BY Zenon, <1>7, <5>1, <5>3 DEF Dialled
      <4>2. CASE ~Wrap
        <5>1. hops' = hops /\ ((at' = "wrap") <=> (at = "wrap"))
            BY Zenon, <1>2, <3>3, <4>2, Steps DEF ConnectBegin, Redeem, BringUp, Disconnect, Crash,
                Tick, NodeRestart, Fails, Dialling
        <5> QED
            BY Zenon, <1>7, <5>1 DEF Dialled
      <4> QED
          BY Zenon, <4>1, <4>2
    <3> QED
        BY <3>2, <3>3
  <2>2. Used(path, i)'
      BY Zenon, <2>1 DEF Used, Grant, Expires
  <2>3. ASSUME tunnels[pending] > 0 PROVE started[path.nodes[i]] >= path.issued
    <3>1. Used(ledger[pending], i)
        BY <1>3, <1>5, <2>3 DEF PassInv, GrantsAreUsedOnce
    <3>2. clock < Expires(path) /\ Grant(path, i) \notin consumed
        BY Zenon, <2>1 DEF Accepts
    <3> QED
        BY <1>3, <3>1, <3>2, ExpiresType DEF Used, PassInv, TypeOK
  <2> QED
      BY <1>1, <1>4, <2>1, <2>2, <2>3
<1> QED
    BY <1>6, <1>7

\* No pass leaves the vault unused before it expires.
LEMMA NotLostStep ==
    ASSUME PassInv, Next
    PROVE  PassIsNotLost'
<1> SUFFICES ASSUME NEW p \in Ids
             PROVE  p \in Range(tokens') \/ p = pending' \/ tunnels'[p] > 0 \/ Expired'
    BY DEF PassIsNotLost
<1>1. p \in Range(tokens) \/ p = pending \/ tunnels[p] > 0 \/ Expired
    BY DEF PassInv, PassIsNotLost
<1>2. tunnels[p] \in Nat /\ (tunnels[p] > 0 => tunnels'[p] > 0)
    BY TunnelStep DEF PassInv, TypeOK
<1>3. Expired => Expired'
    BY TimeGoesOn, Numbers DEF Expired
<1>4. CASE UNCHANGED vault
    BY <1>1, <1>2, <1>3, <1>4 DEF vault
<1>5. CASE ConnectBegin
  <2>1. NoPass \notin Ids
      BY PassAssumption, Zenon DEF NoPass, Ids
  <2>2. CASE Expired
      BY <1>3, <2>2
  <2>3. CASE tokens # <<>> /\ pending = NoPass /\ pending' = Head(tokens) /\ tokens' = Tail(tokens)
    <3>1. Range(tokens) = {Head(tokens)} \cup Range(Tail(tokens))
        BY <2>3, QueueSplits DEF PassInv, TypeOK
    <3> QED
        BY <1>1, <1>2, <1>3, <2>1, <2>3, <3>1
  <2> QED
      BY <1>4, <1>5, <2>2, <2>3 DEF ConnectBegin
<1>6. CASE BringUp
  <2>1. CASE UNCHANGED pending
      BY <1>4, <1>6, <2>1 DEF BringUp, vault
  <2>2. CASE tunnels' = [tunnels EXCEPT ![pending] = @ + 1] /\ UNCHANGED tokens
      BY <1>1, <1>2, <1>3, <2>2 DEF PassInv, TypeOK
  <2> QED
      BY <1>6, <2>1, <2>2 DEF BringUp
<1> QED
    BY Zenon, <1>4, <1>5, <1>6, Steps DEF Redeem, Dial, Wrap, Disconnect, Crash, Tick, NodeRestart, vault

\* The client starts with every pass queued and nothing dialled.
LEMMA InitPass == Init => PassInv
<1> SUFFICES ASSUME Init PROVE PassInv
    OBVIOUS
<1> USE Numbers DEF Init
<1>1. Passes \in Seq(Ids) /\ IsInjective(Passes)
    BY PassAssumption, Zenon DEF Ids
<1>2. TypeOK
    BY <1>1, NoResultType DEF TypeOK
<1>3. OneTunnelPerPass /\ NoPartialPath /\ LedgerIsSound /\ GrantsAreUsedOnce
    BY DEF OneTunnelPerPass, NoPartialPath, LedgerIsSound, GrantsAreUsedOnce, Dialling
<1>4. PassIsNotLost
    BY DEF PassIsNotLost, Ids
<1>5. AttemptFollowsPath
    BY DEF AttemptFollowsPath, Dialling, Dialled
<1> QED
    BY <1>2, <1>3, <1>4, <1>5 DEF PassInv

\* One step of the client, the Coordinator, a node or the clock keeps PassInv.
LEMMA NextPass == PassInv /\ [Next]_<<vars, kinds>> => PassInv'
<1> SUFFICES ASSUME PassInv, [Next]_<<vars, kinds>> PROVE PassInv'
    OBVIOUS
<1>1. CASE Next
  <2>1. AttemptFollowsPath' => NoPartialPath'
      BY SMTT(30) DEF AttemptFollowsPath, NoPartialPath, Dialled
  <2> QED
      BY <1>1, <2>1, TypeStep, AttemptStep, LedgerStep, OneTunnelStep, GrantsStep, NotLostStep DEF PassInv
<1>2. CASE UNCHANGED <<vars, kinds>>
    BY ZenonT(40), <1>2 DEF vars, PassInv, TypeOK, OneTunnelPerPass, NoPartialPath, PassIsNotLost, AttemptFollowsPath,
        LedgerIsSound, GrantsAreUsedOnce, Dialling, Dialled, Used, Expired
<1> QED
    BY <1>1, <1>2

\* connect, redeem and PathTransport together: for every registry, path length, lifetime
\* and combination of failures, a pass opens one tunnel (unless every node of its path
\* restarted since its grants were issued), none is lost before it expires, and an
\* attempt that ended leaves no session behind.
THEOREM PassSafety == Spec => []PassInv
<1>1. Init => PassInv
    BY InitPass
<1>2. PassInv /\ [Next]_<<vars, kinds>> => PassInv'
    BY NextPass
<1> QED
    BY <1>1, <1>2, PTL DEF Spec

\* The nodes have run since before the first grant, where none of them restarts.
NeverRestarted == "restart" \notin kinds /\ \A n \in Nodes : started[n] = 0

\* Without node restarts the replay caches (GrantReplayCache::consume) and the kept first
\* result (commit_or_replay) suffice: a pass opens at most one tunnel, whatever else fails.
THEOREM OneTunnelWithoutRestarts ==
    Spec /\ "restart" \notin kinds => [](\A p \in Ids : tunnels[p] <= 1)
<1>1. Init /\ "restart" \notin kinds => NeverRestarted
    BY DEF Init, NeverRestarted
<1>2. NeverRestarted /\ [Next]_<<vars, kinds>> => NeverRestarted'
  <2> SUFFICES ASSUME NeverRestarted, [Next]_<<vars, kinds>> PROVE NeverRestarted'
      OBVIOUS
  <2>1. CASE Next
    <3>1. UNCHANGED <<started, kinds>>
        BY Zenon, <2>1, Steps DEF NeverRestarted, ConnectBegin, Redeem, Dial, Wrap, BringUp, Disconnect,
            Crash, Tick, NodeRestart, Fault, nodes
    <3> QED
        BY Zenon, <3>1 DEF NeverRestarted
  <2>2. CASE UNCHANGED <<vars, kinds>>
      BY <2>2 DEF NeverRestarted, vars
  <2> QED
      BY <2>1, <2>2
<1>3. PassInv /\ NeverRestarted => \A p \in Ids : tunnels[p] <= 1
  <2> SUFFICES ASSUME PassInv, NeverRestarted, NEW p \in Ids PROVE tunnels[p] <= 1
      OBVIOUS
  <2>1. tunnels[p] \in Nat /\ 1 \in 1..PathHops
      BY Numbers DEF PassInv, TypeOK
  <2>2. ASSUME tunnels[p] > 1 PROVE FALSE
    <3>1. /\ ledger[p].nodes \in Paths /\ ledger[p].issued \in 1..clock
          /\ started[ledger[p].nodes[1]] >= ledger[p].issued
        BY <2>1, <2>2 DEF PassInv, LedgerIsSound, OneTunnelPerPass, GrantsAreUsedOnce
    <3>2. ledger[p].nodes[1] \in Nodes
        BY Zenon, <2>1, <3>1 DEF Paths
    <3> QED
        BY <3>1, <3>2 DEF NeverRestarted, PassInv, TypeOK
  <2> QED
      BY <2>1, <2>2
<1> QED
    BY <1>1, <1>2, <1>3, PassSafety, PTL DEF Spec
-----------------------------------------------------------------------------
\* Selector's rung list: a verdict orders rungs of the configuration, and the
\* resistant ones are its end.
LEMMA OrderedRungs ==
    ASSUME NEW class
    PROVE  /\ Ordered(class) \in Seq(Rungs)
           /\ Len(Ordered(class)) >= Len(Resistant)
           /\ \A i \in 1..Len(Resistant) :
                  Ordered(class)[Len(Ordered(class)) - Len(Resistant) + i] = Resistant[i]
<1>1. CASE class = "Clean"
    BY <1>1, SelectorAssumption DEF Ordered
<1>2. CASE class # "Clean"
    BY <1>2, SelectorAssumption DEF Ordered
<1>3. QED
    BY <1>1, <1>2

\* Cascade's loop: moving past an unusable rung keeps the account of what was tried.
LEMMA SteppingDown ==
    ASSUME SelectorTypeOK, TriedInOrder, selecting \in {"connect", "wrap", "check"}, rungs # <<>>,
           ~Usable(rung), StepDown, UNCHANGED <<network, last_class>>
    PROVE  TriedInOrder' /\ rungs' \in Seq(Rungs)
<1> DEFINE order == Ordered(last_class)
           tried == Len(order) - Len(rungs)
<1>1. order \in Seq(Rungs) /\ rungs \in Seq(Rungs)
    BY OrderedRungs DEF SelectorTypeOK
<1>2. /\ tried >= 0 /\ \A i \in 1..Len(rungs) : rungs[i] = order[tried + i]
      /\ \A j \in 1..tried : ~Usable(order[j])
    BY DEF TriedInOrder
<1>3. /\ rungs' \in Seq(Rungs) /\ Len(rungs') = Len(rungs) - 1 /\ Len(rungs) >= 1
      /\ \A i \in 1..Len(rungs') : rungs'[i] = rungs[i + 1]
    BY <1>1 DEF StepDown
<1>4. rung = order[tried + 1]
    BY <1>1, <1>2, <1>3 DEF rung
<1>5. order' = order /\ (\A r : Usable(r)' <=> Usable(r))
    BY DEF Ordered, Usable
<1>6. Len(order') - Len(rungs') = tried + 1 /\ Len(order) \in Nat /\ Len(rungs) \in Nat
    BY <1>1, <1>3, <1>5
<1> HIDE DEF order
<1>7. \A i \in 1..Len(rungs') : rungs'[i] = order[tried + 1 + i]
    BY <1>2, <1>3, <1>6
<1>8. \A j \in 1..(tried + 1) : ~Usable(order[j])
  <2> TAKE j \in 1..(tried + 1)
  <2>1. CASE j = tried + 1
    BY <2>1, <1>4
  <2>2. CASE j # tried + 1
    <3>1. j \in 1..tried
      BY <2>2, <1>6
    <3>2. QED
      BY <3>1, <1>2
  <2>3. QED
    BY <2>1, <2>2
<1>9. tried + 1 >= 0
    BY <1>2, <1>6
<1>10. (/\ tried >= 0
        /\ \A i \in 1..Len(rungs) : rungs[i] = order[tried + i]
        /\ \A j \in 1..tried : ~Usable(order[j]))'
    BY <1>5, <1>6, <1>7, <1>8, <1>9
<1>11. QED
    BY <1>3, <1>10 DEF TriedInOrder, order

\* What is kept step by step, from which the rest of SelectorInv follows.
SelectorKept == SelectorTypeOK /\ TriedInOrder /\ RungUnderWay

\* The cascade's account gives the three promises of SelectorInv.
LEMMA SelectorKeptIsEnough ==
    ASSUME SelectorKept
    PROVE  SelectorInv
<1> DEFINE order == Ordered(last_class)
           tried == Len(order) - Len(rungs)
<1>1. order \in Seq(Rungs) /\ rungs \in Seq(Rungs) /\ Resistant \in Seq(Rungs)
    BY OrderedRungs, SelectorAssumption DEF SelectorKept, SelectorTypeOK
<1>2. WrongGuessStepsDown
  <2> SUFFICES ASSUME selecting = "failed", NEW i \in 1..Len(Resistant)
               PROVE  ~Usable(Resistant[i])
    BY <1>1 DEF WrongGuessStepsDown, Range
  <2>1. rungs = <<>> /\ \A j \in 1..tried : ~Usable(order[j])
    BY DEF SelectorKept, RungUnderWay, TriedInOrder
  <2>2. tried = Len(order)
    BY <2>1, <1>1
  <2>3. Len(order) >= Len(Resistant) /\ order[Len(order) - Len(Resistant) + i] = Resistant[i]
    BY OrderedRungs
  <2> HIDE DEF order
  <2>4. Len(order) - Len(Resistant) + i \in 1..tried
    BY <1>1, <2>2, <2>3
  <2>5. QED
    BY <2>1, <2>3, <2>4
<1>3. WinnerIsFirstUsable
  <2> SUFFICES ASSUME selecting = "up"
               PROVE  \E i \in 1..Len(order) :
                          /\ winner = {order[i]} /\ Usable(order[i])
                          /\ \A j \in 1..(i - 1) : ~Usable(order[j])
    BY DEF WinnerIsFirstUsable
  <2>1. /\ rungs # <<>> /\ rung \in network.shakes \cap sessions /\ winner = {rung}
        /\ rung \in network.works /\ (rung \in PqRungs => rung \in network.wraps)
    BY DEF SelectorKept, RungUnderWay
  <2>2. /\ tried >= 0 /\ \A i \in 1..Len(rungs) : rungs[i] = order[tried + i]
        /\ \A j \in 1..tried : ~Usable(order[j])
    BY DEF SelectorKept, TriedInOrder
  <2>3. Len(rungs) >= 1 /\ Len(rungs) \in Nat /\ Len(order) \in Nat /\ rung = rungs[1]
    BY <1>1, <2>1 DEF rung
  <2> HIDE DEF order
  <2>4. rung = order[tried + 1] /\ tried + 1 \in 1..Len(order)
    BY <2>2, <2>3
  <2>5. Usable(rung)
    BY <2>1 DEF Usable
  <2>6. \A j \in 1..(tried + 1 - 1) : ~Usable(order[j])
    BY <2>2, <2>3
  <2>7. QED
    BY <2>1, <2>4, <2>5, <2>6
<1>4. NoOrphanSession
    BY DEF SelectorKept, RungUnderWay, NoOrphanSession
<1>5. QED
    BY <1>2, <1>3, <1>4 DEF SelectorInv, SelectorKept

\* The selector starts idle, with nothing tried and nothing open.
LEMMA SelectorStarts == SelectorInit => SelectorKept
<1> SUFFICES ASSUME SelectorInit PROVE SelectorKept
    OBVIOUS
<1>1. network \in Networks
  <2>1. [probe |-> "Reply", shakes |-> {}, wraps |-> {}, works |-> {}] \in Networks
    BY DEF Networks
  <2>2. QED
    BY <2>1 DEF SelectorInit
<1>2. QED
    BY <1>1, SelectorAssumption DEF SelectorInit, SelectorKept, SelectorTypeOK, TriedInOrder, RungUnderWay

\* Every step of SelectorTransport::connect and ::close keeps the account.
LEMMA SelectorStep == SelectorKept /\ [SelectorNext]_selectorVars => SelectorKept'
<1> SUFFICES ASSUME SelectorKept, [SelectorNext]_selectorVars PROVE SelectorKept'
    BY Zenon
<1> USE SelectorAssumption
<1>1. CASE Connect
  <2>1. /\ selecting \in {"idle", "failed"} /\ selecting' = "probe" /\ network' \in Networks
        /\ UNCHANGED <<rungs, winner, sessions, last_class>>
    BY Zenon, <1>1 DEF Connect
  <2>2. SelectorTypeOK'
    BY <1>1, <2>1 DEF Connect, SelectorKept, SelectorTypeOK
  <2>3. TriedInOrder'
    BY Zenon, <2>1 DEF TriedInOrder
  <2>4. RungUnderWay'
    BY <2>1 DEF SelectorKept, RungUnderWay
  <2>5. QED
    BY Zenon, <2>2, <2>3, <2>4 DEF SelectorKept
<1>2. CASE BuildCascade
  <2>1. Ordered(last_class)' = Ordered(last_class') /\ Ordered(last_class') \in Seq(Rungs)
    BY OrderedRungs DEF Ordered
  <2>2. SelectorTypeOK'
    BY <1>2, <2>1 DEF BuildCascade, SelectorKept, SelectorTypeOK, Coerce
  <2>3. Len(Ordered(last_class)') - Len(rungs') = 0 /\ rungs' = Ordered(last_class)'
        /\ Len(rungs') \in Nat
    BY <1>2, <2>1 DEF BuildCascade
  <2>4. TriedInOrder'
    BY <2>3 DEF TriedInOrder
  <2>5. RungUnderWay'
    BY <1>2 DEF BuildCascade, SelectorKept, RungUnderWay
  <2>6. QED
    BY <2>2, <2>4, <2>5 DEF SelectorKept
<1>3. CASE RungBlocked
  <2>1. TriedInOrder' /\ rungs' \in Seq(Rungs)
    BY SMTT(30), <1>3, SteppingDown DEF RungBlocked, SelectorKept, Usable
  <2>2. SelectorTypeOK' /\ RungUnderWay'
    BY <1>3, <2>1 DEF RungBlocked, StepDown, SelectorKept, SelectorTypeOK, RungUnderWay
  <2>3. QED
    BY <2>1, <2>2 DEF SelectorKept
<1>4. CASE RungShakes
  <2>1. rung \in Rungs
    BY <1>4 DEF RungShakes, SelectorKept, SelectorTypeOK, rung
  <2>2. SelectorTypeOK'
    BY Zenon, <1>4, <2>1 DEF RungShakes, SelectorKept, SelectorTypeOK
  <2>3. TriedInOrder'
    BY ZenonT(40), <1>4 DEF RungShakes, SelectorKept, TriedInOrder, Usable, Ordered
  <2>4. RungUnderWay'
    BY <1>4 DEF RungShakes, SelectorKept, RungUnderWay, rung
  <2>5. QED
    BY <2>2, <2>3, <2>4 DEF SelectorKept
<1>5. CASE RungWraps
  <2>1. CASE rung \in network.wraps
    <3>1. SelectorTypeOK' /\ RungUnderWay'
      BY <1>5, <2>1 DEF RungWraps, SelectorKept, SelectorTypeOK, RungUnderWay, rung
    <3>2. TriedInOrder'
      BY Zenon, <1>5, <2>1 DEF RungWraps, SelectorKept, TriedInOrder, Usable, Ordered
    <3>3. QED
      BY <3>1, <3>2 DEF SelectorKept
  <2>2. CASE rung \notin network.wraps
    <3>1. TriedInOrder' /\ rungs' \in Seq(Rungs)
      BY <1>5, <2>2, SteppingDown DEF RungWraps, SelectorKept, Usable, RungUnderWay
    <3>2. SelectorTypeOK' /\ RungUnderWay'
      BY <1>5, <2>2, <3>1 DEF RungWraps, StepDown, SelectorKept, SelectorTypeOK, RungUnderWay
    <3>3. QED
      BY <3>1, <3>2 DEF SelectorKept
  <2>3. QED
    BY <2>1, <2>2
<1>6. CASE ProbeLiveness
  <2>1. CASE rung \in network.works
    <3>1. SelectorTypeOK'
      BY <1>6, <2>1 DEF ProbeLiveness, SelectorKept, SelectorTypeOK, RungUnderWay
    <3>2. RungUnderWay'
      BY Zenon, <1>6, <2>1 DEF ProbeLiveness, SelectorKept, RungUnderWay, rung
    <3>3. TriedInOrder'
      BY Zenon, <1>6, <2>1 DEF ProbeLiveness, SelectorKept, TriedInOrder, Usable, Ordered
    <3>4. QED
      BY <3>1, <3>2, <3>3 DEF SelectorKept
  <2>2. CASE rung \notin network.works
    <3>1. TriedInOrder' /\ rungs' \in Seq(Rungs)
      BY Zenon, <1>6, <2>2, SteppingDown DEF ProbeLiveness, SelectorKept, Usable, RungUnderWay
    <3>2. SelectorTypeOK' /\ RungUnderWay'
      BY Zenon, <1>6, <2>2, <3>1 DEF ProbeLiveness, StepDown, SelectorKept, SelectorTypeOK, RungUnderWay
    <3>3. QED
      BY <3>1, <3>2 DEF SelectorKept
  <2>3. QED
    BY <2>1, <2>2
<1>7. CASE CascadeExhausted
  <2>1. SelectorTypeOK' /\ RungUnderWay'
    BY <1>7 DEF CascadeExhausted, SelectorKept, SelectorTypeOK, RungUnderWay, rung
  <2>2. TriedInOrder'
    BY Zenon, <1>7 DEF CascadeExhausted, SelectorKept, TriedInOrder, Usable, Ordered
  <2>3. QED
    BY <2>1, <2>2 DEF SelectorKept
<1>8. CASE Close
    BY SMTT(30), <1>8 DEF Close, SelectorKept, SelectorTypeOK, TriedInOrder, RungUnderWay
<1>9. CASE UNCHANGED selectorVars
  <2>1. SelectorTypeOK' /\ RungUnderWay'
    BY <1>9 DEF selectorVars, SelectorKept, SelectorTypeOK, RungUnderWay, rung
  <2>2. TriedInOrder'
    BY <1>9 DEF selectorVars, SelectorKept, TriedInOrder, Usable, Ordered
  <2>3. QED
    BY <2>1, <2>2 DEF SelectorKept
<1>10. QED
    BY <1>1, <1>2, <1>3, <1>4, <1>5, <1>6, <1>7, <1>8, <1>9 DEF SelectorNext

\* SelectorTransport: every reachable state satisfies SelectorInv.
THEOREM SelectorSafety == SelectorSpec => []SelectorInv
<1>1. SelectorKept => SelectorInv
    BY SelectorKeptIsEnough
<1>2. QED
    BY SelectorStarts, SelectorStep, <1>1, PTL DEF SelectorSpec
=============================================================================
