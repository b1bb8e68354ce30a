------------------------- MODULE TransportSelector -------------------------
(***************************************************************************)
(* Choosing a transport for a single node (nil-transport selector and      *)
(* cascade, assembled by nil-datapath finish_selector): one UDP probe      *)
(* orders the rungs, then each rung in turn is connected under a time      *)
(* limit and checked with a DNS query through the tunnel.  A network is    *)
(* what it lets through: the probe's reply, handshakes, data.              *)
(***************************************************************************)
EXTENDS Integers, Sequences, Functions

CONSTANTS
    Fast,         \* rungs that lead on a clean path, a sequence
    Resistant,    \* the tail, a sequence
    PqRungs,      \* those that are PQ-WireGuard over their own MASQUE session
    MaxConnects   \* bound on connects

Rungs == Range(Fast) \cup Range(Resistant)

ASSUME SelectorAssumption ==
    /\ Fast \in Seq(Rungs) /\ Resistant \in Seq(Rungs)
    /\ PqRungs \subseteq Rungs /\ MaxConnects \in Nat

VARIABLES
    selecting,  \* SelectorTransport: "idle", "probe", "connect", "wrap", "check", "up", "failed"
    network,    \* what gets through for this connect
    rungs,      \* the rungs of the cascade that are left to try
    winner,     \* SelectorTransport::winners, a set
    sessions,   \* MASQUE and other sessions nobody closed: a set of rungs
    last_class, \* Selector::last_class
    connects    \* connects so far

selectorVars == <<selecting, network, rungs, winner, sessions, last_class, connects>>

\* Probe: the outcome of run_udp_probe.  Shakes: rungs whose first handshake
\* completes.  Wraps: PQ rungs whose PQ exchange completes in time.  Works: rungs
\* that pass the data-plane check, which is taken to mean that they carry data.
Networks ==
    [probe : {"Reply", "Silent", "Unsendable"}, shakes : SUBSET Rungs,
     wraps : SUBSET PqRungs, works : SUBSET Rungs]

SelectorInit ==
    /\ selecting = "idle" /\ network = (CHOOSE n \in Networks : TRUE)
    /\ rungs = <<>> /\ winner = {} /\ sessions = {} /\ last_class = "None" /\ connects = 0

\* UdpReachabilityProbe::classify and PathClass::coerce.
Classify(outcome) ==
    CASE outcome = "Reply" -> "Clean"
      [] outcome = "Silent" -> "Hostile"
      [] outcome = "Unsendable" -> "Unknown"
Coerce(class) == IF class = "Clean" THEN "Clean" ELSE "Hostile"

Ordered(class) == (IF class = "Clean" THEN Fast ELSE <<>>) \o Resistant

\* The network may have changed since the last connect.
Connect ==
    /\ selecting \in {"idle", "failed"} /\ connects < MaxConnects
    /\ connects' = connects + 1
    /\ network' \in Networks
    /\ selecting' = "probe"
    /\ UNCHANGED <<rungs, winner, sessions, last_class>>

\* Selector::build_cascade.
BuildCascade ==
    /\ selecting = "probe"
    /\ last_class' = Coerce(Classify(network.probe))
    /\ rungs' = Ordered(last_class')
    /\ selecting' = "connect"
    /\ UNCHANGED <<network, winner, sessions, connects>>

rung == Head(rungs)
StepDown == rungs' = Tail(rungs) /\ selecting' = "connect"

\* rung.connect: an error, or the time limit, before any session exists.
RungBlocked ==
    /\ selecting = "connect" /\ rungs # <<>> /\ rung \notin network.shakes
    /\ StepDown
    /\ UNCHANGED <<network, winner, sessions, last_class, connects>>

\* The rung's own handshake completes; a PQ rung goes on over that session.
RungShakes ==
    /\ selecting = "connect" /\ rungs # <<>> /\ rung \in network.shakes
    /\ sessions' = sessions \cup {rung}
    /\ selecting' = IF rung \in PqRungs THEN "wrap" ELSE "check"
    /\ UNCHANGED <<network, rungs, winner, last_class, connects>>

\* PqWgTransport::connect after its MASQUE session is up.  A failed exchange
\* returns its error, and the time limit drops the future, past that session.
RungWraps ==
    /\ selecting = "wrap"
    /\ IF rung \in network.wraps THEN selecting' = "check" /\ UNCHANGED rungs ELSE StepDown
    /\ UNCHANGED <<network, winner, sessions, last_class, connects>>

\* (Mutant: a rung that fails the check is not closed.)
ProbeLivenessOpen ==
    /\ selecting = "check"
    /\ IF rung \in network.works
       THEN winner' = {rung} /\ selecting' = "up" /\ UNCHANGED <<rungs, sessions>>
       ELSE StepDown /\ UNCHANGED <<winner, sessions>>
    /\ UNCHANGED <<network, last_class, connects>>

\* DnsLivenessProbe::is_alive; a rung that fails it is closed.
ProbeLiveness ==
    /\ selecting = "check"
    /\ IF rung \in network.works
       THEN winner' = {rung} /\ selecting' = "up" /\ UNCHANGED <<rungs, sessions>>
       ELSE StepDown /\ sessions' = sessions \ {rung} /\ UNCHANGED winner
    /\ UNCHANGED <<network, last_class, connects>>

\* Every rung failed.
CascadeExhausted ==
    /\ selecting = "connect" /\ rungs = <<>>
    /\ selecting' = "failed"
    /\ UNCHANGED <<network, rungs, winner, sessions, last_class, connects>>

\* SelectorTransport::close.
Close ==
    /\ selecting = "up"
    /\ selecting' = "idle" /\ winner' = {} /\ sessions' = sessions \ winner /\ rungs' = <<>>
    /\ UNCHANGED <<network, last_class, connects>>

SelectorNext ==
    \/ Connect \/ BuildCascade \/ RungBlocked \/ RungShakes \/ RungWraps \/ ProbeLiveness
    \/ CascadeExhausted \/ Close

SelectorSpec == SelectorInit /\ [][SelectorNext]_selectorVars

-----------------------------------------------------------------------------
\* A rung would carry this connect if it were tried.
Usable(r) ==
    r \in network.shakes \cap network.works /\ (r \in PqRungs => r \in network.wraps)

\* Type invariant.
SelectorTypeOK ==
    /\ selecting \in {"idle", "probe", "connect", "wrap", "check", "up", "failed"}
    /\ network \in Networks /\ rungs \in Seq(Rungs)
    /\ winner \subseteq Rungs /\ sessions \subseteq Rungs
    /\ last_class \in {"None", "Clean", "Hostile"} /\ connects \in 0..MaxConnects

\* The resistant rungs are always the tail: a connect fails only when none of
\* them is usable, whatever the probe guessed (selector's first invariant).
WrongGuessStepsDown == selecting = "failed" => \A r \in Range(Resistant) : ~Usable(r)

\* The winner carries traffic, and no usable rung ahead of it in the order of
\* the verdict was passed over.
WinnerIsFirstUsable ==
    selecting = "up" =>
        \E i \in 1..Len(Ordered(last_class)) :
            /\ winner = {Ordered(last_class)[i]} /\ Usable(Ordered(last_class)[i])
            /\ \A j \in 1..(i - 1) : ~Usable(Ordered(last_class)[j])

\* A rung that was tried and given up keeps no session open, except a PQ rung
\* whose exchange failed: PqWgTransport::connect drops its MASQUE session.
NoOrphanSession ==
    selecting \in {"up", "failed", "idle"} =>
        winner \subseteq sessions /\ sessions \subseteq winner \cup PqRungs

\* What is left of the cascade is the end of the order of the verdict, and every
\* rung before that was not usable.
TriedInOrder ==
    LET order == Ordered(last_class)
        tried == Len(order) - Len(rungs)
    IN  selecting \in {"connect", "wrap", "check", "up", "failed"} =>
            /\ tried >= 0
            /\ \A i \in 1..Len(rungs) : rungs[i] = order[tried + i]
            /\ \A j \in 1..tried : ~Usable(order[j])

\* The rung under way has got as far as the step says, and only it and PQ rungs
\* have a session.
RungUnderWay ==
    /\ selecting \in {"wrap", "check", "up"} =>
           rungs # <<>> /\ rung \in network.shakes \cap sessions
    /\ selecting = "wrap" => rung \in PqRungs
    /\ selecting \in {"check", "up"} /\ rung \in PqRungs => rung \in network.wraps
    /\ selecting = "failed" => rungs = <<>>
    /\ IF selecting = "up" THEN winner = {rung} /\ rung \in network.works ELSE winner = {}
    /\ \A r \in sessions : r \in PqRungs \/ (selecting \in {"wrap", "check", "up"} /\ r = rung)

\* SelectorTransport::connect takes the first rung that carries data, whatever the
\* probe guessed, and leaves no session of another rung open but one whose PQ
\* exchange failed.
SelectorInv ==
    /\ SelectorTypeOK /\ TriedInOrder /\ RungUnderWay
    /\ WrongGuessStepsDown /\ WinnerIsFirstUsable /\ NoOrphanSession
=============================================================================
