--------------------------- MODULE PathSelection ---------------------------
(***************************************************************************)
(* The Coordinator's choice of a path (nil-coordinator pathsel): a         *)
(* backtracking search over a shuffled copy of the live nodes for an       *)
(* entry, middles and an exit with pairwise different operators and        *)
(* jurisdictions, beside a health checker that marks hosts down and up.    *)
(* The recursion of extend_path is its stack: level l of it tries the      *)
(* candidate numbered cursor[l], and levels 1..depth have chosen theirs.   *)
(***************************************************************************)
EXTENDS Integers, FiniteSets

CONSTANTS
    Registry,       \* the nodes of the registry file, identified by their id
    RoleOf,         \* role, operator, jurisdiction, host and endpoint of each
    OperatorOf,
    JurisdictionOf,
    HostOf,
    EndpointOf,
    Hops            \* NW_COORD_PATH_HOPS

\* What from_file demands of a registry: nodes, parsed roles, unique endpoints.
FromFile ==
    /\ Registry # {} /\ IsFiniteSet(Registry)
    /\ RoleOf \in [Registry -> {"Entry", "Middle", "Exit"}]
    /\ \A m, n \in Registry : EndpointOf[m] = EndpointOf[n] => m = n

ASSUME RegistryAssumption == FromFile /\ Hops \in Nat

VARIABLES
    dead,         \* NodeRegistry::dead, hosts
    at,           \* select_path: "idle", "search", "found" or "none"
    live,         \* live_nodes() as it was read
    candidates,   \* the same, shuffled
    depth,        \* chosen.len()
    cursor        \* where each level of the recursion is in its loop

searchVars == <<dead, at, live, candidates, depth, cursor>>
search == <<live, candidates, depth, cursor>>

Hosts == {HostOf[n] : n \in Registry}
Levels == 1..Hops

\* Role::for_position, counted from 1.
RoleAt(i) == IF i = Hops THEN "Exit" ELSE IF i = 1 THEN "Entry" ELSE "Middle"

SearchInit ==
    /\ dead = {}
    /\ at = "idle"
    /\ live = {} /\ candidates = <<>> /\ depth = 0 /\ cursor = [l \in Levels |-> 1]

LiveNodes == {n \in Registry : HostOf[n] \notin dead}

\* shuffle: the Fisher-Yates swaps can produce every order.
Shuffles(nodes) ==
    {f \in [1..Cardinality(nodes) -> nodes] :
        \A n \in nodes : \E i \in 1..Cardinality(nodes) : f[i] = n}

Select ==
    /\ at \in {"idle", "found", "none"}
    /\ live' = LiveNodes
    /\ candidates' \in Shuffles(live')
    /\ depth' = 0 /\ cursor' = [l \in Levels |-> 1]
    /\ at' = IF Hops = 0 THEN "found" ELSE "search"
    /\ UNCHANGED dead

Chosen(l) == candidates[cursor[l]]

Compatible(m, n) ==
    /\ OperatorOf[m] # OperatorOf[n] /\ JurisdictionOf[m] # JurisdictionOf[n]
    /\ m # n /\ EndpointOf[m] # EndpointOf[n]

\* (Mutant: only the hop before is compared with.)
AdmissibleNext(n) ==
    /\ RoleOf[n] = RoleAt(depth + 1)
    /\ depth > 0 => Compatible(Chosen(depth), n)
\* The tests of extend_path's loop body on a candidate for the next position.
Admissible(n) ==
    /\ RoleOf[n] = RoleAt(depth + 1)
    /\ \A l \in 1..depth : Compatible(Chosen(l), n)

\* (Mutant: the last candidate is never tried.)
ExhaustedEarly == cursor[depth + 1] >= Cardinality(live)
Exhausted == cursor[depth + 1] > Cardinality(live)

Push ==
    /\ at = "search" /\ ~Exhausted /\ Admissible(Chosen(depth + 1))
    /\ depth' = depth + 1
    /\ at' = IF depth' = Hops THEN "found" ELSE "search"
    /\ cursor' = [l \in Levels |-> IF l = depth' + 1 THEN 1 ELSE cursor[l]]
    /\ UNCHANGED <<dead, live, candidates>>

Skip ==
    /\ at = "search" /\ ~Exhausted /\ ~Admissible(Chosen(depth + 1))
    /\ cursor' = [cursor EXCEPT ![depth + 1] = @ + 1]
    /\ UNCHANGED <<dead, at, live, candidates, depth>>

\* (Mutant: no way back from a dead end, the greedy selector of old.)
PopGreedy ==
    /\ at = "search" /\ Exhausted
    /\ at' = "none" /\ UNCHANGED <<depth, cursor>>
    /\ UNCHANGED <<dead, live, candidates>>
\* (Mutant: the candidate that led to the dead end is tried again.)
PopAgain ==
    /\ at = "search" /\ Exhausted
    /\ IF depth = 0
       THEN at' = "none" /\ UNCHANGED <<depth, cursor>>
       ELSE depth' = depth - 1 /\ UNCHANGED <<at, cursor>>
    /\ UNCHANGED <<dead, live, candidates>>

\* The loop of a level ran out: undo the choice below it, or give up.
Pop ==
    /\ at = "search" /\ Exhausted
    /\ IF depth = 0
       THEN at' = "none" /\ UNCHANGED <<depth, cursor>>
       ELSE /\ depth' = depth - 1
            /\ cursor' = [cursor EXCEPT ![depth] = @ + 1]
            /\ UNCHANGED at
    /\ UNCHANGED <<dead, live, candidates>>

\* The health checker.
MarkDown(h) == h \notin dead /\ dead' = dead \cup {h} /\ UNCHANGED <<at, search>>
MarkUp(h) == h \in dead /\ dead' = dead \ {h} /\ UNCHANGED <<at, search>>

Step == Push \/ Skip \/ Pop
SearchNext == Select \/ Step \/ \E h \in Hosts : MarkDown(h) \/ MarkUp(h)

SearchSpec == SearchInit /\ [][SearchNext]_searchVars
FairSpec == SearchSpec /\ WF_searchVars(Step)

-----------------------------------------------------------------------------
\* Type invariant.
SearchTypeOK ==
    /\ dead \subseteq Hosts
    /\ at \in {"idle", "search", "found", "none"}
    /\ live \subseteq Registry
    /\ depth \in 0..Hops
    /\ at = "search" => depth < Hops
    /\ cursor \in [Levels -> 1..(Cardinality(live) + 1)]
    /\ candidates \in Shuffles(live)

\* A path that keeps the promise: role-fitting nodes with no two of one operator
\* or jurisdiction, over the given nodes.
Diverse(path) ==
    /\ \A i \in Levels : RoleOf[path[i]] = RoleAt(i)
    /\ \A i, j \in Levels : i # j => Compatible(path[i], path[j])
DiversePaths(nodes) == {path \in [Levels -> nodes] : Diverse(path)}

\* What select_path returns is a diverse path of nodes that were live when it
\* looked: no party and no legal regime sits on two hops, and only the last hop
\* is an exit.
PathIsDiverse == at = "found" => [l \in Levels |-> Chosen(l)] \in DiversePaths(live)

\* The search is complete: it gives up only when no diverse path of live nodes
\* exists, whatever order the shuffle produced.
NoneMeansNoPath == at = "none" => DiversePaths(live) = {}

\* The candidates a level has left behind lead to no diverse path with the
\* choices of the levels before it: what extend_path returning false means.
LeftBehind ==
    \A l \in Levels : l <= depth + 1 =>
        \A path \in [Levels -> 1..Cardinality(live)] :
            /\ Diverse([i \in Levels |-> candidates[path[i]]])
            /\ \A i \in 1..(l - 1) : path[i] = cursor[i]
            => path[l] >= cursor[l]

\* The choices made so far fit their positions and one another.
PrefixFits ==
    /\ \A i \in 1..depth : cursor[i] <= Cardinality(live) /\ RoleOf[Chosen(i)] = RoleAt(i)
    /\ \A i, j \in 1..depth : i # j => Compatible(Chosen(i), Chosen(j))

\* Where a search that has ended stands.
EndsRight ==
    /\ at = "found" => depth = Hops
    /\ at = "none" => depth = 0 /\ Hops > 0 /\ Exhausted

\* The state of the loops of extend_path at every turn: choices fit one another, what
\* was left behind is hopeless, and a search ends only where it may.
SearchInv == SearchTypeOK /\ PrefixFits /\ LeftBehind /\ EndsRight

\* Every selection ends.
SearchEnds == at = "search" ~> at \in {"found", "none"}
=============================================================================
