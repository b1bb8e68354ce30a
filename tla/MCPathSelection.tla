-------------------------- MODULE MCPathSelection --------------------------
(***************************************************************************)
(* Small instances of what puts a client on a path: the Coordinator's      *)
(* choice from a registry, and nil-transport, which brings the tunnel up:  *)
(* the selector of a single-node tunnel or the tasks behind a multi-hop    *)
(* one.  A behaviour exercises one of the three.                           *)
(***************************************************************************)
EXTENDS PathSelection, TransportSelector, OnionSessions, TLC

\* Two entries, of which one shares its operator with the middle; exits that
\* share a jurisdiction with an entry or a host with the middle.  With both
\* entries live a search may have to take its first choice back.
MCRegistry == {"en1", "en2", "mid", "ex1", "ex2"}
Column(en1, en2, mid, ex1, ex2) ==
    ("en1" :> en1) @@ ("en2" :> en2) @@ ("mid" :> mid) @@ ("ex1" :> ex1) @@ ("ex2" :> ex2)
MCRoleOf == Column("Entry", "Entry", "Middle", "Exit", "Exit")
MCOperatorOf == Column("anvil", "borealis", "borealis", "cirrus", "dune")
MCJurisdictionOf == Column("US", "DE", "SE", "US", "CH")
MCHostOf == Column("h1", "h2", "h3", "h4", "h3")
MCEndpointOf == Column(<<"h1", 443>>, <<"h2", 443>>, <<"h3", 443>>, <<"h4", 443>>, <<"h3", 444>>)

-----------------------------------------------------------------------------
\* What finish_selector assembles: AmneziaWG behind the PQ primary, REALITY in
\* the tail and the primary again as backstop.
MCFast == <<"pqwg", "amnezia">>
MCResistant == <<"reality", "pqwg">>

\* The multi-hop tunnel has three hops, two of them PQ-WireGuard; any node may
\* fail, two of them do.

VARIABLE part  \* rigid: the component this behaviour exercises

-----------------------------------------------------------------------------
PathInit ==
    /\ SearchInit /\ SelectorInit /\ OnionInit
    /\ part \in {"selection", "selector", "onion"}
PathNext ==
    /\ \/ part = "selection" /\ SearchNext /\ UNCHANGED <<selectorVars, onionVars>>
       \/ part = "selector" /\ SelectorNext /\ UNCHANGED <<searchVars, onionVars>>
       \/ part = "onion" /\ OnionNext /\ UNCHANGED <<searchVars, selectorVars>>
    /\ UNCHANGED part

\* The fairness of the search and of the tasks of a multi-hop tunnel: tasks are
\* scheduled, timers fire, and a waiting connect is decided.  Nobody need connect or
\* disconnect and no node need fail.  In a behaviour of another part their actions
\* are not steps and nothing is owed.
Moves(exercised, action) == part = exercised /\ action
PathSpec ==
    /\ PathInit /\ [][PathNext]_<<part, searchVars, selectorVars, onionVars>>
    /\ WF_searchVars(Moves("selection", Step))
    /\ WF_onionVars(Moves("onion", Path)) /\ WF_onionVars(Moves("onion", DatapathDies))
    /\ \A i \in HopNumbers :
           /\ WF_onionVars(Moves("onion", Task(i)))
           /\ WF_onionVars(Moves("onion", NodeIdles(i)))
=============================================================================
