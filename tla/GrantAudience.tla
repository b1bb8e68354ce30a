--------------------------- MODULE GrantAudience ---------------------------
(***************************************************************************)
(* For whom a tunnel grant is good: from the registry file the Coordinator *)
(* loads, over the path it selects and the grants it mints for each hop,   *)
(* to the machine that a client presents a grant to.  A machine knows its  *)
(* own identity from its configuration and its live TLS key, and sees the  *)
(* address the connection comes from: the client's, or that of a machine   *)
(* whose tunnel the client connects through.                               *)
(*                                                                         *)
(* Signatures cannot be forged; time and replay are in GrantReplay.        *)
(* Identifiers are sequences of characters, because the encoding joins two *)
(* of them.                                                                *)
(***************************************************************************)
EXTENDS Naturals, Sequences, FiniteSets, SequencesExt

CONSTANTS Files,         \* registry files a Coordinator may be started with
          Signers,       \* Signers[c]: grant key of Coordinator c
          RealmOf,       \* RealmOf[c]: deployment realm of Coordinator c
          Machines,
          Config,        \* Config[m]: records [realm, node_id, role, tee, measurement, keys]
          Spki,          \* Spki[m]: digest of the live TLS key
          AddressOf,     \* AddressOf[m]
          ClientAddress,
          Letters, Marks,     \* characters of identifiers: at the edges, and inside only
          MaxIdentifier, \* MAX_GRANT_IDENTIFIER_LEN
          Hops,
          MaxRedemptions \* bound: paths handed out

VARIABLES registry,  \* registry[c]: the loaded nodes; empty if the file was refused
          paths,     \* history: [by, nodes, grants] of each answered redemption
          consumed,  \* consumed[m]: nonces the machine has accepted
          tunnels    \* records [at, policy, peer, token]

vars == <<registry, paths, consumed, tunnels>>

Coordinators == DOMAIN Signers
None == <<>>

---------------------------------------------------------------------------
(* The registry file. *)

validate_identifier(s) ==
    /\ Len(s) \in 1..MaxIdentifier
    /\ s[1] \in Letters /\ s[Len(s)] \in Letters
    /\ \A i \in 1..Len(s) : s[i] \in Letters \cup Marks

\* A TDX policy without debug mode and with every runtime measurement set.
validate_tdx_policy(p) == p = "complete"

\* Hosts, operators, jurisdictions and digests are members of small sets;
\* "malformed" stands for every text the canonical grammar refuses.
validate_registry_node(e) ==
    /\ validate_identifier(e.id)
    /\ \A f \in {"operator", "jurisdiction", "host", "measurement", "spki", "wg_pub", "log"} :
          e[f] # "malformed"
    /\ e.port # 0
    /\ e.tee \in {"sev-snp", "tdx"} /\ e.role \in {"entry", "middle", "exit"}
    /\ e.tee = "tdx" => ~e.tcb /\ validate_tdx_policy(e.tdx)
    /\ e.tee = "sev-snp" => e.tdx = "none"

\* from_file: no entry is refused, no id and no endpoint is listed twice.
from_file(file) ==
    IF /\ file # <<>>
       /\ \A i \in 1..Len(file) : validate_registry_node(file[i])
       /\ \A i, j \in 1..Len(file) :
             i # j => /\ file[i].id # file[j].id
                      /\ <<file[i].host, file[i].port>> # <<file[j].host, file[j].port>>
    THEN file ELSE <<>>

for_position(i) == IF i = Hops THEN "exit" ELSE IF i = 1 THEN "entry" ELSE "middle"

\* What select_path may return: PathSelection has the search.
SelectedPaths(nodes) ==
    {p \in [1..Hops -> 1..Len(nodes)] :
        /\ \A i \in 1..Hops : nodes[p[i]].role = for_position(i)
        /\ \A i, j \in 1..Hops : i < j =>
              /\ nodes[p[i]].operator # nodes[p[j]].operator
              /\ nodes[p[i]].jurisdiction # nodes[p[j]].jurisdiction}

---------------------------------------------------------------------------
(* Grants. *)

\* GrantAudience::from_node_identity: the neighbours a role must name.
RoleShape(role, previous, next) ==
    CASE role = "entry" -> previous = None /\ next # None /\ next[2] # 0
      [] role = "middle" -> previous # None /\ next # None /\ next[2] # 0
      [] role = "exit" -> next = None

Ipv4(host) == host \notin {"dns"}

\* attach_grants: the audience of hop i of a path of registry nodes.
Audience(c, hop, i) ==
    [realm |-> RealmOf[c], node_id |-> hop[i].id, role |-> for_position(i),
     transport |-> "masque", tee |-> hop[i].tee, measurement |-> hop[i].measurement,
     spki |-> hop[i].spki,
     previous |-> IF i = 1 THEN None ELSE <<hop[i - 1].host>>,
     next |-> IF i = Hops THEN None ELSE <<hop[i + 1].host, hop[i + 1].port>>]

\* Neighbours must be addresses a packet filter can name, and every node pinned.
Attachable(c, hop) ==
    /\ validate_identifier(RealmOf[c])
    /\ \A i \in 1..Hops :
          /\ i > 1 => Ipv4(hop[i - 1].host)
          /\ i < Hops => Ipv4(hop[i + 1].host)
          /\ hop[i].spki # "none"
          /\ LET a == Audience(c, hop, i) IN RoleShape(a.role, a.previous, a.next)

\* The token: the two identifiers are joined, their lengths come before them.
mint(key, a, nonce) ==
    [key_id |-> key, nonce |-> nonce,
     realm_len |-> Len(a.realm), node_id_len |-> Len(a.node_id),
     identifiers |-> a.realm \o a.node_id,
     fields |-> <<a.role, a.transport, a.tee, a.measurement, a.spki, a.previous, a.next>>,
     signed_by |-> key]

WellFormed(t) ==
    /\ t.realm_len \in 1..MaxIdentifier /\ t.node_id_len \in 1..MaxIdentifier
    /\ t.realm_len + t.node_id_len = Len(t.identifiers)
    /\ validate_identifier(SubSeq(t.identifiers, 1, t.realm_len))
    /\ validate_identifier(SubSeq(t.identifiers, t.realm_len + 1, Len(t.identifiers)))
    /\ RoleShape(t.fields[1], t.fields[6], t.fields[7])

parse(t) ==
    [realm |-> SubSeq(t.identifiers, 1, t.realm_len),
     node_id |-> SubSeq(t.identifiers, t.realm_len + 1, t.realm_len + t.node_id_len),
     role |-> t.fields[1], transport |-> t.fields[2], tee |-> t.fields[3],
     measurement |-> t.fields[4], spki |-> t.fields[5],
     previous |-> t.fields[6], next |-> t.fields[7]]

verify_authentic(t, keys) == WellFormed(t) /\ t.key_id \in keys /\ t.signed_by = t.key_id

node_identity(a) ==
    <<a.realm, a.node_id, a.role, a.transport, a.tee, a.measurement, a.spki>>

\* authorize_connect derives the node's own identity from its configuration
\* and its live certificate.
OwnIdentity(m) ==
    <<Config[m].realm, Config[m].node_id, Config[m].role, "masque", Config[m].tee,
      Config[m].measurement, Spki[m]>>

verify_for_node(t, m) ==
    verify_authentic(t, Config[m].keys) /\ node_identity(parse(t)) = OwnIdentity(m)

---------------------------------------------------------------------------
(* Steps. *)

Init ==
    /\ registry \in [Coordinators -> {from_file(f) : f \in Files}]
    /\ paths = <<>> /\ tunnels = {}
    /\ consumed = [m \in Machines |-> {}]

\* A redemption: nothing is handed out unless a grant is minted for each hop.
Redeem(c) ==
    /\ registry[c] # <<>> /\ Len(paths) < MaxRedemptions
    /\ \E p \in SelectedPaths(registry[c]) :
          LET hop == [i \in 1..Hops |-> registry[c][p[i]]] IN
          /\ Attachable(c, hop)
          /\ paths' = Append(paths,
                [by |-> c, nodes |-> hop,
                 grants |-> [i \in 1..Hops |->
                     mint(Signers[c], Audience(c, hop, i), <<Len(paths) + 1, i>>)]])
    /\ UNCHANGED <<registry, consumed, tunnels>>

Tokens == UNION {Range(paths[k].grants) : k \in DOMAIN paths}

\* Addresses at which a connection to m may originate: the client's own, or a
\* machine's, through a tunnel whose policy lets packets to m out.
Endpoint(m) == <<AddressOf[m], 443>>
Admits(policy, m) == policy = None \/ policy = Endpoint(m)
Origins(m) == {ClientAddress} \cup {AddressOf[t.at] : t \in {u \in tunnels : Admits(u.policy, m)}}

\* (Mutant: the address the connection comes from is not compared.)
ComesFromAnywhere(a, peer) == TRUE

ComesFrom(a, peer) == a.previous = None \/ a.previous = <<peer>>

\* authorize_connect: identity, predecessor and nonce, then the replay cache.
Connect(m) ==
    \E t \in Tokens, peer \in Origins(m) :
        /\ verify_for_node(t, m)
        /\ ComesFrom(parse(t), peer)
        /\ t.nonce \notin consumed[m]
        /\ consumed' = [consumed EXCEPT ![m] = @ \cup {t.nonce}]
        /\ tunnels' = tunnels \cup {[at |-> m, policy |-> parse(t).next, peer |-> peer, token |-> t]}
        /\ UNCHANGED <<registry, paths>>

\* A tunnel ends; its grant stays consumed.
Disconnect ==
    /\ \E t \in tunnels : tunnels' = tunnels \ {t}
    /\ UNCHANGED <<registry, paths, consumed>>

Next ==
    \/ \E c \in Coordinators : Redeem(c)
    \/ \E m \in Machines : Connect(m)
    \/ Disconnect

---------------------------------------------------------------------------
(* Properties. *)

PathOf(t) == CHOOSE k \in DOMAIN paths : t \in Range(paths[k].grants)
PositionOf(t) == CHOOSE i \in 1..Hops : paths[PathOf(t)].grants[i] = t

TypeOK ==
    /\ \A m \in Machines : consumed[m] \subseteq {t.nonce : t \in Tokens}
    /\ \A t \in tunnels : t.at \in Machines /\ t.token \in Tokens

\* Every grant decodes to the audience it was minted for, whatever the
\* identifiers.  A tunnel exists only at the very machine that the registry
\* lists at the grant's place in the path, under the realm of the Coordinator
\* that minted it: not at another place of the path, a clone with another TLS
\* key, or the other deployment.  Past the first hop its connection came from
\* the node before it; and its packets may only reach the node after it, or
\* anywhere if it is the last.
AudienceInv ==
    /\ TypeOK
    /\ \A k \in DOMAIN paths, i \in 1..Hops :
          LET g == paths[k].grants[i] IN
          WellFormed(g) /\ parse(g) = Audience(paths[k].by, paths[k].nodes, i)
    /\ \A t \in tunnels :
          LET k == PathOf(t.token)  i == PositionOf(t.token)  hop == paths[k].nodes IN
          /\ Spki[t.at] = hop[i].spki /\ Config[t.at].node_id = hop[i].id
          /\ Config[t.at].realm = RealmOf[paths[k].by]
          /\ i > 1 => t.peer = hop[i - 1].host
          /\ t.policy = IF i = Hops THEN None ELSE <<hop[i + 1].host, hop[i + 1].port>>
=============================================================================
