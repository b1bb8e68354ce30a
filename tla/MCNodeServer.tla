--------------------------- MODULE MCNodeServer ----------------------------
(* Small instances of the node's event loop for TLC. *)
EXTENDS NodeServer

CONSTANTS c1, c2, c3, p1, p2, p3, g1, g2, g3

MCConns == {c1, c2, c3}
MCPeers == {p1, p2, p3}
MCGrants == {g1, g2, g3}
\* A grant of an exit path, and two that name their next hop.
MCNextHop == [g \in Grants |-> IF g = g1 THEN Anywhere ELSE IF g = g2 THEN "hopA" ELSE "hopB"]

\* The first host is the gateway, as 10.74.0.1 is in the pool's range: one
\* address for two connections, or one for each.
MCSetups == {[last |-> 2, pqwg |-> "pending"], [last |-> 3, pqwg |-> "off"]}
\* The pool of pool.rs is wider than the subnet of config.rs.
MCWide == {[last |-> 3, pqwg |-> "off"]}
MCSubnet == 1..2
MCStranger == {9}
=============================================================================
