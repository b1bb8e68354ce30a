--------------------------- MODULE MCGrantReplay ---------------------------
(* Small instance of the replay cache for TLC. *)
EXTENDS GrantReplay, TLC

CONSTANTS g1, g2, g3

\* Three grants for a cache of two, so that capacity is reached.
MCGrants == {g1, g2, g3}
MCSymmetry == Permutations(MCGrants)

\* The Coordinator's clock from one second behind to two ahead: two seconds is
\* beyond MaxSkew.
MCSkews == -1..2

\* The worst clocks, and clocks that run together.
MCFaultSets == {{"ahead", "noclock", "stepback"}, {"noclock"}}
=============================================================================
