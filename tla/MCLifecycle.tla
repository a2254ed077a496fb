---------------------------- MODULE MCLifecycle ----------------------------
(***************************************************************************)
(* Two commands at once and two process ids, so that a pid is reused while *)
(* a command still remembers it.                                           *)
(***************************************************************************)
EXTENDS Lifecycle, TLC

CONSTANTS p1, p2, c1, c2

MCPids == {p1, p2}
MCCommands == {c1, c2}

\* One shell upgrades, starts and restarts; the other stops.
OneOperator == c1 :> {"start", "stop", "restart", "upgrade"} @@ c2 :> {"stop"}

Alike == Permutations(MCPids)
=============================================================================
