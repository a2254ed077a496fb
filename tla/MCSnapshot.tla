----------------------------- MODULE MCSnapshot -----------------------------
(***************************************************************************)
(* Two admin requests at a time over three of the tables.  Handlers that   *)
(* commit one table, two tables in one transaction (an import), or two     *)
(* transactions one after the other (DeleteProvider and its routes).       *)
(***************************************************************************)
EXTENDS Staleness, TLC

CONSTANTS a1, a2

MCAdmins == {a1, a2}
MCReadOrder == <<"settings", "providers", "routes">>
MCMutations == {<<{"settings"}>>, <<{"providers", "routes"}>>, <<{"providers"}, {"routes"}>>}

Interchangeable == Permutations(MCAdmins)
=============================================================================
