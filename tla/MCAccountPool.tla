--------------------------- MODULE MCAccountPool ---------------------------
(***************************************************************************)
(* Three account tables that share accounts, as three snapshots would hold *)
(* while an admin edits weights and disables accounts.                     *)
(***************************************************************************)
EXTENDS AccountShares, TLC

MCProviders == {1 :> 3 @@ 2 :> 1 @@ 3 :> 0, 1 :> 1 @@ 2 :> 2, 2 :> 2 @@ 3 :> 3}

\* With these tables, however callers mix them and their cooldowns, no account
\* runs into a debt or a claim of a whole round of the largest table, and while
\* one table is used none falls a whole turn behind its share: nobody is
\* starved or favoured for long because of what happened under another
\* snapshot.  (Of four accounts and more, tables can be chosen that do that.)
ClaimsAreBounded ==
    LET heaviest == Max({TotalWeight(p, DOMAIN p) : p \in Providers})
    IN  /\ \A a \in Accounts : -heaviest < current[a] /\ current[a] < heaviest
        /\ \A a \in DOMAIN turns.table : Picks * Weight(a) - turns.of[a] * Round < Round
=============================================================================
