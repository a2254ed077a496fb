--------------------------- MODULE AccountShares ---------------------------
(***************************************************************************)
(* What the rotation of the account pool gives to each account while its   *)
(* callers pick over one table with all of its accounts ready.  A variable *)
(* of observation counts the turns each account got since the pool was     *)
(* last at rest.                                                           *)
(***************************************************************************)
EXTENDS AccountPool

VARIABLE turns

NoTable == [a \in {} |-> 0]
NoTurns == [table |-> NoTable, of |-> [a \in Accounts |-> 0]]

AtRest == \A a \in Accounts : current[a] = 0

Counted(p, a) ==
    IF Ready(p) # DOMAIN p THEN NoTurns
    ELSE IF AtRest THEN [table |-> p, of |-> [NoTurns.of EXCEPT ![a] = 1]]
    ELSE IF turns.table = p THEN [turns EXCEPT !.of[a] = @ + 1]
    ELSE NoTurns

SharesInit == PoolInit /\ turns = NoTurns

SharesNext ==
    \/ \E p \in Providers : \E a \in DOMAIN p :
          \/ Rotate(p, a) /\ turns' = Counted(p, a)
          \/ Fallback(p, a) /\ UNCHANGED turns
    \/ \E a \in Accounts, o \in Outcomes, d \in RetryAfters : Report(a, o, d) /\ UNCHANGED turns
    \/ Tick /\ UNCHANGED turns

SharesSpec == SharesInit /\ [][SharesNext]_<<poolVars, turns>>
-----------------------------------------------------------------------------
Round == TotalWeight(turns.table, DOMAIN turns.table)

Picks == MapThenSumSet(LAMBDA a : turns.of[a], Accounts)

Weight(a) == EffWeight(turns.table[a])

\* Pick's rotation is fair, whatever the weights: no account is ever a whole
\* turn ahead of its share of the picks, and a whole round of picks gives
\* each exactly its weight.
SharesAreFair ==
    \A a \in DOMAIN turns.table :
        /\ turns.of[a] * Round - Picks * Weight(a) < Round
        /\ Picks = Round => turns.of[a] = Weight(a)
=============================================================================
