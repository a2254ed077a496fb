------------------------------- MODULE Tables -------------------------------
(***************************************************************************)
(* What the modules that write tables share.  A table is a function from   *)
(* the keys of its rows.  A new row takes the highest id in its table plus *)
(* one, as SQLite does for an INTEGER PRIMARY KEY without AUTOINCREMENT:   *)
(* ids are reused.                                                         *)
(***************************************************************************)
EXTENDS Naturals, Sequences, FiniteSetsExt, SequencesExt

Put(f, k, row) == [x \in DOMAIN f \cup {k} |-> IF x = k THEN row ELSE f[x]]
Drop(f, ks)    == [x \in DOMAIN f \ ks |-> f[x]]
NewId(f)       == IF DOMAIN f = {} THEN 1 ELSE Max(DOMAIN f) + 1

\* The elements of a sequence at the positions of a set, in their order.
Keep(seq, S) ==
    LET kept[i \in 0..Len(seq)] ==
            IF i = 0 THEN <<>>
            ELSE IF i \in S THEN Append(kept[i - 1], seq[i]) ELSE kept[i - 1]
    IN  kept[Len(seq)]

\* dedupeRouteTargets: the first of equal targets stays.
Deduped(chain) ==
    Keep(chain, {i \in DOMAIN chain : \A j \in 1..(i - 1) : chain[j] # chain[i]})
=============================================================================
