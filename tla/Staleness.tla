----------------------------- MODULE Staleness -----------------------------
(***************************************************************************)
(* Why the installed snapshot may lag behind the database.  A variable of  *)
(* observation collects the causes since the two last agreed: a handler    *)
(* that failed halfway, a rebuild that failed or read no settings, and a   *)
(* rebuild that installed an older view over a newer one.                  *)
(***************************************************************************)
EXTENDS Snapshot

VARIABLE causes

watched == <<vars, causes>>

WatchInit == Init /\ causes = {}

\* A current snapshot has nothing to explain.
Because(new) == causes' = IF installed'.view = db' THEN {} ELSE causes \cup new

Overtakes(a) == \E t \in Tables : view[a][t] < installed.view[t]

Watch(a) ==
    \/ \E m \in Mutations : Begin(a, m) /\ Because({})
    \/ Commit(a) /\ Because({})
    \/ Refused(a) /\ Because({"refused"})
    \/ Read(a) /\ Because({})
    \/ ReadDefaults(a) /\ Because({"defaults"})
    \/ Abandon(a) /\ Because({"abandoned"})
    \/ TakeNumber(a) /\ Because({})
    \/ Store(a) /\ Because(IF Overtakes(a) THEN {"overtaken"} ELSE {})

WatchNext ==
    \/ \E a \in Admins : Watch(a)
    \/ Restart /\ Because({})

WatchSpec == WatchInit /\ [][WatchNext]_watched
-----------------------------------------------------------------------------
Settled == \A a \in Admins : phase[a] = "idle"

\* When no admin request is in progress the snapshot is what the database
\* holds, unless a handler failed halfway, a rebuild failed, or a rebuild
\* installed an older view over a newer one: a rebuild after every mutation
\* (main.go:249) leaves no other way to lag.
StaleOnlyForCause == Settled /\ causes = {} => installed.view = db
=============================================================================
