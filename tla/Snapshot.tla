------------------------------ MODULE Snapshot ------------------------------
(***************************************************************************)
(* How the routing snapshot follows the database: concurrent admin         *)
(* requests (internal/api/server.go, reloadAfterMutation) that commit      *)
(* their writes and then rebuild the snapshot (internal/engine/            *)
(* snapshot.go, Holder.Rebuild and buildSnapshot).                         *)
(*                                                                         *)
(* Handlers run on goroutines of their own and nothing orders them but     *)
(* SQLite's single write connection.  A rebuild reads each table with a    *)
(* statement of its own, so each read is a step and sees what is committed *)
(* by then; taking the next version number and installing the pointer are  *)
(* two atomic operations, hence two steps.                                 *)
(*                                                                         *)
(* A table is its revision, the number of transactions that changed it: a  *)
(* snapshot is what it read of each.                                       *)
(***************************************************************************)
EXTENDS Integers, Sequences, FiniteSets

CONSTANTS
    Admins,          \* admin requests in progress at a time
    ReadOrder,       \* the tables, in the order buildSnapshot reads them
    Settings,        \* the first of them, whose read may fail unnoticed
    Mutations,       \* what a handler commits: a sequence of sets of tables
    MaxRevision      \* bound on the revisions of a table

VARIABLES
    db,              \* the committed revision of each table
    phase,           \* idle, write (handler), read, number, store (rebuild)
    left,            \* transactions the handler has yet to commit
    wrote,           \* revisions its own commits produced; read by no action
    view,            \* what the rebuild in progress has read
    number,          \* version it has taken
    version,         \* Holder.version
    installed        \* Holder.ptr: the view and the Version of the snapshot

vars == <<db, phase, left, wrote, view, number, version, installed>>

Tables == {ReadOrder[i] : i \in 1..Len(ReadOrder)}

Nothing == [t \in {} |-> 0]

\* settings that could not be read: every setting takes its default
Defaults == -1

ASSUME TablesAssumption ==
    /\ Len(ReadOrder) \in Nat \ {0}
    /\ \A i, j \in 1..Len(ReadOrder) : ReadOrder[i] = ReadOrder[j] => i = j
    /\ Settings \in Tables
    /\ Mutations \subseteq Seq(SUBSET Tables) \ {<<>>}
    /\ MaxRevision \in Nat

Init ==
    /\ db = [t \in Tables |-> 0]
    /\ phase = [a \in Admins |-> "idle"]
    /\ left = [a \in Admins |-> <<>>]
    /\ wrote = [a \in Admins |-> Nothing]
    /\ view = [a \in Admins |-> Nothing]
    /\ number = [a \in Admins |-> 0]
    /\ version = 1
    /\ installed = [version |-> 1, view |-> db]
-----------------------------------------------------------------------------
Goto(a, p) == phase' = [phase EXCEPT ![a] = p]

\* The request is over and its variables with it.
Finish(a) ==
    /\ Goto(a, "idle")
    /\ left' = [left EXCEPT ![a] = <<>>]
    /\ wrote' = [wrote EXCEPT ![a] = Nothing]
    /\ view' = [view EXCEPT ![a] = Nothing]
    /\ number' = [number EXCEPT ![a] = 0]

\* A mutating request reaches its handler.
Begin(a, m) ==
    /\ phase[a] = "idle"
    /\ \A i \in 1..Len(m), t \in Tables : t \in m[i] => db[t] + Len(m) <= MaxRevision
    /\ Goto(a, "write")
    /\ left' = [left EXCEPT ![a] = m]
    /\ UNCHANGED <<db, wrote, view, number, version, installed>>

Commits(a, changed) ==
    /\ db' = [t \in Tables |-> IF t \in changed THEN db[t] + 1 ELSE db[t]]
    /\ wrote' = [wrote EXCEPT ![a] = [t \in DOMAIN @ \cup changed |->
                                         IF t \in changed THEN db[t] + 1 ELSE @[t]]]

\* Mutant: no rebuild follows a handler of several transactions.
CommitUnfollowed(a) ==
    /\ phase[a] = "write"
    /\ Commits(a, Head(left[a]))
    /\ left' = [left EXCEPT ![a] = Tail(@)]
    /\ Goto(a, IF Len(left[a]) > 1 THEN "write" ELSE IF wrote[a] = Nothing THEN "read" ELSE "idle")
    /\ UNCHANGED <<view, number, version, installed>>

\* The next transaction commits; after the last one the handler has answered
\* with a status below 400 and the middleware starts the rebuild.
Commit(a) ==
    /\ phase[a] = "write"
    /\ Commits(a, Head(left[a]))
    /\ left' = [left EXCEPT ![a] = Tail(@)]
    /\ Goto(a, IF Len(left[a]) = 1 THEN "read" ELSE "write")
    /\ UNCHANGED <<view, number, version, installed>>

\* A later step of the handler fails (a validation, a statement, the client's
\* context): it answers 400 or more, and no rebuild follows.
Refused(a) ==
    /\ phase[a] = "write"
    /\ Finish(a)
    /\ UNCHANGED <<db, version, installed>>
-----------------------------------------------------------------------------
NextTable(a) == ReadOrder[Cardinality(DOMAIN view[a]) + 1]

\* Mutant: what the installed snapshot knows of the table is taken over.
ReadsInstalled(a, revision) ==
    view' = [view EXCEPT ![a] = [t \in DOMAIN @ \cup {NextTable(a)} |->
                                    IF t = NextTable(a) THEN installed.view[t] ELSE @[t]]]

Reads(a, revision) ==
    view' = [view EXCEPT ![a] = [t \in DOMAIN @ \cup {NextTable(a)} |->
                                    IF t = NextTable(a) THEN revision ELSE @[t]]]

\* Mutant: the last table is left out.
AfterReadShort(a) ==
    Goto(a, IF Cardinality(DOMAIN view[a]) + 2 >= Len(ReadOrder) THEN "number" ELSE "read")

AfterRead(a) ==
    Goto(a, IF Cardinality(DOMAIN view[a]) + 1 = Len(ReadOrder) THEN "number" ELSE "read")

\* One statement of buildSnapshot.
Read(a) ==
    /\ phase[a] = "read"
    /\ Reads(a, db[NextTable(a)])
    /\ AfterRead(a)
    /\ UNCHANGED <<db, left, wrote, number, version, installed>>

\* The settings cannot be read: the snapshot is built without any.
ReadDefaults(a) ==
    /\ phase[a] = "read" /\ NextTable(a) = Settings
    /\ Reads(a, Defaults)
    /\ AfterRead(a)
    /\ UNCHANGED <<db, left, wrote, number, version, installed>>

\* Another table cannot be read, or five seconds have passed: the rebuild is
\* given up, which is only logged, and the old snapshot goes on serving.
Abandon(a) ==
    /\ phase[a] = "read" /\ NextTable(a) # Settings
    /\ Finish(a)
    /\ UNCHANGED <<db, version, installed>>

\* h.version.Add(1)
TakeNumber(a) ==
    /\ phase[a] = "number"
    /\ version' = version + 1
    /\ number' = [number EXCEPT ![a] = version + 1]
    /\ Goto(a, "store")
    /\ UNCHANGED <<db, left, wrote, view, installed>>

\* h.ptr.Store(snap)
Store(a) ==
    /\ phase[a] = "store"
    /\ installed' = [version |-> number[a], view |-> view[a]]
    /\ Finish(a)
    /\ UNCHANGED <<db, version>>

\* The process is restarted: requests in progress are gone, commits are not,
\* and the new process installs its first snapshot before it serves.
Restart ==
    /\ phase' = [a \in Admins |-> "idle"]
    /\ left' = [a \in Admins |-> <<>>]
    /\ wrote' = [a \in Admins |-> Nothing]
    /\ view' = [a \in Admins |-> Nothing]
    /\ number' = [a \in Admins |-> 0]
    /\ version' = 1
    /\ installed' = [version |-> 1, view |-> db]
    /\ UNCHANGED db

Next ==
    \/ \E a \in Admins :
          \/ \E m \in Mutations : Begin(a, m)
          \/ Commit(a)
          \/ Refused(a)
          \/ Read(a)
          \/ ReadDefaults(a)
          \/ Abandon(a)
          \/ TakeNumber(a)
          \/ Store(a)
    \/ Restart

Spec == Init /\ [][Next]_vars
-----------------------------------------------------------------------------
Revisions(view_) ==
    \A t \in DOMAIN view_ : view_[t] \in 0..db[t] \/ (t = Settings /\ view_[t] = Defaults)

TypeOK ==
    /\ db \in [Tables -> Nat]
    /\ phase \in [Admins -> {"idle", "write", "read", "number", "store"}]
    /\ version \in Nat
    /\ DOMAIN installed.view = Tables /\ Revisions(installed.view)
    /\ \A a \in Admins :
          /\ DOMAIN wrote[a] \subseteq Tables /\ Revisions(wrote[a])
          /\ DOMAIN view[a] \subseteq Tables /\ Revisions(view[a])
          /\ phase[a] \in {"number", "store"} => DOMAIN view[a] = Tables

\* A rebuild that succeeds installs everything its own request committed, so
\* that "the UI's next read reflects the new routing" (server.go:61-63),
\* however its reads interleave with the commits of others.  Only settings
\* that could not be read are missing.
OwnWritesInstalled ==
    [][\A a \in Admins : phase[a] = "store" /\ phase'[a] = "idle" /\ installed' # installed =>
          \A t \in DOMAIN wrote[a] :
              \/ installed'.view[t] >= wrote[a][t]
              \/ t = Settings /\ installed'.view[t] = Defaults]_vars

\* No two snapshots of a process bear the same version, although taking the
\* number and installing the snapshot are not one step.
VersionsDiffer ==
    /\ installed.version <= version
    /\ \A a \in Admins : phase[a] = "store" =>
          /\ number[a] # installed.version /\ number[a] <= version
          /\ \A b \in Admins \ {a} : phase[b] = "store" => number[a] # number[b]
=============================================================================
