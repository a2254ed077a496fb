--------------------------- MODULE SnapshotProofs ---------------------------
(***************************************************************************)
(* What holds of the snapshot's rebuilds for any number of admin requests, *)
(* any tables and any handlers: the type, that versions differ, that a     *)
(* rebuild installs what its own request committed, and that nothing else  *)
(* than the causes of Staleness makes the installed snapshot lag.          *)
(***************************************************************************)
EXTENDS Staleness, FiniteSetTheorems, SequenceTheorems, TLAPS

Phases == {"idle", "write", "read", "number", "store"}

Placed(n) == {ReadOrder[i] : i \in 1..n}

\* A revision read of table t, now or earlier.
ReadOf(t, revision) == revision \in 0..db[t] \/ (t = Settings /\ revision = Defaults)

\* What the phase of a rebuild says of its view.
ViewOK(a) ==
    \E n \in 0..Len(ReadOrder) :
        /\ DOMAIN view[a] = Placed(n)
        /\ IsFiniteSet(Placed(n)) /\ Cardinality(Placed(n)) = n
        /\ phase[a] \in {"idle", "write"} => n = 0
        /\ phase[a] = "read" => n < Len(ReadOrder)
        /\ phase[a] \in {"number", "store"} => n = Len(ReadOrder)

\* A request has read at least what it wrote, and nothing that is not there.
AdminOK(a) ==
    /\ ViewOK(a)
    /\ phase[a] = "write" => left[a] # <<>>
    /\ phase[a] = "idle" => wrote[a] = Nothing
    /\ DOMAIN wrote[a] \subseteq Tables
    /\ \A t \in DOMAIN wrote[a] : wrote[a][t] \in 0..db[t]
    /\ \A t \in DOMAIN view[a] : ReadOf(t, view[a][t])
    /\ \A t \in DOMAIN wrote[a] \cap DOMAIN view[a] :
          view[a][t] >= wrote[a][t] \/ (t = Settings /\ view[a][t] = Defaults)

TablesOK ==
    /\ db \in [Tables -> Nat]
    /\ phase \in [Admins -> Phases]
    /\ left \in [Admins -> Seq(SUBSET Tables)]
    /\ DOMAIN wrote = Admins /\ DOMAIN view = Admins
    /\ number \in [Admins -> Nat]
    /\ version \in Nat /\ installed.version \in Nat
    /\ DOMAIN installed.view = Tables
    /\ \A t \in Tables : ReadOf(t, installed.view[t])

Inv == TablesOK /\ VersionsDiffer /\ \A a \in Admins : AdminOK(a)
-----------------------------------------------------------------------------
\* A table's place in the order is its own: the one after those read is new.
LEMMA PlacedGrows ==
    ASSUME NEW n \in Nat, n < Len(ReadOrder), IsFiniteSet(Placed(n)), Cardinality(Placed(n)) = n
    PROVE  /\ Placed(n + 1) = Placed(n) \cup {ReadOrder[n + 1]}
           /\ ReadOrder[n + 1] \in Tables
           /\ IsFiniteSet(Placed(n + 1)) /\ Cardinality(Placed(n + 1)) = n + 1
<1>1. Len(ReadOrder) \in Nat
    BY TablesAssumption
<1>2. 1..(n + 1) = 1..n \cup {n + 1}
    BY <1>1
<1>3. Placed(n + 1) = Placed(n) \cup {ReadOrder[n + 1]}
    BY <1>2 DEF Placed
<1>4. ReadOrder[n + 1] \notin Placed(n)
  <2>1. SUFFICES ASSUME NEW i \in 1..n, ReadOrder[i] = ReadOrder[n + 1]
                 PROVE  FALSE
      BY DEF Placed
  <2>2. i \in 1..Len(ReadOrder) /\ n + 1 \in 1..Len(ReadOrder) /\ i # n + 1
      BY <1>1
  <2>3. QED
      BY <2>1, <2>2, TablesAssumption
<1>5. n + 1 \in 1..Len(ReadOrder)
    BY <1>1
<1>6. IsFiniteSet(Placed(n + 1)) /\ Cardinality(Placed(n + 1)) = n + 1
    BY <1>3, <1>4, FS_AddElement
<1>7. QED
    BY <1>3, <1>5, <1>6 DEF Tables

\* No table is among the first zero that a rebuild reads.
LEMMA NothingPlaced == Placed(0) = {} /\ IsFiniteSet(Placed(0)) /\ Cardinality(Placed(0)) = 0
<1>1. Placed(0) = {}
    BY DEF Placed
<1>2. QED
    BY <1>1, FS_EmptySet

\* A request whose variables are reset is idle and owes nothing.
LEMMA ResetOK ==
    ASSUME NEW a \in Admins, phase[a] = "idle", wrote[a] = Nothing, view[a] = Nothing
    PROVE  AdminOK(a)
<1>1. DOMAIN Nothing = {}
    BY DEF Nothing
<1>2. 0 \in 0..Len(ReadOrder)
    BY TablesAssumption
<1>3. ViewOK(a)
  <2>1. DOMAIN view[a] = Placed(0)
      BY <1>1, NothingPlaced
  <2>2. phase[a] \notin {"read", "number", "store"}
      OBVIOUS
  <2>3. QED
      BY <1>2, <2>1, <2>2, NothingPlaced DEF ViewOK
<1>4. QED
    BY <1>1, <1>3 DEF AdminOK

\* A request that has ended remembers neither a write nor a view.
LEMMA ResetPrimed ==
    ASSUME NEW a \in Admins, phase'[a] = "idle", wrote'[a] = Nothing, view'[a] = Nothing
    PROVE  AdminOK(a)'
<1>1. DOMAIN Nothing = {}
    BY DEF Nothing
<1>2. 0 \in 0..Len(ReadOrder)
    BY TablesAssumption
<1>3. ViewOK(a)'
  <2>1. DOMAIN view'[a] = Placed(0)
      BY <1>1, NothingPlaced
  <2>2. phase'[a] \notin {"read", "number", "store"}
      OBVIOUS
  <2>3. QED
      BY <1>2, <2>1, <2>2, NothingPlaced DEF ViewOK
<1>4. QED
    BY <1>1, <1>3 DEF AdminOK

\* The program starts with the snapshot of the tables it found.
LEMMA InitInv == Init => Inv
<1> SUFFICES ASSUME Init PROVE Inv
    OBVIOUS
<1>1. TablesOK
    BY DEF Init, TablesOK, Phases, ReadOf
<1>2. VersionsDiffer
    BY DEF Init, VersionsDiffer
<1>3. \A a \in Admins : AdminOK(a)
    BY ResetOK DEF Init
<1>4. QED
    BY <1>1, <1>2, <1>3 DEF Inv
-----------------------------------------------------------------------------
\* What a step leaves of another request's variables.
Same(b) ==
    /\ phase'[b] = phase[b] /\ left'[b] = left[b]
    /\ wrote'[b] = wrote[b] /\ view'[b] = view[b] /\ number'[b] = number[b]

\* Revisions only grow.
Grows == db' \in [Tables -> Nat] /\ \A t \in Tables : db'[t] >= db[t]

\* What was read of a table remains one of its revisions: they only grow.
LEMMA ReadStays ==
    ASSUME TablesOK, Grows, NEW t \in Tables, NEW revision, ReadOf(t, revision)
    PROVE  revision \in 0..db'[t] \/ (t = Settings /\ revision = Defaults)
BY DEF TablesOK, Grows, ReadOf

\* A request whose variables do not change keeps what is true of it.
LEMMA Frame ==
    ASSUME TablesOK, Grows, NEW b \in Admins, AdminOK(b), Same(b)
    PROVE  AdminOK(b)'
<1>1. ViewOK(b)'
    BY DEF AdminOK, ViewOK, Same
<1>2. DOMAIN view[b] \subseteq Tables
  <2>1. PICK n \in 0..Len(ReadOrder) : DOMAIN view[b] = Placed(n)
      BY DEF AdminOK, ViewOK
  <2>2. n <= Len(ReadOrder) /\ Len(ReadOrder) \in Nat
      BY TablesAssumption
  <2>3. QED
      BY <2>1, <2>2 DEF Placed, Tables
<1>3. \A t \in DOMAIN wrote'[b] : wrote'[b][t] \in 0..db'[t]
    BY DEF AdminOK, Same, TablesOK, Grows
<1>4. \A t \in DOMAIN view[b] : view[b][t] \in 0..db'[t] \/ (t = Settings /\ view[b][t] = Defaults)
  <2>1. \A t \in DOMAIN view[b] : t \in Tables /\ ReadOf(t, view[b][t])
      BY <1>2 DEF AdminOK
  <2>2. QED
      BY <2>1, ReadStays
<1>5. QED
    BY <1>1, <1>3, <1>4 DEF AdminOK, Same, ReadOf

\* A finished request's variables are reset, the others' stay.
LEMMA FinishFacts ==
    ASSUME Inv, NEW a \in Admins, Finish(a)
    PROVE  /\ phase' \in [Admins -> Phases] /\ phase'[a] = "idle"
           /\ left' \in [Admins -> Seq(SUBSET Tables)]
           /\ DOMAIN wrote' = Admins /\ wrote'[a] = Nothing
           /\ DOMAIN view' = Admins /\ view'[a] = Nothing
           /\ number' \in [Admins -> Nat]
           /\ \A b \in Admins \ {a} : Same(b)
BY DEF Finish, Goto, Same, Inv, TablesOK, Phases

\* Every step that ends a request and neither commits nor installs.
LEMMA EndInv ==
    ASSUME Inv, NEW a \in Admins, Finish(a), UNCHANGED <<db, version, installed>>
    PROVE  Inv'
<1>1. Grows
    BY DEF Grows, Inv, TablesOK
<1>2. TablesOK'
    BY FinishFacts DEF Inv, TablesOK, ReadOf
<1>3. VersionsDiffer'
  <2>1. \A b \in Admins : phase'[b] = "store" => b # a /\ phase[b] = "store" /\ number'[b] = number[b]
      BY FinishFacts DEF Same
  <2>2. QED
      BY <2>1 DEF Inv, VersionsDiffer
<1>4. \A b \in Admins : AdminOK(b)'
  <2>1. AdminOK(a)'
    <3>1. phase'[a] = "idle" /\ wrote'[a] = Nothing /\ view'[a] = Nothing
        BY FinishFacts
    <3>2. QED
        BY <3>1, ResetPrimed
  <2>2. \A b \in Admins \ {a} : AdminOK(b)'
      BY <1>1, FinishFacts, Frame DEF Inv
  <2>3. QED
      BY <2>1, <2>2
<1>5. QED
    BY <1>2, <1>3, <1>4 DEF Inv

\* An admin request begins: it has written and read nothing.
LEMMA BeginInv ==
    ASSUME Inv, NEW a \in Admins, NEW m \in Mutations, Begin(a, m)
    PROVE  Inv'
<1>1. /\ phase[a] = "idle" /\ phase'[a] = "write" /\ left'[a] = m /\ m # <<>>
      /\ phase' \in [Admins -> Phases] /\ left' \in [Admins -> Seq(SUBSET Tables)]
      /\ \A b \in Admins \ {a} : phase'[b] = phase[b] /\ left'[b] = left[b]
    BY TablesAssumption DEF Begin, Goto, Inv, TablesOK, Phases
<1>2. UNCHANGED <<db, wrote, view, number, version, installed>>
    BY DEF Begin
<1>3. Grows /\ TablesOK'
    BY <1>1, <1>2 DEF Grows, Inv, TablesOK, ReadOf
<1>4. VersionsDiffer'
    BY <1>1, <1>2 DEF Inv, VersionsDiffer
<1>5. AdminOK(a)'
  <2>1. ViewOK(a)'
      BY <1>1, <1>2 DEF Inv, AdminOK, ViewOK
  <2>2. QED
      BY <1>1, <1>2, <2>1 DEF Inv, AdminOK, ReadOf
<1>6. \A b \in Admins \ {a} : AdminOK(b)'
    BY <1>1, <1>2, <1>3, Frame DEF Inv, Same
<1>7. QED
    BY <1>3, <1>4, <1>5, <1>6 DEF Inv

\* While a handler commits its rebuild has read nothing.
LEMMA WriteReadsNothing ==
    ASSUME NEW a \in Admins, ViewOK(a), phase[a] \in {"idle", "write"}
    PROVE  DOMAIN view[a] = {}
BY NothingPlaced DEF ViewOK

\* A commit: what it wrote is what is now there.
LEMMA CommitInv ==
    ASSUME Inv, NEW a \in Admins, Commit(a)
    PROVE  Inv'
<1> DEFINE changed == Head(left[a])
<1>1. /\ phase[a] = "write" /\ left[a] \in Seq(SUBSET Tables) /\ left[a] # <<>>
      /\ Commits(a, changed) /\ left' = [left EXCEPT ![a] = Tail(@)]
      /\ Goto(a, IF Len(left[a]) = 1 THEN "read" ELSE "write")
      /\ UNCHANGED <<view, number, version, installed>>
    BY DEF Commit, Inv, TablesOK, AdminOK
<1>2. changed \subseteq Tables /\ Tail(left[a]) \in Seq(SUBSET Tables)
    BY <1>1
<1>3. Len(left[a]) # 1 => Tail(left[a]) # <<>>
  <2>1. Len(left[a]) \in Nat \ {0} /\ Len(Tail(left[a])) = Len(left[a]) - 1
      BY <1>1, EmptySeq, HeadTailProperties
  <2>2. Len(<<>>) = 0
      BY EmptySeq
  <2>3. Tail(left[a]) = <<>> => Len(Tail(left[a])) = 0
      BY <2>2, Zenon
  <2>4. QED
      BY <2>1, <2>3
<1>4. Grows
    BY <1>1 DEF Commits, Grows, Inv, TablesOK
<1>5. /\ phase' \in [Admins -> Phases] /\ phase'[a] \in {"read", "write"}
      /\ phase'[a] = "write" => Len(left[a]) # 1
      /\ \A b \in Admins \ {a} : phase'[b] = phase[b]
    BY <1>1 DEF Goto, Inv, TablesOK, Phases
<1>6. /\ left' \in [Admins -> Seq(SUBSET Tables)] /\ left'[a] = Tail(left[a])
      /\ \A b \in Admins \ {a} : left'[b] = left[b]
    BY <1>1, <1>2 DEF Inv, TablesOK
<1>7. /\ DOMAIN wrote' = Admins
      /\ wrote'[a] = [t \in DOMAIN wrote[a] \cup changed |->
                         IF t \in changed THEN db[t] + 1 ELSE wrote[a][t]]
      /\ \A b \in Admins \ {a} : wrote'[b] = wrote[b]
    BY <1>1 DEF Commits, Inv, TablesOK
<1>8. TablesOK'
  <2>1. \A t \in Tables : ReadOf(t, installed.view[t])'
    <3>1. \A t \in Tables : installed.view[t] \in 0..db'[t] \/ (t = Settings /\ installed.view[t] = Defaults)
        BY <1>4, ReadStays DEF Inv, TablesOK
    <3>2. QED
        BY <1>1, <3>1 DEF ReadOf
  <2>2. QED
      BY <1>1, <1>4, <1>5, <1>6, <1>7, <2>1 DEF Inv, TablesOK, Grows
<1>9. VersionsDiffer'
    BY <1>1, <1>5 DEF Inv, VersionsDiffer
<1>10. AdminOK(a)'
  <2>1. DOMAIN view[a] = {}
      BY <1>1, WriteReadsNothing DEF Inv, AdminOK
  <2>2. ViewOK(a)'
    <3>1. 0 \in 0..Len(ReadOrder) /\ 0 < Len(ReadOrder)
        BY TablesAssumption
    <3>2. QED
        BY <1>1, <1>5, <2>1, <3>1, NothingPlaced DEF ViewOK
  <2>3. DOMAIN wrote'[a] = DOMAIN wrote[a] \cup changed
      BY <1>7
  <2>4. DOMAIN wrote[a] \subseteq Tables /\ \A t \in DOMAIN wrote[a] : wrote[a][t] \in 0..db[t]
      BY DEF Inv, AdminOK
  <2>5. db \in [Tables -> Nat] /\ \A t \in Tables : db'[t] = IF t \in changed THEN db[t] + 1 ELSE db[t]
      BY <1>1 DEF Commits, Inv, TablesOK
  <2>6. \A t \in DOMAIN wrote'[a] : wrote'[a][t] \in 0..db'[t]
    <3>1. SUFFICES ASSUME NEW t \in DOMAIN wrote[a] \cup changed
                   PROVE  wrote'[a][t] \in 0..db'[t]
        BY <2>3
    <3>2. t \in Tables /\ wrote'[a][t] = IF t \in changed THEN db[t] + 1 ELSE wrote[a][t]
        BY <1>2, <1>7, <2>4
    <3>3. QED
        BY <2>4, <2>5, <3>2
  <2>7. QED
      BY <1>1, <1>2, <1>3, <1>5, <1>6, <2>1, <2>2, <2>3, <2>4, <2>6 DEF AdminOK
<1>11. \A b \in Admins \ {a} : AdminOK(b)'
    BY <1>1, <1>4, <1>5, <1>6, <1>7, Frame DEF Inv, Same
<1>12. QED
    BY <1>8, <1>9, <1>10, <1>11 DEF Inv

\* The read step: the next table is entered at its revision, or as missing.
LEMMA ReadsInv ==
    ASSUME Inv, NEW a \in Admins, phase[a] = "read",
           NEW revision, ReadOf(NextTable(a), revision),
           revision = db[NextTable(a)] \/ (NextTable(a) = Settings /\ revision = Defaults),
           Reads(a, revision), AfterRead(a),
           UNCHANGED <<db, left, wrote, number, version, installed>>
    PROVE  Inv'
<1> DEFINE t0 == NextTable(a)
<1>1. PICK n \in 0..Len(ReadOrder) :
          /\ DOMAIN view[a] = Placed(n)
          /\ IsFiniteSet(Placed(n)) /\ Cardinality(Placed(n)) = n
          /\ n < Len(ReadOrder)
    BY DEF Inv, AdminOK, ViewOK
<1>2. Len(ReadOrder) \in Nat /\ n \in Nat
    BY <1>1, TablesAssumption
<1>3. /\ t0 = ReadOrder[n + 1] /\ t0 \in Tables
      /\ Placed(n + 1) = Placed(n) \cup {t0}
      /\ IsFiniteSet(Placed(n + 1)) /\ Cardinality(Placed(n + 1)) = n + 1
    BY <1>1, <1>2, PlacedGrows DEF NextTable
<1>4. /\ DOMAIN view' = Admins /\ DOMAIN view'[a] = Placed(n + 1)
      /\ view'[a][t0] = revision
      /\ \A t \in DOMAIN view[a] \ {t0} : view'[a][t] = view[a][t]
      /\ \A b \in Admins \ {a} : view'[b] = view[b]
    BY <1>1, <1>3 DEF Reads, Inv, TablesOK
<1>5. /\ phase' \in [Admins -> Phases]
      /\ phase'[a] = IF n + 1 = Len(ReadOrder) THEN "number" ELSE "read"
      /\ \A b \in Admins \ {a} : phase'[b] = phase[b]
    BY <1>1, <1>2 DEF AfterRead, Goto, Inv, TablesOK, Phases
<1>6. Grows
    BY DEF Grows, Inv, TablesOK
<1>7. TablesOK'
    BY <1>4, <1>5 DEF Inv, TablesOK, ReadOf
<1>8. VersionsDiffer'
    BY <1>5 DEF Inv, VersionsDiffer
<1>9. AdminOK(a)'
  <2>1. n + 1 \in 0..Len(ReadOrder) /\ (n + 1 # Len(ReadOrder) => n + 1 < Len(ReadOrder))
      BY <1>1, <1>2
  <2>2. ViewOK(a)'
      BY <1>3, <1>4, <1>5, <2>1 DEF ViewOK
  <2>3. DOMAIN wrote[a] \subseteq Tables /\ \A t \in DOMAIN wrote[a] : wrote[a][t] \in 0..db[t]
      BY DEF Inv, AdminOK
  <2>4. \A t \in DOMAIN view'[a] : ReadOf(t, view'[a][t])
      BY <1>1, <1>3, <1>4 DEF Inv, AdminOK
  <2>5. \A t \in DOMAIN wrote[a] \cap DOMAIN view'[a] :
            view'[a][t] >= wrote[a][t] \/ (t = Settings /\ view'[a][t] = Defaults)
    <3>1. SUFFICES ASSUME NEW t \in DOMAIN wrote[a] \cap DOMAIN view'[a]
                   PROVE  view'[a][t] >= wrote[a][t] \/ (t = Settings /\ view'[a][t] = Defaults)
        OBVIOUS
    <3>2. CASE t = t0
      <4>1. db[t] \in Nat /\ wrote[a][t] \in 0..db[t]
          BY <1>3, <2>3, <3>2 DEF Inv, TablesOK
      <4>2. view'[a][t] = revision /\ (revision = db[t] \/ (t = Settings /\ revision = Defaults))
          BY <1>4, <3>2
      <4>3. QED
          BY <4>1, <4>2
    <3>3. CASE t # t0
        BY <1>1, <1>3, <1>4, <3>1, <3>3 DEF Inv, AdminOK
    <3>4. QED
        BY <3>2, <3>3
  <2>6. phase'[a] \in {"read", "number"}
      BY <1>5
  <2>7. QED
      BY <2>2, <2>3, <2>4, <2>5, <2>6 DEF AdminOK, ReadOf
<1>10. \A b \in Admins \ {a} : AdminOK(b)'
    BY <1>4, <1>5, <1>6, Frame DEF Inv, Same
<1>11. QED
    BY <1>7, <1>8, <1>9, <1>10 DEF Inv

\* Both ways a statement of the rebuild can be answered.
LEMMA ReadInv ==
    ASSUME Inv, NEW a \in Admins, Read(a) \/ ReadDefaults(a)
    PROVE  Inv'
<1>1. CASE Read(a)
  <2>1. NextTable(a) \in Tables
    <3>1. PICK n \in 0..Len(ReadOrder) :
              DOMAIN view[a] = Placed(n) /\ Cardinality(Placed(n)) = n /\ n < Len(ReadOrder)
        BY <1>1 DEF Read, Inv, AdminOK, ViewOK
    <3>2. n + 1 \in 1..Len(ReadOrder)
        BY <3>1, TablesAssumption
    <3>3. QED
        BY <3>1, <3>2 DEF NextTable, Tables
  <2>2. ReadOf(NextTable(a), db[NextTable(a)])
      BY <2>1 DEF ReadOf, Inv, TablesOK
  <2>3. QED
      BY <1>1, <2>2, ReadsInv DEF Read
<1>2. CASE ReadDefaults(a)
  <2>1. ReadOf(NextTable(a), Defaults)
      BY <1>2 DEF ReadDefaults, ReadOf
  <2>2. QED
      BY <1>2, <2>1, ReadsInv DEF ReadDefaults
<1>3. QED
    BY <1>1, <1>2

\* The number taken is above every other that is in use.
LEMMA TakeNumberInv ==
    ASSUME Inv, NEW a \in Admins, TakeNumber(a)
    PROVE  Inv'
<1>1. /\ phase[a] = "number" /\ phase' \in [Admins -> Phases] /\ phase'[a] = "store"
      /\ number' \in [Admins -> Nat] /\ number'[a] = version + 1 /\ version' = version + 1
      /\ \A b \in Admins \ {a} : phase'[b] = phase[b] /\ number'[b] = number[b]
    BY DEF TakeNumber, Goto, Inv, TablesOK, Phases
<1>2. UNCHANGED <<db, left, wrote, view, installed>>
    BY DEF TakeNumber
<1>3. TablesOK'
    BY <1>1, <1>2 DEF Inv, TablesOK, ReadOf
<1>4. VersionsDiffer'
  <2>1. version \in Nat /\ installed.version \in Nat /\ \A b \in Admins : number[b] \in Nat
      BY DEF Inv, TablesOK
  <2>2. /\ installed.version <= version
        /\ \A b \in Admins : phase[b] = "store" =>
              /\ number[b] # installed.version /\ number[b] <= version
              /\ \A c \in Admins \ {b} : phase[c] = "store" => number[b] # number[c]
      BY DEF Inv, VersionsDiffer
  <2>3. installed.version < version' /\ \A b \in Admins \ {a} : phase'[b] = "store" => number'[b] < version'
      BY <1>1, <2>1, <2>2
  <2>4. QED
      BY <1>1, <1>2, <2>1, <2>2, <2>3 DEF VersionsDiffer
<1>5. AdminOK(a)'
  <2>1. ViewOK(a)'
      BY <1>1, <1>2 DEF Inv, AdminOK, ViewOK
  <2>2. QED
      BY <1>1, <1>2, <2>1 DEF Inv, AdminOK, ReadOf
<1>6. \A b \in Admins \ {a} : AdminOK(b)'
  <2>1. \A b \in Admins \ {a} : ViewOK(b)'
      BY <1>1, <1>2 DEF Inv, AdminOK, ViewOK
  <2>2. QED
      BY <1>1, <1>2, <2>1 DEF Inv, AdminOK, ReadOf
<1>7. QED
    BY <1>3, <1>4, <1>5, <1>6 DEF Inv

\* A rebuild about to install has read every table.
LEMMA StoreReadsAll ==
    ASSUME Inv, NEW a \in Admins, phase[a] \in {"number", "store"}
    PROVE  DOMAIN view[a] = Tables
BY DEF Inv, AdminOK, ViewOK, Placed, Tables

\* The pointer is stored: every other rebuild keeps a number of its own.
LEMMA StoreInv ==
    ASSUME Inv, NEW a \in Admins, Store(a)
    PROVE  Inv'
<1>1. /\ phase[a] = "store" /\ Finish(a) /\ UNCHANGED <<db, version>>
      /\ installed' = [version |-> number[a], view |-> view[a]]
    BY DEF Store
<1>2. /\ phase' \in [Admins -> Phases] /\ phase'[a] = "idle"
      /\ left' \in [Admins -> Seq(SUBSET Tables)]
      /\ DOMAIN wrote' = Admins /\ wrote'[a] = Nothing
      /\ DOMAIN view' = Admins /\ view'[a] = Nothing
      /\ number' \in [Admins -> Nat]
      /\ \A b \in Admins \ {a} : Same(b)
    BY <1>1, FinishFacts
<1>3. TablesOK'
  <2>1. DOMAIN view[a] = Tables /\ \A t \in DOMAIN view[a] : ReadOf(t, view[a][t])
      BY <1>1, StoreReadsAll DEF Inv, AdminOK
  <2>2. number[a] \in Nat
      BY DEF Inv, TablesOK
  <2>3. QED
      BY <1>1, <1>2, <2>1, <2>2 DEF Inv, TablesOK, ReadOf
<1>4. VersionsDiffer'
  <2>1. /\ number[a] <= version
        /\ \A b \in Admins \ {a} : phase[b] = "store" =>
              /\ number[b] # number[a] /\ number[b] <= version
              /\ \A c \in Admins \ {b} : phase[c] = "store" => number[b] # number[c]
      BY <1>1 DEF Inv, VersionsDiffer
  <2>2. version' = version /\ installed'.version = number[a]
      BY <1>1
  <2>3. \A b \in Admins : phase'[b] = "store" =>
            b # a /\ phase[b] = "store" /\ number'[b] = number[b]
      BY <1>2 DEF Same
  <2>4. QED
      BY <2>1, <2>2, <2>3 DEF VersionsDiffer
<1>5. AdminOK(a)'
    BY <1>2, ResetPrimed
<1>6. \A b \in Admins \ {a} : AdminOK(b)'
  <2>1. Grows
      BY <1>1 DEF Grows, Inv, TablesOK
  <2>2. QED
      BY <1>2, <2>1, Frame DEF Inv
<1>7. QED
    BY <1>3, <1>4, <1>5, <1>6 DEF Inv

\* A restart forgets the requests and reads the tables anew.
LEMMA RestartInv ==
    ASSUME Inv, Restart
    PROVE  Inv'
<1>1. TablesOK'
    BY DEF Restart, Inv, TablesOK, Phases, ReadOf
<1>2. VersionsDiffer'
    BY DEF Restart, VersionsDiffer
<1>3. \A a \in Admins : AdminOK(a)'
    BY ResetPrimed DEF Restart
<1>4. QED
    BY <1>1, <1>2, <1>3 DEF Inv
-----------------------------------------------------------------------------
\* Every step of every request, and a restart, keep the invariant.
LEMMA NextInv == Inv /\ [Next]_vars => Inv'
<1> SUFFICES ASSUME Inv, [Next]_vars PROVE Inv'
    OBVIOUS
<1>1. ASSUME NEW a \in Admins, NEW m \in Mutations, Begin(a, m) PROVE Inv'
    BY <1>1, BeginInv
<1>2. ASSUME NEW a \in Admins, Commit(a) PROVE Inv'
    BY <1>2, CommitInv
<1>3. ASSUME NEW a \in Admins, Refused(a) PROVE Inv'
    BY <1>3, EndInv DEF Refused
<1>4. ASSUME NEW a \in Admins, Read(a) \/ ReadDefaults(a) PROVE Inv'
    BY <1>4, ReadInv
<1>5. ASSUME NEW a \in Admins, Abandon(a) PROVE Inv'
    BY <1>5, EndInv DEF Abandon
<1>6. ASSUME NEW a \in Admins, TakeNumber(a) PROVE Inv'
    BY <1>6, TakeNumberInv
<1>7. ASSUME NEW a \in Admins, Store(a) PROVE Inv'
    BY <1>7, StoreInv
<1>8. CASE Restart
    BY <1>8, RestartInv
<1>9. CASE UNCHANGED vars
  <2>1. UNCHANGED <<db, phase, left, wrote, view, number, version, installed>>
      BY <1>9 DEF vars
  <2>2. TablesOK' /\ VersionsDiffer'
      BY <2>1 DEF Inv, TablesOK, VersionsDiffer, ReadOf
  <2>3. Grows /\ \A a \in Admins : Same(a)
      BY <2>1 DEF Grows, Same, Inv, TablesOK
  <2>4. QED
      BY <2>2, <2>3, Frame DEF Inv
<1>10. QED
    BY <1>1, <1>2, <1>3, <1>4, <1>5, <1>6, <1>7, <1>8, <1>9 DEF Next

\* Holder.version and Holder.ptr in every reachable state: the rebuilds in
\* progress have read tables in order, nothing that was not committed, and
\* at least what their own requests wrote.
THEOREM RebuildInvariance == Spec => []Inv
BY InitInv, NextInv, PTL DEF Spec

\* No two snapshots of a process bear the same version, for any number of
\* rebuilds between version.Add and ptr.Store.
THEOREM VersionsAreUnique == Spec => []VersionsDiffer
<1>1. Inv => VersionsDiffer
    BY DEF Inv
<1>2. QED
    BY <1>1, RebuildInvariance, PTL

\* The snapshot holds a revision of each table that was committed, and a
\* rebuild that takes its number has read them all.
THEOREM SnapshotTyped == Spec => []TypeOK
<1>1. Inv => TypeOK
  <2> SUFFICES ASSUME Inv PROVE TypeOK
      OBVIOUS
  <2>1. \A a \in Admins : /\ DOMAIN wrote[a] \subseteq Tables /\ Revisions(wrote[a])
                         /\ Revisions(view[a])
      BY DEF Inv, AdminOK, Revisions, ReadOf
  <2>2. ASSUME NEW a \in Admins PROVE DOMAIN view[a] \subseteq Tables
    <3>1. PICK n \in 0..Len(ReadOrder) : DOMAIN view[a] = Placed(n)
        BY DEF Inv, AdminOK, ViewOK
    <3>2. n <= Len(ReadOrder) /\ Len(ReadOrder) \in Nat
        BY TablesAssumption
    <3>3. QED
        BY <3>1, <3>2 DEF Placed, Tables
  <2>3. QED
      BY <2>1, <2>2, StoreReadsAll DEF Inv, TablesOK, TypeOK, Revisions, ReadOf, Phases
<1>2. QED
    BY <1>1, RebuildInvariance, PTL

\* server.go:61-63 for every interleaving: a rebuild that installs a snapshot
\* installs everything the request that started it has committed.
THEOREM OwnWritesAreInstalled == Spec => OwnWritesInstalled
<1> DEFINE Own(a) == phase[a] = "store" /\ phase'[a] = "idle" /\ installed' # installed =>
               \A t \in DOMAIN wrote[a] :
                  \/ installed'.view[t] >= wrote[a][t]
                  \/ t = Settings /\ installed'.view[t] = Defaults
<1>1. ASSUME Inv, Next, NEW a \in Admins PROVE Own(a)
  <2>1. ASSUME NEW b \in Admins, Store(b), b # a PROVE Own(a)
    <3>1. phase'[a] = phase[a]
        BY <2>1, <1>1, FinishFacts DEF Store, Same
    <3>2. QED
        BY <3>1
  <2>2. CASE Store(a)
    <3>1. DOMAIN view[a] = Tables /\ DOMAIN wrote[a] \subseteq Tables /\ installed'.view = view[a]
        BY <1>1, <2>2, StoreReadsAll DEF Store, Inv, AdminOK
    <3>2. QED
        BY <1>1, <3>1 DEF Inv, AdminOK
  <2>3. CASE Restart
    <3>1. \A t \in DOMAIN wrote[a] : t \in Tables /\ wrote[a][t] \in 0..db[t] /\ db[t] \in Nat
        BY <1>1 DEF Inv, AdminOK, TablesOK
    <3>2. installed'.view = db
        BY <2>3 DEF Restart
    <3>3. QED
        BY <3>1, <3>2
  <2>4. ASSUME installed' = installed PROVE Own(a)
      BY <2>4
  <2>5. ASSUME NEW b \in Admins,
               (\E m \in Mutations : Begin(b, m)) \/ Commit(b) \/ Refused(b) \/ Read(b)
                  \/ ReadDefaults(b) \/ Abandon(b) \/ TakeNumber(b)
        PROVE  installed' = installed
      BY <2>5 DEF Begin, Commit, Refused, Read, ReadDefaults, Abandon, TakeNumber
  <2>6. QED
      BY <1>1, <2>1, <2>2, <2>3, <2>4, <2>5 DEF Next
<1>2. Inv /\ [Next]_vars => [\A a \in Admins : Own(a)]_vars
    BY <1>1
<1>3. QED
    BY <1>2, RebuildInvariance, PTL DEF Spec, OwnWritesInstalled
-----------------------------------------------------------------------------
(* Why the installed snapshot may lag.                                     *)

\* Views are functions: two that agree on every table are equal.
Functions ==
    /\ installed.view = [t \in DOMAIN installed.view |-> installed.view[t]]
    /\ \A a \in Admins : view[a] = [t \in DOMAIN view[a] |-> view[a][t]]

\* Without a cause, whatever the installed snapshot lacks was committed last
\* by a request that is still in progress, and will install it.
Explained ==
    causes = {} =>
        /\ installed.view[Settings] # Defaults
        /\ \A t \in Tables :
              \/ installed.view[t] = db[t]
              \/ \E a \in Admins : t \in DOMAIN wrote[a] /\ wrote[a][t] = db[t]

\* A watched step is a step, with a note of its cause.
LEMMA WatchedIsNext == [WatchNext]_watched => [Next]_vars
  BY DEF WatchNext, Watch, Next, watched

\* At the start there is nothing to explain.
LEMMA FunctionsInit == WatchInit => Functions /\ Explained
<1> SUFFICES ASSUME WatchInit PROVE Functions /\ Explained
    OBVIOUS
<1>1. /\ installed.view = db /\ db = [t \in Tables |-> 0]
      /\ \A a \in Admins : view[a] = Nothing
    BY DEF WatchInit, Init
<1>2. Functions
    BY <1>1 DEF Functions, Nothing
<1>3. Settings \in Tables /\ Defaults # 0
    BY TablesAssumption DEF Defaults
<1>4. QED
    BY <1>1, <1>2, <1>3 DEF Explained

\* Every view is built as a function.
LEMMA FunctionsKept ==
    ASSUME Inv, Functions, [Next]_vars
    PROVE  Functions'
<1>0. /\ DOMAIN view = Admins /\ db \in [Tables -> Nat]
      /\ Nothing = [t \in DOMAIN Nothing |-> Nothing[t]]
    BY DEF Inv, TablesOK, Nothing
<1>1. ASSUME NEW a \in Admins, Finish(a), installed' = installed \/ installed'.view = view[a]
      PROVE  Functions'
  <2>1. view' = [view EXCEPT ![a] = Nothing]
      BY <1>1 DEF Finish
  <2>2. \A b \in Admins : view'[b] = IF b = a THEN Nothing ELSE view[b]
      BY <1>0, <2>1
  <2>3. QED
      BY <1>0, <1>1, <2>2 DEF Functions
<1>2. ASSUME NEW a \in Admins, NEW revision, Reads(a, revision), installed' = installed
      PROVE  Functions'
  <2> DEFINE new == [t \in DOMAIN view[a] \cup {NextTable(a)} |->
                        IF t = NextTable(a) THEN revision ELSE view[a][t]]
  <2>1. \A b \in Admins : view'[b] = IF b = a THEN new ELSE view[b]
      BY <1>0, <1>2 DEF Reads
  <2>2. new = [t \in DOMAIN new |-> new[t]]
      OBVIOUS
  <2> HIDE DEF new
  <2>3. QED
      BY <1>2, <2>1, <2>2 DEF Functions
<1>3. CASE Restart
  <2>1. installed'.view = db /\ \A b \in Admins : view'[b] = Nothing
      BY <1>3 DEF Restart
  <2>2. QED
      BY <1>0, <2>1 DEF Functions
<1>4. CASE UNCHANGED <<view, installed>>
    BY <1>4 DEF Functions
<1>5. ASSUME NEW a \in Admins,
             \/ \E m \in Mutations : Begin(a, m)
             \/ Commit(a) \/ Refused(a) \/ Read(a) \/ ReadDefaults(a) \/ Abandon(a)
             \/ TakeNumber(a) \/ Store(a)
      PROVE  Functions'
  <2>1. CASE (\E m \in Mutations : Begin(a, m)) \/ Commit(a) \/ TakeNumber(a)
      BY <1>4, <2>1 DEF Begin, Commit, TakeNumber
  <2>2. CASE Refused(a) \/ Abandon(a)
      BY <1>1, <2>2 DEF Refused, Abandon
  <2>3. CASE Read(a)
      BY <1>2, <2>3 DEF Read
  <2>4. CASE ReadDefaults(a)
      BY <1>2, <2>4 DEF ReadDefaults
  <2>5. CASE Store(a)
    <3>1. Finish(a) /\ installed'.view = view[a]
        BY <2>5 DEF Store
    <3>2. QED
        BY <1>1, <3>1
  <2>6. QED
      BY <1>5, <2>1, <2>2, <2>3, <2>4, <2>5
<1>6. CASE UNCHANGED vars
    BY <1>4, <1>6 DEF vars
<1>7. QED
    BY <1>3, <1>5, <1>6 DEF Next

\* A snapshot that is current needs no explanation ...
LEMMA CurrentIsExplained ==
    ASSUME Inv', installed'.view = db'
    PROVE  Explained'
<1>1. Settings \in Tables /\ db' \in [Tables -> Nat] /\ Defaults \notin Nat
    BY TablesAssumption DEF Inv, TablesOK, Defaults
<1>2. QED
    BY <1>1 DEF Explained

\* ... a commit is explained by the request that made it ...
LEMMA CommitExplained ==
    ASSUME Inv, Explained, NEW a \in Admins, Commit(a), causes' = {} => causes = {}
    PROVE  Explained'
<1> DEFINE changed == Head(left[a])
<1>1. /\ db \in [Tables -> Nat] /\ DOMAIN wrote = Admins /\ installed' = installed
      /\ Commits(a, changed)
    BY DEF Commit, Inv, TablesOK
<1> HIDE DEF changed
<1>2. \A t \in Tables : db'[t] = IF t \in changed THEN db[t] + 1 ELSE db[t]
    BY <1>1 DEF Commits
<1>3. \A b \in Admins : b # a => wrote'[b] = wrote[b]
    BY <1>1 DEF Commits
<1>4. wrote'[a] = [t \in DOMAIN wrote[a] \cup changed |->
                      IF t \in changed THEN db[t] + 1 ELSE wrote[a][t]]
    BY <1>1 DEF Commits
<1>5. ASSUME NEW t \in Tables, causes' = {}
      PROVE  \/ installed'.view[t] = db'[t]
             \/ \E b \in Admins : t \in DOMAIN wrote'[b] /\ wrote'[b][t] = db'[t]
  <2>1. CASE t \in changed
      BY <1>2, <1>4, <2>1
  <2>2. CASE t \notin changed
    <3>1. db'[t] = db[t]
        BY <1>2, <2>2
    <3>2. ASSUME NEW b \in Admins, t \in DOMAIN wrote[b], wrote[b][t] = db[t]
          PROVE  t \in DOMAIN wrote'[b] /\ wrote'[b][t] = db[t]
        BY <1>3, <1>4, <2>2, <3>2
    <3>3. QED
        BY <1>1, <1>5, <3>1, <3>2 DEF Explained
  <2>3. QED
      BY <2>1, <2>2
<1>6. QED
    BY <1>1, <1>5 DEF Explained

\* ... and a rebuild that overtakes none installs what its request committed,
\* and takes nothing back.
LEMMA StoreExplained ==
    ASSUME Inv, Explained, NEW a \in Admins, Store(a), causes' = {} => causes = {} /\ ~Overtakes(a)
    PROVE  Explained'
<1>1. /\ phase[a] = "store" /\ installed'.view = view[a] /\ UNCHANGED db
      /\ DOMAIN wrote = Admins
      /\ Finish(a) /\ Settings \in Tables /\ db \in [Tables -> Nat]
    BY TablesAssumption DEF Store, Inv, TablesOK
<1>2. DOMAIN view[a] = Tables
    BY <1>1, StoreReadsAll
<1>3. \A t \in Tables : ReadOf(t, view[a][t]) /\ ReadOf(t, installed.view[t])
    BY <1>2 DEF Inv, AdminOK, TablesOK
<1>4. \A t \in Tables : t \in DOMAIN wrote[a] =>
          view[a][t] >= wrote[a][t] \/ (t = Settings /\ view[a][t] = Defaults)
    BY <1>2 DEF Inv, AdminOK
<1>5. \A b \in Admins : b # a => wrote'[b] = wrote[b]
    BY <1>1 DEF Finish
<1> SUFFICES ASSUME causes' = {} PROVE Explained'
    BY DEF Explained
<1>6. \A t \in Tables : ~(view[a][t] < installed.view[t])
    BY DEF Overtakes
<1>7. /\ installed.view[Settings] # Defaults
      /\ \A t \in Tables :
            \/ installed.view[t] = db[t]
            \/ \E b \in Admins : t \in DOMAIN wrote[b] /\ wrote[b][t] = db[t]
    BY DEF Explained
<1>8. view[a][Settings] # Defaults
    BY <1>1, <1>3, <1>6, <1>7 DEF ReadOf, Defaults
<1>9. \A t \in Tables : view[a][t] \in 0..db[t] /\ db[t] \in Nat
    BY <1>1, <1>3, <1>8 DEF ReadOf
<1>10. ASSUME NEW t \in Tables
       PROVE  view[a][t] = db[t] \/ \E b \in Admins : t \in DOMAIN wrote'[b] /\ wrote'[b][t] = db[t]
  <2>1. CASE installed.view[t] = db[t]
      BY <1>6, <1>9, <2>1
  <2>2. ASSUME NEW b \in Admins, b # a, t \in DOMAIN wrote[b], wrote[b][t] = db[t]
        PROVE  t \in DOMAIN wrote'[b] /\ wrote'[b][t] = db[t]
      BY <1>5, <2>2
  <2>3. CASE t \in DOMAIN wrote[a] /\ wrote[a][t] = db[t]
    <3>1. view[a][t] >= wrote[a][t]
        BY <1>4, <1>8, <2>3
    <3>2. QED
        BY <1>9, <2>3, <3>1
  <2>4. QED
      BY <1>7, <2>1, <2>2, <2>3
<1>11. QED
    BY <1>1, <1>8, <1>10 DEF Explained

\* No step leaves a lag unexplained.
LEMMA ExplainedKept ==
    ASSUME Inv, Inv', Explained, [WatchNext]_watched
    PROVE  Explained'
<1>1. ASSUME installed'.view # db', NEW new, Because(new)
      PROVE  causes' = causes \cup new
    BY <1>1 DEF Because
<1>2. CASE installed'.view = db'
    BY <1>2, CurrentIsExplained
<1>3. ASSUME UNCHANGED <<db, wrote, installed>>, causes' = {} => causes = {}
      PROVE  Explained'
    BY <1>3 DEF Explained
<1>4. ASSUME causes' # {} PROVE Explained'
    BY <1>4 DEF Explained
<1>5. ASSUME installed'.view # db', NEW a \in Admins, Watch(a)
      PROVE  Explained'
  <2>1. CASE (\E m \in Mutations : Begin(a, m) /\ Because({})) \/ (Read(a) /\ Because({}))
               \/ (TakeNumber(a) /\ Because({}))
    <3>1. causes' = causes
        BY <1>1, <1>5, <2>1
    <3>2. UNCHANGED <<db, wrote, installed>>
        BY <2>1 DEF Begin, Read, TakeNumber
    <3>3. QED
        BY <1>3, <3>1, <3>2
  <2>2. CASE Commit(a) /\ Because({})
      BY <1>1, <1>5, <2>2, CommitExplained
  <2>3. CASE (Refused(a) /\ Because({"refused"})) \/ (ReadDefaults(a) /\ Because({"defaults"}))
               \/ (Abandon(a) /\ Because({"abandoned"}))
    <3>1. causes' # {}
        BY <1>1, <1>5, <2>3
    <3>2. QED
        BY <1>4, <3>1
  <2>4. CASE Store(a) /\ Because(IF Overtakes(a) THEN {"overtaken"} ELSE {})
    <3>1. causes' = causes \cup (IF Overtakes(a) THEN {"overtaken"} ELSE {})
        BY <1>1, <1>5, <2>4
    <3>2. causes' = {} => causes = {} /\ ~Overtakes(a)
        BY <3>1
    <3>3. QED
        BY <2>4, <3>2, StoreExplained
  <2>5. QED
      BY <1>5, <2>1, <2>2, <2>3, <2>4 DEF Watch
<1>6. CASE Restart
  <2>1. installed'.view = db'
      BY <1>6 DEF Restart
  <2>2. QED
      BY <2>1, CurrentIsExplained
<1>7. CASE UNCHANGED watched
    BY <1>3, <1>7 DEF watched, vars
<1>8. QED
    BY <1>2, <1>5, <1>6, <1>7 DEF WatchNext

\* reloadAfterMutation and Rebuild: for any tables, handlers and number of
\* admins, when none is at work the installed snapshot is what is committed,
\* unless one of the causes occurred since it last was.
THEOREM StaleForCauseAlways == WatchSpec => []StaleOnlyForCause
<1>1. WatchSpec => Spec
  <2>1. WatchInit => Init
      BY DEF WatchInit
  <2>2. QED
      BY <2>1, WatchedIsNext, PTL DEF WatchSpec, Spec
<1>2. ASSUME Inv, Inv', Functions /\ Explained, [WatchNext]_watched
      PROVE  (Functions /\ Explained)'
    BY <1>2, WatchedIsNext, FunctionsKept, ExplainedKept
<1>3. Inv /\ Functions /\ Explained => StaleOnlyForCause
  <2>1. SUFFICES ASSUME Inv, Functions, Explained, Settled, causes = {}
                 PROVE  installed.view = db
      BY DEF StaleOnlyForCause
  <2>2. \A a \in Admins : DOMAIN wrote[a] = {}
      BY <2>1 DEF Settled, Inv, AdminOK, Nothing
  <2>3. \A t \in Tables : installed.view[t] = db[t]
      BY <2>1, <2>2 DEF Explained
  <2>4. DOMAIN installed.view = Tables /\ db \in [Tables -> Nat]
      BY <2>1 DEF Inv, TablesOK
  <2>5. QED
      BY <2>1, <2>3, <2>4 DEF Functions
<1>4. QED
    BY <1>1, <1>2, <1>3, FunctionsInit, RebuildInvariance, PTL DEF WatchSpec
=============================================================================
