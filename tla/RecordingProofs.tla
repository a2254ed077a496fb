-------------------------- MODULE RecordingProofs --------------------------
(***************************************************************************)
(* What holds of the log writer for any number of rows and any capacities, *)
(* under any callers, and that the handlers and main are such callers.     *)
(***************************************************************************)
EXTENDS Recording, SequenceTheorems, FiniteSetTheorems, TLAPS

\* Only a batch that is being inserted is full.
LogInv == LogTypeOK /\ RowsInOrder /\ (~inserting => Len(batch) < BatchRows)

\* A row goes from the front of the queue to the end of the batch.
LEMMA FrontMoves ==
    ASSUME NEW s \in Seq(Rows), NEW b \in Seq(Rows), NEW q \in Seq(Rows), q # <<>>
    PROVE  s \o Append(b, Head(q)) \o Tail(q) = s \o b \o q
<1>1. Append(b, Head(q)) \o Tail(q) = b \o q
    OBVIOUS
<1>2. Append(b, Head(q)) \in Seq(Rows) /\ Tail(q) \in Seq(Rows)
    OBVIOUS
<1>3. (s \o Append(b, Head(q))) \o Tail(q) = s \o (Append(b, Head(q)) \o Tail(q))
  <2> DEFINE b2 == Append(b, Head(q))
             q2 == Tail(q)
  <2>1. b2 \in Seq(Rows) /\ q2 \in Seq(Rows)
      BY <1>2
  <2> HIDE DEF b2, q2
  <2>2. (s \o b2) \o q2 = s \o (b2 \o q2)
      BY <2>1, ConcatAssociative, SMTT(60)
  <2>3. QED
      BY <2>2 DEF b2, q2
<1>4. (s \o b) \o q = s \o (b \o q)
    BY ConcatAssociative
<1>5. QED
    BY <1>1, <1>3, <1>4

\* The log writer starts with nothing queued.
LEMMA LogInitInv == LogInit => LogInv
<1> SUFFICES ASSUME LogInit PROVE LogInv
    OBVIOUS
<1>1. <<>> \in Seq(Rows) /\ Len(<<>>) = 0
    BY EmptySeq
<1>2. <<>> \o <<>> = <<>>
    BY <1>1, ConcatEmptySeq
<1>3. RowsInOrder
    BY <1>2 DEF LogInit, RowsInOrder
<1>4. LogTypeOK /\ Len(batch) < BatchRows
  <2>1. 0 <= QueueCap /\ 0 <= BatchRows /\ 0 < BatchRows /\ 0 \in Nat
      BY CapsAssumption
  <2>2. {} \subseteq Rows
      OBVIOUS
  <2>3. QED
      BY <1>1, <2>1, <2>2 DEF LogInit, LogTypeOK
<1>5. QED
    BY <1>3, <1>4 DEF LogInv

\* A call of Log appends to both, or to neither.
LEMMA CallInv ==
    ASSUME LogInv, NEW row \in Rows, Log(row)
    PROVE  LogInv'
<1>1. UNCHANGED <<batch, mode, inserting, stop, logs, settled>>
    BY DEF Log
<1>2. CASE Len(queue) < QueueCap
  <2>1. /\ queue' = Append(queue, row) /\ accepted' = Append(accepted, row) /\ dropped' = dropped
      BY <1>2 DEF Log
  <2>2. /\ settled \in Seq(Rows) /\ batch \in Seq(Rows) /\ queue \in Seq(Rows)
        /\ accepted = settled \o batch \o queue
      BY DEF LogInv, LogTypeOK, RowsInOrder
  <2>3. Append(settled \o batch \o queue, row) = settled \o batch \o Append(queue, row)
    <3>1. settled \o batch \in Seq(Rows) /\ settled \o batch \o queue \in Seq(Rows) /\ <<row>> \in Seq(Rows)
        BY <2>2
    <3>2. /\ Append(settled \o batch \o queue, row) = (settled \o batch \o queue) \o <<row>>
          /\ Append(queue, row) = queue \o <<row>>
        BY <2>2, <3>1, AppendIsConcat
    <3>3. QED
        BY <2>2, <3>1, <3>2, ConcatAssociative, SMTT(60)
  <2>4. RowsInOrder'
      BY <1>1, <2>1, <2>2, <2>3 DEF RowsInOrder
  <2>5. queue' \in Seq(Rows) /\ Len(queue') <= QueueCap /\ accepted' \in Seq(Rows)
      BY <1>2, <2>1, CapsAssumption DEF LogInv, LogTypeOK
  <2>6. QED
      BY <1>1, <2>1, <2>4, <2>5 DEF LogInv, LogTypeOK
<1>3. CASE ~(Len(queue) < QueueCap)
  <2>1. dropped' = dropped + 1 /\ UNCHANGED <<queue, accepted>>
      BY <1>3 DEF Log
  <2>2. QED
      BY <1>1, <2>1 DEF LogInv, LogTypeOK, RowsInOrder
<1>4. QED
    BY <1>2, <1>3

\* The logger takes a row from the queue into its batch.
LEMMA TakeInv ==
    ASSUME LogInv, Take
    PROVE  LogInv'
<1>1. /\ queue \in Seq(Rows) /\ queue # <<>> /\ batch \in Seq(Rows) /\ settled \in Seq(Rows)
      /\ Len(batch) < BatchRows /\ Len(queue) <= QueueCap
      /\ accepted = settled \o batch \o queue
    BY DEF Take, LogInv, LogTypeOK, RowsInOrder
<1>2. /\ queue' = Tail(queue) /\ batch' = Append(batch, Head(queue))
      /\ inserting' = (Len(batch) + 1 >= BatchRows)
      /\ UNCHANGED <<mode, stop, logs, dropped, accepted, settled>>
    BY DEF Take
<1>3. settled' \o batch' \o queue' = settled \o batch \o queue
    BY <1>1, <1>2, FrontMoves
<1>4. Len(batch') = Len(batch) + 1 /\ Len(queue') = Len(queue) - 1
    BY <1>1, <1>2, HeadTailProperties
<1>5. batch' \in Seq(Rows) /\ queue' \in Seq(Rows) /\ Len(batch) \in Nat /\ Len(queue) \in Nat
    BY <1>1, <1>2
<1>6. Len(batch') <= BatchRows /\ Len(queue') <= QueueCap /\ (~inserting' => Len(batch') < BatchRows)
  <2> DEFINE n == Len(batch)
             m == Len(queue)
  <2>1. /\ n \in Nat /\ m \in Nat /\ n < BatchRows /\ m <= QueueCap
        /\ BatchRows \in Nat /\ QueueCap \in Nat
      BY <1>1, <1>5, CapsAssumption
  <2>2. Len(batch') = n + 1 /\ Len(queue') = m - 1 /\ inserting' = (n + 1 >= BatchRows)
      BY <1>2, <1>4
  <2> HIDE DEF n, m
  <2>3. ~inserting' => ~(n + 1 >= BatchRows)
      BY <2>2, Zenon
  <2>4. n + 1 <= BatchRows /\ m - 1 <= QueueCap /\ (~(n + 1 >= BatchRows) => n + 1 < BatchRows)
      BY <2>1
  <2>5. QED
      BY <2>2, <2>3, <2>4
<1>7. inserting' \in BOOLEAN
    BY <1>2
<1>8. QED
    BY <1>1, <1>2, <1>3, <1>5, <1>6, <1>7 DEF LogInv, LogTypeOK, RowsInOrder

\* The end of an insert settles the whole batch, stored or not.
LEMMA InsertedInv ==
    ASSUME LogInv, NEW rows \in SUBSET Rows, Inserted(rows)
    PROVE  LogInv'
<1>1. /\ batch \in Seq(Rows) /\ settled \in Seq(Rows) /\ queue \in Seq(Rows)
      /\ accepted = settled \o batch \o queue
    BY DEF LogInv, LogTypeOK, RowsInOrder
<1>2. /\ batch' = <<>> /\ settled' = settled \o batch /\ inserting' = FALSE /\ logs' = logs \cup rows
      /\ UNCHANGED <<queue, mode, stop, dropped, accepted>>
    BY DEF Inserted
<1>3. (settled \o batch) \o <<>> = settled \o batch /\ settled \o batch \in Seq(Rows)
    BY <1>1
<1>4. RowsInOrder'
    BY <1>1, <1>2, <1>3 DEF RowsInOrder
<1>5. <<>> \in Seq(Rows) /\ Len(<<>>) = 0
    BY EmptySeq
<1>6. batch' \in Seq(Rows) /\ Len(batch') <= BatchRows /\ Len(batch') < BatchRows
    BY <1>2, <1>5, CapsAssumption
<1>7. QED
    BY <1>2, <1>3, <1>4, <1>6 DEF LogInv, LogTypeOK

\* Every step of the writer and of its callers.
LEMMA LogNextInv == LogInv /\ [LogNext]_logVars => LogInv'
<1> SUFFICES ASSUME LogInv, [LogNext]_logVars PROVE LogInv'
    OBVIOUS
<1>1. ASSUME NEW row \in Rows, Log(row) PROVE LogInv'
    BY <1>1, CallInv
<1>2. CASE Take
    BY <1>2, TakeInv
<1>3. CASE TickFlush
    BY <1>3 DEF TickFlush, LogInv, LogTypeOK, RowsInOrder
<1>4. CASE SeeStop
    BY <1>4 DEF SeeStop, LogInv, LogTypeOK, RowsInOrder
<1>5. CASE Drained
    BY <1>5 DEF Drained, LogInv, LogTypeOK, RowsInOrder
<1>6. CASE InsertEnds
  <2>1. ToSet(batch) \subseteq Rows
      BY DEF ToSet, LogInv, LogTypeOK
  <2>2. QED
      BY <1>6, <2>1, InsertedInv DEF InsertEnds
<1>7. CASE Retention
    BY <1>7 DEF Retention, LogInv, LogTypeOK, RowsInOrder
<1>8. CASE StopLogger
    BY <1>8 DEF StopLogger, LogInv, LogTypeOK, RowsInOrder
<1>9. CASE UNCHANGED logVars
    BY <1>9 DEF logVars, LogInv, LogTypeOK, RowsInOrder
<1>10. QED
    BY <1>1, <1>2, <1>3, <1>4, <1>5, <1>6, <1>7, <1>8, <1>9 DEF LogNext, Goroutine

\* The log writer of stats/writer.go under any callers, of any capacities.
THEOREM LogInvariance == LogSpec => []LogInv
BY LogInitInv, LogNextInv, PTL DEF LogSpec
-----------------------------------------------------------------------------
\* Handlers, payload writer and main use the log writer through Log and Close
\* alone: every step is one of its steps or leaves it alone.
THEOREM RecordingImplementsLog == Spec => LogSpec
<1>1. Init => LogInit
    BY DEF Init
<1>2. [Next]_vars => [LogNext]_logVars
  <2> SUFFICES ASSUME [Next]_vars PROVE [LogNext]_logVars
      OBVIOUS
  <2>1. ASSUME NEW r \in Requests, Arrive(r) \/ Serve(r) \/ HandlerStep(r)
        PROVE  [LogNext]_logVars
    <3>1. CASE LogRow(r)
        BY <3>1, RowsAssumption DEF LogRow, LogNext
    <3>2. CASE Arrive(r)
        BY <3>2 DEF Arrive
    <3>3. CASE Serve(r)
        BY <3>3 DEF Serve
    <3>4. CASE NameDirectory(r)
        BY <3>4 DEF NameDirectory
    <3>5. CASE EnqueueRecord(r)
        BY <3>5 DEF EnqueueRecord
    <3>6. QED
        BY <2>1, <3>1, <3>2, <3>3, <3>4, <3>5 DEF HandlerStep
  <2>2. CASE WriterStep
      BY <2>2 DEF WriterStep, LogNext
  <2>3. CASE Signal \/ ServeFails \/ Stops
      BY <2>3 DEF Signal, ServeFails, Stops, Shutdown, PayloadsClosed, LogsClosed,
                  DeferredLogs, DeferredPayloads, LogNext
  <2>4. CASE UNCHANGED vars
      BY <2>4 DEF vars
  <2>5. QED
      BY <2>1, <2>2, <2>3, <2>4 DEF Next
<1>3. QED
    BY <1>1, <1>2, PTL DEF Spec, LogSpec

\* writer.go:75-118: whatever handlers, failed inserts and the shutdown do,
\* rows are settled once each and in the order they were accepted.
THEOREM RowsAreInOrder == Spec => []RowsInOrder
<1>1. LogInv => RowsInOrder
    BY DEF LogInv
<1>2. QED
    BY <1>1, RecordingImplementsLog, LogInvariance, PTL

-----------------------------------------------------------------------------
\* What the payload writer's invariant says, part by part.
Calls == Bodies \cup {"mkdir", "meta"}

DirsOf(r) == {<<RequestId[r], s>> : s \in RandomNames \cup {0}}

\* The handler is past its recording, which has a directory of its id.
Handed(r) == handler[r] \in {"log", "done"} /\ path[r] \in DirsOf(r)

HandlersTyped == handler \in [Requests -> {"idle", "serve", "name", "enqueue", "log", "done"}]

\* Whoever is in the queue or being written has been handed over, and whoever
\* is about to be has its directory.
Queued ==
    /\ \A r \in Requests : handler[r] = "enqueue" => path[r] \in DirsOf(r)
    /\ \A i \in 1..Len(records) : Handed(records[i])
    /\ writing # NoRecord => Handed(writing)

\* mkdir is the first call of a recording or none, meta.json the last and only
\* the last.
Planned ==
    /\ todo \in Seq(Calls)
    /\ writing # NoRecord =>
          \A i \in 1..Len(todo) : /\ todo[i] = "meta" <=> i = Len(todo)
                                  /\ i > 1 => todo[i] # "mkdir"

\* A file is of a request that was handed over, in the directory it was given.
FilesTyped ==
    \A d \in DOMAIN disk : \A f \in DOMAIN disk[d] :
        /\ disk[d][f] \in Requests
        /\ handler[disk[d][f]] \in {"log", "done"}
        /\ d \in DirsOf(disk[d][f]) /\ d = path[disk[d][f]]

\* What retention will leave of the directory it removes, and whoever writes
\* into it, is marked.
Swept ==
    /\ sweep.dir # NoPath =>
          \A f \in DOMAIN disk[sweep.dir] : f \in sweep.files \/ disk[sweep.dir][f] \in torn
    /\ writing # NoRecord /\ Head(todo) # "mkdir" /\ path[writing] = sweep.dir => writing \in torn

RecordInv == PayloadTypeOK /\ HandlersTyped /\ Queued /\ Planned /\ FilesTyped /\ Swept

Ahead(f) == \E i \in 1..Len(todo) : todo[i] = f

OnDisk(r, f) == f \in DOMAIN disk[path[r]] /\ disk[path[r]][f] = r

\* A body of the recording under way is yet to be written or, unless the
\* request is marked or its directory gone, on disk.
Underway ==
    writing # NoRecord =>
        \A f \in parts[writing] :
            \/ Ahead(f)
            \/ /\ Head(todo) # "mkdir"
               /\ path[writing] \in DOMAIN disk => writing \in torn \/ OnDisk(writing, f)

\* No two requests bear the same id.
IdsAreOwn == \A x, y \in Requests : RequestId[x] = RequestId[y] => x = y

WholeInv == RecordInv /\ Underway /\ (IdsAreOwn => ReadableIsWhole)

Done == {r \in Requests : handler[r] = "done"}

\* Every request that is done has its row accepted or counted.
Counted == IsFiniteSet(Done) /\ Cardinality(Done) = Len(accepted) + dropped

\* How far main is, and what the goroutines have seen of it.
Stopping ==
    /\ stop => main \in {"logs", "deferLogs", "deferPayloads", "exited"}
    /\ mode # "run" => stop
    /\ recordStop => main \notin {"serve", "shutdown"}
    /\ scribe # "run" => recordStop
    /\ main \in {"deferPayloads", "exited"} => LoggerEnded
    /\ main = "exited" => scribe = "end"

\* Unless main gave up waiting, no handler is left when it stops the writers,
\* and what a goroutine drained stays empty.
Drains ==
    ~abrupt =>
        /\ main \notin {"serve", "shutdown"} => AllDone
        /\ mode = "end" => queue = <<>> /\ (~inserting => batch = <<>>)
        /\ scribe = "end" => records = <<>> /\ writing = NoRecord

MainTyped ==
    /\ main \in {"serve", "shutdown", "payloads", "logs", "deferLogs", "deferPayloads", "exited"}
    /\ abrupt \in BOOLEAN

ExitInv == Stopping /\ Drains /\ Counted
-----------------------------------------------------------------------------
\* Steps that leave queue, goroutine and disk alone, and path and bodies of
\* whoever was handed over.
LEMMA HandlersFrame ==
    ASSUME RecordInv, PayloadTypeOK', HandlersTyped',
           UNCHANGED <<records, disk, writing, todo, sweep, torn>>,
           \A x \in Requests : handler[x] \in {"log", "done"} =>
               handler'[x] \in {"log", "done"} /\ path'[x] = path[x] /\ parts'[x] = parts[x],
           \A x \in Requests : handler'[x] = "enqueue" => path'[x] \in DirsOf(x)
    PROVE  RecordInv' /\ (Underway => Underway') /\ (ReadableIsWhole => ReadableIsWhole')
<1>1. /\ \A i \in 1..Len(records) : records[i] \in Requests
      /\ writing # NoRecord => writing \in Requests
      /\ \A d \in DOMAIN disk : \A f \in DOMAIN disk[d] : disk[d][f] \in Requests
    BY DEF RecordInv, PayloadTypeOK, FilesTyped
<1>2. ASSUME NEW x \in Requests, Handed(x) PROVE Handed(x)'
    BY <1>2 DEF Handed, DirsOf
<1>3. Queued'
  <2>1. \A i \in 1..Len(records) : Handed(records[i])
      BY DEF RecordInv, Queued
  <2>2. \A i \in 1..Len(records') : Handed(records[i])'
      BY <1>1, <1>2, <2>1
  <2>3. writing # NoRecord => Handed(writing)
      BY DEF RecordInv, Queued
  <2>4. writing' # NoRecord => Handed(writing)'
      BY <1>1, <1>2, <2>3
  <2>5. QED
      BY <2>2, <2>4 DEF Queued, Handed, DirsOf
<1>4. Planned'
    BY DEF RecordInv, Planned
<1>5. FilesTyped'
    BY <1>1 DEF RecordInv, FilesTyped, DirsOf
<1>6. Swept' /\ (Underway => Underway')
  <2>1. writing # NoRecord => path'[writing] = path[writing] /\ parts'[writing] = parts[writing]
      BY <1>1 DEF RecordInv, Queued, Handed
  <2>2. QED
      BY <2>1 DEF RecordInv, Swept, Underway, Ahead, OnDisk
<1>7. ReadableIsWhole => ReadableIsWhole'
  <2>1. \A d \in DOMAIN disk : Readable(d) => parts'[disk[d]["meta"]] = parts[disk[d]["meta"]]
      BY <1>1 DEF RecordInv, FilesTyped, Readable
  <2>2. QED
      BY <2>1 DEF ReadableIsWhole, Readable, BodyRead
<1>8. QED
    BY <1>3, <1>4, <1>5, <1>6, <1>7 DEF RecordInv

\* A step of a handler moves its own request, and nobody back from its row.
LEMMA HandlerMoves ==
    ASSUME HandlersTyped, NEW r \in Requests, NEW from, NEW to,
           to \in {"serve", "name", "enqueue", "log", "done"},
           from \in {"log", "done"} => to \in {"log", "done"},
           Moves(r, from, to)
    PROVE  /\ HandlersTyped' /\ handler[r] = from /\ handler'[r] = to
           /\ \A x \in Requests : x # r => handler'[x] = handler[x]
           /\ \A x \in Requests : handler[x] \in {"log", "done"} => handler'[x] \in {"log", "done"}
BY DEF HandlersTyped, Moves

\* A request that arrives has no recording yet.
LEMMA ArriveRecord ==
    ASSUME WholeInv, NEW r \in Requests, Arrive(r) PROVE WholeInv'
<1>1. Moves(r, "idle", "serve") /\ UNCHANGED payloadVars
    BY DEF Arrive
<1>2. /\ HandlersTyped' /\ handler'[r] = "serve"
      /\ \A x \in Requests : x # r => handler'[x] = handler[x]
      /\ \A x \in Requests : handler[x] \in {"log", "done"} => handler'[x] \in {"log", "done"}
    BY <1>1, HandlerMoves DEF WholeInv, RecordInv
<1>3. PayloadTypeOK'
    BY <1>1 DEF payloadVars, WholeInv, RecordInv, PayloadTypeOK
<1>4. \A x \in Requests : handler'[x] = "enqueue" => path'[x] \in DirsOf(x)
    BY <1>1, <1>2 DEF payloadVars, WholeInv, RecordInv, Queued
<1>5. UNCHANGED <<records, disk, writing, todo, sweep, torn, path, parts>>
    BY <1>1 DEF payloadVars
<1>6. \A x \in Requests : handler[x] \in {"log", "done"} =>
          handler'[x] \in {"log", "done"} /\ path'[x] = path[x] /\ parts'[x] = parts[x]
    BY <1>2, <1>5
<1>7. RecordInv /\ HandlersTyped'
    BY <1>2 DEF WholeInv
<1>8. RecordInv' /\ (Underway => Underway') /\ (ReadableIsWhole => ReadableIsWhole')
    BY <1>3, <1>4, <1>5, <1>6, <1>7, HandlersFrame
<1>9. QED
    BY <1>8 DEF WholeInv

\* Logging a row leaves the recordings alone.
LEMMA LogRowRecord ==
    ASSUME WholeInv, NEW r \in Requests, LogRow(r) PROVE WholeInv'
<1>1. Moves(r, "log", "done") /\ UNCHANGED payloadVars
    BY DEF LogRow
<1>2. /\ HandlersTyped' /\ handler'[r] = "done"
      /\ \A x \in Requests : x # r => handler'[x] = handler[x]
      /\ \A x \in Requests : handler[x] \in {"log", "done"} => handler'[x] \in {"log", "done"}
    BY <1>1, HandlerMoves DEF WholeInv, RecordInv
<1>3. PayloadTypeOK'
    BY <1>1 DEF payloadVars, WholeInv, RecordInv, PayloadTypeOK
<1>4. \A x \in Requests : handler'[x] = "enqueue" => path'[x] \in DirsOf(x)
    BY <1>1, <1>2 DEF payloadVars, WholeInv, RecordInv, Queued
<1>5. UNCHANGED <<records, disk, writing, todo, sweep, torn, path, parts>>
    BY <1>1 DEF payloadVars
<1>6. \A x \in Requests : handler[x] \in {"log", "done"} =>
          handler'[x] \in {"log", "done"} /\ path'[x] = path[x] /\ parts'[x] = parts[x]
    BY <1>2, <1>5
<1>7. RecordInv /\ HandlersTyped'
    BY <1>2 DEF WholeInv
<1>8. RecordInv' /\ (Underway => Underway') /\ (ReadableIsWhole => ReadableIsWhole')
    BY <1>3, <1>4, <1>5, <1>6, <1>7, HandlersFrame
<1>9. QED
    BY <1>8 DEF WholeInv

\* The bodies a request leaves are fixed before it is handed over.
LEMMA ServeRecord ==
    ASSUME WholeInv, NEW r \in Requests, Serve(r) PROVE WholeInv'
<1>1. CASE Moves(r, "serve", "log") /\ UNCHANGED payloadVars
  <2>1. /\ HandlersTyped' /\ handler'[r] = "log"
        /\ \A x \in Requests : x # r => handler'[x] = handler[x]
        /\ \A x \in Requests : handler[x] \in {"log", "done"} => handler'[x] \in {"log", "done"}
      BY <1>1, HandlerMoves DEF WholeInv, RecordInv
  <2>2. PayloadTypeOK'
      BY <1>1 DEF payloadVars, WholeInv, RecordInv, PayloadTypeOK
  <2>3. \A x \in Requests : handler'[x] = "enqueue" => path'[x] \in DirsOf(x)
      BY <1>1, <2>1 DEF payloadVars, WholeInv, RecordInv, Queued
  <2>4. QED
      BY <1>1, <2>1, <2>2, <2>3, HandlersFrame DEF payloadVars, WholeInv
<1>2. ASSUME NEW bodies \in Captures, Moves(r, "serve", "name"),
             parts' = [parts EXCEPT ![r] = bodies],
             UNCHANGED <<records, path, disk, writing, todo, scribe, recordStop, recordsDropped, sweep, torn>>
      PROVE  WholeInv'
  <2>1. /\ HandlersTyped' /\ handler'[r] = "name" /\ handler[r] = "serve"
        /\ \A x \in Requests : x # r => handler'[x] = handler[x]
        /\ \A x \in Requests : handler[x] \in {"log", "done"} => handler'[x] \in {"log", "done"}
      BY <1>2, HandlerMoves DEF WholeInv, RecordInv
  <2>2. PayloadTypeOK'
    <3>1. bodies \in SUBSET Bodies
        BY RecordsAssumption
    <3>2. parts' \in [Requests -> SUBSET Bodies]
        BY <1>2, <3>1 DEF WholeInv, RecordInv, PayloadTypeOK
    <3>3. QED
        BY <1>2, <3>2 DEF WholeInv, RecordInv, PayloadTypeOK
  <2>3. \A x \in Requests : handler'[x] = "enqueue" => path'[x] \in DirsOf(x)
      BY <1>2, <2>1 DEF WholeInv, RecordInv, Queued
  <2>4. \A x \in Requests : x # r => parts'[x] = parts[x]
      BY <1>2 DEF WholeInv, RecordInv, PayloadTypeOK
  <2>5. QED
      BY <1>2, <2>1, <2>2, <2>3, <2>4, HandlersFrame DEF WholeInv
<1>3. \/ Moves(r, "serve", "log") /\ UNCHANGED payloadVars
      \/ \E bodies \in Captures :
            /\ Moves(r, "serve", "name") /\ parts' = [parts EXCEPT ![r] = bodies]
            /\ UNCHANGED <<records, path, disk, writing, todo, scribe, recordStop, recordsDropped, sweep, torn>>
    BY DEF Serve
<1>4. QED
    BY <1>1, <1>2, <1>3

\* DirFor returns a directory of the request's id, or none.
LEMMA NameIsOfId ==
    ASSUME NEW r \in Requests, NEW d \in Name(r)
    PROVE  d = NoPath \/ d \in DirsOf(r)
BY DEF Name, DirsOf

\* A directory is chosen among those of the id; nothing is queued for it yet.
LEMMA NameRecord ==
    ASSUME WholeInv, NEW r \in Requests, NameDirectory(r) PROVE WholeInv'
<1>1. PICK d \in Name(r) : Moves(r, "name", IF d = NoPath THEN "log" ELSE "enqueue") /\ Names(r, d)
    BY DEF NameDirectory
<1>2. /\ path' = [path EXCEPT ![r] = d]
      /\ UNCHANGED <<records, parts, disk, writing, todo, scribe, recordStop, recordsDropped, sweep, torn>>
    BY <1>1 DEF Names, NameDirectory
<1>3. PICK to \in {"log", "enqueue"} :
          to = (IF d = NoPath THEN "log" ELSE "enqueue")
    OBVIOUS
<1>4. /\ HandlersTyped' /\ handler'[r] = to /\ handler[r] = "name"
      /\ \A x \in Requests : x # r => handler'[x] = handler[x]
      /\ \A x \in Requests : handler[x] \in {"log", "done"} => handler'[x] \in {"log", "done"}
    BY <1>1, <1>3, HandlerMoves DEF WholeInv, RecordInv
<1>5. PayloadTypeOK'
    BY <1>2 DEF WholeInv, RecordInv, PayloadTypeOK
<1>6. /\ path'[r] = d
      /\ \A x \in Requests : x # r => path'[x] = path[x]
    BY <1>2 DEF WholeInv, RecordInv, PayloadTypeOK
<1>7. to = "enqueue" => d \in DirsOf(r)
    BY <1>3, NameIsOfId
<1>8. \A x \in Requests : handler'[x] = "enqueue" => path'[x] \in DirsOf(x)
    BY <1>4, <1>6, <1>7 DEF WholeInv, RecordInv, Queued
<1>9. QED
    BY <1>2, <1>4, <1>5, <1>6, <1>8, HandlersFrame DEF WholeInv

\* A recording that is queued has its directory; one that is dropped leaves nothing.
LEMMA EnqueueRecordKeeps ==
    ASSUME WholeInv, NEW r \in Requests, EnqueueRecord(r) PROVE WholeInv'
<1>1. Moves(r, "enqueue", "log") /\ Enqueue(r)
    BY DEF EnqueueRecord
<1>2. /\ HandlersTyped' /\ handler'[r] = "log" /\ handler[r] = "enqueue"
      /\ \A x \in Requests : x # r => handler'[x] = handler[x]
      /\ \A x \in Requests : handler[x] \in {"log", "done"} => handler'[x] \in {"log", "done"}
    BY <1>1, HandlerMoves DEF WholeInv, RecordInv
<1>3. /\ UNCHANGED <<parts, disk, writing, todo, scribe, recordStop, sweep, torn>>
      /\ records \in Seq(Requests) /\ Len(records) <= RecordCap /\ RecordCap \in Nat
      /\ recordsDropped \in Nat /\ DOMAIN path = Requests
    BY <1>1, RecordsAssumption DEF Enqueue, WholeInv, RecordInv, PayloadTypeOK
<1>4. CASE Len(records) < RecordCap
  <2>1. records' = Append(records, r) /\ UNCHANGED <<path, recordsDropped>>
      BY <1>1, <1>4 DEF Enqueue
  <2>2. /\ records' \in Seq(Requests) /\ Len(records') = Len(records) + 1
        /\ \A i \in 1..Len(records) : records'[i] = records[i]
        /\ records'[Len(records) + 1] = r
      BY <1>3, <2>1
  <2>3. Len(records') <= RecordCap
      BY <1>3, <1>4, <2>2
  <2>4. PayloadTypeOK'
      BY <1>3, <2>1, <2>2, <2>3 DEF WholeInv, RecordInv, PayloadTypeOK
  <2>5. Queued'
    <3>1. path[r] \in DirsOf(r)
        BY <1>2 DEF WholeInv, RecordInv, Queued
    <3>2. ASSUME NEW x \in Requests, Handed(x) PROVE Handed(x)'
        BY <1>2, <2>1, <3>2 DEF Handed, DirsOf
    <3>3. Handed(r)'
        BY <1>2, <2>1, <3>1 DEF Handed, DirsOf
    <3>4. ASSUME NEW i \in 1..Len(records') PROVE Handed(records[i])'
      <4>1. CASE i = Len(records) + 1
        <5>1. records'[i] = r
            BY <2>2, <4>1
        <5>2. QED
            BY <3>3, <5>1 DEF Handed, DirsOf
      <4>2. CASE i \in 1..Len(records)
        <5>1. Handed(records[i]) /\ records[i] \in Requests /\ records'[i] = records[i]
            BY <1>3, <2>2, <4>2 DEF WholeInv, RecordInv, Queued
        <5>2. QED
            BY <3>2, <5>1 DEF Handed, DirsOf
      <4>3. QED
          BY <1>3, <2>2, <4>1, <4>2
    <3>5. (writing # NoRecord => Handed(writing))'
      <4>1. writing # NoRecord => writing \in Requests /\ Handed(writing)
          BY DEF WholeInv, RecordInv, Queued, PayloadTypeOK
      <4>2. QED
          BY <1>3, <3>2, <4>1 DEF Handed, DirsOf
    <3>6. \A x \in Requests : handler'[x] = "enqueue" => path'[x] \in DirsOf(x)
        BY <1>2, <2>1 DEF WholeInv, RecordInv, Queued
    <3>7. QED
        BY <3>4, <3>5, <3>6 DEF Queued, DirsOf, Handed
  <2>6. Planned' /\ Swept' /\ Underway' /\ (IdsAreOwn => ReadableIsWhole')
      BY <1>3, <2>1 DEF WholeInv, RecordInv, Planned, Swept, Underway, Ahead, OnDisk,
                        ReadableIsWhole, Readable, BodyRead
  <2>7. FilesTyped'
      BY <1>2, <1>3, <2>1 DEF WholeInv, RecordInv, FilesTyped, DirsOf
  <2>8. QED
      BY <1>2, <2>4, <2>5, <2>6, <2>7 DEF WholeInv, RecordInv, IdsAreOwn
<1>5. CASE ~(Len(records) < RecordCap)
  <2>1. /\ recordsDropped' = recordsDropped + 1 /\ path' = [path EXCEPT ![r] = NoPath]
        /\ UNCHANGED records
      BY <1>1, <1>5 DEF Enqueue
  <2>2. PayloadTypeOK'
      BY <1>3, <2>1 DEF WholeInv, RecordInv, PayloadTypeOK
  <2>3. \A x \in Requests : handler[x] \in {"log", "done"} =>
            handler'[x] \in {"log", "done"} /\ path'[x] = path[x] /\ parts'[x] = parts[x]
      BY <1>2, <1>3, <2>1
  <2>4. \A x \in Requests : handler'[x] = "enqueue" => path'[x] \in DirsOf(x)
      BY <1>2, <1>3, <2>1 DEF WholeInv, RecordInv, Queued
  <2>5. RecordInv' /\ (Underway => Underway') /\ (ReadableIsWhole => ReadableIsWhole')
      BY <1>2, <1>3, <2>1, <2>2, <2>3, <2>4, HandlersFrame DEF WholeInv
  <2>6. QED
      BY <2>5 DEF WholeInv, IdsAreOwn
<1>6. QED
    BY <1>4, <1>5
-----------------------------------------------------------------------------
\* The calls of a recording before the last: mkdir and bodies.
Begun(s) ==
    /\ s \in Seq(Calls) /\ Len(s) > 0 /\ s[1] = "mkdir"
    /\ \A i \in 1..Len(s) : s[i] # "meta" /\ (i > 1 => s[i] # "mkdir")

Has(s, f) == \E i \in 1..Len(s) : s[i] = f

\* A body is written when there is one, after what came before.
LEMMA BodyFollows ==
    ASSUME NEW r \in Requests, NEW f \in Bodies, NEW s, Begun(s)
    PROVE  /\ Begun(s \o WriteBody(r, f))
           /\ f \in parts[r] => Has(s \o WriteBody(r, f), f)
           /\ \A g : Has(s, g) => Has(s \o WriteBody(r, f), g)
<1>1. /\ s \in Seq(Calls) /\ Len(s) \in Nat /\ Len(s) > 0 /\ s[1] = "mkdir"
      /\ \A i \in 1..Len(s) : s[i] # "meta" /\ (i > 1 => s[i] # "mkdir")
      /\ f \in Calls /\ f # "meta" /\ f # "mkdir"
    BY DEF Begun, Calls, Bodies
<1>2. CASE f \in parts[r]
  <2> DEFINE t == Append(s, f)
  <2>1. s \o WriteBody(r, f) = t
      BY <1>1, <1>2, AppendIsConcat DEF WriteBody
  <2>2. /\ t \in Seq(Calls) /\ Len(t) = Len(s) + 1 /\ t[Len(s) + 1] = f
        /\ \A i \in 1..Len(s) : t[i] = s[i]
      BY <1>1, AppendProperties
  <2> HIDE DEF t
  <2>3. Begun(t) /\ Has(t, f) /\ \A g : Has(s, g) => Has(t, g)
      BY <1>1, <2>2 DEF Begun, Has
  <2>4. QED
      BY <2>1, <2>3
<1>3. CASE f \notin parts[r]
  <2>1. s \o WriteBody(r, f) = s
      BY <1>1, <1>3 DEF WriteBody
  <2>2. QED
      BY <1>3, <2>1
<1>4. QED
    BY <1>2, <1>3

\* The calls of a recording: mkdir, its bodies, meta.json.
LEMMA CallsFacts ==
    ASSUME NEW r \in Requests, parts \in [Requests -> SUBSET Bodies]
    PROVE  /\ CallsOf(r) \in Seq(Calls) /\ CallsOf(r) # <<>> /\ Head(CallsOf(r)) = "mkdir"
           /\ \A i \in 1..Len(CallsOf(r)) : /\ CallsOf(r)[i] = "meta" <=> i = Len(CallsOf(r))
                                            /\ i > 1 => CallsOf(r)[i] # "mkdir"
           /\ \A f \in parts[r] : Has(CallsOf(r), f)
<1> DEFINE s0 == <<"mkdir">>
           s1 == s0 \o WriteBody(r, "client_req")
           s2 == s1 \o WriteBody(r, "upstream_req")
           s3 == s2 \o WriteBody(r, "upstream_resp")
<1>1. Begun(s0)
    BY DEF Begun, Calls
<1>2. CallsOf(r) = s3 \o <<"meta">>
    BY DEF CallsOf
<1>3. \A f \in parts[r] : f \in {"client_req", "upstream_req", "upstream_resp"}
    BY DEF Bodies
<1>4. {"client_req", "upstream_req", "upstream_resp"} = Bodies
    BY DEF Bodies
<1> HIDE DEF s0
<1>5. Begun(s1) /\ ("client_req" \in parts[r] => Has(s1, "client_req"))
    BY <1>1, <1>4, BodyFollows
<1> HIDE DEF s1
<1>6. /\ Begun(s2) /\ ("upstream_req" \in parts[r] => Has(s2, "upstream_req"))
      /\ \A g : Has(s1, g) => Has(s2, g)
    BY <1>4, <1>5, BodyFollows
<1> HIDE DEF s2
<1>7. /\ Begun(s3) /\ ("upstream_resp" \in parts[r] => Has(s3, "upstream_resp"))
      /\ \A g : Has(s2, g) => Has(s3, g)
    BY <1>4, <1>6, BodyFollows
<1> HIDE DEF s3
<1>8. \A f \in parts[r] : Has(s3, f)
    BY <1>3, <1>5, <1>6, <1>7
<1>9. s3 \in Seq(Calls) /\ "meta" \in Calls /\ Len(s3) \in Nat /\ Len(s3) > 0
    BY <1>7 DEF Begun, Calls
<1> DEFINE t == Append(s3, "meta")
<1>10. CallsOf(r) = t
    BY <1>2, <1>9, AppendIsConcat
<1>11. /\ t \in Seq(Calls) /\ Len(t) = Len(s3) + 1 /\ t[Len(s3) + 1] = "meta"
       /\ \A i \in 1..Len(s3) : t[i] = s3[i]
    BY <1>9, AppendProperties
<1> HIDE DEF t
<1>12. /\ t # <<>> /\ Head(t) = "mkdir"
       /\ \A i \in 1..Len(t) : (t[i] = "meta" <=> i = Len(t)) /\ (i > 1 => t[i] # "mkdir")
    BY <1>7, <1>9, <1>11 DEF Begun
<1>13. \A f \in parts[r] : Has(t, f)
    BY <1>8, <1>9, <1>11 DEF Has
<1>14. QED
    BY <1>10, <1>11, <1>12, <1>13

\* The writer plans its calls: mkdir first, the bodies, and meta.json last.
LEMMA TakeRecordKeeps ==
    ASSUME WholeInv, TakeRecord, UNCHANGED handler PROVE WholeInv'
<1>1. /\ records \in Seq(Requests) /\ records # <<>> /\ Len(records) <= RecordCap
      /\ writing = NoRecord /\ NoRecord \notin Requests /\ RecordCap \in Nat
      /\ \A i \in 1..Len(records) : Handed(records[i])
    BY RecordsAssumption DEF TakeRecord, WholeInv, RecordInv, PayloadTypeOK, Queued
<1> DEFINE r == Head(records)
<1>2. /\ writing' = r /\ todo' = CallsOf(r) /\ records' = Tail(records)
      /\ UNCHANGED <<path, parts, disk, scribe, recordStop, recordsDropped, sweep, torn>>
    BY DEF TakeRecord
<1>3. /\ r \in Requests /\ Handed(r)
      /\ Tail(records) \in Seq(Requests) /\ Len(Tail(records)) = Len(records) - 1
      /\ \A i \in 1..Len(Tail(records)) : Tail(records)[i] = records[i + 1]
      /\ Len(records) \in Nat /\ Len(records) > 0
    BY <1>1, HeadTailProperties
<1> HIDE DEF r
<1>4. PayloadTypeOK'
  <2>1. CallsOf(r) # <<>>
      BY <1>3, CallsFacts DEF WholeInv, RecordInv, PayloadTypeOK
  <2>2. Len(Tail(records)) <= RecordCap
      BY <1>1, <1>3
  <2>3. QED
      BY <1>1, <1>2, <1>3, <2>1, <2>2 DEF WholeInv, RecordInv, PayloadTypeOK
<1>5. Queued'
  <2>1. ASSUME NEW x \in Requests, Handed(x) PROVE Handed(x)'
      BY <1>2, <2>1 DEF Handed, DirsOf
  <2>2. ASSUME NEW i \in 1..Len(records') PROVE Handed(records[i])'
    <3>1. records'[i] = records[i + 1] /\ i + 1 \in 1..Len(records)
        BY <1>2, <1>3
    <3>2. records[i + 1] \in Requests /\ Handed(records[i + 1])
        BY <1>1, <3>1
    <3>3. QED
        BY <2>1, <3>1, <3>2 DEF Handed, DirsOf
  <2>3. (writing # NoRecord => Handed(writing))'
      BY <1>2, <1>3, <2>1 DEF Handed, DirsOf
  <2>4. \A x \in Requests : handler'[x] = "enqueue" => path'[x] \in DirsOf(x)
      BY <1>2 DEF WholeInv, RecordInv, Queued
  <2>5. QED
      BY <2>2, <2>3, <2>4 DEF Queued, Handed, DirsOf
<1>6. Planned' /\ Underway' /\ Swept'
  <2>1. parts \in [Requests -> SUBSET Bodies]
      BY DEF WholeInv, RecordInv, PayloadTypeOK
  <2>2. /\ CallsOf(r) \in Seq(Calls) /\ Head(CallsOf(r)) = "mkdir"
        /\ \A i \in 1..Len(CallsOf(r)) : /\ CallsOf(r)[i] = "meta" <=> i = Len(CallsOf(r))
                                         /\ i > 1 => CallsOf(r)[i] # "mkdir"
        /\ \A f \in parts[r] : Has(CallsOf(r), f)
      BY <1>3, <2>1, CallsFacts
  <2>3. QED
      BY <1>2, <2>2 DEF WholeInv, RecordInv, Swept, Planned, Underway, Ahead, Has
<1>7. FilesTyped' /\ HandlersTyped' /\ (IdsAreOwn => ReadableIsWhole')
  <2>1. FilesTyped' /\ HandlersTyped'
      BY <1>2 DEF WholeInv, RecordInv, FilesTyped, DirsOf, HandlersTyped
  <2>2. IdsAreOwn => ReadableIsWhole'
      BY <1>2 DEF WholeInv, ReadableIsWhole, Readable, BodyRead
  <2>3. QED
      BY <2>1, <2>2
<1>8. QED
    BY <1>4, <1>5, <1>6, <1>7 DEF WholeInv, RecordInv, IdsAreOwn
-----------------------------------------------------------------------------
\* What a call leaves to do is still a plan, without mkdir.
LEMMA PlanProceeds ==
    ASSUME Planned, writing # NoRecord, todo # <<>>, Proceeds(Tail(todo))
    PROVE  /\ Planned' /\ (writing' = NoRecord <=> todo' = <<>>)
           /\ writing' \in {writing, NoRecord}
           /\ todo' # <<>> => Head(todo') # "mkdir"
           /\ Head(todo) = "meta" => todo' = <<>>
           /\ \A f : Ahead(f) => f = Head(todo) \/ Ahead(f)'
<1>1. /\ todo \in Seq(Calls) /\ todo # <<>>
      /\ \A i \in 1..Len(todo) : /\ todo[i] = "meta" <=> i = Len(todo)
                                 /\ i > 1 => todo[i] # "mkdir"
    BY DEF Planned
<1>2. /\ todo' = Tail(todo)
      /\ writing' = IF Tail(todo) = <<>> THEN NoRecord ELSE writing
    BY DEF Proceeds
<1> DEFINE t == Tail(todo)
<1>3. /\ t \in Seq(Calls) /\ Len(t) = Len(todo) - 1 /\ Len(todo) \in Nat /\ Len(todo) > 0
      /\ \A i \in 1..Len(t) : t[i] = todo[i + 1]
      /\ Head(todo) = todo[1]
    BY <1>1, HeadTailProperties
<1>4. todo' = t /\ writing' = (IF t = <<>> THEN NoRecord ELSE writing)
    BY <1>2
<1> HIDE DEF t
<1>5. Planned'
    BY <1>1, <1>3, <1>4 DEF Planned
<1>6. t # <<>> => Head(t) # "mkdir"
    BY <1>1, <1>3
<1>7. Head(todo) = "meta" => t = <<>>
    BY <1>1, <1>3
<1>8. ASSUME NEW f, Ahead(f), f # Head(todo) PROVE Ahead(f)'
  <2>1. PICK i \in 1..Len(todo) : todo[i] = f
      BY <1>8 DEF Ahead
  <2>2. i # 1
      BY <1>3, <1>8, <2>1
  <2>3. i - 1 \in 1..Len(t) /\ t[i - 1] = f
      BY <1>3, <2>1, <2>2
  <2>4. QED
      BY <1>4, <2>3 DEF Ahead
<1>9. QED
    BY <1>4, <1>5, <1>6, <1>7, <1>8

\* What the invariant says of a recording under way.
LEMMA AtWork ==
    ASSUME WholeInv, writing # NoRecord
    PROVE  /\ writing \in Requests /\ todo \in Seq(Calls) /\ todo # <<>> /\ Head(todo) \in Calls
           /\ handler[writing] \in {"log", "done"} /\ path[writing] \in DirsOf(writing)
           /\ \A f \in parts[writing] : f \in Bodies
<1>1. writing \in Requests /\ todo # <<>> /\ todo \in Seq(Calls)
    BY DEF WholeInv, RecordInv, PayloadTypeOK, Planned
<1>2. Head(todo) \in Calls
    BY <1>1
<1>3. QED
    BY <1>1, <1>2 DEF WholeInv, RecordInv, PayloadTypeOK, Queued, Handed

\* A call of the writer leaves queue, paths and bodies alone, and retention to
\* its work.
LEMMA CallFrame ==
    ASSUME WholeInv, UNCHANGED <<handler, records, path, parts, scribe, recordStop, recordsDropped, sweep>>,
           writing' \in {writing, NoRecord}, writing' = NoRecord <=> todo' = <<>>,
           torn' \subseteq Requests,
           \A d \in DOMAIN disk : d \in DOMAIN disk' /\ DOMAIN disk[d] \subseteq DOMAIN disk'[d],
           DOMAIN disk' \subseteq {<<RequestId[r], s>> : r \in Requests, s \in RandomNames \cup {0}}
    PROVE  PayloadTypeOK' /\ HandlersTyped' /\ Queued'
<1>1. PayloadTypeOK'
    BY DEF WholeInv, RecordInv, PayloadTypeOK
<1>2. HandlersTyped'
    BY DEF WholeInv, RecordInv, HandlersTyped
<1>3. Queued'
    BY DEF WholeInv, RecordInv, Queued, Handed, DirsOf
<1>4. QED
    BY <1>1, <1>2, <1>3

\* A directory is made under the name the record was given; one that is there
\* keeps its files.
LEMMA MakeDirKeeps ==
    ASSUME WholeInv, MakeDir, UNCHANGED handler PROVE WholeInv'
<1> DEFINE p == path[writing]
<1>1. /\ writing # NoRecord /\ Head(todo) = "mkdir" /\ Proceeds(Tail(todo))
      /\ disk' = [d \in DOMAIN disk \cup {p} |-> IF d \in DOMAIN disk THEN disk[d] ELSE NoFiles]
      /\ torn' = IF p = sweep.dir THEN torn \cup {writing} ELSE torn
      /\ UNCHANGED <<records, path, parts, scribe, recordStop, recordsDropped, sweep>>
    BY DEF MakeDir, Meets
<1>2. /\ writing \in Requests /\ todo \in Seq(Calls) /\ todo # <<>>
      /\ p \in DirsOf(writing) /\ \A f \in parts[writing] : f \in Bodies
    BY <1>1, AtWork
<1>3. /\ Planned' /\ (writing' = NoRecord <=> todo' = <<>>)
      /\ writing' \in {writing, NoRecord}
      /\ todo' # <<>> => Head(todo') # "mkdir"
      /\ \A f : Ahead(f) => f = Head(todo) \/ Ahead(f)'
    BY <1>1, <1>2, PlanProceeds DEF WholeInv, RecordInv
<1> HIDE DEF p
<1>4. /\ DOMAIN disk' = DOMAIN disk \cup {p}
      /\ \A d \in DOMAIN disk : disk'[d] = disk[d]
      /\ \A d \in DOMAIN disk' : d \notin DOMAIN disk => DOMAIN disk'[d] = {}
    BY <1>1 DEF NoFiles
<1>5. PayloadTypeOK' /\ HandlersTyped' /\ Queued'
  <2>1. DOMAIN disk' \subseteq {<<RequestId[r], s>> : r \in Requests, s \in RandomNames \cup {0}}
      BY <1>2, <1>4 DEF DirsOf, WholeInv, RecordInv, PayloadTypeOK
  <2>2. torn' \subseteq Requests
      BY <1>1, <1>2 DEF WholeInv, RecordInv, PayloadTypeOK
  <2>3. QED
      BY <1>1, <1>3, <1>4, <2>1, <2>2, CallFrame
<1>6. FilesTyped'
    BY <1>1, <1>4 DEF WholeInv, RecordInv, FilesTyped, DirsOf
<1>7. Underway'
  <2>1. ASSUME writing' # NoRecord, NEW f \in parts'[writing'] PROVE Ahead(f)'
    <3>1. writing' = writing /\ f \in parts[writing]
        BY <1>1, <1>3, <2>1
    <3>2. Ahead(f)
        BY <1>1, <3>1 DEF WholeInv, Underway
    <3>3. f # "mkdir"
        BY <1>2, <3>1 DEF Bodies
    <3>4. QED
        BY <1>1, <1>3, <3>2, <3>3
  <2>2. QED
      BY <2>1 DEF Underway
<1>8. IdsAreOwn => ReadableIsWhole'
    BY <1>1, <1>4 DEF WholeInv, ReadableIsWhole, Readable, BodyRead
<1>9. Swept'
  <2>1. sweep.dir # NoPath => sweep.dir \in DOMAIN disk
      BY DEF WholeInv, RecordInv, PayloadTypeOK
  <2>2. sweep.dir # NoPath =>
            \A f \in DOMAIN disk'[sweep.dir] : f \in sweep.files \/ disk'[sweep.dir][f] \in torn'
      BY <1>1, <1>4, <2>1 DEF WholeInv, RecordInv, Swept
  <2>3. writing' # NoRecord /\ path'[writing'] = sweep.dir => writing' \in torn'
      BY <1>1, <1>3 DEF p
  <2>4. QED
      BY <1>1, <2>2, <2>3 DEF Swept
<1>10. QED
    BY <1>3, <1>5, <1>6, <1>7, <1>8, <1>9 DEF WholeInv, RecordInv, IdsAreOwn

\* A recording without a directory is given up.
LEMMA MakeDirFailsKeeps ==
    ASSUME WholeInv, MakeDirFails, UNCHANGED handler PROVE WholeInv'
<1>1. /\ todo' = <<>> /\ writing' = NoRecord
      /\ UNCHANGED <<records, path, parts, disk, scribe, recordStop, recordsDropped, sweep, torn>>
    BY DEF MakeDirFails, Proceeds
<1>2. PayloadTypeOK' /\ HandlersTyped' /\ Queued'
  <2>1. /\ torn' \subseteq Requests
        /\ DOMAIN disk' \subseteq {<<RequestId[r], s>> : r \in Requests, s \in RandomNames \cup {0}}
      BY <1>1 DEF WholeInv, RecordInv, PayloadTypeOK
  <2>2. QED
      BY <1>1, <2>1, CallFrame
<1>3. <<>> \in Seq(Calls)
    OBVIOUS
<1>4. Planned' /\ FilesTyped' /\ Swept' /\ Underway'
    BY <1>1, <1>3 DEF WholeInv, RecordInv, Planned, FilesTyped, DirsOf, Swept, Underway
<1>5. IdsAreOwn => ReadableIsWhole'
    BY <1>1 DEF WholeInv, ReadableIsWhole, Readable, BodyRead
<1>6. QED
    BY <1>2, <1>4, <1>5 DEF WholeInv, RecordInv, IdsAreOwn

\* Directories have names.
LEMMA DirsReal ==
    ASSUME NEW r \in Requests, NEW d, d \in DirsOf(r) PROVE d # NoPath
BY RecordsAssumption DEF DirsOf

\* A step of retention leaves queue, paths and goroutine alone, and of the disk
\* only takes away.
LEMMA PruneFrame ==
    ASSUME WholeInv,
           UNCHANGED <<handler, records, path, parts, writing, todo, scribe, recordStop, recordsDropped>>,
           torn' \subseteq Requests,
           DOMAIN disk' \subseteq DOMAIN disk,
           \A d \in DOMAIN disk' : \A f \in DOMAIN disk'[d] : f \in DOMAIN disk[d] /\ disk'[d][f] = disk[d][f],
           sweep'.dir # NoPath => sweep'.dir \in DOMAIN disk' /\ sweep'.files \subseteq DOMAIN disk'[sweep'.dir],
           sweep'.dir = NoPath => sweep'.files = {}
    PROVE  PayloadTypeOK' /\ HandlersTyped' /\ Queued' /\ Planned' /\ FilesTyped'
<1>1. PayloadTypeOK'
    BY DEF WholeInv, RecordInv, PayloadTypeOK
<1>2. HandlersTyped' /\ Planned'
    BY DEF WholeInv, RecordInv, HandlersTyped, Planned
<1>3. Queued'
    BY DEF WholeInv, RecordInv, Queued, Handed, DirsOf
<1>4. FilesTyped'
    BY DEF WholeInv, RecordInv, FilesTyped, DirsOf
<1>5. QED
    BY <1>1, <1>2, <1>3, <1>4

\* What the invariant says of the owner of a file, and of a directory.
LEMMA OwnerOf ==
    ASSUME WholeInv, NEW d \in DOMAIN disk, NEW f \in DOMAIN disk[d]
    PROVE  disk[d][f] \in Requests /\ path[disk[d][f]] = d /\ d # NoPath
<1>1. disk[d][f] \in Requests /\ d \in DirsOf(disk[d][f]) /\ d = path[disk[d][f]]
    BY DEF WholeInv, RecordInv, FilesTyped
<1>2. QED
    BY <1>1, DirsReal

\* A directory is listed: its records are excepted while it is gone through, and
\* that of the record under way for longer.
LEMMA PruneOpenKeeps ==
    ASSUME WholeInv, NEW o \in DOMAIN disk, PruneOpen(o), UNCHANGED handler PROVE WholeInv'
<1>1. /\ sweep.dir = NoPath /\ sweep'.dir = o /\ sweep'.files = DOMAIN disk[o]
      /\ torn' = (torn \ RequestsOf(o)) \cup (RequestsOf(o) \cap {writing})
      /\ UNCHANGED <<records, path, parts, disk, writing, todo, scribe, recordStop, recordsDropped>>
    BY DEF PruneOpen
<1>2. torn' \subseteq Requests
    BY <1>1 DEF WholeInv, RecordInv, PayloadTypeOK, RequestsOf
<1>3. PayloadTypeOK' /\ HandlersTyped' /\ Queued' /\ Planned' /\ FilesTyped'
  <2>1. o # NoPath
      BY RecordsAssumption DEF WholeInv, RecordInv, PayloadTypeOK
  <2>2. QED
      BY <1>1, <1>2, <2>1, PruneFrame
<1>4. Swept'
  <2>1. writing # NoRecord => writing \in Requests
      BY DEF WholeInv, RecordInv, PayloadTypeOK
  <2>2. writing # NoRecord /\ path[writing] = o => writing \in torn'
      BY <1>1, <2>1 DEF RequestsOf
  <2>3. QED
      BY <1>1, <2>2 DEF Swept
<1>5. Underway'
  <2>1. writing \in torn => writing \in torn'
      BY <1>1
  <2>2. QED
      BY <1>1, <2>1 DEF WholeInv, Underway, Ahead, OnDisk
<1>6. ASSUME ReadableIsWhole PROVE ReadableIsWhole'
  <2> SUFFICES ASSUME NEW d \in DOMAIN disk, "meta" \in DOMAIN disk[d], d # o, disk[d]["meta"] \notin torn',
                      NEW f \in parts[disk[d]["meta"]]
               PROVE  BodyRead(d, f) = {disk[d]["meta"]}
      BY <1>1 DEF ReadableIsWhole, Readable, BodyRead
  <2>1. disk[d]["meta"] \in Requests /\ path[disk[d]["meta"]] = d /\ d # NoPath
      BY OwnerOf
  <2>2. disk[d]["meta"] \notin torn
      BY <1>1, <2>1 DEF RequestsOf
  <2>3. QED
      BY <1>1, <1>6, <2>1, <2>2 DEF ReadableIsWhole, Readable
<1>7. QED
    BY <1>3, <1>4, <1>5, <1>6 DEF WholeInv, RecordInv, IdsAreOwn

\* A file is unlinked in the directory that is gone through, or its request is
\* marked.
LEMMA PruneFileKeeps ==
    ASSUME WholeInv, NEW g \in sweep.files, PruneFile(g), UNCHANGED handler PROVE WholeInv'
<1> DEFINE s == sweep.dir
<1>1. /\ sweep'.dir = s /\ sweep'.files = sweep.files \ {g}
      /\ UNCHANGED <<records, path, parts, writing, todo, scribe, recordStop, recordsDropped>>
      /\ \/ disk' = [disk EXCEPT ![s] = [h \in DOMAIN @ \ {g} |-> @[h]]] /\ torn' = torn
         \/ torn' = torn \cup {disk[s][g]} /\ disk' = disk
    BY DEF PruneFile
<1>2. s # NoPath /\ s \in DOMAIN disk /\ sweep.files \subseteq DOMAIN disk[s]
    BY DEF WholeInv, RecordInv, PayloadTypeOK
<1>3. disk[s][g] \in Requests /\ path[disk[s][g]] = s
    BY <1>2, OwnerOf
<1> HIDE DEF s
<1>4. /\ DOMAIN disk' = DOMAIN disk
      /\ \A d \in DOMAIN disk : d # s => disk'[d] = disk[d]
      /\ \A f \in DOMAIN disk'[s] : f \in DOMAIN disk[s] /\ disk'[s][f] = disk[s][f] /\ (f # g \/ disk[s][g] \in torn')
      /\ \A f \in DOMAIN disk[s] : f # g => f \in DOMAIN disk'[s]
    BY <1>1, <1>2
<1>5. torn \subseteq torn' /\ torn' \subseteq Requests
    BY <1>1, <1>3 DEF WholeInv, RecordInv, PayloadTypeOK
<1>6. PayloadTypeOK' /\ HandlersTyped' /\ Queued' /\ Planned' /\ FilesTyped'
  <2>1. \A d \in DOMAIN disk' : \A f \in DOMAIN disk'[d] : f \in DOMAIN disk[d] /\ disk'[d][f] = disk[d][f]
      BY <1>4
  <2>2. sweep'.files \subseteq DOMAIN disk'[s]
      BY <1>1, <1>2, <1>4
  <2>3. QED
      BY <1>1, <1>2, <1>4, <1>5, <2>1, <2>2, PruneFrame
<1>7. writing # NoRecord /\ Head(todo) # "mkdir" /\ path[writing] = s => writing \in torn'
    BY <1>5 DEF WholeInv, RecordInv, Swept, s
<1>8. Swept'
  <2>1. \A f \in DOMAIN disk[s] : f \in sweep.files \/ disk[s][f] \in torn
      BY <1>2 DEF WholeInv, RecordInv, Swept, s
  <2>2. \A f \in DOMAIN disk'[s] : f \in sweep'.files \/ disk'[s][f] \in torn'
      BY <1>1, <1>4, <1>5, <2>1
  <2>3. QED
      BY <1>1, <1>7, <2>2 DEF Swept
<1>9. Underway'
  <2>1. ASSUME writing' # NoRecord, NEW f \in parts'[writing'], ~(Ahead(f)')
        PROVE  Head(todo') # "mkdir" /\ (path'[writing'] \in DOMAIN disk' => writing' \in torn' \/ OnDisk(writing, f)')
    <3>1. /\ writing # NoRecord /\ f \in parts[writing] /\ ~Ahead(f)
          /\ writing' = writing /\ path' = path /\ todo' = todo
        BY <1>1, <2>1 DEF Ahead
    <3>2. Head(todo) # "mkdir" /\ (path[writing] \in DOMAIN disk => writing \in torn \/ OnDisk(writing, f))
        BY <3>1 DEF WholeInv, Underway
    <3>3. CASE path[writing] = s
        BY <1>7, <3>1, <3>2, <3>3
    <3>4. CASE path[writing] # s
        BY <1>4, <1>5, <3>1, <3>2, <3>4 DEF OnDisk
    <3>5. QED
        BY <3>3, <3>4
  <2>2. QED
      BY <2>1 DEF Underway
<1>10. ReadableIsWhole => ReadableIsWhole'
    BY <1>1, <1>4, <1>5 DEF ReadableIsWhole, Readable, BodyRead, s
<1>11. QED
    BY <1>6, <1>8, <1>9, <1>10 DEF WholeInv, RecordInv, IdsAreOwn

\* A directory that is gone through is removed, or what is left in it is of
\* requests that are marked.
LEMMA PruneDirKeeps ==
    ASSUME WholeInv, PruneDir, UNCHANGED handler PROVE WholeInv'
<1> DEFINE s == sweep.dir
<1>1. /\ s # NoPath /\ sweep.files = {} /\ sweep'.dir = NoPath /\ sweep'.files = {}
      /\ UNCHANGED <<records, path, parts, writing, todo, scribe, recordStop, recordsDropped>>
      /\ \/ DOMAIN disk[s] # {} /\ disk' = disk /\ torn' = torn
         \/ /\ disk' = [d \in DOMAIN disk \ {s} |-> disk[d]]
            /\ torn' = torn \ RequestsOf(s)
    BY DEF PruneDir, NoSweep
<1>2. \A f \in DOMAIN disk[s] : disk[s][f] \in torn
    BY <1>1 DEF WholeInv, RecordInv, Swept
<1> HIDE DEF s
<1>3. /\ DOMAIN disk' \subseteq DOMAIN disk /\ \A d \in DOMAIN disk' : disk'[d] = disk[d]
      /\ \A d \in DOMAIN disk : d # s => d \in DOMAIN disk'
      /\ \A x \in Requests : path[x] # s /\ x \in torn => x \in torn'
      /\ s \in DOMAIN disk' => torn' = torn
    BY <1>1 DEF RequestsOf
<1>4. torn' \subseteq Requests
    BY <1>1 DEF WholeInv, RecordInv, PayloadTypeOK
<1>5. PayloadTypeOK' /\ HandlersTyped' /\ Queued' /\ Planned' /\ FilesTyped'
    BY <1>1, <1>3, <1>4, PruneFrame
<1>6. writing # NoRecord => writing \in Requests /\ path[writing] # NoPath
  <2>1. writing # NoRecord => writing \in Requests /\ path[writing] \in DirsOf(writing)
      BY AtWork
  <2>2. QED
      BY <2>1, DirsReal
<1>7. Swept'
    BY <1>1, <1>6 DEF Swept
<1>8. Underway'
  <2>1. writing # NoRecord /\ path[writing] \in DOMAIN disk' /\ writing \in torn => writing \in torn'
      BY <1>3, <1>6
  <2>2. QED
      BY <1>1, <1>3, <2>1 DEF WholeInv, Underway, Ahead, OnDisk
<1>9. ASSUME ReadableIsWhole PROVE ReadableIsWhole'
  <2> SUFFICES ASSUME NEW d \in DOMAIN disk', "meta" \in DOMAIN disk[d], disk[d]["meta"] \notin torn',
                      NEW f \in parts[disk[d]["meta"]]
               PROVE  BodyRead(d, f) = {disk[d]["meta"]}
      BY <1>1, <1>3 DEF ReadableIsWhole, Readable, BodyRead
  <2>1. d \in DOMAIN disk /\ disk[d]["meta"] \in Requests /\ path[disk[d]["meta"]] = d
      BY <1>3, OwnerOf
  <2>2. d # s
      BY <1>2, <1>3
  <2>3. disk[d]["meta"] \notin torn
      BY <1>3, <2>1, <2>2
  <2>4. QED
      BY <1>9, <2>1, <2>2, <2>3 DEF ReadableIsWhole, Readable, s
<1>10. QED
    BY <1>5, <1>7, <1>8, <1>9 DEF WholeInv, RecordInv, IdsAreOwn

\* Every step of retention.
LEMMA PrunesKeep ==
    ASSUME WholeInv, Prunes, UNCHANGED handler PROVE WholeInv'
BY PruneOpenKeeps, PruneFileKeeps, PruneDirKeeps DEF Prunes, PruneGoesOn

\* A failed write leaves the disk as it was and the recording marked.
LEMMA WriteFailsKeeps ==
    ASSUME WholeInv, WriteFileFails, UNCHANGED handler PROVE WholeInv'
<1>1. /\ writing # NoRecord /\ Head(todo) # "mkdir" /\ Proceeds(Tail(todo))
      /\ torn' = IF Head(todo) = "meta" THEN torn ELSE torn \cup {writing}
      /\ UNCHANGED <<records, path, parts, disk, scribe, recordStop, recordsDropped, sweep>>
    BY DEF WriteFileFails
<1>2. writing \in Requests /\ todo # <<>>
    BY <1>1, AtWork
<1>3. /\ Planned' /\ (writing' = NoRecord <=> todo' = <<>>)
      /\ writing' \in {writing, NoRecord}
      /\ todo' # <<>> => Head(todo') # "mkdir"
      /\ Head(todo) = "meta" => todo' = <<>>
      /\ \A f : Ahead(f) => f = Head(todo) \/ Ahead(f)'
    BY <1>1, <1>2, PlanProceeds DEF WholeInv, RecordInv
<1>4. PayloadTypeOK' /\ HandlersTyped' /\ Queued'
  <2>1. /\ torn' \subseteq Requests
        /\ DOMAIN disk' \subseteq {<<RequestId[r], s>> : r \in Requests, s \in RandomNames \cup {0}}
      BY <1>1, <1>2 DEF WholeInv, RecordInv, PayloadTypeOK
  <2>2. QED
      BY <1>1, <1>3, <2>1, CallFrame
<1>5. FilesTyped' /\ Swept'
    BY <1>1, <1>3 DEF WholeInv, RecordInv, FilesTyped, DirsOf, Swept
<1>6. IdsAreOwn => ReadableIsWhole'
    BY <1>1 DEF WholeInv, ReadableIsWhole, Readable, BodyRead
<1>7. Underway'
  <2>1. ASSUME writing' # NoRecord, NEW f \in parts'[writing'], ~Ahead(f)'
        PROVE  Head(todo') # "mkdir" /\ (path'[writing'] \in DOMAIN disk' => writing' \in torn' \/ OnDisk(writing, f)')
    <3>1. writing' = writing /\ f \in parts[writing] /\ Head(todo') # "mkdir" /\ Head(todo) # "meta"
        BY <1>1, <1>3, <2>1
    <3>2. writing' \in torn'
        BY <1>1, <3>1
    <3>3. QED
        BY <3>1, <3>2
  <2>2. QED
      BY <1>3, <2>1 DEF Underway
<1>8. QED
    BY <1>3, <1>4, <1>5, <1>6, <1>7 DEF WholeInv, RecordInv, IdsAreOwn

\* meta.json is written when no body is left to be: the directory, which is the
\* request's own, then holds all of them.
LEMMA WriteFileKeeps ==
    ASSUME WholeInv, WriteFile, UNCHANGED handler PROVE WholeInv'
<1> DEFINE p == path[writing]
           g == Head(todo)
<1>1. /\ writing # NoRecord /\ g # "mkdir" /\ Proceeds(Tail(todo))
      /\ p \in DOMAIN disk /\ disk' = Put(p, g, writing)
      /\ torn' = IF p = sweep.dir THEN torn \cup {writing} ELSE torn
      /\ UNCHANGED <<records, path, parts, scribe, recordStop, recordsDropped, sweep>>
    BY DEF WriteFile, Meets
<1>2. /\ writing \in Requests /\ todo \in Seq(Calls) /\ todo # <<>>
      /\ handler[writing] \in {"log", "done"}
      /\ p \in DirsOf(writing) /\ \A f \in parts[writing] : f \in Bodies
    BY <1>1, AtWork
<1>3. /\ Planned' /\ (writing' = NoRecord <=> todo' = <<>>)
      /\ writing' \in {writing, NoRecord}
      /\ todo' # <<>> => Head(todo') # "mkdir"
      /\ g = "meta" => todo' = <<>>
      /\ \A f : Ahead(f) => f = g \/ Ahead(f)'
    BY <1>1, <1>2, PlanProceeds DEF WholeInv, RecordInv
<1> HIDE DEF p, g
<1>4. /\ DOMAIN disk' = DOMAIN disk
      /\ \A d \in DOMAIN disk : d # p => disk'[d] = disk[d]
      /\ DOMAIN disk'[p] = DOMAIN disk[p] \cup {g} /\ disk'[p][g] = writing
      /\ \A f \in DOMAIN disk[p] : f # g => disk'[p][f] = disk[p][f]
    BY <1>1 DEF Put
<1>5. PayloadTypeOK' /\ HandlersTyped' /\ Queued'
  <2>1. /\ torn' \subseteq Requests
        /\ DOMAIN disk' \subseteq {<<RequestId[r], s>> : r \in Requests, s \in RandomNames \cup {0}}
      BY <1>1, <1>2, <1>4 DEF WholeInv, RecordInv, PayloadTypeOK
  <2>2. \A d \in DOMAIN disk : d \in DOMAIN disk' /\ DOMAIN disk[d] \subseteq DOMAIN disk'[d]
      BY <1>4
  <2>3. QED
      BY <1>1, <1>3, <2>1, <2>2, CallFrame
<1>6. ASSUME NEW d \in DOMAIN disk, NEW f \in DOMAIN disk'[d]
      PROVE  \/ d = p /\ f = g /\ disk'[d][f] = writing
             \/ f \in DOMAIN disk[d] /\ disk'[d][f] = disk[d][f]
    BY <1>4
<1>7. FilesTyped'
  <2>1. ASSUME NEW d \in DOMAIN disk', NEW f \in DOMAIN disk'[d]
        PROVE  disk'[d][f] \in Requests /\ handler[disk'[d][f]] \in {"log", "done"} /\ d \in DirsOf(disk'[d][f]) /\ d = path[disk'[d][f]]
      BY <1>2, <1>4, <1>6 DEF WholeInv, RecordInv, FilesTyped, p
  <2>2. QED
      BY <1>1, <2>1 DEF FilesTyped, DirsOf
<1>8. \A f \in parts[writing] : Ahead(f) \/ writing \in torn \/ OnDisk(writing, f)
    BY <1>1 DEF WholeInv, Underway, p, g
<1>9. ASSUME NEW f \in parts[writing], OnDisk(writing, f) \/ f = g
      PROVE  f \in DOMAIN disk'[p] /\ disk'[p][f] = writing
    BY <1>4, <1>9 DEF OnDisk, p
<1>10. Underway'
  <2>1. ASSUME writing' # NoRecord, NEW f \in parts'[writing'], ~(Ahead(f)')
        PROVE  Head(todo') # "mkdir" /\ (writing' \in torn' \/ OnDisk(writing, f)')
    <3>1. writing' = writing /\ f \in parts[writing] /\ Head(todo') # "mkdir" /\ path' = path
        BY <1>1, <1>3, <2>1
    <3>2. f = g \/ writing \in torn \/ OnDisk(writing, f)
        BY <1>3, <1>8, <2>1, <3>1
    <3>3. f \in DOMAIN disk'[p] /\ disk'[p][f] = writing => OnDisk(writing, f)'
        BY <3>1 DEF OnDisk, p
    <3>4. QED
        BY <1>1, <1>9, <3>1, <3>2, <3>3
  <2>2. QED
      BY <2>1 DEF Underway
<1>11. ASSUME IdsAreOwn, ReadableIsWhole PROVE ReadableIsWhole'
  <2> SUFFICES ASSUME NEW d \in DOMAIN disk', "meta" \in DOMAIN disk'[d],
                      d # sweep.dir, disk'[d]["meta"] \notin torn', NEW f \in parts[disk'[d]["meta"]]
               PROVE  f \in DOMAIN disk'[d] /\ disk'[d][f] = disk'[d]["meta"]
      BY <1>1 DEF ReadableIsWhole, Readable, BodyRead
  <2>1. CASE d = p /\ g = "meta"
    <3>1. disk'[d]["meta"] = writing
        BY <1>4, <2>1
    <3>2. f \in parts[writing] /\ writing \notin torn /\ f # g
        BY <1>1, <1>2, <2>1, <3>1 DEF Bodies
    <3>3. ~(Ahead(f)')
        BY <1>3, <2>1 DEF Ahead
    <3>4. QED
        BY <1>3, <1>8, <1>9, <2>1, <3>1, <3>2, <3>3
  <2>2. CASE ~(d = p /\ g = "meta")
    <3> DEFINE x == disk[d]["meta"]
    <3>1. "meta" \in DOMAIN disk[d] /\ disk'[d]["meta"] = x
        BY <1>4, <1>6, <2>2
    <3>2. x \notin torn /\ f \in parts[x]
        BY <1>1, <3>1
    <3>3. f \in DOMAIN disk[d] /\ disk[d][f] = x
        BY <1>4, <1>11, <3>1, <3>2 DEF ReadableIsWhole, Readable, BodyRead
    <3>4. x \in Requests /\ d \in DirsOf(x)
        BY <1>4, <3>1 DEF WholeInv, RecordInv, FilesTyped
    <3> HIDE DEF x
    <3>5. d = p => x = writing
        BY <1>2, <1>11, <3>4 DEF IdsAreOwn, DirsOf
    <3>6. f \in DOMAIN disk'[d] /\ disk'[d][f] = x
        BY <1>4, <3>3, <3>5
    <3>7. QED
        BY <3>1, <3>6
  <2>3. QED
      BY <2>1, <2>2
<1>12. Swept'
  <2>1. sweep.dir # NoPath => sweep.dir \in DOMAIN disk
      BY DEF WholeInv, RecordInv, PayloadTypeOK
  <2>2. sweep.dir # NoPath =>
            \A f \in DOMAIN disk[sweep.dir] : f \in sweep.files \/ disk[sweep.dir][f] \in torn
      BY DEF WholeInv, RecordInv, Swept
  <2>3. sweep.dir # NoPath =>
            \A f \in DOMAIN disk'[sweep.dir] : f \in sweep.files \/ disk'[sweep.dir][f] \in torn'
      BY <1>1, <1>4, <1>6, <2>1, <2>2
  <2>4. writing' # NoRecord /\ path'[writing'] = sweep.dir => writing' \in torn'
      BY <1>1, <1>3 DEF p
  <2>5. QED
      BY <1>1, <2>3, <2>4 DEF Swept
<1>13. QED
    BY <1>3, <1>5, <1>7, <1>10, <1>11, <1>12 DEF WholeInv, RecordInv, IdsAreOwn

\* Steps of main and of the log writer, and of the goroutine's own state.
LEMMA OtherSteps ==
    ASSUME WholeInv, UNCHANGED <<handler, records, path, parts, disk, writing, todo, recordsDropped, sweep, torn>>,
           scribe' \in {"run", "drain", "end"}, recordStop' \in BOOLEAN
    PROVE  WholeInv'
<1>1. PayloadTypeOK' /\ HandlersTyped'
    BY DEF WholeInv, RecordInv, PayloadTypeOK, HandlersTyped
<1>2. \A x \in Requests : handler'[x] = "enqueue" => path'[x] \in DirsOf(x)
    BY DEF WholeInv, RecordInv, Queued
<1>3. \A x \in Requests : handler[x] \in {"log", "done"} =>
          handler'[x] \in {"log", "done"} /\ path'[x] = path[x] /\ parts'[x] = parts[x]
    OBVIOUS
<1>4. RecordInv' /\ (Underway => Underway') /\ (ReadableIsWhole => ReadableIsWhole')
    BY <1>1, <1>2, <1>3, HandlersFrame DEF WholeInv
<1>5. QED
    BY <1>4 DEF WholeInv, IdsAreOwn

\* The disk is empty and no recording is under way.
LEMMA WholeInit == Init => WholeInv
<1> SUFFICES ASSUME Init PROVE WholeInv
    OBVIOUS
<1>1. /\ records = <<>> /\ path = [r \in Requests |-> NoPath] /\ parts = [r \in Requests |-> {}]
      /\ disk = NoFiles /\ writing = NoRecord /\ todo = <<>>
      /\ scribe = "run" /\ recordStop = FALSE /\ recordsDropped = 0 /\ torn = {}
      /\ sweep.dir = NoPath /\ sweep.files = {}
      /\ handler = [r \in Requests |-> "idle"]
    BY DEF Init, PayloadInit, NoSweep
<1>2. <<>> \in Seq(Requests) /\ <<>> \in Seq(Calls) /\ Len(<<>>) = 0 /\ 0 <= RecordCap
    BY RecordsAssumption
<1>3. DOMAIN disk = {}
    BY <1>1 DEF NoFiles
<1>4. PayloadTypeOK /\ HandlersTyped
  <2>1. DOMAIN path = Requests /\ parts \in [Requests -> SUBSET Bodies] /\ HandlersTyped
      BY <1>1 DEF HandlersTyped
  <2>2. records \in Seq(Requests) /\ Len(records) <= RecordCap
      BY <1>1, <1>2
  <2>3. (writing = NoRecord <=> todo = <<>>) /\ recordsDropped \in Nat
      BY <1>1
  <2>4. /\ DOMAIN disk \subseteq {<<RequestId[r], s>> : r \in Requests, s \in RandomNames \cup {0}}
        /\ writing \in Requests \cup {NoRecord} /\ torn \subseteq Requests
        /\ sweep.dir = NoPath /\ sweep.files = {}
      BY <1>1, <1>3
  <2>5. scribe \in {"run", "drain", "end"} /\ recordStop \in BOOLEAN
      BY <1>1
  <2>6. QED
      BY <2>1, <2>2, <2>3, <2>4, <2>5 DEF PayloadTypeOK
<1>5. Queued /\ Planned /\ FilesTyped /\ Swept /\ Underway /\ ReadableIsWhole
    BY <1>1, <1>2, <1>3 DEF Queued, Planned, FilesTyped, Swept, Underway, ReadableIsWhole
<1>6. QED
    BY <1>4, <1>5 DEF WholeInv, RecordInv

\* The steps of the payload writer.
LEMMA WritesKeep ==
    ASSUME WholeInv, Writes, UNCHANGED handler PROVE WholeInv'
<1>1. CASE SeeRecordStop \/ RecordsDrained
  <2>1. /\ scribe' \in {"run", "drain", "end"}
        /\ UNCHANGED <<records, path, parts, disk, writing, todo, recordStop, recordsDropped, sweep, torn>>
      BY <1>1 DEF SeeRecordStop, RecordsDrained
  <2>2. recordStop' \in BOOLEAN
      BY <2>1 DEF WholeInv, RecordInv, PayloadTypeOK
  <2>3. QED
      BY <2>1, <2>2, OtherSteps
<1>2. QED
    BY <1>1, TakeRecordKeeps, MakeDirKeeps, MakeDirFailsKeeps, WriteFileKeeps, WriteFailsKeeps DEF Writes

\* Every step keeps WholeInv: those of the handlers, of the writer, of retention and
\* of main.
LEMMA WholeNext == WholeInv /\ [Next]_vars => WholeInv'
<1> SUFFICES ASSUME WholeInv, [Next]_vars PROVE WholeInv'
    OBVIOUS
<1>1. ASSUME NEW r \in Requests, Arrive(r) \/ Serve(r) \/ HandlerStep(r) PROVE WholeInv'
    BY <1>1, ArriveRecord, ServeRecord, NameRecord, EnqueueRecordKeeps, LogRowRecord DEF HandlerStep
<1>2. /\ scribe \in {"run", "drain", "end"} /\ recordStop \in BOOLEAN
    BY DEF WholeInv, RecordInv, PayloadTypeOK
<1>3. CASE WriterStep
  <2>1. UNCHANGED handler
      BY <1>3 DEF WriterStep
  <2>2. CASE UNCHANGED payloadVars
      BY <1>2, <2>1, <2>2, OtherSteps DEF payloadVars
  <2>3. QED
      BY <1>3, <2>1, <2>2, WritesKeep, PrunesKeep DEF WriterStep
<1>4. CASE Signal \/ ServeFails \/ Stops
  <2>1. UNCHANGED handler
      BY <1>4 DEF Signal, ServeFails, Stops, Shutdown, PayloadsClosed, LogsClosed,
                  DeferredLogs, DeferredPayloads, MainGoes
  <2>2. UNCHANGED payloadVars \/ StopPayloads
      BY <1>4 DEF Signal, ServeFails, Stops, Shutdown, PayloadsClosed, LogsClosed,
                  DeferredLogs, DeferredPayloads
  <2>3. UNCHANGED <<records, path, parts, disk, writing, todo, scribe, recordsDropped, sweep, torn>>
        /\ recordStop' \in BOOLEAN
      BY <1>2, <2>2 DEF payloadVars, StopPayloads
  <2>4. QED
      BY <1>2, <2>1, <2>3, OtherSteps
<1>5. CASE UNCHANGED vars
    BY <1>2, <1>5, OtherSteps DEF vars, payloadVars
<1>6. QED
    BY <1>1, <1>3, <1>4, <1>5 DEF Next

\* In every reachable state recordings are as the payload writer's invariant
\* says, for any requests, ids and capacities, and wherever calls fail or
\* retention, file by file, meets the writer.
THEOREM RecordInvariance == Spec => []WholeInv
BY WholeInit, WholeNext, PTL DEF Spec

\* payload.go:318-319: as long as no two requests bear the same id, meta.json
\* never marks a record complete that lacks a body of its request, but for the
\* directory retention is in and the requests it left torn or a write failed of.
THEOREM ReadableRecordsAreWhole ==
    ASSUME IdsAreOwn
    PROVE  Spec => []ReadableIsWhole
<1>1. WholeInv => ReadableIsWhole
    BY DEF WholeInv
<1>2. QED
    BY <1>1, RecordInvariance, PTL
-----------------------------------------------------------------------------
\* The log writer's invariant holds of the whole program.
LEMMA LogsKept == Spec => []LogInv
BY RecordingImplementsLog, LogInvariance, PTL

\* main serves.
LEMMA MainInit == Init => MainTyped
BY DEF Init, MainTyped

\* main goes through its phases in the order of its statements and deferred calls.
LEMMA MainNext == MainTyped /\ [Next]_vars => MainTyped'
<1> SUFFICES ASSUME MainTyped, [Next]_vars PROVE MainTyped'
    OBVIOUS
<1>1. ASSUME NEW r \in Requests, Arrive(r) \/ Serve(r) \/ HandlerStep(r) PROVE MainTyped'
    BY <1>1 DEF MainTyped, HandlerStep, Arrive, Serve, NameDirectory, EnqueueRecord, LogRow, Moves
<1>2. CASE WriterStep
    BY <1>2 DEF WriterStep, MainTyped
<1>3. CASE Signal \/ ServeFails \/ Stops
    BY <1>3 DEF Signal, ServeFails, Stops, Shutdown, PayloadsClosed, LogsClosed,
                DeferredLogs, DeferredPayloads, MainGoes, MainTyped
<1>4. CASE UNCHANGED vars
    BY <1>4 DEF vars, MainTyped
<1>5. QED
    BY <1>1, <1>2, <1>3, <1>4 DEF Next

\* Both writers, the handlers and main keep their types: no queue or batch
\* exceeds its capacity, and no directory is of a name DirFor does not give.
THEOREM TypeCorrect == Spec => []TypeOK
<1>1. WholeInv /\ LogInv /\ MainTyped => TypeOK
    BY DEF WholeInv, RecordInv, HandlersTyped, LogInv, MainTyped, TypeOK
<1>2. Spec => []MainTyped
    BY MainInit, MainNext, PTL DEF Spec
<1>3. QED
    BY <1>1, <1>2, RecordInvariance, LogsKept, PTL
-----------------------------------------------------------------------------
\* While a handler is at work and main has not given up, nobody has been told
\* to stop.
LEMMA BusyBeforeStop ==
    ASSUME Stopping, Drains, ~abrupt, MainTyped, NEW r \in Requests,
           handler[r] \notin {"idle", "done"} \/ main = "serve"
    PROVE  main \in {"serve", "shutdown"} /\ mode = "run" /\ scribe = "run" /\ ~stop
<1>1. main \in {"serve", "shutdown"}
    BY DEF Drains, AllDone
<1>2. QED
    BY <1>1 DEF Stopping

\* A handler that has logged makes one more that is done.
LEMMA DoneGrows ==
    ASSUME HandlersTyped, IsFiniteSet(Done), NEW r \in Requests, Moves(r, "log", "done")
    PROVE  IsFiniteSet(Done)' /\ Cardinality(Done)' = Cardinality(Done) + 1 /\ Cardinality(Done) \in Nat
<1>1. /\ handler[r] = "log" /\ handler'[r] = "done"
      /\ \A x \in Requests : x # r => handler'[x] = handler[x]
    BY DEF Moves, HandlersTyped
<1>2. Done' = Done \cup {r} /\ r \notin Done
    BY <1>1 DEF Done
<1>3. QED
    BY <1>2, FS_AddElement, FS_CardinalityType

\* A handler that logs adds one row to those accepted or to those dropped.
LEMMA LogRowExit ==
    ASSUME ExitInv, HandlersTyped, LogInv, MainTyped, NEW r \in Requests, LogRow(r)
    PROVE  ExitInv'
<1>1. /\ Moves(r, "log", "done") /\ handler[r] = "log" /\ Log(r)
      /\ UNCHANGED <<main, abrupt, records, writing, scribe, recordStop, batch, mode, inserting, stop>>
    BY DEF LogRow, Moves, Log, payloadVars
<1>2. Stopping'
    BY <1>1 DEF ExitInv, Stopping, LoggerEnded
<1>3. Drains'
  <2>1. ~abrupt => main \in {"serve", "shutdown"} /\ mode = "run" /\ scribe = "run"
      BY <1>1, BusyBeforeStop DEF ExitInv
  <2>2. QED
      BY <1>1, <2>1 DEF Drains
<1>4. Counted'
  <2>1. /\ IsFiniteSet(Done)' /\ Cardinality(Done)' = Cardinality(Done) + 1 /\ Cardinality(Done) \in Nat
        /\ Cardinality(Done) = Len(accepted) + dropped
      BY <1>1, DoneGrows DEF ExitInv, Counted
  <2>2. accepted \in Seq(Rows) /\ dropped \in Nat /\ r \in Rows
      BY RowsAssumption DEF LogInv, LogTypeOK
  <2>3. Len(accepted') + dropped' = Len(accepted) + dropped + 1
    <3>1. CASE accepted' = Append(accepted, r) /\ dropped' = dropped
        BY <2>2, <3>1, AppendProperties
    <3>2. CASE dropped' = dropped + 1 /\ accepted' = accepted
        BY <2>2, <3>2
    <3>3. QED
        BY <1>1, <3>1, <3>2 DEF Log
  <2>4. Cardinality(Done)' = Len(accepted') + dropped'
      BY <2>1, <2>3
  <2>5. QED
      BY <2>1, <2>4 DEF Counted
<1>5. QED
    BY <1>2, <1>3, <1>4 DEF ExitInv

\* The other steps of handlers leave the log writer alone and nobody done.
LEMMA HandlerExit ==
    ASSUME ExitInv, HandlersTyped, MainTyped, NEW r \in Requests,
           Arrive(r) \/ Serve(r) \/ NameDirectory(r) \/ EnqueueRecord(r)
    PROVE  ExitInv'
<1>1. /\ UNCHANGED <<main, abrupt, logVars, scribe, recordStop>>
      /\ handler[r] \in {"serve", "name", "enqueue"} \/ main = "serve"
      /\ handler'[r] # "done" /\ handler[r] # "done"
      /\ \A x \in Requests : x # r => handler'[x] = handler[x]
    BY DEF Arrive, Serve, NameDirectory, EnqueueRecord, Moves, HandlersTyped, payloadVars, Names, Enqueue
<1>2. Stopping'
    BY <1>1 DEF ExitInv, Stopping, LoggerEnded, logVars
<1>3. Drains'
  <2>1. ~abrupt => main \in {"serve", "shutdown"} /\ mode = "run" /\ scribe = "run"
      BY <1>1, BusyBeforeStop DEF ExitInv
  <2>2. QED
      BY <1>1, <2>1 DEF Drains, logVars
<1>4. Done' = Done
    BY <1>1 DEF Done
<1>5. QED
    BY <1>1, <1>2, <1>3, <1>4 DEF ExitInv, Counted, logVars

\* The logger goroutine neither adds rows nor drops them, and ends with nothing queued.
LEMMA LoggerExit ==
    ASSUME ExitInv, LogInv, Goroutine \/ Retention, UNCHANGED <<payloadVars, handler, main, abrupt>>
    PROVE  ExitInv'
<1>1. UNCHANGED <<handler, main, abrupt, records, writing, scribe, recordStop>>
    BY DEF payloadVars
<1>2. UNCHANGED <<stop, dropped, accepted>>
    BY DEF Goroutine, Retention, Take, TickFlush, SeeStop, Drained, InsertEnds, Inserted
<1>3. Stopping'
    BY <1>1, <1>2 DEF Goroutine, Retention, Take, TickFlush, SeeStop, Drained, InsertEnds, Inserted,
                      ExitInv, Stopping, LoggerEnded
<1>4. mode' = "end" /\ mode # "end" => queue' = <<>> /\ (~inserting' => batch' = <<>>)
    BY DEF Goroutine, Retention, Take, TickFlush, SeeStop, Drained, InsertEnds, Inserted
<1>5. mode = "end" => queue' = queue /\ ((inserting' = inserting /\ batch' = batch) \/ batch' = <<>>)
    BY DEF Goroutine, Retention, Take, TickFlush, SeeStop, Drained, InsertEnds, Inserted
<1>6. Drains'
    BY <1>1, <1>4, <1>5 DEF ExitInv, Drains, AllDone
<1>7. QED
    BY <1>1, <1>2, <1>3, <1>6 DEF ExitInv, Counted, Done

\* The payload writer ends with an empty queue and nothing under way.
LEMMA ScribeExit ==
    ASSUME ExitInv, Writes \/ Prunes, UNCHANGED <<logVars, handler, main, abrupt>>
    PROVE  ExitInv'
<1>1. UNCHANGED <<handler, main, abrupt, queue, batch, mode, inserting, stop, dropped, accepted>>
    BY DEF logVars
<1>2. /\ recordStop' = recordStop
      /\ scribe' # "run" => scribe # "run" \/ recordStop
      /\ scribe = "end" => scribe' = "end"
    BY DEF Writes, Prunes, PruneGoesOn, PruneOpen, PruneFile, PruneDir, TakeRecord, MakeDir,
           MakeDirFails, WriteFile, WriteFileFails, SeeRecordStop, RecordsDrained
<1>3. /\ scribe' = "end" /\ scribe # "end" => records' = <<>> /\ writing' = NoRecord
      /\ scribe = "end" /\ writing = NoRecord => records' = records /\ writing' = writing
    BY DEF Writes, Prunes, PruneGoesOn, PruneOpen, PruneFile, PruneDir, TakeRecord, MakeDir,
           MakeDirFails, WriteFile, WriteFileFails, SeeRecordStop, RecordsDrained
<1>4. Stopping'
    BY <1>1, <1>2 DEF ExitInv, Stopping, LoggerEnded
<1>5. Drains'
    BY <1>1, <1>2, <1>3 DEF ExitInv, Drains, AllDone
<1>6. QED
    BY <1>1, <1>4, <1>5 DEF ExitInv, Counted, Done

\* main stops a writer only when the handlers are done or it has given up.
LEMMA MainExit ==
    ASSUME ExitInv, LogInv, MainTyped, Signal \/ ServeFails \/ Stops
    PROVE  ExitInv'
<1>1. UNCHANGED <<handler, queue, batch, mode, inserting, dropped, accepted, records, writing, scribe>>
    BY DEF Signal, ServeFails, Stops, Shutdown, PayloadsClosed, LogsClosed, DeferredLogs,
           DeferredPayloads, MainGoes, StopLogger, StopPayloads, logVars, payloadVars
<1>2. AllDone' = AllDone
    BY <1>1 DEF AllDone
<1>3. main \in {"serve", "shutdown"} => mode = "run" /\ scribe = "run" /\ ~stop /\ ~recordStop
    BY DEF ExitInv, Stopping
<1>4. Stopping' /\ Drains'
  <2>1. CASE Signal
      BY <1>1, <1>2, <1>3, <2>1 DEF Signal, MainGoes, logVars, payloadVars, ExitInv, Stopping, Drains, LoggerEnded
  <2>2. CASE ServeFails
      BY <1>1, <1>2, <1>3, <2>2 DEF ServeFails, MainGoes, StopLogger, payloadVars, ExitInv, Stopping, Drains, LoggerEnded
  <2>3. CASE Shutdown
      BY <1>1, <1>2, <1>3, <2>3 DEF Shutdown, MainGoes, StopPayloads, logVars, ExitInv, Stopping, Drains, LoggerEnded
  <2>4. CASE PayloadsClosed
      BY <1>1, <1>2, <1>3, <2>4 DEF PayloadsClosed, MainGoes, StopLogger, payloadVars, ExitInv, Stopping, Drains, LoggerEnded
  <2>5. CASE LogsClosed
      BY <1>1, <1>2, <1>3, <2>5 DEF LogsClosed, MainGoes, logVars, payloadVars, ExitInv, Stopping, Drains, LoggerEnded
  <2>6. CASE DeferredLogs
      BY <1>1, <1>2, <1>3, <2>6 DEF DeferredLogs, MainGoes, StopPayloads, logVars, ExitInv, Stopping, Drains, LoggerEnded
  <2>7. CASE DeferredPayloads
      BY <1>1, <1>2, <1>3, <2>7 DEF DeferredPayloads, MainGoes, logVars, payloadVars, ExitInv, Stopping, Drains, LoggerEnded
  <2>8. QED
      BY <2>1, <2>2, <2>3, <2>4, <2>5, <2>6, <2>7 DEF Stops
<1>5. QED
    BY <1>1, <1>4 DEF ExitInv, Counted, Done

\* Nobody has logged, and nobody has been told to stop.
LEMMA ExitInit == Init => ExitInv
<1> SUFFICES ASSUME Init PROVE ExitInv
    OBVIOUS
<1>1. /\ main = "serve" /\ mode = "run" /\ scribe = "run" /\ ~stop /\ ~recordStop
      /\ accepted = <<>> /\ dropped = 0 /\ handler = [r \in Requests |-> "idle"]
    BY DEF Init, LogInit, PayloadInit
<1>2. Done = {}
    BY <1>1 DEF Done
<1>3. Counted
    BY <1>1, <1>2, FS_EmptySet DEF Counted
<1>4. QED
    BY <1>1, <1>3 DEF ExitInv, Stopping, Drains

\* Every step keeps ExitInv.
LEMMA ExitNext == ExitInv /\ HandlersTyped /\ LogInv /\ MainTyped /\ [Next]_vars => ExitInv'
<1> SUFFICES ASSUME ExitInv, HandlersTyped, LogInv, MainTyped, [Next]_vars PROVE ExitInv'
    OBVIOUS
<1>1. ASSUME NEW r \in Requests, Arrive(r) \/ Serve(r) \/ HandlerStep(r) PROVE ExitInv'
    BY <1>1, LogRowExit, HandlerExit DEF HandlerStep
<1>2. CASE WriterStep
    BY <1>2, LoggerExit, ScribeExit DEF WriterStep
<1>3. CASE Signal \/ ServeFails \/ Stops
    BY <1>3, MainExit
<1>4. CASE UNCHANGED vars
    BY <1>4 DEF vars, logVars, payloadVars, ExitInv, Stopping, Drains, Counted, Done, AllDone, LoggerEnded
<1>5. QED
    BY <1>1, <1>2, <1>3, <1>4 DEF Next

\* main.go:388-396: unless main gave up waiting for handlers, every request
\* that was served has its row settled or counted when the process exits, and
\* no recording is left unwritten.
THEOREM ExitsLeaveNothing == Spec => []ExitLeavesNothing
<1>1. ExitInv /\ LogInv => ExitLeavesNothing
  <2> SUFFICES ASSUME ExitInv, LogInv, main = "exited", ~abrupt
               PROVE  /\ Len(settled) + dropped = Cardinality(Done)
                      /\ records = <<>> /\ writing = NoRecord /\ AllDone
      BY DEF ExitLeavesNothing, Done
  <2>1. /\ mode = "end" /\ ~inserting /\ scribe = "end" /\ queue = <<>> /\ batch = <<>>
        /\ records = <<>> /\ writing = NoRecord /\ AllDone
      BY DEF ExitInv, Stopping, Drains, LoggerEnded
  <2>2. settled \in Seq(Rows) /\ accepted = settled \o batch \o queue
      BY DEF LogInv, LogTypeOK, RowsInOrder
  <2>3. accepted = settled
      BY <2>1, <2>2, ConcatEmptySeq
  <2>4. QED
      BY <2>1, <2>3 DEF ExitInv, Counted
<1>2. Spec => []HandlersTyped
  <2>1. WholeInv => HandlersTyped
      BY DEF WholeInv, RecordInv
  <2>2. QED
      BY <2>1, RecordInvariance, PTL
<1>3. Spec => []MainTyped
    BY MainInit, MainNext, PTL DEF Spec
<1>4. QED
    BY <1>1, <1>2, <1>3, LogsKept, ExitInit, ExitNext, PTL DEF Spec
=============================================================================
