--------------------------- MODULE PayloadWriter ---------------------------
(***************************************************************************)
(* The payload writer (internal/payload/payload.go): recordings of         *)
(* requests, each in a directory of its own on disk, written by one        *)
(* goroutine from a bounded queue: bodies first, meta.json last.           *)
(*                                                                         *)
(* Every call to the file system is a step.  A file is the request it was  *)
(* written for; a write that fails leaves what was there.  All directories *)
(* are of one day, which retention may remove at any time: os.RemoveAll    *)
(* takes one directory after another, lists its files, unlinks them one by *)
(* one and removes the directory if it is empty then.                      *)
(***************************************************************************)
EXTENDS Integers, Sequences, FiniteSets

CONSTANTS
    Requests,        \* recorded requests
    RequestId,       \* their X-Request-Id, which clients may choose
    Captures,        \* sets of bodies that a request may leave to be written
    RecordCap,       \* queueCap
    RandomNames,     \* random suffixes of directory names
    NoPath           \* the empty path

Bodies == {"client_req", "upstream_req", "upstream_resp"}

NoRecord == "none"

ASSUME RecordsAssumption ==
    /\ NoRecord \notin Requests
    /\ RequestId \in [Requests -> Nat]
    /\ Captures \subseteq SUBSET Bodies
    /\ RecordCap \in Nat \ {0}
    /\ RandomNames \subseteq Nat \ {0}
    /\ NoPath \notin {<<RequestId[r], s>> : r \in Requests, s \in RandomNames \cup {0}}

NoFiles == [f \in {} |-> 0]

NoSweep == [dir |-> NoPath, files |-> {}]

VARIABLES
    records,         \* Writer.ch
    path,            \* directory of a request; NoPath while it has none
    parts,           \* bodies of a request that are not empty
    disk,            \* directories that exist, and their files
    writing,         \* the record the goroutine writes, or NoRecord
    todo,            \* calls it has yet to make for it
    scribe,          \* the goroutine: run, drain, end
    recordStop,      \* Writer.stop is closed
    recordsDropped,  \* Writer.dropped
    sweep,           \* the directory retention removes, and the files it listed
                     \* and has yet to unlink
    torn             \* requests of which a body could not be written, or whose
                     \* removal met their writer or an error; read by no action

payloadVars == <<records, path, parts, disk, writing, todo, scribe, recordStop,
                 recordsDropped, sweep, torn>>

PayloadInit ==
    /\ records = <<>>
    /\ path = [r \in Requests |-> NoPath]
    /\ parts = [r \in Requests |-> {}]
    /\ disk = NoFiles
    /\ writing = NoRecord /\ todo = <<>>
    /\ scribe = "run" /\ recordStop = FALSE
    /\ recordsDropped = 0
    /\ sweep = NoSweep /\ torn = {}
-----------------------------------------------------------------------------
\* DirFor: the first name that is not on disk; with a suffix unless the bare
\* request id is free.  When every name tried exists there is none.
Name(r) ==
    LET free == {<<RequestId[r], s>> : s \in RandomNames} \ DOMAIN disk
    IN  IF <<RequestId[r], 0>> \notin DOMAIN disk THEN {<<RequestId[r], 0>>}
        ELSE IF free # {} THEN free ELSE {NoPath}

Names(r, d) ==
    /\ d \in Name(r)
    /\ path' = [path EXCEPT ![r] = d]
    /\ UNCHANGED <<records, disk, writing, todo, scribe, recordStop, recordsDropped, sweep, torn>>

\* Enqueue: the record is queued, or dropped and counted, and then it has no
\* directory.
Enqueue(r) ==
    /\ IF Len(records) < RecordCap
       THEN records' = Append(records, r) /\ UNCHANGED <<path, recordsDropped>>
       ELSE /\ recordsDropped' = recordsDropped + 1
            /\ path' = [path EXCEPT ![r] = NoPath]
            /\ UNCHANGED records
    /\ UNCHANGED <<parts, disk, writing, todo, scribe, recordStop, sweep, torn>>
-----------------------------------------------------------------------------
\* writeBody: an empty body has no file.
WriteBody(r, f) == IF f \in parts[r] THEN <<f>> ELSE <<>>

\* The calls of write, in order.
CallsOf(r) ==
    <<"mkdir">> \o WriteBody(r, "client_req") \o WriteBody(r, "upstream_req")
        \o WriteBody(r, "upstream_resp") \o <<"meta">>

\* The next record is received.
TakeRecord ==
    /\ scribe \in {"run", "drain"} /\ writing = NoRecord /\ records # <<>>
    /\ writing' = Head(records) /\ todo' = CallsOf(Head(records))
    /\ records' = Tail(records)
    /\ UNCHANGED <<path, parts, disk, scribe, recordStop, recordsDropped, sweep, torn>>

\* What is left after a call; nothing after the last, or after an error of
\* mkdir or of the last.
Proceeds(rest) ==
    /\ todo' = rest
    /\ writing' = IF rest = <<>> THEN NoRecord ELSE writing

\* The writer's call lands in the directory that retention removes.
Meets == IF path[writing] = sweep.dir THEN torn \cup {writing} ELSE torn

MakeDir ==
    /\ writing # NoRecord /\ Head(todo) = "mkdir"
    /\ torn' = Meets
    /\ disk' = [d \in DOMAIN disk \cup {path[writing]} |->
                   IF d \in DOMAIN disk THEN disk[d] ELSE NoFiles]
    /\ Proceeds(Tail(todo))
    /\ UNCHANGED <<records, path, parts, scribe, recordStop, recordsDropped, sweep>>

MakeDirFails ==
    /\ writing # NoRecord /\ Head(todo) = "mkdir"
    /\ Proceeds(<<>>)
    /\ UNCHANGED <<records, path, parts, disk, scribe, recordStop, recordsDropped, sweep, torn>>

\* disk with file f of directory d holding x
Put(d, f, x) ==
    [disk EXCEPT ![d] = [g \in DOMAIN @ \cup {f} |-> IF g = f THEN x ELSE @[g]]]

\* Mutant: a directory that is gone is made again.
WriteFileAnyway ==
    /\ writing # NoRecord /\ Head(todo) # "mkdir"
    /\ disk' = [d \in DOMAIN disk \cup {path[writing]} |->
                   IF d # path[writing] THEN disk[d]
                   ELSE IF d \in DOMAIN disk THEN Put(d, Head(todo), writing)[d]
                   ELSE [f \in {Head(todo)} |-> writing]]
    /\ torn' = Meets
    /\ Proceeds(Tail(todo))
    /\ UNCHANGED <<records, path, parts, scribe, recordStop, recordsDropped, sweep>>

WriteFile ==
    /\ writing # NoRecord /\ Head(todo) # "mkdir"
    /\ path[writing] \in DOMAIN disk
    /\ disk' = Put(path[writing], Head(todo), writing)
    /\ torn' = Meets
    /\ Proceeds(Tail(todo))
    /\ UNCHANGED <<records, path, parts, scribe, recordStop, recordsDropped, sweep>>

\* The file cannot be written; the next call is made all the same.
WriteFileFails ==
    /\ writing # NoRecord /\ Head(todo) # "mkdir"
    /\ torn' = IF Head(todo) = "meta" THEN torn ELSE torn \cup {writing}
    /\ Proceeds(Tail(todo))
    /\ UNCHANGED <<records, path, parts, disk, scribe, recordStop, recordsDropped, sweep>>

SeeRecordStop ==
    /\ scribe = "run" /\ writing = NoRecord /\ recordStop
    /\ scribe' = "drain"
    /\ UNCHANGED <<records, path, parts, disk, writing, todo, recordStop, recordsDropped, sweep, torn>>

RecordsDrained ==
    /\ scribe = "drain" /\ writing = NoRecord /\ records = <<>>
    /\ scribe' = "end"
    /\ UNCHANGED <<records, path, parts, disk, writing, todo, recordStop, recordsDropped, sweep, torn>>

StopPayloads ==
    /\ recordStop' = TRUE
    /\ UNCHANGED <<records, path, parts, disk, writing, todo, scribe, recordsDropped, sweep, torn>>

Writes == TakeRecord \/ MakeDir \/ MakeDirFails \/ WriteFile \/ WriteFileFails
              \/ SeeRecordStop \/ RecordsDrained
-----------------------------------------------------------------------------
\* PruneOlderThan, one call of the file system after another.

RequestsOf(d) == {r \in Requests : path[r] = d}

\* The next directory of the day is listed.
PruneOpen(d) ==
    /\ sweep.dir = NoPath
    /\ sweep' = [dir |-> d, files |-> DOMAIN disk[d]]
    /\ torn' = (torn \ RequestsOf(d)) \cup (RequestsOf(d) \cap {writing})
    /\ UNCHANGED <<records, path, parts, disk, writing, todo, scribe, recordStop, recordsDropped>>

\* A listed file is unlinked, in no particular order, or cannot be; what was
\* written since the listing is not touched.
PruneFile(f) ==
    /\ sweep' = [dir |-> sweep.dir, files |-> sweep.files \ {f}]
    /\ \/ disk' = [disk EXCEPT ![sweep.dir] = [g \in DOMAIN @ \ {f} |-> @[g]]] /\ UNCHANGED torn
       \/ torn' = torn \cup {disk[sweep.dir][f]} /\ UNCHANGED disk
    /\ UNCHANGED <<records, path, parts, writing, todo, scribe, recordStop, recordsDropped>>

\* An empty directory goes; one that is not stays (ENOTEMPTY), until the next
\* day's run.
PruneDir ==
    /\ sweep.dir # NoPath /\ sweep.files = {}
    /\ sweep' = NoSweep
    /\ IF DOMAIN disk[sweep.dir] # {} THEN UNCHANGED <<disk, torn>>
       ELSE /\ disk' = [d \in DOMAIN disk \ {sweep.dir} |-> disk[d]]
            /\ torn' = torn \ RequestsOf(sweep.dir)
    /\ UNCHANGED <<records, path, parts, writing, todo, scribe, recordStop, recordsDropped>>

\* A directory that was opened is gone through.
PruneGoesOn == PruneDir \/ \E f \in sweep.files : PruneFile(f)

Prunes == PruneGoesOn \/ \E d \in DOMAIN disk : PruneOpen(d)
-----------------------------------------------------------------------------
\* Read, one file after another: a directory is a record when its meta.json is
\* there.  A file that is there stays for a Read under way unless retention
\* unlinks it.
Readable(d) == d \in DOMAIN disk /\ "meta" \in DOMAIN disk[d]

\* The body Read returns for a file; none when the file is missing.
BodyRead(d, f) == IF f \in DOMAIN disk[d] THEN {disk[d][f]} ELSE {}

PayloadTypeOK ==
    /\ records \in Seq(Requests) /\ Len(records) <= RecordCap
    /\ DOMAIN path = Requests /\ parts \in [Requests -> SUBSET Bodies]
    /\ DOMAIN disk \subseteq {<<RequestId[r], s>> : r \in Requests, s \in RandomNames \cup {0}}
    /\ writing \in Requests \cup {NoRecord}
    /\ writing = NoRecord <=> todo = <<>>
    /\ scribe \in {"run", "drain", "end"} /\ recordStop \in BOOLEAN
    /\ recordsDropped \in Nat /\ torn \subseteq Requests
    /\ sweep.dir # NoPath => sweep.dir \in DOMAIN disk /\ sweep.files \subseteq DOMAIN disk[sweep.dir]
    /\ sweep.dir = NoPath => sweep.files = {}

\* "meta presence marks the record complete for Read" (payload.go:318-319): a
\* record that can be read has every body of its request, however the writer is
\* stopped and whatever is removed around it, unless a body could not be
\* written or retention removes this very directory: now, or, until its next
\* run, when it listed the directory of a record that was still being written
\* or could not unlink a file.  A record that was finished when retention came
\* to it goes whole: Read never finds a part of it later.
ReadableIsWhole ==
    \A d \in DOMAIN disk :
        Readable(d) /\ d # sweep.dir /\ disk[d]["meta"] \notin torn =>
            \A f \in parts[disk[d]["meta"]] : BodyRead(d, f) = {disk[d]["meta"]}

=============================================================================
