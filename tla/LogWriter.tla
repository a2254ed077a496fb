----------------------------- MODULE LogWriter -----------------------------
(***************************************************************************)
(* The request-log writer (internal/stats/writer.go): handlers push rows   *)
(* on a bounded channel and never wait; one goroutine collects them into   *)
(* batches and inserts each batch in one transaction.                      *)
(*                                                                         *)
(* An insert takes up to ten seconds, during which handlers go on logging: *)
(* its start and its end are two steps.  The channel's receive and the     *)
(* goroutine's own bookkeeping are one.                                    *)
(***************************************************************************)
EXTENDS Integers, Sequences, FiniteSets, SequencesExt

CONSTANTS
    Rows,            \* log rows, one for each call of Log
    QueueCap,        \* defaultQueue
    BatchRows        \* batchRows

ASSUME CapsAssumption == QueueCap \in Nat \ {0} /\ BatchRows \in Nat \ {0}

VARIABLES
    queue,           \* Logger.ch
    batch,           \* buf
    mode,            \* of the goroutine: run, drain (stop was seen), end
    inserting,       \* InsertBatch is under way
    stop,            \* Logger.stop is closed
    logs,            \* rows of request_logs
    dropped,         \* Logger.dropped
    accepted,        \* rows in the order the channel took them; read by no action
    settled          \* rows in the order their inserts ended; read by no action

logVars == <<queue, batch, mode, inserting, stop, logs, dropped, accepted, settled>>

LogInit ==
    /\ queue = <<>> /\ batch = <<>>
    /\ mode = "run" /\ inserting = FALSE /\ stop = FALSE
    /\ logs = {} /\ dropped = 0
    /\ accepted = <<>> /\ settled = <<>>
-----------------------------------------------------------------------------
\* Mutant: the queue takes a row more than it holds.
LogOverfull(row) ==
    /\ IF Len(queue) <= QueueCap
       THEN /\ queue' = Append(queue, row) /\ accepted' = Append(accepted, row)
            /\ UNCHANGED dropped
       ELSE dropped' = dropped + 1 /\ UNCHANGED <<queue, accepted>>
    /\ UNCHANGED <<batch, mode, inserting, stop, logs, settled>>

\* A handler logs a row; on overflow it is dropped and counted.
Log(row) ==
    /\ IF Len(queue) < QueueCap
       THEN /\ queue' = Append(queue, row) /\ accepted' = Append(accepted, row)
            /\ UNCHANGED dropped
       ELSE dropped' = dropped + 1 /\ UNCHANGED <<queue, accepted>>
    /\ UNCHANGED <<batch, mode, inserting, stop, logs, settled>>

\* A row is received; a full batch is flushed.
Take ==
    /\ mode \in {"run", "drain"} /\ ~inserting /\ queue # <<>>
    /\ queue' = Tail(queue)
    /\ batch' = Append(batch, Head(queue))
    /\ inserting' = (Len(batch) + 1 >= BatchRows)
    /\ UNCHANGED <<mode, stop, logs, dropped, accepted, settled>>

\* The ticker flushes what there is.
TickFlush ==
    /\ mode = "run" /\ ~inserting /\ batch # <<>>
    /\ inserting' = TRUE
    /\ UNCHANGED <<queue, batch, mode, stop, logs, dropped, accepted, settled>>

\* The goroutine sees the closed channel, perhaps before rows that wait.
SeeStop ==
    /\ mode = "run" /\ ~inserting /\ stop
    /\ mode' = "drain"
    /\ UNCHANGED <<queue, batch, inserting, stop, logs, dropped, accepted, settled>>

\* Mutant: the goroutine returns without the final flush.
DrainedUnflushed ==
    /\ mode = "drain" /\ ~inserting /\ queue = <<>>
    /\ mode' = "end"
    /\ UNCHANGED <<queue, batch, inserting, stop, logs, dropped, accepted, settled>>

\* Mutant: the goroutine waits for a tick that no longer comes.
DrainedWaiting ==
    /\ mode = "drain" /\ ~inserting /\ queue = <<>> /\ batch = <<>>
    /\ mode' = "end"
    /\ UNCHANGED <<queue, batch, inserting, stop, logs, dropped, accepted, settled>>

\* The channel is empty: a final flush, and the goroutine returns.
Drained ==
    /\ mode = "drain" /\ ~inserting /\ queue = <<>>
    /\ mode' = "end"
    /\ inserting' = (batch # <<>>)
    /\ UNCHANGED <<queue, batch, stop, logs, dropped, accepted, settled>>

\* Mutant: the batch is kept after a failed insert.
InsertedKept(rows) ==
    /\ inserting
    /\ logs' = logs \cup rows
    /\ inserting' = FALSE
    /\ batch' = IF rows = {} THEN batch ELSE <<>>
    /\ settled' = settled \o batch
    /\ UNCHANGED <<queue, mode, stop, dropped, accepted>>

\* InsertBatch returns: the transaction holds all rows, or none after an error,
\* which is only logged; the batch is over either way.
Inserted(rows) ==
    /\ inserting
    /\ logs' = logs \cup rows
    /\ inserting' = FALSE
    /\ batch' = <<>>
    /\ settled' = settled \o batch
    /\ UNCHANGED <<queue, mode, stop, dropped, accepted>>

InsertEnds == Inserted(ToSet(batch)) \/ Inserted({})

\* The daily retention deletes old rows, oldest first or not at all.
Retention ==
    /\ logs # {}
    /\ \E row \in logs : logs' = logs \ {row}
    /\ UNCHANGED <<queue, batch, mode, inserting, stop, dropped, accepted, settled>>

\* The first thing Close does, once.
StopLogger == stop' = TRUE /\ UNCHANGED <<queue, batch, mode, inserting, logs, dropped, accepted, settled>>

LoggerEnded == mode = "end" /\ ~inserting

Goroutine == Take \/ TickFlush \/ SeeStop \/ Drained \/ InsertEnds

\* The writer under any callers: rows are logged and the writer is stopped at
\* any time, rows even after that.
LogNext ==
    \/ \E row \in Rows : Log(row)
    \/ Goroutine \/ Retention \/ StopLogger

LogSpec == LogInit /\ [][LogNext]_logVars
-----------------------------------------------------------------------------
LogTypeOK ==
    /\ queue \in Seq(Rows) /\ Len(queue) <= QueueCap
    /\ batch \in Seq(Rows) /\ Len(batch) <= BatchRows
    /\ mode \in {"run", "drain", "end"}
    /\ inserting \in BOOLEAN /\ stop \in BOOLEAN
    /\ logs \subseteq Rows
    /\ dropped \in Nat
    /\ accepted \in Seq(Rows) /\ settled \in Seq(Rows)

\* Rows are settled once each and in the order they were accepted, across
\* batches, failed inserts and the drain: what was accepted is what was
\* settled, then the batch, then the queue (writer.go:75-118).
RowsInOrder == accepted = settled \o batch \o queue
=============================================================================
