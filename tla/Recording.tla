----------------------------- MODULE Recording -----------------------------
(***************************************************************************)
(* The end of a request and the end of the process: handlers that record   *)
(* their payload and log their row (internal/gateway/handler.go and        *)
(* capture.go), the two writers, and the order in which main stops them    *)
(* (cmd/llm-switch/main.go, run).                                          *)
(*                                                                         *)
(* Serving a request is one state, in which it may stay for ever.  main    *)
(* gives the handlers 30 seconds and the writers 10; a time that passes is *)
(* a step that may be taken at any moment.                                 *)
(***************************************************************************)
EXTENDS LogWriter, PayloadWriter

VARIABLES
    handler,         \* idle, serve, name, enqueue, log, done
    main,            \* serve, shutdown, payloads, logs, deferLogs, deferPayloads, exited
    abrupt           \* main went on although handlers were running

ASSUME RowsAssumption == Requests \subseteq Rows

vars == <<logVars, payloadVars, handler, main, abrupt>>

Init ==
    /\ LogInit /\ PayloadInit
    /\ handler = [r \in Requests |-> "idle"]
    /\ main = "serve" /\ abrupt = FALSE
-----------------------------------------------------------------------------
\* Handlers run until the process exits.
Moves(r, from, to) ==
    /\ handler[r] = from /\ main # "exited"
    /\ handler' = [handler EXCEPT ![r] = to]
    /\ UNCHANGED <<main, abrupt>>

Arrive(r) ==
    /\ main = "serve"
    /\ Moves(r, "idle", "serve")
    /\ UNCHANGED <<logVars, payloadVars>>

\* The request is over: nothing is recorded, or the bodies it captured.
Serve(r) ==
    \/ Moves(r, "serve", "log") /\ UNCHANGED <<logVars, payloadVars>>
    \/ /\ Moves(r, "serve", "name")
       /\ \E bodies \in Captures : parts' = [parts EXCEPT ![r] = bodies]
       /\ UNCHANGED <<logVars, records, path, disk, writing, todo, scribe, recordStop,
                      recordsDropped, sweep, torn>>

NameDirectory(r) ==
    /\ \E d \in Name(r) :
          /\ Moves(r, "name", IF d = NoPath THEN "log" ELSE "enqueue")
          /\ Names(r, d)
    /\ UNCHANGED <<logVars, parts>>

EnqueueRecord(r) == Moves(r, "enqueue", "log") /\ Enqueue(r) /\ UNCHANGED logVars

LogRow(r) == Moves(r, "log", "done") /\ Log(r) /\ UNCHANGED payloadVars
-----------------------------------------------------------------------------
WriterStep ==
    /\ main # "exited"
    /\ \/ (Goroutine \/ Retention) /\ UNCHANGED payloadVars
       \/ (Writes \/ Prunes) /\ UNCHANGED logVars
    /\ UNCHANGED <<handler, main, abrupt>>

AllDone == \A r \in Requests : handler[r] \in {"idle", "done"}

MainGoes(from, to) == main = from /\ main' = to /\ UNCHANGED handler

\* SIGTERM: the listener is closed and the handlers are waited for.
Signal ==
    /\ MainGoes("serve", "shutdown")
    /\ UNCHANGED <<logVars, payloadVars, abrupt>>

\* srv.Shutdown returns, when the handlers have or after 30 seconds, and
\* payloads.Close begins.
Shutdown ==
    /\ MainGoes("shutdown", "payloads")
    /\ abrupt' = ~AllDone
    /\ StopPayloads /\ UNCHANGED logVars

\* payloads.Close returns, when its goroutine has or the time is up, and
\* gw.Log.Close begins.
PayloadsClosed ==
    /\ MainGoes("payloads", "logs")
    /\ StopLogger /\ UNCHANGED <<payloadVars, abrupt>>

\* gw.Log.Close returns; run returns, and its deferred calls begin.
LogsClosed ==
    /\ MainGoes("logs", "deferLogs")
    /\ UNCHANGED <<logVars, payloadVars, abrupt>>

\* The server fails: run returns at once, and the deferred gw.Log.Close begins.
ServeFails ==
    /\ MainGoes("serve", "deferLogs")
    /\ abrupt' = ~AllDone
    /\ StopLogger /\ UNCHANGED payloadVars

\* The deferred gw.Log.Close has no time limit; payloads.Close is next.
DeferredLogs ==
    /\ LoggerEnded
    /\ MainGoes("deferLogs", "deferPayloads")
    /\ StopPayloads /\ UNCHANGED <<logVars, abrupt>>

\* Nor has payloads.Close, which waits for retention too; the database is
\* closed and the process exits.
DeferredPayloads ==
    /\ scribe = "end" /\ sweep.dir = NoPath
    /\ MainGoes("deferPayloads", "exited")
    /\ UNCHANGED <<logVars, payloadVars, abrupt>>

Stops == Shutdown \/ PayloadsClosed \/ LogsClosed \/ DeferredLogs \/ DeferredPayloads

HandlerStep(r) == NameDirectory(r) \/ EnqueueRecord(r) \/ LogRow(r)

Next ==
    \/ \E r \in Requests : Arrive(r) \/ Serve(r) \/ HandlerStep(r)
    \/ WriterStep
    \/ Signal \/ ServeFails \/ Stops

\* The goroutines run and the calls they make return.  A run of retention is
\* over at some time and the next is a day away, so that its goroutine, which
\* may open one directory after another, sees the stop in between (SF).
\* Nothing is assumed of clients, of upstreams or of the signal.
Fairness ==
    /\ \A r \in Requests : WF_vars(HandlerStep(r))
    /\ WF_vars(main # "exited" /\ Goroutine /\ UNCHANGED <<payloadVars, handler, main, abrupt>>)
    /\ WF_vars(main # "exited" /\ Writes /\ UNCHANGED <<logVars, handler, main, abrupt>>)
    /\ WF_vars(main # "exited" /\ PruneGoesOn /\ UNCHANGED <<logVars, handler, main, abrupt>>)
    /\ WF_vars(Stops) /\ SF_vars(DeferredPayloads)

Spec == Init /\ [][Next]_vars /\ Fairness
-----------------------------------------------------------------------------
TypeOK ==
    /\ LogTypeOK /\ PayloadTypeOK
    /\ handler \in [Requests -> {"idle", "serve", "name", "enqueue", "log", "done"}]
    /\ main \in {"serve", "shutdown", "payloads", "logs", "deferLogs", "deferPayloads", "exited"}
    /\ abrupt \in BOOLEAN

\* Both writers drain before the process exits: unless main gave up waiting
\* for handlers, every request that was served has its row settled or counted
\* as dropped, and no recording is left unwritten (main.go:388-396).
ExitLeavesNothing ==
    main = "exited" /\ ~abrupt =>
        /\ Len(settled) + dropped = Cardinality({r \in Requests : handler[r] = "done"})
        /\ records = <<>> /\ writing = NoRecord
        /\ AllDone

\* A shutdown ends, however slow handlers are and however many rows and
\* recordings wait.
ShutdownEnds == main = "shutdown" ~> main = "exited"
=============================================================================
