# llm-switch in TLA+

llm-switch is a gateway between LLM clients and LLM vendors: one process that
resolves the model a client names to a list of upstream candidates, tries them
one after another with credentials from an account pool, relays the answer, and
is configured at runtime through an admin API backed by SQLite.

This directory specifies the parts of it where order and failure matter, checks
them with TLC on small instances and proves the main results with TLAPS. All
paths below are relative to `src/internal` unless they start with `cmd`.

## 1. The system

| component | state | operations |
|---|---|---|
| account pool (`gateway/accountpool.go`) | per account: rotation credit, cooldown deadline, backoff base; one mutex | `Pick`, `Report`, `Cooling` |
| data plane (`gateway/handler.go`, `capture.go`, `errors.go`) | per request: pinned snapshot, loop index, last status/body/account, capture; shares the pool | `serve`, `countTokens`, `embeddings`, `commit` |
| relays (`gateway/passthrough.go`, `conversion.go`) | per stream: line buffer, usage, idle timer, reader and renderer state | `relayStream`, `relayNonStream`, `relayConverted*` |
| routing snapshot (`engine/snapshot.go`) | the current snapshot (atomic pointer) and a version counter | `Rebuild`, `buildSnapshot`, `Resolve` |
| admin API (`api/*`) | none of its own; the database | CRUD handlers, `reloadAfterMutation` |
| store (`store/*`) | SQLite: one write connection, WAL readers | repositories, `DeleteProvider`, `DeleteChannel`, import and export, migrations |
| request log writer (`stats/writer.go`) | queue of 4096, buffer of 100, drop counter | `Log`, flush, `Close`, retention |
| payload writer (`payload/payload.go`) | queue, directories on disk | `Enqueue`, `write`, `PruneOlderThan`, `Close` |
| stream codecs (`protocol/*/sse.go`) | per stream: open block, ids, usage | `Feed`, `Finish`, `Frame`, `Done` |
| request and answer codecs (`protocol/*/codec.go`, `stream.go`) | none; the client's history travels in every request | `DecodeRequest`, `EncodeRequest`, `DecodeResponse`, `EncodeResponse` |
| process lifecycle (`daemon/*`, `cmd/llm-switch/main.go`, `upgrade`) | lock, pid file, run metadata, readiness pipe, installed and downloaded binary | start, spawn, stop, restart, upgrade, shutdown |
| admin sessions (`auth/admin.go`) | failure count, lock-out deadline, sessions | `Login`, `ChangePassword` |
| web UI, probes, HTTP helpers | none that outlives a call | |

How they interact. Every client request is a goroutine; it loads the snapshot
pointer once, then calls the pool (mutex) before and after each upstream call.
Every admin request is a goroutine too; it commits one or more transactions and,
if it answers below 400, the middleware rebuilds the snapshot before it returns.
The end of a client request puts a row and perhaps a payload on two queues, each
drained by a goroutine of its own. Nothing but the pool's mutex, the pointer,
the version counter, the queues and SQLite orders these goroutines.

What is hard, and the properties that make each part correct:

* *Pool*: callers mix account tables of different snapshots while accounts come
  and go; reports arrive in any order. Credit must be conserved and bounded,
  turns must follow the weights, cooldowns must stay within their cap, and a
  wait an upstream asked for should be kept.
* *Data plane*: several failures in a row, each of which leaves part of its
  trace in variables that the next attempt overwrites in part; a client that
  leaves at any moment. Failover only before the first byte; answer, log row and
  recorded payload agree with the attempts; accounts come from the snapshot the
  request pinned; every request ends.
* *Snapshot*: overlapping rebuilds with reads that interleave with commits. What
  a request wrote is in what its rebuild installs; versions differ; when all is
  quiet the snapshot is the database.
* *Store*: multi-step updates outside transactions (lost updates, dangling
  routes after a crash), reused ids.
* *Writers*: full queues, failed batches, drain at shutdown, retention.
* *Codecs*: every well-formed or truncated upstream stream becomes a well-formed
  client stream with the same content, verdict and cost; and a conversation that
  moves from one upstream to another, each with its own idea of what a message
  is, loses nothing on the way and obeys the rules of the one it reaches.
* *Admin login*: a throttle that is checked, let go of and updated later, around a
  password that changes meanwhile. Once it locks, no client guesses twice, and every
  verdict is about a password that was the admin's during the call.
* *Lifecycle*: one instance per data directory, pid files that name it, slow
  children, reused pids, downloads that break off.

## 2. The modules

    AccountPool <------------------ Gateway <-- MCGateway
        ^                              ^
    AccountShares <-- MCAccountPool    |
        ^                              |
    AccountPoolProofs <---------- GatewayProofs

    Snapshot <-- Staleness <-- MCSnapshot
                     ^
               SnapshotProofs

    LogWriter, PayloadWriter <-- Recording <-- MCRecording
                                     ^
                              RecordingProofs

    Routing, Tables <-- RouteStore <-- MCRouting
                            ^
                      RoutingProofs

    StreamReaders <-- StreamRenderers <-- StreamRelay <-- MCStream
                                              ^
                         RequestBodies <-- Conversation <-- MCConversation
                                              ^
                                      ConversationProofs

    Lifecycle <-- MCLifecycle
        ^
    LifecycleProofs

    AdminLogin <-- MCAdminLogin
        ^
    AdminLoginProofs

    Tables <-- ConfigTransfer <-- MCTransfer
                    :
                 Routing (instantiated over the tables of each installation)

An arrow points from a module to one that extends it. `MC*` modules give the
constants small values; `AccountShares` and `Staleness` add a variable of
observation, which no action reads; `*Proofs` hold the theorems.

### AccountPool

`current`, `cooldown` and `backoff` are the three fields of `accountState`.
Every operation holds the mutex throughout, so each is one step: `Pick(p, a)`
(returns account `a` of the table `p`) is `Rotate`, the smooth weighted
rotation, or `Fallback` when everything cools; `Report` has one operator per
outcome. A deadline is kept as the ticks left until it is reached, which makes
the zero time and a deadline in the past the same state and needs no clock;
`Tick` lets a tick pass. The map of states is total: an absent entry behaves
as a zero one. `PoolSpec` is the pool under any caller at all: it is the
abstract specification that the data plane is shown to implement.

Accounts are numbered, and a table is ordered by id, as `EnabledAccounts`
orders it; the tie-break of `Pick` is then "lowest id".

`AccountShares` counts the turns each account got since the pool was at rest,
as long as every pick is over one table with all of its accounts ready: what
the smooth rotation promises of shares can only be said of such a stretch.

### Gateway

One request is a goroutine with the control states in which it can block:
`pick` (top of the loop, pool mutex), `sent` (waiting for response headers),
`drain` (reading an error body), `relay` (relaying the committed answer). What
the handler does between two of them touches only its own variables and the
pool, so it is one step. The actions are the exits of these states:

| state | actions | code (`gateway/handler.go`) |
|---|---|---|
| `idle` | `Reject`, `Admit` | 195-248 |
| `pick` | `SkipPinned`, `NoAccounts`, `Send`, `Exhausted` | 257-303, 358-367 |
| `sent` | `Unreachable`, `Answers` | 303-316 |
| `drain` | `Drained` | 316-349 |
| `relay` | `RelayEnds` | 402-444 |

`HangUp` is the client (it cancels the request's context), `Publish` an admin
change, `Clock` time. `embeddings` and `countTokens` are the same machine with
a single attempt: they pick and send like `serve`, and neither report to the
pool nor fail over. Bodies are abstracted to the attempt they come from, so the
properties can say whose answer the client got; `history` lists the attempts
and is read by no action.

A response that the handler never wrote is 200 with no body, which is what
net/http makes of it.

### Snapshot

An admin request commits a sequence of transactions (`Commit`), may fail before
the next one (`Refused`, and then nothing is reloaded), and then rebuilds: one
`Read` per table in the order of `buildSnapshot`, `TakeNumber`, `Store`. A table
is the number of transactions that changed it; a view is what was read of
each. Reading the settings may fail unnoticed (`ReadDefaults`); any other read
may fail, and the rebuild is given up (`Abandon`). `Restart` loses the requests
in progress and starts from what is committed. `buildSnapshot` reads accounts
provider by provider and a few more tables; the tables of the model are those
whose interleaving differs (first, which may be missing, and two that one
handler commits together or one after the other). `Staleness` collects why the
snapshot may lag since it last did not: `refused`, `abandoned`, `defaults`,
`overtaken`.

### LogWriter, PayloadWriter, Recording

`LogWriter` is `stats/writer.go`: `Log` appends to a bounded queue or counts a
drop; the goroutine's select is `Take`, `TickFlush` and `SeeStop`, its drain
`Take` and `Drained`; an insert is under way between the step that fills or
flushes the batch and `Inserted`, which stores all rows or none. `accepted` and
`settled` record the order of rows and are read by no action.

`PayloadWriter` is `payload/payload.go`: `Names` is `DirFor`, which looks at the
disk, `Enqueue` the queue; the goroutine then makes one call at a time (`MakeDir`,
`WriteFile` or their failures) from the list `CallsOf`. A file is the request it was
written for. Retention is a process of its own, beside the goroutine: `os.RemoveAll` of a day
lists one directory (`PruneOpen`), unlinks what it listed file by file, in any order, where
each call may fail (`PruneFile`), and removes the directory if nothing is in it then
(`PruneDir`); otherwise it stays until the next day's run. It may begin at any time: with a
retention of one day a directory is pruned from midnight on, while records of the last request
before midnight are still being written. `sweep` is the directory it is in and what it
has yet to unlink. `torn`, which no action reads, collects the requests of which a body
could not be written, whose writer was at work in a directory while that was being
removed, or a file of which could not be unlinked. `Readable` and `BodyRead` are what `Read` accepts.

`Recording` puts the two behind the handlers (`NameDirectory`, `EnqueueRecord`,
`LogRow`, in the order of `logRequest`) and in front of main's shutdown:
`Shutdown` waits for the handlers or 30 seconds, `PayloadsClosed` and
`LogsClosed` for their goroutine or 10 seconds, and then the deferred calls of
the same two `Close` functions wait without a limit, that of the payload writer for
retention too. A server that fails goes
straight to the deferred calls (`ServeFails`). `abrupt` records that main went on
although a handler was running. A second signal kills the process at once,
which is a behaviour that stops, and adds no state.

### Routing, RouteStore

`Routing` reads the tables: what is live, what a name resolves to
(`PreferProtocols`, `Rank`, `Segment`, `RouteChain`, `Direct`, `Matched`,
`Resolve`, one operator per function of `engine/snapshot.go`), and what is
listed (`Listed`, `ContextVariants`, `DiscoveryVariants`, `AnthropicListing`).
The operators are over the current tables, so they are the snapshot a rebuild
makes when nothing else is under way; `Snapshot` says when it lags. A list of
candidates is a set whose elements carry their place: the code sorts by that
place and then by channel id. A name is a base with two decorations, which is
all the code asks of a string.

`RouteStore` writes the tables. No transaction spans two rows of an admin
request, so a handler that writes several rows, or looks up others first, is one
action per row: `CreateProvider`, `UpdateProvider`, `CreateModels` and
`SyncModels` leave a list of rows to `WriteRow`, which a failed write cuts short
unless it is only logged; `PutRoute`, one `CheckTarget` per target, `WriteRoute`;
`DeleteChannel` or `DeleteProvider`, `EraseRow` (with the cascade of the schema),
`ListRoutes`, one `RewriteRoute` per route that changes. The others are one
action: a handler that reads a row and writes it back is atomic here, so what
two edits of the same row lose to each other is not modelled. `Abort` ends a handler
between two of its actions. Ids are given out as SQLite does. `disturbed` says
that a handler ran beside another or ended after its row was gone; only
`RoutesRefer` reads it. Columns no step depends on (keys, headers, limits but for
the context window) are left out; `url` stands for those that an update of a
channel overwrites.

### Tables, ConfigTransfer

`Tables` holds what both writers of tables need: rows as functions, ids as SQLite
gives them out, and `dedupeRouteTargets`.

`ConfigTransfer` is `store/config_transfer.go` on several installations. An export
is `StartExport` and one `ReadTable` per list of rows, in the order of the code and
outside any transaction, so an import may land between two of them; after the
last list `Document` assembles the document, which names providers, protocols and
account labels where the tables have ids. An import is one transaction and one
action, `Import`: `WellFormed` and `ValidRoutes` are what `prepareImport` refuses
and drops, `AddProvider` (with `WithAccounts`, `WithChannels`, `WithModels`),
`AddRoute` and `AddClient` fold the sections into the tables, and a failed insert
leaves them as they were. Accounts are matched by key first, then by label, and a
row is matched once (`MatchOf`). A dry run rolls the same transaction back, so it is
no action. The documents are the last one exported and a few edited by hand.
A client key's hash is a digest and the case of its digits: the validation compares hashes
in lower case (`HashTwins`), and `AddClient` looks them up and stores them as they came. Of a
channel's extra headers there is whether they are a JSON object, which an import checks
(`BrokenHeaders`) and the channel API does not. Columns that travel verbatim and
white space around names are left out.
`Routes(db)` is `Routing` over the tables of one installation, so the properties
can ask what a restored configuration serves.

### StreamReaders, StreamRenderers, StreamRelay

`StreamReaders` and `StreamRenderers` are `protocol/*/sse.go`: one operator per
protocol and method (`FeedOpenAI`, `FinishResponses`, `RenderAnthropic`,
`DoneResponses`, ...), each from the state of the machine and one frame or event
to a `Step`, the machine after it and what it put out. A frame keeps its wire name
as `type`; where one protocol has several delta events that differ only in
wording, there is one. Text is a sequence of pieces, one for each fragment the
upstream generates, so the properties can say that none is lost, doubled or
moved.

`StreamRelay` is one answer on its way (`gateway/passthrough.go`,
`conversion.go`): `Line` is one turn of the loop of `relayStream` (`PassLine`, with the
usage tap `Tap`) or of `relayConvertedStream` (`ConvertLine`), `StreamEnds` what follows
the loop, `BodyRelayed` and `BodyUnread` the two relays of whole bodies, `IdleTimeout`
the watchdog, `HangUp` the client. The upstream says anything its protocol
allows (`Sends`), stops at any point, and reports an error at any point. `said`
and `seen` are what a client of the upstream's protocol and the actual client
have read so far: `Read` accumulates frames into blocks as an SDK would, and marks
a view `bad` when a frame breaks the protocol. These readers of the clients are
external to the repository, and so are the grammars of the upstreams. The time to
the first token and the copy for the payload recording only observe the loop and
are left out.

### RequestBodies, Conversation

`RequestBodies` is the other direction: `DecodeOpenAI`, `DecodeAnthropic` and
`DecodeResponses` give the canonical messages, `EncodeOpenAI`, `EncodeAnthropic` and
`EncodeResponses` the upstream's, and `PrepareUpstreamBody` puts them together as
`gateway/conversion.go` does: a body in the upstream's own protocol goes out as it
came. A message is one element of the body's array; an item of a Responses
`input` is one too. `wire` is false of a message whose content is not in the
form of its protocol, which merging for Anthropic makes of it.

`Conversation` composes the two directions: `Attempt` prepares the body for a
candidate (again for the next one, always from what the client sent), `Accepted`
begins the relay, `Relays` is any step of `StreamRelay`, and `Replies` is the client,
which puts the answer as it came to it into its history, answers every call in
any order, perhaps adds a text or a picture, and asks again, perhaps another
upstream. Instructions, sampling parameters, tool definitions, tool choice and the
error mark of a result are copied field by field and left out, but for the
requested format, on which the refusal depends.

### Lifecycle

Every instance and every command of the command line is a process of its own;
they meet in the lock, the pid file, the metadata file, and the installed and the
downloaded binary. Each system call another process can see is an action:
`TakeLock`, `Bind`, `WritePid`, `WriteRunMeta`, `Interrupted`, `Leave` of an instance
(`cmd/llm-switch/main.go`), `Look`, `Vacated`, `Signal`, `Acquire`, `GraceOver`,
`RemoveRunFiles` of `Stop`, `Spawn`, `Reported`, `DeadlineOver` of `SpawnArgs` (`daemon`),
`Create`, `Written`, `DownloadFails`, `Rename`, `RestartDaemon` of `upgrade`. `Crash`
ends an instance and `Quit` a command between any two of them. The kernel drops
the lock of a process that dies, and may give its pid to a stranger (`Reused`), which
the pid file and the metadata go on naming. `status` only reads. What the writers do
at shutdown is in `Recording`; here it is the one step from `draining` on.

### AdminLogin

`failures` and `lock` are the two fields the mutex of `auth/admin.go` covers; the
password and the sessions are in the database. `Login` is the check of the
throttle, `ReadHash` the query, `Wrong` and `Right` the comparison with what it does to
the throttle, `CreateSession` the write: between any two of them other handlers run,
the client may go or the database fail (`Fails`), and the process may stop
(`Crash`, which forgets the throttle) and start again with another seed (`Boot`).
`ChangePassword` takes the same path and counts nothing (`OldIsWrong`, `OldIsRight`,
`SetPasswordHash`). A session is checked when a handler begins and may end before it
does; it outlives a change of the password and a restart. Deadlines are ticks left,
as in the pool. `chosen`, `seen` and `late` are read by no action.

`OneGuessEach`: during one lock-out, however often late failures prolong it, a
client has at most one guess answered. `LockOutLasts`: only time and the end of the
process shorten a lock-out. `VerdictsAreCurrent`: what a login or a change is told
about a password is true of one that was the admin's during the call. The three are
proved; none of the runs repeats them. `MCAdminLogin` is their small instance (3
requests, 2 passwords, a limit of 2: 277 916 states), for whoever changes the module:
`tlc -config MCAdminLogin.cfg MCAdminLogin.tla`.

## 3. What is checked

| run | what it shows | bounds |
|---|---|---|
| `pool` | `CreditConserved`, `ClaimsAreBounded`, `SharesAreFair`: rotation under mixed tables and cooldowns | 3 accounts, 3 overlapping tables with equal, unequal and zero weights, cap 3 ticks, Retry-After absent, short and beyond the cap |
| `gateway` | failover, pinning, capture, log and answer of concurrent requests; `PoolSpec` as a refinement | 2 requests (interchangeable), 2 accounts, 2 snapshots: rotating, pinned and converted candidates, an empty provider, a limit below and above the list; statuses that commit, fail over and rate-limit |
| `gateway_live` | `EventuallyEnds`, with embeddings and count_tokens too | 2 requests, 2 snapshots, one of which resolves nothing |
| `snapshot` | staleness only for a known cause, own writes | 2 admins (interchangeable), 3 tables, revisions up to 2, handlers of one and of two transactions |
| `recording` | `RowsInOrder`, `ReadableIsWhole`, `ExitLeavesNothing`, `ShutdownEnds`: logging, recording and shutdown | 2 requests with ids of their own, queues of 1, batches of 2, one random suffix, recordings of one body, every call failing or not, retention at any time |
| `routing` | `RoutesRefer`, `PinsAreHonoured`, `SurfacesAgree`, `ListingLeadsHome`: what the routing tables mean while admins edit them | 2 admins (interchangeable), 3 requests from an installed database, a fresh one and one whose only name is a route with a pinned account; 2 providers, 3 channel ids, 1 account id, 2 protocols; the names `x`, `claude-x` and their marked forms; lists of one name to register or remove and of two providers to create a model on, windows unknown or large; chains of 1 and 2 targets, a stored one of 3 with a target of the old form |
| `transfer` | an export is accepted anywhere but for hash twins and broken headers, importing twice is importing once when the document tells its accounts apart, a restored document serves the same, accounts are merged without loss | 2 installations (interchangeable), 4 databases (two with the same providers under different ids, one with broken headers, one empty), 5 edited documents, 3 requests; exports of everything and of the routes alone, with and without keys |
| `conversation` | `ContentIsFaithful`, `ClientStreamWellFormed`, `VerdictIsTold`, `UsageIsLogged` of every answer, `NothingIsLost`, `UpstreamAccepts` of the request before and after it | 3 client and 3 upstream protocols, streamed and whole; answers of 2 fragments in up to 3 blocks, 2 of them calls, with two usages, one whose fields all differ and one of a prompt that came from the cache, all of it; one answer, then a request to each upstream |
| `lifecycle` | `OneWriter`, `PidFileIsTrue`, `BinaryIsWhole`: instances, commands, crashes, broken downloads | 2 process ids (interchangeable); 2 commands at once, one shell that starts, stops, restarts and upgrades and one that stops |
| `endpoint_address` | violated: switching an endpoint on or off erases its address | as `routing` |
| `idle_watchdog` | violated: a silent upstream is not aborted | 1 fragment, 1 block |
| `merged_messages` | violated: two messages of one role in a row reach Anthropic in no form it knows | 1 fragment, 2 blocks |

Why the bounds are enough: each property relates at most two requests through
the pool or two rebuilds through the pointer; a request makes at most two
attempts, which is the shortest history in which one attempt can overwrite
another's traces; with two accounts, one can cool while the other rotates, and
both can. Three accounts are needed only for tables that overlap without one
containing the other, which `pool` has. With two revisions a table can be read
before, between and after two commits. Two rows fill a queue of 1 or a batch of
2, and reach the drain in any split between queue, batch and insert. Three
requests are enough to delete a row, give its id out again and use it, with the
clean-up of the deletion interrupted or overtaken; listing collisions need a
name and its `claude-` form, each with and without a large context window.
Three requests of `transfer` are enough to export, import elsewhere and import
something else while an export is under way; the databases and the edited documents
hold every way two accounts can be confused: a shared label, a shared key, no
label, no key; and two of the databases hold the lower-case twin of a hash that one
document has in capitals.
A recording of one body is the shortest that can be readable without it: the body is unlinked
or fails, and `meta.json` comes later or stays. What several bodies add is proved (`ReadableRecordsAreWhole`
takes any `Captures`).
Two fragments and three blocks are enough to interleave two calls with each other
or with a text, to have a fragment on either side of a block's end, and to have
parallel results; the properties of a request relate one turn to the next, so one
answer and the request after it show what a longer history repeats. In the
`lifecycle`, two pids make one that is reused while a command remembers it, and two
commands one that clears up while the other starts or renames.
`CHECK_DEADLOCK FALSE` in the runs of the gateway, of recording, of routing, of
the transfer and of the conversation: all requests may be done, the process exits,
the relay ends.

The states of `PoolSpec` are infinite in `current` alone, and with the tables of
`pool` `ClaimsAreBounded` shows they stay within a round; no constraint is used
anywhere.
`MaxRevision` bounds the mutations of `snapshot` through the guard of `Begin`,
`MaxRequests` those of `routing` through the guard of `Request` and those of
`transfer` through `StartExport` and `Import`, and the id sets bound the rows of a
table. `MaxPieces`, `MaxBlocks` and `MaxTools` bound what an upstream says (`Sends`),
`MaxAnswers` the answers that are relayed (`Accepted`), and `Asks` what a shell is
asked: one shell upgrades, because two upgrades at once break `BinaryIsWhole`
(below).

### Fairness

`Gateway` assumes that the steps of a handler that wait for nobody are taken
(the Go scheduler, `WF(Runs)`), that a call whose context is cancelled returns
(net/http, `WF(cancelled /\ Hears)`), and that clients do not wait for ever on
an unanswered request (`WF(HangUp)`). Nothing is assumed of an upstream: it may
be silent for ever. The idle watchdog is not counted on: the context it
cancels is not the one the upstream call reads under.

`Recording` assumes that handlers past their request, both goroutines and main
are scheduled, and that inserts and file operations return (an insert has a
10 second limit). It assumes no end of a request: `ShutdownEnds` holds because
`srv.Shutdown` gives up. A directory retention has opened is gone through (`WF(PruneGoesOn)`), but
nothing says how many it opens; the run is over at some time and the next is a day away, and
in between the goroutine sees the stop. In the model that is `SF(DeferredPayloads)`: the
last `Close` returns if retention is between two directories again and again.

`StreamRelay` and `Conversation` assume only that a relay whose client is gone ends
(`WF(Aborts)`: the upstream call reads under the request's context). An upstream may
fall silent. `Snapshot`, `Routing`, `ConfigTransfer`, `Lifecycle` and `AdminLogin` have safety
properties only and assume nothing.

### Disagreements found

The three violated runs are real behaviours of the code that contradict one of
its own comments; `PROJECT.json` quotes each. `endpoint_address` takes one click on
the switch of an endpoint; `merged_messages` takes a chat client that answers two
tool calls of a model behind an Anthropic channel, or a Responses client whose
model said something before it called.

The others have no run of their own: a property excepts them by name, or
leaves them out.

**Relays and streams.** A client that hangs up during failover makes every remaining
candidate's account cool down, for each is tried with a dead context and reported
as a server error (`gateway/handler.go:307`; `Unreachable`). A committed, buffered
answer that cannot be read or converted writes nothing, so the client gets an
empty 200 (`gateway/passthrough.go:283`; `SuccessIsTold` says that at least the
row is no success). The usage of an OpenAI upstream's stream that is converted is
never logged: its reader gives the finish event from `Finish`, whose events
`relayConvertedStream` renders but does not take the usage from (`UsageRecorded` holds
but for this case, which `UsageIsLogged` excepts; `README.md:6` says the gateway "records usage for
every request"). When an Anthropic upstream reports a prompt that came from the cache,
all of it, in `message_delta` alone, a stream that is passed through is logged without
any input: the tap takes no `input_tokens` for a report that leaves them out
(`gateway/passthrough.go:103`; `WhollyCached`). A converted stream is not affected. A buffered answer of a Responses upstream that has calls is
decoded as an ended turn, so the client is not told that results are expected
(`CallsForgotten`). An error chunk of an OpenAI upstream ends an Anthropic client's
message, and the finish that the reader adds ends it again. Fragments of two
calls that cross (`Followable`) go to the block opened last unless the client reads chat
completions. A watchdog that has fired stays fired: a stream that resumes and
completes is logged as an idle timeout. A stream that breaks off is given the same
terminal frames as one that is complete.

**Conversations.** `NeedsMerging`, `SkipsNotes`, `SkipsImages`, `SpreadsCalls` and
`Hollow` name what the request codecs are known to get wrong, each needed for one of the two
properties to hold: messages of one role in a row are merged for Anthropic by
marshalling structs without JSON names (the violated run); a text or picture beside a
tool result is skipped for OpenAI (`protocol/openai/codec.go:286-292`); pictures in
tool results are dropped; the parallel calls of a Responses client become assistant messages of
their own, so that for OpenAI the tool messages do not "immediately follow the
assistant tool_calls turn" (`protocol/openai/codec.go:284`); and an assistant's turn
without a text becomes an item without content for a Responses channel, one of
nothing but reasoning an empty message for OpenAI. The doc of the Responses codec says
`EncodeRequest` is "Not used for routing", but `prepareUpstreamBody` calls it for
any other client on a Responses channel. "Synthesized reasoning must never reach upstream"
(`protocol/anthropic/codec.go:304`) holds of conversions, where no client but Anthropic's has any
reasoning left; but an Anthropic client sends back what an OpenAI upstream reasoned,
and an Anthropic channel gets that body as it is. Left out of the model, and seen in reading: a
request to disable parallel tool calls reaches Anthropic as
`disable_parallel_tool_use: false` and OpenAI not at all, and a chat client's
`response_format` is dropped.

**Lifecycle.** Two upgrades at once write the same `.exe.tmp`, and one can rename
what the other has just truncated (`upgrade/upgrade.go:256`; `README.md:128-130`
says the binary is verified and atomically renamed; with two shells that upgrade TLC finds
`BinaryIsWhole` violated). A download whose size neither the release nor the answer
gives is not verified (`upgrade/upgrade.go:249-264`): one that ends early without an error of
the connection is renamed. `Lifecycle` takes the size as known, and leaves that out. In `SpawnArgs` the case that kills a child at the deadline
cannot be reached, so the command waits for it without a limit (`daemon/daemon_unix.go:92-96`). A restart between
`WritePid` and `WriteRunMeta`, or after a failed write of the metadata, uses the arguments
of an earlier instance. A pid that was given to a stranger makes `status` and `RunningInstance`
say that an instance runs, and `Stop` may signal the stranger. Between READY and
`WritePid` a `stop` finds no pid, and a `stop` that holds the lock to clear up makes a
start at that moment fail.

**Snapshot and import.** Of two overlapping rebuilds the older can install last, and
stays until the next mutation (`engine/snapshot.go:394`; `StaleOnlyForCause` names it with
the other causes; `api/server.go:25-26` says of a reload that
"config changes take effect on the next request"). A client key whose
hash a document has in capitals is validated in lower case and stored as it came
(`store/config_transfer.go:848-866`), so it never matches, although the comment on the validation
(`store/config_transfer.go:372-376`) says that it normalizes in place, to "lowercase hashes": it
lower-cases copies, and `prepareImport` does not return them.

**Recordings.** `payload/payload.go:179` says "Missing or incomplete records yield ErrNotFound".
Three kinds of record are incomplete and readable, and `ReadableIsWhole` excepts them by name: one
of which a body could not be written, because `write` goes on to `meta.json`; one that is in
the directory retention is in at the moment, whose bodies may be unlinked before its
`meta.json`; and one that was still being written when retention listed its own
directory, or a file of which could not be unlinked: `os.RemoveAll` then gives up on a directory that is not
empty (`payload/payload.go:376`) and what is left of it stays for a day. Each exception is needed:
without it TLC finds `ReadableIsWhole` violated.

**Routing.** `Misleading` in `Routing` names what `ListingLeadsHome` has to
except. A model row named `x[1m]` is listed, and `Resolve` strips the mark and
finds nothing (routes of that form are refused, rows are not). A route without a
live target is listed, and when one of the targets has a live channel but pins an
account that is gone, its `claude-` form is listed too, because
`anthropicServed` (`engine/snapshot.go:174-191`) does not look at pins. And when `x` has a context window of a million tokens
and a `claude-x` without one is also listed, the only listed form of `x` is
`claude-x[1m]`, which `Resolve` serves as `claude-x`, although
`gateway/handler.go:617` says "the marked id routes to the same identity". In the same way
`RoutesRefer` excepts `disturbed` states: a deletion that is interrupted, or runs
beside another edit, leaves targets behind; deleting again answers 404, and
once the id is given out again a pin names an endpoint of another provider,
which `Resolve` follows.

**Transfer.** `ReimportChangesNothing` excepts documents that do not tell accounts apart
(`Unambiguous`), and an export of two accounts with one key is such a document:
imported where one of the labels exists with another key, it gives that row the
key and inserts the other; imported again, it finds both rows by key, in the order
of their ids, and swaps their labels, weights and switches. `importAccounts`
matches by key although the label would decide. `api/config_handlers_test.go:193`
says "Idempotence: importing the same document again updates everything" of a
document without such accounts.

Two contents of the tables are exported as they are and refused when imported, anywhere, and
`ExportsAreAccepted` and `RestoreServesTheSame` except exactly these: a hash in capitals
beside the same in lower case, which an import stored (above), is a "duplicate api key hash"
(`store/config_transfer.go:491-497`); and extra headers that begin with a brace and are no JSON, which the
channel API stored (`api/channels_handlers.go:170`), are no "JSON object"
(`store/config_transfer.go:416-421`). An admin whose tables hold one of them has backups that
cannot be restored, and is not told before.

A restored document does not bring back everything: `RestoreServesTheSame` compares
the places of the candidates, because candidates of one place are tried in the
order of channel ids, and those an import gives out anew. Pins that a document
cannot describe (`Describable`: a row that is gone, one of two accounts with one
label) come back as no pin or as the first account of that label.

**Smaller ones.** A report that comes late replaces the
longer wait an earlier Retry-After asked for (`Report` in `AccountPool` shows
it), and two recordings under one id of the client's choosing take the same
directory when the first has not been created yet (`Names` in `PayloadWriter`). Two
changes that both verified the old password both succeed, and the later write stands;
expired sessions stay in the database, for nothing calls `PurgeSessions`.

`Holder.Version` "reports the current snapshot version"
(`engine/snapshot.go:382`) but reads the counter, which may be ahead of
the installed snapshot; and `OutcomeOK` is documented as "2xx"
(`gateway/accountpool.go:18`) but is reported for every status that does not
fail over.

## 4. What is proved

TLAPS proves, for all values of the constants that satisfy the assumptions
(any number of requests, accounts, admins, instances and tables):

| theorem | of | argument |
|---|---|---|
| `PoolTypeCorrect` | `PoolSpec => []PoolTypeOK` | the type is inductive; the cap is applied on every path |
| `CreditIsConserved` | `PoolSpec => []CreditConserved` | what a turn gives to the ready accounts is what it takes from the favoured one; sums below |
| `SharesAreFairAlways` | `SharesSpec => []SharesAreFair` | credit is the share of the picks less the turns had, and the favoured account has some; below |
| `GatewayProofs!Invariance` | `Spec => []Inv` | below |
| `GatewayProofs!TypeCorrect`, `AccountsOfCandidates`, `SuccessesAreTold` | `Gateway`'s `TypeOK`, `AccountOfCandidate`, `SuccessIsTold` | consequences of `Inv` |
| `NoFailoverAfterFirstByte`, `CoolingIsAvoided` | action properties of `Spec` | `Inv` and a case split over `Next` |
| `AnswersSummarise`, `CapturesAreOfOneAttempt` | `AnswerSummarisesAttempts`, `CaptureOfOneAttempt` | `AttemptsInv`, below |
| `GatewayImplementsPool` | `Spec => PoolSpec` | each action is a `Pick`, a `Report` or a `Tick`, or leaves the pool alone |
| `RebuildInvariance`, `SnapshotTyped`, `VersionsAreUnique`, `OwnWritesAreInstalled` | `Snapshot`'s type, version and own-write properties | an inductive invariant that carries the revisions along the phases |
| `StaleForCauseAlways` | `WatchSpec => []StaleOnlyForCause` | `Explained`, below |
| `PinsHonouredAlways`, `SurfacesAgreeAlways` | `RouteStore`'s `PinsAreHonoured` and `SurfacesAgree` | both hold for every content of the tables: `routeChain` checks each reference when it is used; a pinned account is live for all channels of its provider or for none, so a preference cannot empty a segment |
| `RoutingProofs!TypeCorrect`, `ListingLeadsHomeAlways` | `RouteStore`'s `TypeOK`, `Routing`'s `ListingLeadsHome` | `StoreInv`, below; the listing needs no more than typed tables |
| `RoutesReferAlways` | `RouteStore`'s `RoutesRefer` | `ReferInv`, below |
| `LogInvariance`, `RecordingImplementsLog`, `RowsAreInOrder` | `Recording`'s `RowsInOrder` | the order is inductive for the log writer under any callers; every step of `Recording` is one of its steps or leaves it alone |
| `RecordInvariance`, `RecordingProofs!TypeCorrect`, `ReadableRecordsAreWhole` | `Recording`'s `TypeOK`, `ReadableIsWhole` | `WholeInv`, below |
| `ExitsLeaveNothing` | `ExitLeavesNothing` | `ExitInv`, below |
| `UsageIsLoggedAlways` | `StreamRelay`'s `UsageIsLogged`, of every answer of a `Conversation` | `UsageInv`, below |
| `ClientStreamWellFormedAlways` | `StreamRelay`'s `ClientStreamWellFormed`, of every answer of a `Conversation` | `FormInv`, below |
| `VerdictIsToldAlways` | `StreamRelay`'s `VerdictIsTold`, of every answer of a `Conversation` | `VerdictInv`, below |
| `LifecycleProofs!TypeCorrect`, `DatabaseHasOneWriter`, `PidFileNamesTheInstance` | `Lifecycle`'s `TypeOK`, `OneWriter` and `PidFileIsTrue` | one induction, below |
| `BinaryStaysWhole` | `BinaryIsWhole` | the upgrade that downloads owns the temporary file, below |
| `ThrottleHolds`, `NoStaleVerdict`, `LockOutsLast` | `AdminLogin`'s `OneGuessEach`, `VerdictsAreCurrent` and `LockOutLasts` | one induction: nobody is on the late list while nothing is locked, and every call in progress has seen the password that is stored |

**Sums.** The community modules define the sum over a set by a fold, and induction
over a fold is out of the provers' reach. `AccountPoolProofs` gets round it: the
subsets of a finite set are well-founded under inclusion, so a claim about every
subset that failed would fail of a smallest one. In this way `SumsExist` shows
that the fold adds something up, `SumsAny` that any element may be taken first,
and `SumsPlus` that what is added on a part is added to the sum. Credit is then
conserved because a turn adds the weights of the ready accounts and takes their
sum.

**Shares.** `SharesInv` says that while turns are counted over a table, an account's
credit is its weight times the picks, less a round for each turn it had, that
nobody else has any, and that no debt is a whole round. The last is where
the rule of the rotation enters: after the credits are given out they sum up to
a round, which is more than nothing, so the account that has most has some
(`FavouredHasCredit`). After a whole round nobody is ahead of its weight, and
since turns and weights both add up to the round, nobody is behind either. The same
does not hold within a round: five accounts with weights 12, 12, 3, 1 and 1 bring
one of them more than a turn behind, and callers that mix the tables
(3, 3, 3, 3), (4, 4, 4) and (6, 6) of four accounts bring one a claim of 13 when
a round is 12. `ClaimsAreBounded` is therefore a property of the tables of `pool`,
and stays with TLC.

**Data plane.** `Inv` is `TypeOK`, `TablesOK` (the answers
and rows, which no type bounds, are functions on the requests) and `RequestOK`
for each request. `AccountOfCandidate` alone is not inductive: that the
account in flight is the candidate's also needs that the loop's index is at
least 1 and in range of the pinned list, and that an unanswered request has no
row. `RequestOK` says that, and ties a written answer to the attempt being
relayed, from which `SuccessIsTold` follows. `AttemptsInv` adds what the
handler's locals remember of the attempts so far (`last` and `capture`): while the loop is
open, one turn of it per attempt, in the order of the candidates; `last` has the status
of the last attempt, the last body that may be passed on and the account used
last; and what has been captured of an upstream is of the attempt under way, of the one before, or
nothing. `history`, which no action reads, is what these are compared with.

**Staleness.** That the snapshot is current when nobody is at work is not inductive.
`Explained` is: without a cause, whatever the installed snapshot lacks was
committed last by a request that is still in progress. Such a request either
fails, which is a cause, or installs a view that it read after its commit; and a
view that overtakes none takes nothing back.

**Routing.** `StoreInv` is `TypeOK` and `Steady`: a handler in the middle of a chain or a list has
something left of it. `ReferInv` adds `Tied` (the schema deletes channels with their
provider) and `Undisturbed`, what a handler that ran alone has `Established`: the
targets checked so far refer to rows that are there; the channels a deletion
collected are all of the provider's; while the routes are
cleaned up, every target that refers to nothing is one of those the handler is
there for, and every route that is not whole is on its list. The tables are typed by
`TablesTyped`. Trying to prove `ListingLeadsHome` showed that an earlier form of it
was false of databases no run had: a listed form that leads nowhere may also be the mirror
of a dead route, as `anthropicServed` ignores pins. It is stated as it is now,
and the third database of `routing` reaches the case.

**Recording.** `WholeInv` follows a recording from the handler to the disk: in the queue or
under way it has a directory that `DirFor` gives, `meta.json` is the last call
to be made for it, and what has been written is in a directory of its request's id.
Each body of the recording under way is yet to be written or on disk, unless the directory is
gone or the request is in `torn` (`Underway`), so it is whole when `meta.json` makes it readable.
`Swept` is what a walk over files in any order needs: every file in the directory retention is in
is on its list or of a request in `torn`, and so is whoever writes into that directory. When the
list is empty, what is left is therefore of requests the property excepts; and a record
that was finished before has gone whole.
`ReadableRecordsAreWhole` has the hypothesis `IdsAreOwn`, that no two
requests bear one id: the middleware's own ids are random, but a client may choose one, and two
recordings of one id can be given the same directory (`payload/payload.go:163`), where
one would complete the other. `ExitInv` says what each phase of the shutdown has
found: the handlers are done, or main gave up on them; a writer that has ended
left its queue and its batch empty; and rows accepted and dropped are as many as
the handlers that have logged.

**Conversations.** The tokens of an answer pass through three places: what the upstream
has reported so far (`said.usage`), what the reader keeps of it until its finish event, and
what the relay has harvested. `UsageInv` ties them together after every line. `SaidUsage`
says what an upstream can have reported at each point of its stream, protocol by protocol
(`OpenAIFrames`, `AnthropicFrames` and `ResponsesFrames` show that each frame it may send next
is read as that report); `TapInv` what the tap has made of it when the stream is passed
through, and that a prompt it takes for missing is `WhollyCached`; `ReaderInv` and `FinishInv` what a
converting reader holds back and has handed over. `UsageSurvives`, that what a
protocol can say of a usage comes back from the wire unchanged and is never zero
throughout, needs that the input of a usage includes what was cached (`UsagesAssumption`). None of this
asks how long a stream is, so no induction over one is needed: a step reads one frame.

The form of what a client is sent does need one. A line of the upstream becomes several
events, an event several frames, and the client reads each frame on top of the ones before: folds
of folds. `AccumulatorExists` gets at a fold as the sums do, by the least index at which what is
claimed of it would fail; with it `ReadStep` and `RenderStep` take off the last element and `ReadOn`
reads one sequence after another. `Going` and `Over` then say how a
renderer stands to the view of its client while the stream lasts and after its end, for each of
the three client protocols: that the block the renderer believes open is the one that is open in the view,
that no index is used twice, that what is closed stays closed. `Ready` says which events may come next and
`Follows` what one does to them (`OpenAIFollows`, `AnthropicFollows`, `ResponsesFollows`).
`FromOpenAIUp`, `FromAnthropicUp` and `FromResponsesUp` tie both to what the upstream has said and to
what its reader remembers, and `OpenAIConveyed`, `AnthropicConveyed` and `ResponsesConveyed` show
that every frame an upstream may send next is read as events the renderer is ready for:
nine pairs of protocols from three facts about readers and three about renderers.
`FormInv` is `UsageInv`, this relation while the relay goes on, and one end when it
is over, however it ended (`FinishOwed`, `EndShown`). It leaves out the streams that are `Excused`: fragments
of calls that cross, for an Anthropic client, which the renderer would write to the wrong block, and the
finish that follows an OpenAI upstream's error. What is excused stays so (`ExcusedKept`), so nothing is
owed of such a stream later. Calls that cross are no exception for a Responses client: what it is
sent then is mixed up, but well-formed. TLC checked `FormInv` on the instance of `conversation` before it was proved.

What a client is told of an answer as a whole (why it stopped, what it cost, that it failed) is spread
over the stream differently in each protocol, and the verdict only compares the two ends of it.
`VerdictInv` says what is known in between. A stream that is passed through has shown what was
said. Of one that is converted the client was told as much as `Telling` says: an error as soon as it was
said; from an Anthropic upstream the stop and the usage once they came in a `message_delta`; from a Responses upstream
once the response is over; and nothing yet from an OpenAI upstream, whose reader keeps both until
the end, because the usage comes in a chunk of its own after the stop. `SaidForm` is what makes
the terms of the three protocols comparable: what an upstream gives as the reason it stopped agrees with whether
it called a tool, and `Why` is the canonical reason (for `completed`, which does not say, the reader has
counted the calls). `LineTells` shows that a line keeps this for every pair of protocols: an event of the
middle of a message is rendered as frames that say nothing of its end (`NothingTold`), a finish as frames
that say all of it (`EndTold`); and of calls, which a Responses client infers from the items it saw, one that is
told makes one there (`CallsShown`). `EndTells` adds what the reader owes at the end of the stream and the renderer's
own terminal frames, and `BodyTells` the answers that are not streamed, whose blocks are decoded in
the order of their keys (`KeysOfAll`, `BlocksDecoded`) and may be joined (`ItemsMade`), which neither makes nor
hides a call. Whoever was told all of it has the upstream's verdict, costs included (`SameAsSaid`). TLC checked
`VerdictInv` on the instance of `conversation` as well, with a bound on the number of keys.

**Lifecycle.** `Inv` is `TypeOK`, `OneWriter`, `PidFileIsTrue` and `NotYetListed` (no
instance counts as listed before it wrote the pid file). Neither of the two in the
middle is inductive alone: the pid file stays true because nobody touches it but under the lock,
and whoever clears up under the lock finds no other instance there, which is
`OneWriter`. This holds with any number of upgrades at once. `BinaryStaysWhole` does not: it has
the hypothesis `OneUpgrader`, without which it is false (above). With it, the
temporary file belongs to the command that downloads (`DownloadIsOwn`) and is whole when it is renamed.

`GatewayProofs!TypeCorrect`, `VersionsAreUnique` and the theorems of `AdminLogin`
are proved only; no run repeats them.

Assumptions, all named and evaluated by TLC on the runs: `AccountsAssumption` (the
accounts are finitely many numbers, a weight is any integer),
`DurationsAssumption` (each duration within the cap; Retry-After may be
absent), `SnapshotsAssumption`, `CallsAssumption`, `NoAccountAssumption` and `StatusesAssumption`;
`TablesAssumption` for `Snapshot`; `SelectionsAssumption`, `NamesAssumption` and
`AllowlistAssumption` for `ConfigTransfer`; `IdsArePositive` and `SurfacesArePreferences` for
`Routing`; `StoreAssumption` and `DatabasesAssumption` (a run starts from typed tables
whose references hold) for `RouteStore`; `CapsAssumption`, `RecordsAssumption` and
`RowsAssumption` for `Recording`; `NobodyAssumption` for `Lifecycle`; `Parameters` (limit and
lock-out are not zero) for `AdminLogin`, a hypothesis of its theorems;
`ProtocolsAssumption`, `UsagesAssumption` and `BoundsAssumption` for `StreamRelay`.

Only model-checked: `ClaimsAreBounded` (it is about one set of tables); the properties of
`ConfigTransfer` (what an import does to a document of any length is a fold of folds,
which would need induction over data); those of `StreamRelay` and `Conversation` but for
`UsageIsLogged`, `ClientStreamWellFormed` and `VerdictIsTold` (they compare what the fragments of whole streams
and whole histories of messages add up to); `EventuallyEnds` and
`ShutdownEnds` (liveness under fairness is out of TLAPS's reach); and the three violated properties.

## 5. Plan

Done, in order of what matters most to the program: `AccountPool` and `Gateway`;
`Snapshot`; `Routing` and `RouteStore`; `LogWriter`, `PayloadWriter` and `Recording`;
`ConfigTransfer`; the stream codecs and `StreamRelay`; `RequestBodies` and
`Conversation`; `Lifecycle` with upgrades; `AdminLogin`.

Next:

1. Migrations and seed data, with a crash between two.
2. Routes composed with the account pool: what an account whose id was given out
   again inherits.

Proofs to add: the type of `ConfigTransfer`, and of it what does not depend on the
length of a document (an import that is refused changes nothing, an
export under way is untouched by imports elsewhere); and for `StreamRelay`, from
`FormInv`, that a converted stream says what the upstream said (`ContentIsFaithful`), block by block.

## 6. Not modelled

* Migrations and seed data: see the plan. Each is one transaction.
* Instructions, sampling parameters, tool definitions and tool choice of a request;
  JSON, header hygiene, token estimates and formatting: data that no step depends on.
* Vendor probes and usage queries (`api/account_usage.go` and others): calls
  behind a short cache, for display only.
* Dashboard queries, settings and client keys beyond being tables of `Snapshot` and
  sections of a document: no step of another component depends on more of them.
* The expiry of client keys, compared when a snapshot is built: there is no clock
  in `Snapshot`.
* The web UI, HTTP helpers and flags: no state outlives the call.

`PROJECT.json` lists every component with its status.
