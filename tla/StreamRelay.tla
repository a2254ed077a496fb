----------------------------- MODULE StreamRelay -----------------------------
(***************************************************************************)
(* One answer of an upstream relayed to the client (gateway/passthrough.go *)
(* and conversion.go), from the status line to the end of the relay: as a  *)
(* stream, line by line, or as a whole body; passed through or converted.  *)
(*                                                                         *)
(* said and seen are what the upstream has sent and what the client has    *)
(* received, each as a client of its own protocol reads it (a view).       *)
(***************************************************************************)
EXTENDS StreamRenderers, FiniteSets

CONSTANTS
    Upstreams,   \* protocols of the candidate's channel
    Clients,     \* protocols of the client surface
    Usages,      \* what a conversation may cost, in canonical usage
    MaxPieces,   \* bound: fragments the upstream generates
    MaxBlocks,   \* bound: blocks or items of an answer
    MaxTools     \* bound: tool calls among them

ASSUME ProtocolsAssumption == Upstreams \subseteq Protocols /\ Clients \subseteq Protocols
ASSUME UsagesAssumption ==
    \A u \in Usages : /\ u \in [input : Nat, output : Nat, cacheRead : Nat, cacheWrite : Nat]
                      /\ u # NoUsage
                      /\ u.input >= u.cacheRead + u.cacheWrite
ASSUME BoundsAssumption == {MaxPieces, MaxBlocks, MaxTools} \subseteq Nat

VARIABLES
    route,      \* who relays what to whom
    said,       \* the upstream's answer so far
    reader, renderer,
    seen,       \* the client's view of it
    usage,      \* what will be logged
    cancelled,  \* the client's context is cancelled
    fired,      \* the idle watchdog has cancelled its context
    result      \* how the relay ended, "none" while it runs

vars == <<route, said, reader, renderer, seen, usage, cancelled, fired, result>>

Up == route.up
Client == route.client
Native == Up = Client
-----------------------------------------------------------------------------
(***************************************************************************)
(* A client of a protocol accumulates frames into blocks: the reasoning    *)
(* and the text of a chat completion under -2 and -1, its tool calls under *)
(* their index; Anthropic's blocks and the items of a response under       *)
(* theirs.                                                                 *)
(***************************************************************************)
View == [blocks |-> <<>>, at |-> 0, crossed |-> FALSE, started |-> FALSE, stop |-> "none",
         usage |-> NoUsage, error |-> FALSE, ends |-> 0, bad |-> FALSE]

Has(v, key) == key \in DOMAIN v.blocks
Open(v) == {key \in DOMAIN v.blocks : v.blocks[key].open}

\* A block begins, or an item does.
Begun(v, f) ==
    IF Has(v, f.index) THEN [v EXCEPT !.bad = TRUE]
    ELSE [v EXCEPT !.blocks = With(@, f.index, [kind |-> f.kind, id |-> f.id, pieces |-> f.pieces,
                                                open |-> TRUE]),
                   !.at = f.index]

\* A fragment must be for an open block of its kind.  Fragments of a tool call
\* cross when another block has been written to in between.
Extended(v, key, f) ==
    IF ~(Has(v, key) /\ v.blocks[key].open /\ v.blocks[key].kind = f.kind)
    THEN [v EXCEPT !.bad = TRUE]
    ELSE [v EXCEPT !.blocks[key].pieces = @ \o f.pieces, !.at = key,
                   !.crossed = @ \/ (f.kind = "tool_use" /\ v.at # key)]

\* An item that is done repeats its fragments, or brings the ones not streamed.
Closed(v, f) ==
    IF f.index \notin Open(v) THEN [v EXCEPT !.bad = TRUE]
    ELSE LET block == v.blocks[f.index] IN
         [v EXCEPT !.blocks[f.index] = [block EXCEPT !.open = FALSE,
                                                     !.pieces = IF @ = <<>> THEN f.pieces ELSE @],
                   !.crossed = @ \/ (block.kind = "tool_use" /\ v.at # f.index),
                   !.bad = @ \/ ~(block.pieces = <<>> \/ f.pieces \in {<<>>, block.pieces})]

Ended(v, f) ==
    [v EXCEPT !.stop = f.stop, !.usage = f.usage, !.ends = @ + 1, !.bad = @ \/ Open(v) # {}]

ReadOpenAI(v, f) ==
    LET key == CASE f.kind = "thinking" -> -2 [] f.kind = "text" -> -1 [] OTHER -> f.index
        w   == IF f.kind = "none" THEN v
               ELSE IF Has(v, key) THEN Extended(v, key, f) ELSE Begun(v, [f EXCEPT !.index = key])
    IN  CASE f.type = "chunk" ->
                [w EXCEPT !.started = TRUE,
                          !.stop = IF f.stop = "none" THEN @ ELSE f.stop,
                          !.usage = IF f.usage = NoUsage THEN @ ELSE f.usage,
                          !.bad = @ \/ (f.stop # "none" /\ v.stop # "none")]
          [] f.type = "error" -> [v EXCEPT !.error = TRUE]
          [] f.type = "[DONE]" -> [v EXCEPT !.ends = @ + 1]
          [] OTHER -> [v EXCEPT !.bad = TRUE]

ReadAnthropic(v, f) ==
    CASE f.type = "ping" -> v
      [] f.type = "message_start" -> [v EXCEPT !.started = TRUE, !.usage = f.usage, !.bad = @ \/ v.started]
      [] f.type = "content_block_start" ->
            IF Open(v) = {} THEN Begun(v, f) ELSE [v EXCEPT !.bad = TRUE]
      [] f.type = "content_block_delta" -> Extended(v, f.index, f)
      [] f.type = "content_block_stop" -> Closed(v, f)
      [] f.type = "message_delta" ->
            [v EXCEPT !.stop = f.stop, !.usage = MergeUsage(@, f.usage),
                      !.bad = @ \/ v.stop # "none" \/ Open(v) # {}]
      [] f.type = "error" -> [v EXCEPT !.error = TRUE]
      [] f.type = "message_stop" -> [v EXCEPT !.ends = @ + 1, !.bad = @ \/ Open(v) # {}]
      [] OTHER -> [v EXCEPT !.bad = TRUE]

ReadResponses(v, f) ==
    CASE f.type = "response.created" -> [v EXCEPT !.started = TRUE, !.bad = @ \/ v.started]
      [] f.type = "response.output_item.added" -> Begun(v, f)
      [] f.type = "response.delta" -> Extended(v, f.index, f)
      [] f.type = "response.output_item.done" -> Closed(v, f)
      [] f.type \in {"response.completed", "response.incomplete"} -> Ended(v, f)
      [] f.type \in {"response.failed", "error"} -> [v EXCEPT !.error = TRUE, !.ends = @ + 1]
      [] OTHER -> [v EXCEPT !.bad = TRUE]

\* Nothing may follow the end of a message.
Read(p, v, f) ==
    IF v.ends > 0 THEN [v EXCEPT !.bad = TRUE, !.ends = @ + 1]
    ELSE CASE p = "openai" -> ReadOpenAI(v, f)
           [] p = "anthropic" -> ReadAnthropic(v, f)
           [] p = "responses" -> ReadResponses(v, f)

ReadAll(p, v, fs) == FoldLeft(LAMBDA w, f : Read(p, w, f), v, fs)

\* What was said: the texts, and the tool calls with their arguments.
Keys(v) ==
    CHOOSE keys \in [1..Cardinality(DOMAIN v.blocks) -> DOMAIN v.blocks] :
        \A i, k \in DOMAIN keys : i < k => keys[i] < keys[k]
OfKind(v, kind) == SelectSeq(Keys(v), LAMBDA key : v.blocks[key].kind = kind)
TextOf(v, kind) == FlattenSeq([i \in DOMAIN OfKind(v, kind) |-> v.blocks[OfKind(v, kind)[i]].pieces])
ToolsOf(v) ==
    [i \in DOMAIN OfKind(v, "tool_use") |->
        LET block == v.blocks[OfKind(v, "tool_use")[i]] IN [id |-> block.id, pieces |-> block.pieces]]

Content(v) == [text |-> TextOf(v, "text"), thinking |-> TextOf(v, "thinking"), tools |-> ToolsOf(v)]

\* A tool was called.
Called(v) == \E key \in DOMAIN v.blocks : v.blocks[key].kind = "tool_use"

\* How it ended: cut short, waiting for tool results, or broken by an error.
Verdict(p, v) ==
    [error |-> v.error,
     cut |-> v.stop \in {"length", "max_tokens", "incomplete"},
     asks |-> \/ v.stop \in {"tool_calls", "tool_use"}
              \/ v.stop = "completed" /\ Called(v),
     input |-> ToIR(p, v.usage).input, output |-> v.usage.output, cacheRead |-> v.usage.cacheRead]

\* The upstream has ended its message, or reported an error instead.
Finished(v) == v.ends > 0 \/ v.error
-----------------------------------------------------------------------------
(***************************************************************************)
(* What an upstream may send next, under the rules of its protocol.        *)
(***************************************************************************)
Said(v) == FoldFunction(LAMBDA block, n : n + Len(block.pieces), 0, v.blocks)
Fresh(v) == IF Said(v) < MaxPieces THEN {<<Said(v) + 1>>} ELSE {}
Count(v) == Cardinality(DOMAIN v.blocks)
Room(v, kind) == Count(v) < MaxBlocks /\ (kind = "tool_use" => Len(ToolsOf(v)) < MaxTools)
NextId(v, kind) == IF kind = "tool_use" THEN Len(ToolsOf(v)) + 1 ELSE 0
Kinds == {"text", "thinking", "tool_use"}

FromOpenAI(v) ==
    LET calls == {key \in DOMAIN v.blocks : key >= 0}
        room  == Room(v, "tool_use")
    IN  IF v.error THEN {}
        ELSE IF ~v.started THEN {Frame("chunk"), Frame("error")}
        ELSE IF v.stop = "none"
        THEN {Part("chunk", 0, kind, 0, ps) : kind \in {"text", "thinking"}, ps \in Fresh(v)}
             \cup {Part("chunk", Cardinality(calls), "tool_use", Cardinality(calls) + 1, ps) :
                      ps \in IF room THEN Fresh(v) \cup {<<>>} ELSE {}}
             \cup {Part("chunk", key, "tool_use", 0, ps) : key \in calls, ps \in Fresh(v)}
             \cup {Closing("chunk", stop, NoUsage) :
                      stop \in {"length", IF calls = {} THEN "stop" ELSE "tool_calls"}}
             \cup {Frame("error")}
        ELSE IF v.usage = NoUsage
        THEN {Closing("chunk", "none", ToWire("openai", u)) : u \in Usages}
        ELSE {Frame("[DONE]")}

\* The usage comes with message_start, or all of it with message_delta.
InStart(u) == [ToWire("anthropic", u) EXCEPT !.output = 0]
FromAnthropic(v) ==
    IF v.error THEN {}
    ELSE IF ~v.started
    THEN {[Frame("message_start") EXCEPT !.usage = u] : u \in {NoUsage} \cup {InStart(w) : w \in Usages}}
    ELSE IF v.stop # "none" THEN {Frame("message_stop")}
    ELSE {Frame("ping"), Frame("error")}
         \cup (UNION {{Part("content_block_delta", key, v.blocks[key].kind, 0, ps) : ps \in Fresh(v)}
                      \cup {Part("content_block_stop", key, "none", 0, <<>>)} : key \in Open(v)})
         \cup IF Open(v) # {} THEN {}
              ELSE {Part("content_block_start", Count(v), kind, NextId(v, kind), <<>>) :
                       kind \in {k \in Kinds : Room(v, k)}}
                   \cup {Closing("message_delta", stop,
                                 IF v.usage = NoUsage THEN ToWire("anthropic", u)
                                 ELSE [NoUsage EXCEPT !.output = u.output]) :
                            stop \in {"max_tokens", IF Called(v) THEN "tool_use" ELSE "end_turn"},
                            u \in {w \in Usages : v.usage \in {NoUsage, InStart(w)}}}

\* Tool calls may be open side by side, a text or a reasoning item by itself.
Beside(v, kind) == Open(v) = {} \/ (kind = "tool_use" /\ \A key \in Open(v) : v.blocks[key].kind = kind)

FromResponses(v) ==
    IF v.error THEN {}
    ELSE IF ~v.started THEN {Frame("response.created")}
    ELSE {Frame("response.failed"), Frame("error")}
         \cup {Part("response.output_item.added", Count(v), kind, NextId(v, kind), <<>>) :
                  kind \in {k \in Kinds : Room(v, k) /\ Beside(v, k)}}
         \cup (UNION {{Part("response.delta", key, v.blocks[key].kind, 0, ps) : ps \in Fresh(v)}
                      \cup {Part("response.output_item.done", key, v.blocks[key].kind, v.blocks[key].id, ps) :
                               ps \in IF v.blocks[key].pieces = <<>> /\ v.blocks[key].kind = "tool_use"
                                      THEN Fresh(v) \cup {<<>>} ELSE {v.blocks[key].pieces}} :
                         key \in Open(v)})
         \cup IF Open(v) # {} THEN {}
              ELSE {Closing(end.type, end.stop, ToWire("responses", u)) : u \in Usages,
                       end \in {Closing("response.completed", "completed", NoUsage),
                                Closing("response.incomplete", "incomplete", NoUsage)}}

Sends(p, v) ==
    IF v.ends > 0 THEN {}
    ELSE CASE p = "openai" -> FromOpenAI(v)
           [] p = "anthropic" -> FromAnthropic(v)
           [] p = "responses" -> FromResponses(v)
-----------------------------------------------------------------------------
\* A converted stream begins with the frames of its renderer's Start.
Preamble == ReadAll(Client, View, IF route.stream /\ ~Native THEN StartFrames(Client) ELSE <<>>)

\* The status line and the preamble are out.
Init ==
    /\ route \in [up : Upstreams, client : Clients, stream : BOOLEAN]
    /\ said = View
    /\ reader = Reader[Up]
    /\ renderer = Renderer[Client]
    /\ seen = Preamble
    /\ usage = NoUsage
    /\ cancelled = FALSE
    /\ fired = FALSE
    /\ result = "none"

\* Mutant: the last usage seen counts, all of it.
TapLast(p, u, f) == IF f.usage = NoUsage THEN u ELSE ToIR(p, f.usage)

\* The usage harvested from a line that is passed through.
Tap(p, u, f) ==
    LET w == ToIR(p, f.usage) IN
    IF f.usage = NoUsage THEN u
    ELSE CASE f.type = "message_start" -> [w EXCEPT !.output = u.output]
           [] f.type = "message_delta" ->
                 LET read  == IF w.cacheRead > 0 THEN w.cacheRead ELSE u.cacheRead
                     wrote == IF w.cacheWrite > 0 THEN w.cacheWrite ELSE u.cacheWrite
                 IN  [output |-> w.output, cacheRead |-> read, cacheWrite |-> wrote,
                      input |-> IF f.usage.input > 0 THEN f.usage.input + read + wrote ELSE u.input]
           [] OTHER -> w

\* relayStream handles one line; a write fails only once the client is gone.
PassLine(f, lost) ==
    /\ usage' = Tap(Up, usage, f)
    /\ IF lost THEN result' = "unwritten" /\ UNCHANGED seen
       ELSE seen' = Read(Client, seen, f) /\ UNCHANGED result
    /\ UNCHANGED <<reader, renderer>>

FinishUsage(evs, u) ==
    LET last == SelectLastInSeq(evs, LAMBDA ev : ev.kind = "finish")
    IN  IF last = 0 THEN u ELSE evs[last].usage

\* sseDataPayload keeps the [DONE] marker from the reader.
Fed(f) == IF f.type = "[DONE]" THEN Step(reader, <<>>) ELSE Feed(Up, reader, f)

\* relayConvertedStream handles one line.
ConvertLine(f, lost) ==
    LET evs == Fed(f)
        shown == RenderAll(Client, renderer, evs.out)
    IN  /\ reader' = evs.machine
        /\ renderer' = shown.machine
        /\ usage' = FinishUsage(evs.out, usage)
        /\ IF lost /\ shown.out # <<>> THEN result' = "unwritten" /\ UNCHANGED seen
           ELSE seen' = ReadAll(Client, seen, shown.out) /\ UNCHANGED result

\* The upstream sends a line and the relay, which waits for it, handles it.
Line(f, lost) ==
    /\ route.stream /\ result = "none"
    /\ f \in Sends(Up, said)
    /\ lost => cancelled
    /\ said' = Read(Up, said, f)
    /\ IF Native THEN PassLine(f, lost) ELSE ConvertLine(f, lost)
    /\ UNCHANGED <<route, cancelled, fired>>

\* What a read error means, asked in this order.
Classified(end) ==
    IF cancelled THEN "unwritten" ELSE IF fired THEN "idle"
    ELSE IF end = "eof" THEN "complete" ELSE "unread"

\* The read fails: the stream is over (eof), or broken.  A converted stream is
\* given its terminal frames either way.
StreamEnds(end) ==
    /\ route.stream /\ result = "none"
    /\ result' = Classified(end)
    /\ IF Native THEN UNCHANGED <<reader, renderer, seen>>
       ELSE LET evs   == FinishRead(Up, reader)
                shown == RenderAll(Client, renderer, evs.out)
                done  == Done(Client, shown.machine)
            IN  /\ reader' = evs.machine
                /\ renderer' = done.machine
                /\ \/ seen' = ReadAll(Client, seen, shown.out \o done.out)
                   \/ cancelled /\ UNCHANGED seen
    /\ UNCHANGED <<route, said, usage, cancelled, fired>>
-----------------------------------------------------------------------------
\* The blocks of a buffered answer; a Responses item without text is skipped.
DecodeBlocks(p, v) ==
    FoldLeft(LAMBDA blocks, key :
                IF p = "responses" /\ v.blocks[key].kind # "tool_use" /\ v.blocks[key].pieces = <<>>
                THEN blocks
                ELSE Append(blocks, v.blocks[key]),
             <<>>, Keys(v))

\* A buffered answer as the canonical response.
DecodeResponse(p, v) ==
    IF v.error THEN [blocks |-> <<>>, stop |-> "end_turn", usage |-> NoUsage, error |-> TRUE]
    ELSE [blocks |-> DecodeBlocks(p, v), stop |-> StopFrom(p, v.stop), usage |-> ToIR(p, v.usage), error |-> FALSE]

OfBlocks(kind, blocks) == SelectSeq(blocks, LAMBDA block : block.kind = kind)

\* A chat completion has one text, one reasoning and a list of calls.
EncodeMessage(blocks) ==
    LET calls == OfBlocks("tool_use", blocks)
        Joined(kind) == FlattenSeq([i \in DOMAIN OfBlocks(kind, blocks) |-> OfBlocks(kind, blocks)[i].pieces])
        Whole(kind) == [kind |-> kind, id |-> 0, pieces |-> Joined(kind), open |-> FALSE]
        texts == {key \in {-2, -1} : Joined(IF key = -2 THEN "thinking" ELSE "text") # <<>>}
    IN  [key \in texts \cup {i - 1 : i \in DOMAIN calls} |->
            CASE key = -2 -> Whole("thinking") [] key = -1 -> Whole("text") [] OTHER -> calls[key + 1]]

\* A run of texts is one item of a response, and so is a run of reasoning.
OutputItems(blocks) ==
    FoldLeft(LAMBDA items, block :
                IF items # <<>> /\ block.kind # "tool_use" /\ items[Len(items)].kind = block.kind
                THEN [items EXCEPT ![Len(items)].pieces = @ \o block.pieces]
                ELSE Append(items, block),
             <<>>, blocks)

\* And back: a body is a message that has ended, or an error.
EncodeResponse(p, resp) ==
    IF resp.error THEN [View EXCEPT !.error = TRUE, !.ends = 1]
    ELSE LET items == IF p = "responses" THEN OutputItems(resp.blocks) ELSE resp.blocks
         IN  [View EXCEPT !.blocks = IF p = "openai" THEN EncodeMessage(resp.blocks)
                                     ELSE [key \in {i - 1 : i \in DOMAIN items} |-> items[key + 1]],
                          !.stop = StopTo(p, resp.stop), !.usage = ToWire(p, resp.usage), !.ends = 1]

\* The upstream of a buffered answer works on it.
Prepares(f) ==
    /\ ~route.stream /\ result = "none"
    /\ f \in Sends(Up, said)
    /\ said' = Read(Up, said, f)
    /\ UNCHANGED <<route, reader, renderer, seen, usage, cancelled, fired, result>>

\* relayNonStream and relayConvertedNonStream: read all of it, then write.
BodyRelayed(lost) ==
    /\ ~route.stream /\ result = "none"
    /\ Finished(said)
    /\ lost => cancelled
    /\ LET resp == DecodeResponse(Up, said) IN
       /\ usage' = resp.usage
       /\ IF lost THEN result' = "unwritten" /\ UNCHANGED seen
          ELSE /\ result' = "complete"
               /\ seen' = IF Native THEN said ELSE EncodeResponse(Client, resp)
    /\ UNCHANGED <<route, said, reader, renderer, cancelled, fired>>

\* The body could not be read, so nothing is written.
BodyUnread ==
    /\ ~route.stream /\ result = "none"
    /\ result' = "unread"
    /\ UNCHANGED <<route, said, reader, renderer, seen, usage, cancelled, fired>>
-----------------------------------------------------------------------------
HangUp ==
    /\ result = "none" /\ ~cancelled
    /\ cancelled' = TRUE
    /\ UNCHANGED <<route, said, reader, renderer, seen, usage, fired, result>>

\* Silence for the idle timeout: the watchdog cancels a context of its own
\* (a hang up has cancelled it already), which no read of the upstream uses,
\* and which nothing restores.
IdleTimeout ==
    /\ route.stream /\ result = "none" /\ ~fired /\ ~cancelled
    /\ fired' = TRUE
    /\ UNCHANGED <<route, said, reader, renderer, seen, usage, cancelled, result>>

\* What ends a relay whose client is gone: its context ends the upstream call.
Aborts == cancelled /\ (StreamEnds("broken") \/ BodyUnread)

Next ==
    \/ \E lost \in BOOLEAN : BodyRelayed(lost) \/ \E f \in Sends(Up, said) : Line(f, lost)
    \/ \E f \in Sends(Up, said) : Prepares(f)
    \/ \E end \in {"eof", "broken"} : StreamEnds(end)
    \/ BodyUnread
    \/ HangUp
    \/ IdleTimeout

Spec == Init /\ [][Next]_vars /\ WF_vars(Aborts)
-----------------------------------------------------------------------------
\* The other renderers write to the block they opened last, whatever the tool
\* call: only a chat completion can follow fragments that cross.
Followable == Client = "openai" \/ Native \/ ~said.crossed \/ ~route.stream

\* Whatever the upstream sends reaches the client at once and unchanged: every
\* fragment in order, every tool call with its own id and arguments, through
\* every pair of protocols, to the last frame (Feed, Frame, DecodeResponse).
ContentIsFaithful ==
    ~cancelled /\ Followable /\ (route.stream \/ result = "complete") /\ ~(said.error /\ ~route.stream)
    => Content(seen) = Content(said)

\* A converted stream obeys the client's protocol at every frame (blocks are
\* opened once, written while open and closed; nothing follows the end) and
\* has exactly one end, whether the upstream ended its stream, broke it off or
\* reported an error.  An error chunk for an Anthropic client is the exception:
\* the reader's late finish comes after the end that the error made.
ClientStreamWellFormed ==
    ~Native /\ Followable /\ ~(Up = "openai" /\ Client = "anthropic" /\ said.error) =>
        /\ ~seen.bad
        /\ route.stream /\ result \in {"complete", "idle", "unread"} => seen.ends = 1

\* Buffered function calls of a Responses upstream decode as an ended turn.
CallsForgotten == Up = "responses" /\ ~Native /\ ~route.stream /\ Called(said)

\* A client that got the whole answer is told how it ended: an error as an
\* error, and otherwise whether it was cut short, whether the model waits for
\* tool results, and what it cost, in the terms of the client's protocol.
VerdictIsTold ==
    result = "complete" /\ Finished(said) =>
        IF said.error THEN seen.error
        ELSE CallsForgotten \/ Verdict(Client, seen) = Verdict(Up, said)

\* The cost an upstream reports, as far as its protocol can.
Reported(u) == [u EXCEPT !.cacheWrite = IF Up = "anthropic" THEN @ ELSE 0]

\* A prompt of which every token came from the cache: Anthropic's input tokens
\* are none, which Tap takes for not reported.
WhollyCached == Up = "anthropic" /\ Native /\ route.stream /\ said.usage.input = 0

UsageRecorded ==
    result \in {"complete", "idle"} /\ Finished(said) /\ ~said.error =>
        \E u \in Usages :
            /\ said.usage = ToWire(Up, u)
            /\ \/ usage = Reported(u)
               \/ WhollyCached /\ usage = [Reported(u) EXCEPT !.input = 0]

\* The row of an answer that came to its end has the tokens the upstream
\* reported, wherever in the stream it reported them, but for the input of a
\* wholly cached prompt that was first reported at the end.  Not so the
\* converted stream of an OpenAI upstream: its finish event comes from Finish,
\* whose usage the relay does not keep.
UsageIsLogged == UsageRecorded \/ (Up = "openai" /\ ~Native /\ route.stream)

\* passthrough.go: "An idle watchdog aborts the upstream if no bytes arrive
\* within idleTimeout."
IdleAborts == fired ~> result # "none"
=============================================================================
