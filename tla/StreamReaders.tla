---------------------------- MODULE StreamReaders ----------------------------
(***************************************************************************)
(* The stream readers of the three protocols (protocol/<p>/sse.go): wire   *)
(* frames of the upstream in, canonical events out.                        *)
(*                                                                         *)
(* A frame is one SSE event (or chunk) and keeps its wire name as type.    *)
(* Generated text is a sequence of pieces: a piece stands for one fragment *)
(* of text or of tool arguments, and 0 for the id of no tool call.         *)
(***************************************************************************)
EXTENDS Integers, Sequences, SequencesExt, TLC

Protocols == {"openai", "anthropic", "responses"}

NoUsage == [input |-> 0, output |-> 0, cacheRead |-> 0, cacheWrite |-> 0]

Blank == [type |-> "ping", index |-> 0, kind |-> "none", id |-> 0, pieces |-> <<>>,
          stop |-> "none", usage |-> NoUsage]

Frame(type) == [Blank EXCEPT !.type = type]

\* A chunk with a delta, a block or an item opened or closed, a fragment of one.
Part(type, index, kind, id, pieces) ==
    [Frame(type) EXCEPT !.index = index, !.kind = kind, !.id = id, !.pieces = pieces]

\* The end of the message: why it stopped, and what it cost.
Closing(type, stop, usage) == [Frame(type) EXCEPT !.stop = stop, !.usage = usage]
-----------------------------------------------------------------------------
\* A canonical event; pieces, stop and usage as its kind carries them.
Event(kind, tool, id, pieces) ==
    [kind |-> kind, tool |-> tool, id |-> id, pieces |-> pieces, stop |-> "none", usage |-> NoUsage]

FinishEvent(stop, usage) == [Event("finish", 0, 0, <<>>) EXCEPT !.stop = stop, !.usage = usage]

\* Wire usage to canonical usage: Input is the total input, cache included.
ToIR(p, u) ==
    IF p = "anthropic" THEN [u EXCEPT !.input = @ + u.cacheRead + u.cacheWrite]
    ELSE [u EXCEPT !.cacheWrite = 0]

\* And back: Anthropic reports the cached input apart.
ToWire(p, u) ==
    IF p = "anthropic"
    THEN [u EXCEPT !.input = IF @ > u.cacheRead + u.cacheWrite THEN @ - u.cacheRead - u.cacheWrite ELSE 0]
    ELSE [u EXCEPT !.cacheWrite = 0]

\* Stop reasons of a wire protocol in the canonical vocabulary.
StopFrom(p, stop) ==
    CASE stop \in {"length", "max_tokens", "incomplete"} -> "max_tokens"
      [] stop \in {"tool_calls", "tool_use"} -> "tool_use"
      [] stop \in {"content_filter", "refusal"} -> "content_filter"
      [] OTHER -> "end_turn"

StopTo(p, stop) ==
    CASE p = "openai" -> (CASE stop = "max_tokens" -> "length"
                            [] stop = "tool_use" -> "tool_calls"
                            [] stop = "content_filter" -> "content_filter"
                            [] OTHER -> "stop")
      [] p = "anthropic" -> IF stop = "content_filter" THEN "refusal" ELSE stop
      [] p = "responses" -> IF stop = "max_tokens" THEN "incomplete" ELSE "completed"
-----------------------------------------------------------------------------
(***************************************************************************)
(* Stream readers: Feed takes one frame of the upstream and gives the      *)
(* canonical events it produced.  A step is the reader after it and them.  *)
(***************************************************************************)
Step(machine, out) == [machine |-> machine, out |-> out]

Reader ==
    [openai    |-> [started |-> FALSE, chunkIdx |-> <<>>, finish |-> "end_turn", usage |-> NoUsage],
     anthropic |-> [seqTool |-> 0, finished |-> FALSE, usage |-> NoUsage],
     responses |-> [started |-> FALSE, finished |-> FALSE, failed |-> FALSE, seqTool |-> 0,
                    outIdx |-> <<>>, argsSeen |-> {}]]

\* A map with one key set.
With(map, key, value) == [k \in DOMAIN map \cup {key} |-> IF k = key THEN value ELSE map[k]]

NonEmpty(kind, tool, pieces) == IF pieces = <<>> THEN <<>> ELSE <<Event(kind, tool, 0, pieces)>>

FinishOpenAI(rd) == Step(rd, <<FinishEvent(rd.finish, rd.usage)>>)

\* Chunk indexes become sequential tool indexes; the finish waits for the end.
FeedOpenAI(rd, f) ==
    LET fresh  == f.kind = "tool_use" /\ f.index \notin DOMAIN rd.chunkIdx
        seqTool == Len(SetToSeq(DOMAIN rd.chunkIdx))
        tools  == IF fresh THEN With(rd.chunkIdx, f.index, seqTool) ELSE rd.chunkIdx
        opened == IF rd.started THEN <<>> ELSE <<Event("start", 0, 0, <<>>)>>
        called == IF fresh THEN <<Event("tool_start", seqTool, f.id, <<>>)>> ELSE <<>>
        delta  == CASE f.kind = "none" -> <<>>
                    [] f.kind = "tool_use" -> called \o NonEmpty("tool_delta", tools[f.index], f.pieces)
                    [] OTHER -> NonEmpty(f.kind, 0, f.pieces)
    IN  CASE f.type = "error" -> Step(rd, <<Event("error", 0, 0, <<>>)>>)
          [] f.type = "[DONE]" -> FinishOpenAI(rd)
          [] f.type = "chunk" ->
                Step([started |-> TRUE, chunkIdx |-> tools,
                      finish |-> IF f.stop = "none" THEN rd.finish ELSE StopFrom("openai", f.stop),
                      usage |-> IF f.usage = NoUsage THEN rd.usage ELSE ToIR("openai", f.usage)],
                     opened \o delta)

\* Vendors repeat the usage in message_delta, or report it only there.
MergeUsage(u, more) ==
    [k \in DOMAIN u |-> IF k = "output" \/ more[k] > 0 THEN more[k] ELSE u[k]]

\* Mutant: the index of the next tool.
NextTool(rd) == rd.seqTool

\* The tool whose start was announced last.
LatestTool(rd) == rd.seqTool - 1

\* The arguments belong to the latest tool; one finish, on message_delta.
FeedAnthropic(rd, f) ==
    CASE f.type = "error" -> Step(rd, <<Event("error", 0, 0, <<>>)>>)
      [] f.type = "message_start" ->
            Step([rd EXCEPT !.usage = [f.usage EXCEPT !.output = 0]], <<Event("start", 0, 0, <<>>)>>)
      [] f.type = "content_block_start" /\ f.kind = "tool_use" ->
            Step([rd EXCEPT !.seqTool = @ + 1], <<Event("tool_start", rd.seqTool, f.id, <<>>)>>)
      [] f.type = "content_block_delta" ->
            Step(rd, IF f.kind = "tool_use" THEN NonEmpty("tool_delta", LatestTool(rd), f.pieces)
                     ELSE NonEmpty(f.kind, 0, f.pieces))
      [] f.type = "message_delta" /\ ~rd.finished ->
            Step([rd EXCEPT !.finished = TRUE],
                 <<FinishEvent(StopFrom("anthropic", f.stop),
                               ToIR("anthropic", MergeUsage(rd.usage, f.usage)))>>)
      [] f.type = "ping" -> Step(rd, <<Event("ping", 0, 0, <<>>)>>)
      [] OTHER -> Step(rd, <<>>)

\* The first finish counts.
LatchFinish(rd, stop, usage) ==
    IF rd.finished THEN Step(rd, <<>>)
    ELSE Step([rd EXCEPT !.finished = TRUE], <<FinishEvent(stop, usage)>>)

\* Mutant: a completed response never waits for tool results.
CompletedPlainly(rd) == "end_turn"

CompletedStop(rd) == IF rd.seqTool > 0 THEN "tool_use" ELSE "end_turn"

\* Arguments that were never streamed come with the item that is done.
UnseenArgs(rd, tool, pieces) ==
    IF tool \in rd.argsSeen THEN <<>> ELSE NonEmpty("tool_delta", tool, pieces)

FeedResponses(rd, f) ==
    LET known == f.index \in DOMAIN rd.outIdx
        tool  == rd.outIdx[f.index]
    IN  CASE f.type = "response.created" ->
                Step([rd EXCEPT !.started = TRUE],
                     IF rd.started THEN <<>> ELSE <<Event("start", 0, 0, <<>>)>>)
          [] f.type = "response.output_item.added" /\ f.kind = "tool_use" ->
                Step([rd EXCEPT !.seqTool = @ + 1, !.outIdx = With(@, f.index, rd.seqTool)],
                     <<Event("tool_start", rd.seqTool, f.id, <<>>)>>)
          [] f.type = "response.delta" /\ f.kind # "tool_use" ->
                Step(rd, <<Event(f.kind, 0, 0, f.pieces)>>)
          [] f.type = "response.delta" /\ f.kind = "tool_use" /\ known ->
                Step([rd EXCEPT !.argsSeen = @ \cup {tool}], <<Event("tool_delta", tool, 0, f.pieces)>>)
          [] f.type = "response.output_item.done" /\ f.kind = "tool_use" /\ known ->
                Step(rd, UnseenArgs(rd, tool, f.pieces) \o <<Event("tool_end", tool, 0, <<>>)>>)
          [] f.type = "response.completed" ->
                LatchFinish(rd, CompletedStop(rd), ToIR("responses", f.usage))
          [] f.type = "response.incomplete" ->
                LatchFinish(rd, StopFrom("responses", f.stop), ToIR("responses", f.usage))
          [] f.type \in {"response.failed", "error"} ->
                Step([rd EXCEPT !.failed = TRUE], <<Event("error", 0, 0, <<>>)>>)
          [] OTHER -> Step(rd, <<>>)

FinishResponses(rd) ==
    IF rd.failed THEN Step(rd, <<>>) ELSE LatchFinish(rd, CompletedStop(rd), NoUsage)

Feed(p, rd, f) ==
    CASE p = "openai" -> FeedOpenAI(rd, f)
      [] p = "anthropic" -> FeedAnthropic(rd, f)
      [] p = "responses" -> FeedResponses(rd, f)

\* What the reader still owes when the stream is over; Anthropic's owes nothing.
FinishRead(p, rd) ==
    CASE p = "openai" -> FinishOpenAI(rd)
      [] p = "anthropic" -> Step(rd, <<>>)
      [] p = "responses" -> FinishResponses(rd)
=============================================================================
