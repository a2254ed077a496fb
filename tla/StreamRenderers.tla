--------------------------- MODULE StreamRenderers ---------------------------
(***************************************************************************)
(* The stream renderers of the three protocols (protocol/<p>/sse.go):      *)
(* canonical events in, wire frames to the client out.                     *)
(***************************************************************************)
EXTENDS StreamReaders

\* open is the kind of the block or item that is open, "none" when none is.
Renderer ==
    [openai    |-> [finished |-> FALSE],
     anthropic |-> [finished |-> FALSE, nextIndex |-> 0, open |-> "none"],
     responses |-> [finished |-> FALSE, nextIndex |-> 0, open |-> "none", id |-> 0, text |-> <<>>]]

\* Only Anthropic's preamble is sent ahead; the relay asks a renderer of its
\* own for it, so Start leaves the state alone.
StartFrames(p) == IF p = "anthropic" THEN <<Frame("message_start")>> ELSE <<>>

\* Mutant: a renderer does not know that it has ended.
Unterminated(rn) == rn

Terminated(rn) == [rn EXCEPT !.finished = TRUE]
-----------------------------------------------------------------------------
RenderOpenAI(rn, ev) ==
    CASE ev.kind = "start" -> Step(rn, <<Frame("chunk")>>)
      [] ev.kind \in {"text", "thinking"} -> Step(rn, <<Part("chunk", 0, ev.kind, 0, ev.pieces)>>)
      [] ev.kind \in {"tool_start", "tool_delta"} ->
            Step(rn, <<Part("chunk", ev.tool, "tool_use", ev.id, ev.pieces)>>)
      [] ev.kind = "finish" /\ ~rn.finished ->
            Step(Terminated(rn), <<Closing("chunk", StopTo("openai", ev.stop), NoUsage),
                                   Closing("chunk", "none", ToWire("openai", ev.usage)),
                                   Frame("[DONE]")>>)
      [] ev.kind = "error" -> Step(rn, <<Frame("error")>>)
      [] OTHER -> Step(rn, <<>>)

DoneOpenAI(rn) == Step(Terminated(rn), IF rn.finished THEN <<>> ELSE <<Frame("[DONE]")>>)
-----------------------------------------------------------------------------
CloseBlock(rn) ==
    Step([rn EXCEPT !.open = "none"],
         IF rn.open = "none" THEN <<>>
         ELSE <<Part("content_block_stop", rn.nextIndex - 1, "none", 0, <<>>)>>)

\* Close what is open and start a block of the kind.
StartBlock(rn, kind, id) ==
    Step([rn EXCEPT !.nextIndex = @ + 1, !.open = kind],
         CloseBlock(rn).out \o <<Part("content_block_start", rn.nextIndex, kind, id, <<>>)>>)

OpenBlock(rn, kind) == IF rn.open = kind THEN Step(rn, <<>>) ELSE StartBlock(rn, kind, 0)

BlockDelta(step, kind, pieces) ==
    Step(step.machine,
         Append(step.out, Part("content_block_delta", step.machine.nextIndex - 1, kind, 0, pieces)))

\* The end of the message: close the block, then the terminal frames.
EndMessage(rn, frames) ==
    Step(Terminated(CloseBlock(rn).machine), CloseBlock(rn).out \o frames \o <<Frame("message_stop")>>)

\* Arguments go to the block opened last, whatever tool they are of; nothing
\* here looks at finished.
RenderAnthropic(rn, ev) ==
    CASE ev.kind \in {"text", "thinking"} -> BlockDelta(OpenBlock(rn, ev.kind), ev.kind, ev.pieces)
      [] ev.kind = "tool_start" -> StartBlock(rn, "tool_use", ev.id)
      [] ev.kind = "tool_delta" -> BlockDelta(Step(rn, <<>>), "tool_use", ev.pieces)
      [] ev.kind = "ping" -> Step(rn, <<Frame("ping")>>)
      [] ev.kind = "finish" ->
            EndMessage(rn, <<Closing("message_delta", StopTo("anthropic", ev.stop),
                                     ToWire("anthropic", ev.usage))>>)
      [] ev.kind = "error" -> EndMessage(rn, <<Frame("error")>>)
      [] OTHER -> Step(rn, <<>>)

DoneAnthropic(rn) == IF rn.finished THEN Step(rn, <<>>) ELSE EndMessage(rn, <<>>)
-----------------------------------------------------------------------------
\* An item that closes is sent once more, whole.
CloseItem(rn) ==
    Step([rn EXCEPT !.open = "none"],
         IF rn.open = "none" THEN <<>>
         ELSE <<Part("response.output_item.done", rn.nextIndex - 1, rn.open, rn.id, rn.text)>>)

AddItem(rn, kind, id) ==
    Step([rn EXCEPT !.nextIndex = @ + 1, !.open = kind, !.id = id, !.text = <<>>],
         CloseItem(rn).out \o <<Part("response.output_item.added", rn.nextIndex, kind, id, <<>>)>>)

\* An item opened by a delta alone has no call id.
EnsureOpen(rn, kind) == IF rn.open = kind THEN Step(rn, <<>>) ELSE AddItem(rn, kind, 0)

ItemDelta(step, kind, pieces) ==
    Step([step.machine EXCEPT !.text = @ \o pieces],
         Append(step.out, Part("response.delta", step.machine.nextIndex - 1, kind, 0, pieces)))

EndResponse(rn, frame) == Step(Terminated(CloseItem(rn).machine), Append(CloseItem(rn).out, frame))

RenderResponses(rn, ev) ==
    IF rn.finished THEN Step(rn, <<>>)
    ELSE CASE ev.kind = "start" -> Step(rn, <<Frame("response.created")>>)
           [] ev.kind \in {"text", "thinking"} -> ItemDelta(EnsureOpen(rn, ev.kind), ev.kind, ev.pieces)
           [] ev.kind = "tool_start" -> AddItem(rn, "tool_use", ev.id)
           [] ev.kind = "tool_delta" -> ItemDelta(EnsureOpen(rn, "tool_use"), "tool_use", ev.pieces)
           [] ev.kind = "tool_end" /\ rn.open = "tool_use" -> CloseItem(rn)
           [] ev.kind = "finish" ->
                 EndResponse(rn, Closing(IF ev.stop = "max_tokens" THEN "response.incomplete"
                                         ELSE "response.completed",
                                         StopTo("responses", ev.stop), ToWire("responses", ev.usage)))
           [] ev.kind = "error" -> EndResponse(rn, Frame("response.failed"))
           [] OTHER -> Step(rn, <<>>)

DoneResponses(rn) ==
    IF rn.finished THEN Step(rn, <<>>)
    ELSE EndResponse(rn, Closing("response.completed", "completed", NoUsage))
-----------------------------------------------------------------------------
Render(p, rn, ev) ==
    CASE p = "openai" -> RenderOpenAI(rn, ev)
      [] p = "anthropic" -> RenderAnthropic(rn, ev)
      [] p = "responses" -> RenderResponses(rn, ev)

Done(p, rn) ==
    CASE p = "openai" -> DoneOpenAI(rn)
      [] p = "anthropic" -> DoneAnthropic(rn)
      [] p = "responses" -> DoneResponses(rn)

\* The frames of several events, one after the other.
RenderAll(p, rn, evs) ==
    FoldLeft(LAMBDA step, ev : LET next == Render(p, step.machine, ev)
                               IN  Step(next.machine, step.out \o next.out),
             Step(rn, <<>>), evs)
=============================================================================
