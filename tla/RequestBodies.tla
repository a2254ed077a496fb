---------------------------- MODULE RequestBodies ----------------------------
(***************************************************************************)
(* A chat request on its way to an upstream (gateway/conversion.go): as it *)
(* came, when the client speaks the upstream's protocol, and otherwise     *)
(* decoded to the canonical messages and encoded again by the codecs       *)
(* (protocol/<p>/codec.go).                                                *)
(*                                                                         *)
(* A message is what a body has one array element for, an item of a        *)
(* Responses input included.  As in StreamReaders, pieces stand for text.  *)
(***************************************************************************)
EXTENDS Integers, Sequences, SequencesExt

\* signed is of reasoning, image of a tool result that shows one.
Block(kind, id, pieces) ==
    [kind |-> kind, id |-> id, pieces |-> pieces, signed |-> FALSE, image |-> FALSE]

\* wire: its content is in the form of the protocol.
Message(role, blocks) == [role |-> role, blocks |-> blocks, wire |-> TRUE]

Having(kinds, blocks) == SelectSeq(blocks, LAMBDA block : block.kind \in kinds)

Joined(blocks) == FlattenSeq([i \in DOMAIN blocks |-> blocks[i].pieces])

OneText(blocks) ==
    IF Joined(blocks) = <<>> THEN <<>> ELSE <<Block("text", 0, Joined(blocks))>>

\* Texts by themselves become one; with images among them they stay parts.
UserParts(blocks) == IF Having({"image"}, blocks) = <<>> THEN OneText(blocks) ELSE blocks

\* A tool result as text, which is all that is left of it.
ResultText(block) == [block EXCEPT !.image = FALSE]
-----------------------------------------------------------------------------
Spoken == {"text", "image", "tool_use", "tool_result"}

\* DecodeRequest.  Reasoning in the history is dropped, and an assistant's
\* message that was nothing else with it; a tool's message is a user's.
DecodeOpenAI(messages) ==
    SelectSeq([i \in DOMAIN messages |->
                  [messages[i] EXCEPT !.role = IF @ = "tool" THEN "user" ELSE @,
                                      !.blocks = Having(Spoken, @)]],
              LAMBDA m : m.role = "user" \/ m.blocks # <<>>)

\* Reasoning is kept, for it may be signed.
DecodeAnthropic(messages) ==
    [i \in DOMAIN messages |->
        [messages[i] EXCEPT !.role = IF @ = "assistant" THEN @ ELSE "user",
                            !.blocks = Having(Spoken \cup {"thinking"}, @)]]

\* Every item becomes a message, but reasoning and what is empty.
DecodeResponses(messages) ==
    SelectSeq([i \in DOMAIN messages |-> [messages[i] EXCEPT !.blocks = Having(Spoken, @)]],
              LAMBDA m : m.blocks # <<>>)

DecodeMessages(p, messages) ==
    CASE p = "openai" -> DecodeOpenAI(messages)
      [] p = "anthropic" -> DecodeAnthropic(messages)
      [] p = "responses" -> DecodeResponses(messages)
-----------------------------------------------------------------------------
ChatMessage(m) ==
    Message(m.role, IF m.role = "user" THEN UserParts(m.blocks)
                    ELSE OneText(Having({"text"}, m.blocks)) \o Having({"tool_use"}, m.blocks))

ToolMessages(pending) == [i \in DOMAIN pending |-> Message("tool", <<ResultText(pending[i])>>)]

\* Mutant: the results wait until after the message.
FlushedLate(step, m) == step.out \o <<ChatMessage(m)>> \o ToolMessages(step.pending)

\* The results that wait go before the message.
Flushed(step, m) == step.out \o ToolMessages(step.pending) \o <<ChatMessage(m)>>

\* Mutant: the results are flushed only by a message that follows them.
UnflushedResults(step) == step.out

AllFlushed(step) == step.out \o ToolMessages(step.pending)

\* Tool results wait for the next other message; what stands beside them is
\* skipped.
EncodeOpenAI(messages) ==
    AllFlushed(FoldLeft(
        LAMBDA step, m :
            LET results == Having({"tool_result"}, m.blocks)
            IN  IF m.role = "user" /\ results # <<>>
                THEN [step EXCEPT !.pending = @ \o results]
                ELSE [out |-> Flushed(step, m), pending |-> <<>>],
        [out |-> <<>>, pending |-> <<>>], messages))
-----------------------------------------------------------------------------
\* Only signed reasoning is replayed.
Replays(block) == block.kind = "thinking" => block.signed

\* The placeholder "(empty)" keeps the alternation.
WireBlocks(blocks) ==
    LET kept == SelectSeq(blocks, LAMBDA block :
                    Replays(block) /\ (block.kind = "text" => block.pieces # <<>>))
    IN  IF kept = <<>> THEN <<Block("text", 0, <<>>)>> ELSE kept

\* A merged content is marshalled with the names of the Go fields; read back,
\* only Type, Text and Signature are found again.
Reread(m) ==
    IF m.wire THEN m.blocks
    ELSE Having({"text", "thinking", "tool_use", "tool_result"},
                [i \in DOMAIN m.blocks |->
                    IF m.blocks[i].kind = "text" THEN m.blocks[i]
                    ELSE [m.blocks[i] EXCEPT !.id = 0, !.pieces = <<>>]])

Merged(m, blocks) == [m EXCEPT !.blocks = Reread(m) \o blocks, !.wire = FALSE]

EncodeAnthropic(messages) ==
    FoldLeft(LAMBDA out, m :
                IF out # <<>> /\ Last(out).role = m.role
                THEN Append(Front(out), Merged(Last(out), WireBlocks(m.blocks)))
                ELSE Append(out, Message(m.role, WireBlocks(m.blocks))),
             <<>>, messages)
-----------------------------------------------------------------------------
Alone(role, blocks) == [i \in DOMAIN blocks |-> Message(role, <<ResultText(blocks[i])>>)]

\* An assistant's message comes first, even without a text, then its calls; of
\* a user's the results come first.
InputItems(m) ==
    IF m.role = "assistant"
    THEN <<Message(m.role, OneText(Having({"text"}, m.blocks)))>> \o Alone(m.role, Having({"tool_use"}, m.blocks))
    ELSE LET rest == SelectSeq(m.blocks, LAMBDA block : block.kind # "tool_result")
         IN  Alone(m.role, Having({"tool_result"}, m.blocks))
             \o IF rest = <<>> THEN <<>> ELSE <<Message(m.role, UserParts(rest))>>

EncodeResponses(messages) == FlattenSeq([i \in DOMAIN messages |-> InputItems(messages[i])])
-----------------------------------------------------------------------------
EncodeRequest(p, messages) ==
    CASE p = "openai" -> EncodeOpenAI(messages)
      [] p = "anthropic" -> EncodeAnthropic(messages)
      [] p = "responses" -> EncodeResponses(messages)

\* Only a Responses request is asked for the format of its answer.
DecodeFormat(p, body) == p = "responses" /\ body.format

\* Anthropic has no such format, and the request is refused.
Refuses(p, up, body) == p # up /\ up = "anthropic" /\ DecodeFormat(p, body)

PrepareUpstreamBody(p, up, body) ==
    IF p = up THEN body
    ELSE [messages |-> EncodeRequest(up, DecodeMessages(p, body.messages)),
          format |-> DecodeFormat(p, body)]
=============================================================================
