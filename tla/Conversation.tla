---------------------------- MODULE Conversation ----------------------------
(***************************************************************************)
(* A client's conversation with upstreams of several protocols: a request  *)
(* is converted for a candidate (RequestBodies), its answer is relayed     *)
(* (StreamRelay), and the client asks again with the answer, as it came to *)
(* it, in its history: the next request may go to another upstream.        *)
(***************************************************************************)
EXTENDS StreamRelay, RequestBodies

CONSTANT MaxAnswers   \* bound: answers of a conversation that are relayed

VARIABLES
    body,      \* the client's request
    sent,      \* what the upstream was sent
    answers    \* answers relayed so far

conversationVars == <<route, said, reader, renderer, seen, usage, cancelled, fired, result,
                      body, sent, answers>>

\* The texts of users, and the result of a call, are pieces of their own.
Question == Block("text", 0, <<-1>>)
Note == Block("text", 0, <<-2>>)
Picture == Block("image", 0, <<-3>>)
ResultOf(call, image) == [Block("tool_result", call.id, <<-10 - call.id>>) EXCEPT !.image = image]

Unsent == [messages |-> <<>>, format |-> FALSE]

ConversationInit ==
    /\ route \in [up : Upstreams, client : Clients, stream : BOOLEAN]
    /\ said = View /\ seen = View
    /\ reader = Reader[Up] /\ renderer = Renderer[Client]
    /\ usage = NoUsage
    /\ cancelled = FALSE /\ fired = FALSE
    /\ result = "waiting"
    /\ body = [messages |-> <<Message("user", <<Question>>)>>, format |-> FALSE]
    /\ sent = Unsent
    /\ answers = 0

\* A candidate is tried, the first or the next: its body is made of the
\* client's.  One that cannot be made is the client's error.
Attempt(up) ==
    /\ result = "waiting"
    /\ route' = [route EXCEPT !.up = up]
    /\ reader' = Reader[up]
    /\ IF Refuses(Client, up, body) THEN result' = "refused" /\ sent' = Unsent
       ELSE sent' = PrepareUpstreamBody(Client, up, body) /\ UNCHANGED result
    /\ UNCHANGED <<said, renderer, seen, usage, cancelled, fired, body, answers>>

\* The candidate accepts, and its answer is relayed.
Accepted ==
    /\ result = "waiting" /\ sent # Unsent
    /\ answers < MaxAnswers
    /\ result' = "none"
    /\ seen' = Preamble
    /\ answers' = answers + 1
    /\ UNCHANGED <<route, said, reader, renderer, usage, cancelled, fired, body, sent>>
-----------------------------------------------------------------------------
\* What the client keeps of the answer.  Reasoning is signed if it came from
\* Anthropic as it was.
Kept ==
    LET blocks == [i \in DOMAIN Keys(seen) |-> seen.blocks[Keys(seen)[i]]]
        signed == Native /\ Up = "anthropic"
    IN  SelectSeq([i \in DOMAIN blocks |->
                      [Block(blocks[i].kind, blocks[i].id, blocks[i].pieces) EXCEPT
                          !.signed = signed /\ blocks[i].kind = "thinking"]],
                  LAMBDA block : block.kind = "tool_use" \/ block.pieces # <<>>)

\* Blocks that the body of a protocol has one message for, or one each.
Turn(role, blocks) ==
    IF Client = "responses" THEN [i \in DOMAIN blocks |-> Message(role, <<blocks[i]>>)]
    ELSE <<Message(role, blocks)>>

UserTurn(results, rest) ==
    IF Client = "anthropic" THEN <<Message("user", results \o rest)>>
    ELSE [i \in DOMAIN results |-> Message(IF Client = "openai" THEN "tool" ELSE "user", <<results[i]>>)]
         \o IF rest = <<>> THEN <<>> ELSE <<Message("user", rest)>>

\* The client answers every call, in any order, may add a text, and asks again.
Replies(order, rest, image, format) ==
    LET calls == ToolsOf(seen)
        results == [i \in DOMAIN calls |-> ResultOf(calls[order[i]], image)]
    IN  /\ result = "complete" /\ ~said.error /\ ~seen.bad
        /\ Kept # <<>>
        /\ order \in [DOMAIN calls -> DOMAIN calls] /\ IsInjective(order)
        /\ calls = <<>> => rest # <<>>
        /\ image => Client = "anthropic" /\ calls # <<>>
        /\ format => Client = "responses"
        /\ body' = [messages |-> body.messages \o Turn("assistant", Kept) \o UserTurn(results, rest),
                    format |-> format]
        /\ sent' = Unsent
        /\ said' = View /\ seen' = View
        /\ reader' = Reader[Up] /\ renderer' = Renderer[Client]
        /\ usage' = NoUsage
        /\ cancelled' = FALSE /\ fired' = FALSE
        /\ result' = "waiting"
        /\ UNCHANGED <<route, answers>>

Relays == Next /\ UNCHANGED <<body, sent, answers>>

ConversationNext ==
    \/ \E up \in Upstreams : Attempt(up)
    \/ Accepted
    \/ Relays
    \/ \E rest \in {<<>>, <<Note>>, <<Note, Picture>>}, image, format \in BOOLEAN,
          order \in UNION {[1..n -> 1..n] : n \in 0..MaxTools} :
             Replies(order, rest, image, format)

ConversationSpec ==
    /\ ConversationInit /\ [][ConversationNext]_conversationVars
    /\ WF_conversationVars(Aborts /\ UNCHANGED <<body, sent, answers>>)
-----------------------------------------------------------------------------
\* A conversation as whoever reads its messages understands it: what the user
\* and the model said, the pictures, the calls and the results.  Content that
\* is not in the protocol's form says nothing.
Transcript(messages) ==
    LET Blocks(kind, roles) ==
            FlattenSeq([i \in DOMAIN messages |->
                IF messages[i].wire /\ messages[i].role \in roles
                THEN Having({kind}, messages[i].blocks) ELSE <<>>])
        Users == {"user", "tool"}
    IN  [asked    |-> Joined(Blocks("text", Users)),
         told     |-> Joined(Blocks("text", {"assistant"})),
         pictures |-> Joined(Blocks("image", Users)),
         calls    |-> Blocks("tool_use", {"assistant"}),
         results  |-> Blocks("tool_result", Users)]

Canon == DecodeMessages(Client, body.messages)
Holds(m, kind) == Having({kind}, m.blocks) # <<>>

\* Two messages of one role in a row are merged for Anthropic into a content
\* that is not in its form.
NeedsMerging == Up = "anthropic" /\ \E i \in 1..Len(Canon) - 1 : Canon[i].role = Canon[i + 1].role

\* What stands beside a tool result is not sent to OpenAI, and what a result
\* shows is sent to no one else.
SkipsNotes == Up = "openai" /\ \E i \in DOMAIN Canon : Holds(Canon[i], "tool_result") /\ Len(Canon[i].blocks) > 1
SkipsImages == \E i \in DOMAIN Canon : \E k \in DOMAIN Canon[i].blocks : Canon[i].blocks[k].image

\* The calls of one answer are spread over messages of their own.
SpreadsCalls ==
    Up = "openai" /\ \E i \in 1..Len(Canon) - 1 : Holds(Canon[i], "tool_use") /\ Canon[i + 1].role = "assistant"

\* An answer without a text, or with nothing but reasoning, becomes a message
\* without content.
Hollow ==
    \E i \in DOMAIN Canon :
        /\ Canon[i].role = "assistant" /\ ~Holds(Canon[i], "text")
        /\ Up = "responses" \/ (Up = "openai" /\ ~Holds(Canon[i], "tool_use"))

Converted == sent # Unsent /\ ~Native

\* Whatever was said in a conversation reaches the upstream that is asked
\* next, whichever upstreams said it and in whatever protocol: the user's
\* texts and pictures, the model's texts, every call with its arguments and
\* every result under its call's id, in order, and the wish for a format
\* (prepareUpstreamBody), but where merging, notes or images are known to fail.
NothingIsLost ==
    Converted /\ ~(NeedsMerging \/ SkipsNotes \/ SkipsImages) =>
        /\ Transcript(sent.messages) = Transcript(body.messages)
        /\ Client = "responses" => sent.format = body.format

\* codec.go: "Anthropic requires strict user/assistant alternation;
\* consecutive same-role messages are merged."
SameRoleMessagesMerged == Up = "anthropic" => \A i \in DOMAIN sent.messages : sent.messages[i].wire

Ids(m, kind) == {Having({kind}, m.blocks)[i].id : i \in DOMAIN Having({kind}, m.blocks)}

\* Results follow their call in the next message, and every call has its own.
AnthropicAccepts(ms) ==
    /\ \A i \in DOMAIN ms : ms[i].wire /\ ms[i].blocks # <<>>
    /\ \A i \in 1..Len(ms) - 1 :
          ms[i].role # ms[i + 1].role /\ Ids(ms[i], "tool_use") = Ids(ms[i + 1], "tool_result")
    /\ \A i \in DOMAIN ms : \A k \in DOMAIN ms[i].blocks :
          ms[i].blocks[k].kind = "thinking" => ms[i].blocks[k].signed

\* The tool messages after a message with calls answer these calls, before
\* anything else is said.
OpenAIAccepts(ms) ==
    /\ \A i \in DOMAIN ms : ms[i].blocks # <<>>
    /\ \A i \in DOMAIN ms : ms[i].role = "assistant" =>
          LET n == Cardinality(Ids(ms[i], "tool_use"))
              tools == SubSeq(ms, i + 1, i + n)
          IN  /\ i + n <= Len(ms)
              /\ UNION {Ids(tools[k], "tool_result") : k \in DOMAIN tools} = Ids(ms[i], "tool_use")
              /\ i + n < Len(ms) => ms[i + n + 1].role # "tool"
    /\ \A i \in DOMAIN ms : ~Holds(ms[i], "thinking")

\* An output comes after its call, and every call has one.
ResponsesAccepts(ms) ==
    /\ \A i \in DOMAIN ms : ms[i].blocks # <<>>
    /\ \A i \in DOMAIN ms : \A id \in Ids(ms[i], "tool_result") :
          \E k \in 1..i : id \in Ids(ms[k], "tool_use")
    /\ \A i \in DOMAIN ms : \A id \in Ids(ms[i], "tool_use") :
          \E k \in i..Len(ms) : id \in Ids(ms[k], "tool_result")

\* A converted history obeys the rules of the upstream's protocol: roles
\* alternate and reasoning is signed for Anthropic, the results of a call are
\* where the protocol wants them, no message is empty (EncodeRequest), but for
\* the histories whose merging, spread calls or hollow messages break them.
UpstreamAccepts ==
    Converted /\ ~(NeedsMerging \/ SpreadsCalls \/ Hollow) =>
        CASE Up = "openai" -> OpenAIAccepts(sent.messages)
          [] Up = "anthropic" -> AnthropicAccepts(sent.messages)
          [] Up = "responses" -> ResponsesAccepts(sent.messages)
=============================================================================
