------------------------- MODULE ConversationProofs -------------------------
(***************************************************************************)
(* For every set of protocols and usages and answers of any length: the    *)
(* tokens logged for an answer are the ones its upstream reported (first   *)
(* part), a converted stream obeys the protocol of the client and ends     *)
(* once (second part), and whoever got a whole answer was told how it      *)
(* ended (third part).                                                     *)
(***************************************************************************)
EXTENDS Conversation, FiniteSetTheorems, WellFoundedInduction, TLAPS

Costs == [input : Nat, output : Nat, cacheRead : Nat, cacheWrite : Nat]

WireUsages(p) == {ToWire(p, u) : u \in Usages}

\* What a protocol can say of a usage.
Sayable(p, u) == [u EXCEPT !.cacheWrite = IF p = "anthropic" THEN @ ELSE 0]

\* A usage survives the wire, as far as its protocol can carry it, and is
\* never taken for none.
LEMMA UsageSurvives ==
    ASSUME NEW p \in Protocols, NEW u \in Usages
    PROVE  /\ u \in Costs
           /\ ToWire(p, u) \in Costs
           /\ ToWire(p, u) # NoUsage
           /\ ToIR(p, ToWire(p, u)) = Sayable(p, u)
           /\ p = "anthropic" => ToWire(p, u).output = u.output
<1>1. /\ u \in Costs
      /\ u # NoUsage
      /\ u.input >= u.cacheRead + u.cacheWrite
    BY UsagesAssumption DEF Costs
<1>2. PICK i \in Nat, o \in Nat, r \in Nat, w \in Nat :
         u = [input |-> i, output |-> o, cacheRead |-> r, cacheWrite |-> w]
    BY <1>1 DEF Costs
<1>3. i >= r + w /\ ~(i = 0 /\ o = 0 /\ r = 0 /\ w = 0)
    BY <1>1, <1>2 DEF NoUsage
<1>4. CASE p = "anthropic"
  <2> DEFINE n == IF i > r + w THEN i - r - w ELSE 0
  <2>1. ToWire(p, u) = [input |-> n, output |-> o, cacheRead |-> r, cacheWrite |-> w]
      BY <1>2, <1>4 DEF ToWire
  <2>2. n \in Nat /\ n + r + w = i
      BY <1>3
  <2>3. ToIR(p, ToWire(p, u)) = u
      BY <1>2, <1>4, <2>1, <2>2 DEF ToIR
  <2>4. Sayable(p, u) = u
      BY <1>2, <1>4 DEF Sayable
  <2>5. ToWire(p, u) # NoUsage
      BY <1>3, <2>1, <2>2 DEF NoUsage
  <2>6. ToWire(p, u) \in Costs
      BY <2>1, <2>2 DEF Costs
  <2>7. QED
      BY <1>1, <1>2, <2>1, <2>3, <2>4, <2>5, <2>6
<1>5. CASE p # "anthropic"
  <2>1. ToWire(p, u) = [input |-> i, output |-> o, cacheRead |-> r, cacheWrite |-> 0]
      BY <1>2, <1>5 DEF ToWire
  <2>2. ToIR(p, ToWire(p, u)) = Sayable(p, u)
      BY <1>2, <1>5, <2>1 DEF ToIR, Sayable
  <2>3. ToWire(p, u) # NoUsage
      BY <1>3, <2>1 DEF NoUsage
  <2>4. QED
      BY <1>1, <1>5, <2>1, <2>2, <2>3 DEF Costs
<1>6. QED
    BY <1>4, <1>5
-----------------------------------------------------------------------------
(***************************************************************************)
(* First part: what an upstream reports, what a reader keeps of it until   *)
(* the end, and what the relay has harvested, agree after every line.      *)
(***************************************************************************)
IsView(v) ==
    v = [blocks |-> v.blocks, at |-> v.at, crossed |-> v.crossed, started |-> v.started, stop |-> v.stop,
         usage |-> v.usage, error |-> v.error, ends |-> v.ends, bad |-> v.bad]

\* Blocks come and go without a word on the cost or the end.
SameEnd(v, w) ==
    /\ IsView(w)
    /\ w.started = v.started /\ w.stop = v.stop /\ w.usage = v.usage
    /\ w.error = v.error /\ w.ends = v.ends

\* Opening, extending and closing a block leave how a message ends alone.
LEMMA BlocksKeepEnd ==
    ASSUME NEW v, IsView(v), NEW f, NEW key
    PROVE  SameEnd(v, Begun(v, f)) /\ SameEnd(v, Extended(v, key, f)) /\ SameEnd(v, Closed(v, f))
<1>1. SameEnd(v, Begun(v, f))
    BY DEF Begun, SameEnd, IsView
<1>2. SameEnd(v, Extended(v, key, f))
    BY DEF Extended, SameEnd, IsView
<1>3. SameEnd(v, Closed(v, f))
    BY DEF Closed, SameEnd, IsView
<1>4. QED
    BY <1>1, <1>2, <1>3
-----------------------------------------------------------------------------
\* Blocks and their fields.
IsBlock(b) ==
    /\ b = [kind |-> b.kind, id |-> b.id, pieces |-> b.pieces, open |-> b.open]
    /\ b.kind \in Kinds /\ b.open \in BOOLEAN

BlocksOK(v) ==
    /\ v.blocks = [k \in DOMAIN v.blocks |-> v.blocks[k]]
    /\ \A k \in DOMAIN v.blocks : IsBlock(v.blocks[k])

\* A block that begins is new, and leaves the others alone.
LEMMA BegunBlocks ==
    ASSUME NEW v, IsView(v), BlocksOK(v), NEW f, f.kind \in Kinds, NEW w, w = Begun(v, f)
    PROVE  /\ BlocksOK(w)
           /\ Has(v, f.index) => w = [v EXCEPT !.bad = TRUE]
           /\ ~Has(v, f.index) =>
                 /\ DOMAIN w.blocks = DOMAIN v.blocks \cup {f.index}
                 /\ w.blocks[f.index] = [kind |-> f.kind, id |-> f.id, pieces |-> f.pieces, open |-> TRUE]
                 /\ \A k \in DOMAIN v.blocks : w.blocks[k] = v.blocks[k]
                 /\ w.at = f.index /\ w.crossed = v.crossed /\ w.bad = v.bad
<1> DEFINE new == [kind |-> f.kind, id |-> f.id, pieces |-> f.pieces, open |-> TRUE]
<1>1. CASE Has(v, f.index)
  <2>1. w = [v EXCEPT !.bad = TRUE]
      BY <1>1 DEF Begun
  <2>2. w.blocks = v.blocks
      BY <2>1 DEF IsView
  <2>3. QED
      BY <1>1, <2>1, <2>2 DEF BlocksOK
<1>2. CASE ~Has(v, f.index)
  <2> DEFINE bs == [k \in DOMAIN v.blocks \cup {f.index} |-> IF k = f.index THEN new ELSE v.blocks[k]]
  <2>1. w = [v EXCEPT !.blocks = bs, !.at = f.index]
      BY <1>2 DEF Begun, With
  <2>2. w.blocks = bs /\ w.at = f.index /\ w.crossed = v.crossed /\ w.bad = v.bad
    <3> HIDE DEF bs
    <3>1. QED
        BY <2>1 DEF IsView
  <2>3. /\ DOMAIN bs = DOMAIN v.blocks \cup {f.index}
        /\ bs[f.index] = new
        /\ \A k \in DOMAIN v.blocks : bs[k] = v.blocks[k]
        /\ bs = [k \in DOMAIN bs |-> bs[k]]
    <3> HIDE DEF new
    <3>1. QED
        BY <1>2 DEF Has
  <2>4. IsBlock(new)
      BY DEF IsBlock
  <2> HIDE DEF bs, new
  <2>5. BlocksOK(w)
      BY <2>2, <2>3, <2>4 DEF BlocksOK
  <2>6. QED
      BY <1>2, <2>2, <2>3, <2>5 DEF new
<1>3. QED
    BY <1>1, <1>2

\* A fragment is for an open block of its kind.
Fits(v, key, f) == Has(v, key) /\ v.blocks[key].open /\ v.blocks[key].kind = f.kind

\* w is v with a block extended.
Grown(v, key, f, w) ==
    /\ BlocksOK(w) /\ DOMAIN w.blocks = DOMAIN v.blocks
    /\ \A k \in DOMAIN v.blocks : w.blocks[k].kind = v.blocks[k].kind /\ w.blocks[k].open = v.blocks[k].open
    /\ ~Fits(v, key, f) => w = [v EXCEPT !.bad = TRUE]
    /\ Fits(v, key, f) => /\ w.blocks[key].pieces = v.blocks[key].pieces \o f.pieces
                          /\ w.at = key /\ w.bad = v.bad
                          /\ w.crossed = (v.crossed \/ (f.kind = "tool_use" /\ v.at # key))

\* A block that is extended changes nothing but its pieces.
LEMMA ExtendedBlocks ==
    ASSUME NEW v, IsView(v), BlocksOK(v), NEW f, NEW key, NEW w, w = Extended(v, key, f)
    PROVE  Grown(v, key, f, w)
<1>1. CASE ~Fits(v, key, f)
  <2>1. w = [v EXCEPT !.bad = TRUE]
      BY <1>1 DEF Extended, Fits
  <2>2. w.blocks = v.blocks
      BY <2>1 DEF IsView
  <2>3. QED
      BY <1>1, <2>1, <2>2 DEF BlocksOK, Grown
<1>2. CASE Fits(v, key, f)
  <2> DEFINE bs == [v.blocks EXCEPT ![key].pieces = @ \o f.pieces]
             cr == v.crossed \/ (f.kind = "tool_use" /\ v.at # key)
  <2>1. w = [v EXCEPT !.blocks = bs, !.at = key, !.crossed = cr]
      BY <1>2 DEF Extended, Fits
  <2>2. w.blocks = bs /\ w.at = key /\ w.crossed = cr /\ w.bad = v.bad
    <3> HIDE DEF bs, cr
    <3>1. QED
        BY <2>1 DEF IsView
  <2>3. key \in DOMAIN v.blocks /\ IsBlock(v.blocks[key])
      BY <1>2 DEF BlocksOK, Has, Fits
  <2>4. /\ DOMAIN bs = DOMAIN v.blocks
        /\ bs = [k \in DOMAIN bs |-> bs[k]]
        /\ \A k \in DOMAIN v.blocks : k # key => bs[k] = v.blocks[k]
        /\ bs[key] = [v.blocks[key] EXCEPT !.pieces = @ \o f.pieces]
      BY <2>3 DEF BlocksOK
  <2> HIDE DEF bs
  <2>5. /\ IsBlock(bs[key]) /\ bs[key].kind = v.blocks[key].kind /\ bs[key].open = v.blocks[key].open
        /\ bs[key].pieces = v.blocks[key].pieces \o f.pieces
      BY <2>3, <2>4 DEF IsBlock
  <2>6. \A k \in DOMAIN v.blocks : IsBlock(bs[k])
      BY <2>4, <2>5 DEF BlocksOK
  <2>7. BlocksOK(w)
      BY <2>2, <2>4, <2>6 DEF BlocksOK
  <2>8. QED
      BY <1>2, <2>2, <2>4, <2>5, <2>7 DEF Grown
<1>3. QED
    BY <1>1, <1>2

\* A block that is closed is a block.
LEMMA ShutBlock ==
    ASSUME NEW b, IsBlock(b), NEW ps, NEW c, c = [b EXCEPT !.open = FALSE, !.pieces = ps]
    PROVE  IsBlock(c) /\ c.kind = b.kind /\ c.open = FALSE
<1>1. c = [kind |-> c.kind, id |-> c.id, pieces |-> c.pieces, open |-> c.open]
    BY DEF IsBlock
<1>2. c.open = FALSE
    BY DEF IsBlock
<1>3. c.kind = b.kind
    BY DEF IsBlock
<1>4. QED
    BY <1>1, <1>2, <1>3 DEF IsBlock

\* w is v with a block closed.
Shut(v, f, w) ==
    /\ BlocksOK(w) /\ DOMAIN w.blocks = DOMAIN v.blocks /\ w.at = v.at
    /\ \A k \in DOMAIN v.blocks : /\ w.blocks[k].kind = v.blocks[k].kind
                                  /\ w.blocks[k].open = IF k = f.index THEN FALSE ELSE v.blocks[k].open
    /\ f.index \notin Open(v) => w = [v EXCEPT !.bad = TRUE]
    /\ f.index \in Open(v) =>
          LET pieces == v.blocks[f.index].pieces IN
          /\ w.crossed = (v.crossed \/ (v.blocks[f.index].kind = "tool_use" /\ v.at # f.index))
          /\ w.bad = (v.bad \/ ~(pieces = <<>> \/ f.pieces \in {<<>>, pieces}))

\* A block that is closed was open.
LEMMA ClosedBlocks ==
    ASSUME NEW v, IsView(v), BlocksOK(v), NEW f, NEW w, w = Closed(v, f)
    PROVE  Shut(v, f, w)
<1>1. CASE f.index \notin Open(v)
  <2>1. w = [v EXCEPT !.bad = TRUE]
      BY <1>1 DEF Closed
  <2>2. w.blocks = v.blocks /\ w.at = v.at
      BY <2>1 DEF IsView
  <2>3. \A k \in DOMAIN v.blocks : v.blocks[k].open = IF k = f.index THEN FALSE ELSE v.blocks[k].open
      BY <1>1 DEF Open, BlocksOK, IsBlock
  <2>4. QED
      BY <1>1, <2>1, <2>2, <2>3 DEF BlocksOK, Shut
<1>2. CASE f.index \in Open(v)
  <2> DEFINE key == f.index
             all == IF v.blocks[key].pieces = <<>> THEN f.pieces ELSE v.blocks[key].pieces
             shut == [v.blocks[key] EXCEPT !.open = FALSE, !.pieces = all]
             cr == v.crossed \/ (v.blocks[key].kind = "tool_use" /\ v.at # key)
             bd == v.bad \/ ~(v.blocks[key].pieces = <<>> \/ f.pieces \in {<<>>, v.blocks[key].pieces})
             bs == [v.blocks EXCEPT ![key] = shut]
  <2>1. w = [v EXCEPT !.blocks = bs, !.crossed = cr, !.bad = bd]
      BY <1>2 DEF Closed
  <2>2. w.blocks = bs /\ w.at = v.at /\ w.crossed = cr /\ w.bad = bd
    <3> HIDE DEF bs, cr, bd
    <3>1. w.blocks = bs /\ w.at = v.at
        BY <2>1 DEF IsView
    <3>2. w.crossed = cr
        BY <2>1 DEF IsView
    <3>3. w.bad = bd
        BY <2>1 DEF IsView
    <3>4. QED
        BY <3>1, <3>2, <3>3
  <2>3. key \in DOMAIN v.blocks /\ IsBlock(v.blocks[key]) /\ v.blocks[key].open
      BY <1>2 DEF BlocksOK, Open
  <2>4. IsBlock(shut) /\ shut.kind = v.blocks[key].kind /\ shut.open = FALSE
    <3>1. shut = [v.blocks[key] EXCEPT !.open = FALSE, !.pieces = all]
        OBVIOUS
    <3> HIDE DEF shut, all
    <3>2. PICK b : b = v.blocks[key]
        OBVIOUS
    <3>3. shut = [b EXCEPT !.open = FALSE, !.pieces = all] /\ IsBlock(b)
        BY <2>3, <3>1, <3>2
    <3>4. IsBlock(shut) /\ shut.kind = b.kind /\ shut.open = FALSE
        BY <3>3, ShutBlock
    <3>5. QED
        BY <3>2, <3>4
  <2> HIDE DEF shut, all
  <2>5. /\ DOMAIN bs = DOMAIN v.blocks
        /\ bs = [k \in DOMAIN bs |-> bs[k]]
        /\ \A k \in DOMAIN v.blocks : bs[k] = IF k = key THEN shut ELSE v.blocks[k]
      BY <2>3 DEF BlocksOK
  <2> HIDE DEF bs
  <2>6. BlocksOK(w)
      BY <2>2, <2>4, <2>5 DEF BlocksOK
  <2>7. \A k \in DOMAIN v.blocks : /\ bs[k].kind = v.blocks[k].kind
                                    /\ bs[k].open = IF k = key THEN FALSE ELSE v.blocks[k].open
      BY <2>4, <2>5
  <2>8. QED
      BY <1>2, <2>2, <2>5, <2>6, <2>7 DEF Shut
<1>3. QED
    BY <1>1, <1>2
-----------------------------------------------------------------------------
\* A frame, field by field.
Wire(type, index, kind, id, pieces, stop, cost) ==
    [type |-> type, index |-> index, kind |-> kind, id |-> id, pieces |-> pieces, stop |-> stop, usage |-> cost]

\* Frames, parts and closings have the same fields.
LEMMA FormsOfOne ==
    ASSUME NEW type, NEW index, NEW kind, NEW id, NEW pieces, NEW stop, NEW cost
    PROVE  /\ Frame(type) = Wire(type, 0, "none", 0, <<>>, "none", NoUsage)
           /\ Part(type, index, kind, id, pieces) = Wire(type, index, kind, id, pieces, "none", NoUsage)
           /\ Closing(type, stop, cost) = Wire(type, 0, "none", 0, <<>>, stop, cost)
<1>1. Frame(type) = Wire(type, 0, "none", 0, <<>>, "none", NoUsage)
    BY DEF Frame, Blank, Wire
<1> DEFINE r1 == [Frame(type) EXCEPT !.index = index]
           r2 == [r1 EXCEPT !.kind = kind]
           r3 == [r2 EXCEPT !.id = id]
           r4 == [r3 EXCEPT !.pieces = pieces]
           s1 == [Frame(type) EXCEPT !.stop = stop]
           s2 == [s1 EXCEPT !.usage = cost]
<1>2. r1 = Wire(type, index, "none", 0, <<>>, "none", NoUsage) /\ s1 = Wire(type, 0, "none", 0, <<>>, stop, NoUsage)
    BY <1>1 DEF Wire
<1>3. Part(type, index, kind, id, pieces) = r4 /\ Closing(type, stop, cost) = s2
    BY DEF Part, Closing
<1> HIDE DEF r1, s1
<1>4. r2 = Wire(type, index, kind, 0, <<>>, "none", NoUsage) /\ s2 = Wire(type, 0, "none", 0, <<>>, stop, cost)
    BY <1>2 DEF Wire
<1> HIDE DEF r2, s2
<1>5. r3 = Wire(type, index, kind, id, <<>>, "none", NoUsage)
    BY <1>4 DEF Wire
<1> HIDE DEF r3
<1>6. r4 = Wire(type, index, kind, id, pieces, "none", NoUsage)
    BY <1>5 DEF Wire
<1> HIDE DEF r4
<1>7. QED
    BY <1>1, <1>3, <1>4, <1>6

\* A frame with nothing but its type ...
LEMMA FrameForm == \A type : Frame(type) = Wire(type, 0, "none", 0, <<>>, "none", NoUsage)
BY FormsOfOne

\* ... a part ...
LEMMA PartForm ==
    \A type, index, kind, id, pieces :
        Part(type, index, kind, id, pieces) = Wire(type, index, kind, id, pieces, "none", NoUsage)
BY FormsOfOne

\* ... and the end of a message.
LEMMA ClosingForm ==
    \A type, stop, cost : Closing(type, stop, cost) = Wire(type, 0, "none", 0, <<>>, stop, cost)
BY FormsOfOne
-----------------------------------------------------------------------------
Calls(v) == {key \in DOMAIN v.blocks : key >= 0}

\* What a chat completion, or a message of Anthropic, may stop with.
ChatStops(v) == {"length", IF Calls(v) = {} THEN "stop" ELSE "tool_calls"}
MessageStops(v) == {"max_tokens", IF Called(v) THEN "tool_use" ELSE "end_turn"}

\* The frames of an OpenAI upstream, and when it sends them.
OpenAISends(v, f) ==
    /\ ~v.error
    /\ \/ ~v.started /\ f \in {Frame("chunk"), Frame("error")}
       \/ /\ v.started /\ v.stop = "none"
          /\ \/ f = Frame("error")
             \/ \E kind \in {"text", "thinking"}, ps \in Fresh(v) : f = Part("chunk", 0, kind, 0, ps)
             \/ \E ps \in Fresh(v) \cup {<<>>}, n \in {Cardinality(Calls(v))} :
                   f = Part("chunk", n, "tool_use", n + 1, ps)
             \/ \E key \in Calls(v), ps \in Fresh(v) : f = Part("chunk", key, "tool_use", 0, ps)
             \/ \E stop \in {"length", "stop", "tool_calls"} :
                   stop \in ChatStops(v) /\ f = Closing("chunk", stop, NoUsage)
       \/ /\ v.started /\ v.stop # "none" /\ v.usage = NoUsage
          /\ \E u \in Usages : f = Closing("chunk", "none", ToWire("openai", u))
       \/ v.started /\ v.stop # "none" /\ v.usage # NoUsage /\ f = Frame("[DONE]")

\* FromOpenAI, frame by frame.
LEMMA OpenAIForms ==
    ASSUME NEW v, NEW f \in FromOpenAI(v)
    PROVE  OpenAISends(v, f)
<1> DEFINE room == Room(v, "tool_use")
<1>1. ~v.error
    BY DEF FromOpenAI
<1>2. CASE ~v.started
    BY <1>1, <1>2 DEF FromOpenAI, OpenAISends
<1>3. CASE v.started /\ v.stop = "none"
  <2>1. f \in {Part("chunk", 0, kind, 0, ps) : kind \in {"text", "thinking"}, ps \in Fresh(v)}
              \cup {Part("chunk", Cardinality(Calls(v)), "tool_use", Cardinality(Calls(v)) + 1, ps) :
                       ps \in IF room THEN Fresh(v) \cup {<<>>} ELSE {}}
              \cup {Part("chunk", key, "tool_use", 0, ps) : key \in Calls(v), ps \in Fresh(v)}
              \cup {Closing("chunk", stop, NoUsage) :
                       stop \in {"length", IF Calls(v) = {} THEN "stop" ELSE "tool_calls"}}
              \cup {Frame("error")}
      BY <1>1, <1>3 DEF FromOpenAI, Calls
  <2> HIDE DEF room
  <2>2. QED
      BY <1>1, <1>3, <2>1 DEF OpenAISends, ChatStops
<1>4. CASE v.started /\ v.stop # "none" /\ v.usage = NoUsage
    BY <1>1, <1>4 DEF FromOpenAI, OpenAISends
<1>5. CASE v.started /\ v.stop # "none" /\ v.usage # NoUsage
    BY <1>1, <1>5 DEF FromOpenAI, OpenAISends
<1>6. QED
    BY <1>2, <1>3, <1>4, <1>5

\* The usage of a message_delta: all of it, or the rest of it.
EndCost(v, u) ==
    IF v.usage = NoUsage THEN ToWire("anthropic", u) ELSE [NoUsage EXCEPT !.output = u.output]

\* The frames of Anthropic, and when it sends them.
AnthropicSends(v, f) ==
    /\ ~v.error
    /\ \/ ~v.started /\ \E u \in {NoUsage} \cup {InStart(w) : w \in Usages} :
                           f = [Frame("message_start") EXCEPT !.usage = u]
       \/ v.started /\ v.stop # "none" /\ f = Frame("message_stop")
       \/ /\ v.started /\ v.stop = "none"
          /\ \/ f \in {Frame("ping"), Frame("error")}
             \/ \E key \in Open(v), ps \in Fresh(v) :
                   f = Part("content_block_delta", key, v.blocks[key].kind, 0, ps)
             \/ \E key \in Open(v) : f = Part("content_block_stop", key, "none", 0, <<>>)
             \/ Open(v) = {} /\ \E kind \in Kinds :
                   f = Part("content_block_start", Count(v), kind, NextId(v, kind), <<>>)
             \/ Open(v) = {} /\ \E stop \in {"max_tokens", "end_turn", "tool_use"}, u \in Usages :
                   /\ stop \in MessageStops(v) /\ v.usage \in {NoUsage, InStart(u)}
                   /\ f = Closing("message_delta", stop, EndCost(v, u))

\* FromAnthropic, frame by frame.
LEMMA AnthropicForms ==
    ASSUME NEW v, NEW f \in FromAnthropic(v)
    PROVE  AnthropicSends(v, f)
<1>1. ~v.error
    BY DEF FromAnthropic
<1>2. CASE ~v.started
  <2> DEFINE S == {[Frame("message_start") EXCEPT !.usage = u] : u \in {NoUsage} \cup {InStart(w) : w \in Usages}}
  <2>1. FromAnthropic(v) = S
      BY <1>1, <1>2 DEF FromAnthropic
  <2>2. f \in S => \E u \in {NoUsage} \cup {InStart(w) : w \in Usages} :
                      f = [Frame("message_start") EXCEPT !.usage = u]
      BY Zenon
  <2> HIDE DEF S
  <2>3. QED
      BY <1>1, <1>2, <2>1, <2>2 DEF AnthropicSends
<1>3. CASE v.started /\ v.stop # "none"
    BY <1>1, <1>3 DEF FromAnthropic, AnthropicSends
<1>4. CASE v.started /\ v.stop = "none"
  <2> DEFINE Deltas(key) == {Part("content_block_delta", key, v.blocks[key].kind, 0, ps) : ps \in Fresh(v)}
             Stops(key) == {Part("content_block_stop", key, "none", 0, <<>>)}
             Starts == {Part("content_block_start", Count(v), kind, NextId(v, kind), <<>>) :
                           kind \in {k \in Kinds : Room(v, k)}}
             Ends == {Closing("message_delta", stop, EndCost(v, u)) :
                         stop \in MessageStops(v),
                         u \in {w \in Usages : v.usage \in {NoUsage, InStart(w)}}}
             Parts == UNION {Deltas(key) \cup Stops(key) : key \in Open(v)}
  <2>1. FromAnthropic(v) = {Frame("ping"), Frame("error")} \cup Parts
                           \cup IF Open(v) # {} THEN {} ELSE Starts \cup Ends
      BY <1>1, <1>4 DEF FromAnthropic, EndCost, MessageStops
  <2>2. f \in Starts => \E kind \in Kinds : f = Part("content_block_start", Count(v), kind, NextId(v, kind), <<>>)
      OBVIOUS
  <2>3. ASSUME f \in Ends
        PROVE  \E stop \in {"max_tokens", "end_turn", "tool_use"}, u \in Usages :
                  /\ v.usage \in {NoUsage, InStart(u)} /\ stop \in MessageStops(v)
                  /\ f = Closing("message_delta", stop, EndCost(v, u))
    <3>1. PICK stop \in MessageStops(v),
               u \in {w \in Usages : v.usage \in {NoUsage, InStart(w)}} :
                  f = Closing("message_delta", stop, EndCost(v, u))
        BY <2>3
    <3>2. stop \in {"max_tokens", "end_turn", "tool_use"} /\ u \in Usages /\ v.usage \in {NoUsage, InStart(u)}
        BY DEF MessageStops
    <3>3. QED
        BY <3>1, <3>2
  <2>4. \A key \in Open(v) : f \in Deltas(key) =>
            \E ps \in Fresh(v) : f = Part("content_block_delta", key, v.blocks[key].kind, 0, ps)
      OBVIOUS
  <2>5. \A key \in Open(v) : f \in Stops(key) => f = Part("content_block_stop", key, "none", 0, <<>>)
      OBVIOUS
  <2> HIDE DEF Deltas, Stops, Starts, Ends
  <2>6. f \in Parts => \E key \in Open(v) : f \in Deltas(key) \/ f \in Stops(key)
      OBVIOUS
  <2> HIDE DEF Parts
  <2>7. CASE f \in Parts
      BY <1>1, <1>4, <2>4, <2>5, <2>6, <2>7 DEF AnthropicSends
  <2>8. CASE Open(v) = {} /\ f \in Starts
      BY <1>1, <1>4, <2>2, <2>8 DEF AnthropicSends
  <2>9. CASE Open(v) = {} /\ f \in Ends
      BY <1>1, <1>4, <2>3, <2>9 DEF AnthropicSends
  <2>10. CASE f \in {Frame("ping"), Frame("error")}
      BY <1>1, <1>4, <2>10 DEF AnthropicSends
  <2>11. QED
      BY <2>1, <2>7, <2>8, <2>9, <2>10
<1>5. QED
    BY <1>2, <1>3, <1>4

\* The frames of a Responses upstream, and when it sends them.
ResponsesSends(v, f) ==
    /\ ~v.error
    /\ \/ ~v.started /\ f = Frame("response.created")
       \/ /\ v.started
          /\ \/ f \in {Frame("response.failed"), Frame("error")}
             \/ \E kind \in Kinds :
                   /\ Beside(v, kind)
                   /\ f = Part("response.output_item.added", Count(v), kind, NextId(v, kind), <<>>)
             \/ \E key \in Open(v), ps \in Fresh(v) : f = Part("response.delta", key, v.blocks[key].kind, 0, ps)
             \/ \E key \in Open(v) : \E ps \in Fresh(v) \cup {<<>>} \cup {v.blocks[key].pieces} :
                   f = Part("response.output_item.done", key, v.blocks[key].kind, v.blocks[key].id, ps)
             \/ Open(v) = {} /\ \E u \in Usages :
                   f \in {Closing("response.completed", "completed", ToWire("responses", u)),
                          Closing("response.incomplete", "incomplete", ToWire("responses", u))}

\* FromResponses, frame by frame.
LEMMA ResponsesForms ==
    ASSUME NEW v, NEW f \in FromResponses(v)
    PROVE  ResponsesSends(v, f)
<1>1. ~v.error
    BY DEF FromResponses
<1>2. CASE ~v.started
    BY <1>1, <1>2 DEF FromResponses, ResponsesSends
<1>3. CASE v.started
  <2> DEFINE Deltas(key) == {Part("response.delta", key, v.blocks[key].kind, 0, ps) : ps \in Fresh(v)}
             Dones(key) == {Part("response.output_item.done", key, v.blocks[key].kind, v.blocks[key].id, ps) :
                               ps \in IF v.blocks[key].pieces = <<>> /\ v.blocks[key].kind = "tool_use"
                                      THEN Fresh(v) \cup {<<>>} ELSE {v.blocks[key].pieces}}
             Adds == {Part("response.output_item.added", Count(v), kind, NextId(v, kind), <<>>) :
                         kind \in {k \in Kinds : Room(v, k) /\ Beside(v, k)}}
             Ends == {Closing(end.type, end.stop, ToWire("responses", u)) : u \in Usages,
                         end \in {Closing("response.completed", "completed", NoUsage),
                                  Closing("response.incomplete", "incomplete", NoUsage)}}
             Parts == UNION {Deltas(key) \cup Dones(key) : key \in Open(v)}
  <2>1. FromResponses(v) = {Frame("response.failed"), Frame("error")} \cup Adds \cup Parts
                           \cup IF Open(v) # {} THEN {} ELSE Ends
      BY <1>1, <1>3 DEF FromResponses
  <2>2. f \in Adds => \E kind \in Kinds :
                         /\ Beside(v, kind)
                         /\ f = Part("response.output_item.added", Count(v), kind, NextId(v, kind), <<>>)
      OBVIOUS
  <2>3. f \in Ends => \E u \in Usages :
                         f \in {Closing("response.completed", "completed", ToWire("responses", u)),
                                Closing("response.incomplete", "incomplete", ToWire("responses", u))}
      BY ClosingForm DEF Wire
  <2>4. \A key \in Open(v) : f \in Deltas(key) =>
            \E ps \in Fresh(v) : f = Part("response.delta", key, v.blocks[key].kind, 0, ps)
      OBVIOUS
  <2>5. \A key \in Open(v) : f \in Dones(key) =>
            \E ps \in Fresh(v) \cup {<<>>} \cup {v.blocks[key].pieces} :
               f = Part("response.output_item.done", key, v.blocks[key].kind, v.blocks[key].id, ps)
      OBVIOUS
  <2> HIDE DEF Deltas, Dones, Adds, Ends
  <2>6. f \in Parts => \E key \in Open(v) : f \in Deltas(key) \/ f \in Dones(key)
      OBVIOUS
  <2> HIDE DEF Parts
  <2>7. CASE f \in Parts
      BY <1>1, <1>3, <2>4, <2>5, <2>6, <2>7 DEF ResponsesSends
  <2>8. CASE f \in Adds
      BY <1>1, <1>3, <2>2, <2>8 DEF ResponsesSends
  <2>9. CASE Open(v) = {} /\ f \in Ends
      BY <1>1, <1>3, <2>3, <2>9 DEF ResponsesSends
  <2>10. CASE f \in {Frame("response.failed"), Frame("error")}
      BY <1>1, <1>3, <2>10 DEF ResponsesSends
  <2>11. QED
      BY <2>1, <2>7, <2>8, <2>9, <2>10
<1>4. QED
    BY <1>2, <1>3
-----------------------------------------------------------------------------
\* What a frame of an OpenAI upstream says of the cost and the end.
OpenAISays(v, f, w) ==
    /\ IsView(w)
    /\ f.type \in {"chunk", "error", "[DONE]"}
    /\ \/ f.usage = NoUsage /\ w.usage = v.usage
       \/ f.usage \in WireUsages("openai") /\ w.usage = f.usage
    /\ w.ends = v.ends \/ (w.ends = v.ends + 1 /\ v.usage # NoUsage)

\* A chat completion reports its usage in a chunk of its own, before [DONE].
LEMMA OpenAIFrames ==
    ASSUME NEW v, IsView(v), NEW f \in FromOpenAI(v)
    PROVE  OpenAISays(v, f, ReadOpenAI(v, f))
<1>1. \/ f.type = "chunk" /\ (f.usage = NoUsage \/ f.usage \in WireUsages("openai"))
      \/ f.type = "error" /\ f.usage = NoUsage
      \/ f.type = "[DONE]" /\ f.usage = NoUsage /\ v.usage # NoUsage
    BY OpenAIForms, FrameForm, PartForm, ClosingForm DEF OpenAISends, WireUsages, Wire
<1>2. CASE f.type = "chunk" /\ (f.usage = NoUsage \/ f.usage \in WireUsages("openai"))
  <2> DEFINE key == CASE f.kind = "thinking" -> -2 [] f.kind = "text" -> -1 [] OTHER -> f.index
             x == IF f.kind = "none" THEN v
                  ELSE IF Has(v, key) THEN Extended(v, key, f) ELSE Begun(v, [f EXCEPT !.index = key])
  <2>1. SameEnd(v, x)
    <3>1. SameEnd(v, Extended(v, key, f)) /\ SameEnd(v, Begun(v, [f EXCEPT !.index = key]))
        BY BlocksKeepEnd
    <3>2. SameEnd(v, v)
        BY DEF SameEnd
    <3>3. QED
        BY <3>1, <3>2
  <2>2. ReadOpenAI(v, f) =
            [x EXCEPT !.started = TRUE,
                      !.stop = IF f.stop = "none" THEN @ ELSE f.stop,
                      !.usage = IF f.usage = NoUsage THEN @ ELSE f.usage,
                      !.bad = @ \/ (f.stop # "none" /\ v.stop # "none")]
      BY <1>2 DEF ReadOpenAI
  <2> HIDE DEF x
  <2>3. QED
      BY <1>2, <2>1, <2>2 DEF OpenAISays, SameEnd, IsView
<1>3. CASE f.type = "error" /\ f.usage = NoUsage
  <2>1. ReadOpenAI(v, f) = [v EXCEPT !.error = TRUE]
      BY <1>3 DEF ReadOpenAI
  <2>2. QED
      BY <1>3, <2>1 DEF OpenAISays, IsView
<1>4. CASE f.type = "[DONE]" /\ f.usage = NoUsage /\ v.usage # NoUsage
  <2>1. ReadOpenAI(v, f) = [v EXCEPT !.ends = @ + 1]
      BY <1>4 DEF ReadOpenAI
  <2>2. QED
      BY <1>4, <2>1 DEF OpenAISays, IsView
<1>5. QED
    BY <1>1, <1>2, <1>3, <1>4

\* What a frame of Anthropic says of the cost and the end.
AnthropicSays(v, f, w) ==
    /\ IsView(w)
    /\ f.type \notin {"[DONE]", "response.completed", "response.incomplete"}
    /\ CASE f.type = "message_start" ->
              /\ ~v.started
              /\ f.usage \in {NoUsage} \cup {InStart(u) : u \in Usages}
              /\ w.usage = f.usage /\ w.stop = v.stop /\ w.ends = v.ends /\ w.started
         [] f.type = "message_delta" ->
              /\ v.started /\ v.stop = "none" /\ f.stop # "none"
              /\ \E u \in Usages :
                    \/ v.usage = NoUsage /\ f.usage = ToWire("anthropic", u)
                    \/ v.usage # NoUsage /\ v.usage = InStart(u) /\ f.usage = [NoUsage EXCEPT !.output = u.output]
              /\ w.usage = MergeUsage(v.usage, f.usage) /\ w.stop = f.stop /\ w.ends = v.ends /\ w.started
         [] OTHER ->
              /\ f.usage = NoUsage
              /\ w.usage = v.usage /\ w.stop = v.stop /\ w.started = v.started
              /\ w.ends = v.ends \/ (w.ends = v.ends + 1 /\ v.stop # "none")

\* Anthropic reports its usage in message_start and in message_delta.
LEMMA AnthropicFrames ==
    ASSUME NEW v, IsView(v), NEW f \in FromAnthropic(v)
    PROVE  AnthropicSays(v, f, ReadAnthropic(v, f))
<1> DEFINE Quiet == {"ping", "error", "content_block_delta", "content_block_stop", "content_block_start"}
<1>1. \/ f.type = "message_start" /\ ~v.started /\ f.usage \in {NoUsage} \cup {InStart(u) : u \in Usages}
      \/ f.type = "message_stop" /\ v.stop # "none" /\ f.usage = NoUsage
      \/ f.type \in Quiet /\ f.usage = NoUsage
      \/ /\ f.type = "message_delta" /\ v.started /\ v.stop = "none" /\ f.stop # "none"
         /\ \E u \in Usages :
               \/ v.usage = NoUsage /\ f.usage = ToWire("anthropic", u)
               \/ v.usage # NoUsage /\ v.usage = InStart(u) /\ f.usage = [NoUsage EXCEPT !.output = u.output]
  <2>1. ASSUME NEW u, f = [Frame("message_start") EXCEPT !.usage = u]
        PROVE  f.type = "message_start" /\ f.usage = u
      BY <2>1, FrameForm DEF Wire
  <2>2. ASSUME NEW type, f = Frame(type)
        PROVE  f.type = type /\ f.usage = NoUsage
      BY <2>2, FrameForm DEF Wire
  <2>3. ASSUME NEW type, NEW key, NEW kind, NEW id, NEW ps, f = Part(type, key, kind, id, ps)
        PROVE  f.type = type /\ f.usage = NoUsage
      BY <2>3, PartForm DEF Wire
  <2>4. ASSUME NEW type, NEW stop, NEW cost, f = Closing(type, stop, cost)
        PROVE  f.type = type /\ f.stop = stop /\ f.usage = cost
      BY <2>4, ClosingForm DEF Wire
  <2>5. CASE ~v.started
    <3>1. PICK u \in {NoUsage} \cup {InStart(x) : x \in Usages} : f = [Frame("message_start") EXCEPT !.usage = u]
        BY AnthropicForms, <2>5 DEF AnthropicSends
    <3>2. f.type = "message_start" /\ f.usage = u
        BY <2>1, <3>1
    <3>3. QED
        BY <2>5, <3>2
  <2>6. CASE v.started /\ v.stop # "none"
      BY AnthropicForms, <2>2, <2>6 DEF AnthropicSends
  <2>7. CASE v.started /\ v.stop = "none" /\ f \in {Frame("ping"), Frame("error")}
      BY <2>2, <2>7
  <2>8. CASE v.started /\ v.stop = "none" /\ \E type \in Quiet : \E key, kind, id, ps
                  : f = Part(type, key, kind, id, ps)
      BY <2>3, <2>8
  <2>9. CASE v.started /\ v.stop = "none" /\ \E stop \in {"max_tokens", "end_turn", "tool_use"}, u \in Usages :
                /\ v.usage \in {NoUsage, InStart(u)}
                /\ f = Closing("message_delta", stop, EndCost(v, u))
      BY <2>4, <2>9 DEF EndCost
  <2>10. v.started /\ v.stop = "none" =>
            \/ f \in {Frame("ping"), Frame("error")}
            \/ \E type \in Quiet : \E key, kind, id, ps : f = Part(type, key, kind, id, ps)
            \/ \E stop \in {"max_tokens", "end_turn", "tool_use"}, u \in Usages :
                  /\ v.usage \in {NoUsage, InStart(u)}
                  /\ f = Closing("message_delta", stop, EndCost(v, u))
      BY AnthropicForms DEF AnthropicSends
  <2>11. QED
      BY <2>5, <2>6, <2>7, <2>8, <2>9, <2>10
<1>2. CASE f.type = "message_start" /\ ~v.started /\ f.usage \in {NoUsage} \cup {InStart(u) : u \in Usages}
  <2>1. ReadAnthropic(v, f) = [v EXCEPT !.started = TRUE, !.usage = f.usage, !.bad = @ \/ v.started]
      BY <1>2 DEF ReadAnthropic
  <2>2. QED
      BY <1>2, <2>1 DEF AnthropicSays, IsView
<1>3. CASE f.type = "message_stop" /\ v.stop # "none" /\ f.usage = NoUsage
  <2>1. ReadAnthropic(v, f) = [v EXCEPT !.ends = @ + 1, !.bad = @ \/ Open(v) # {}]
      BY <1>3 DEF ReadAnthropic
  <2>2. QED
      BY <1>3, <2>1 DEF AnthropicSays, IsView
<1>4. CASE f.type \in Quiet /\ f.usage = NoUsage
  <2> DEFINE w == ReadAnthropic(v, f)
  <2>1. \/ w = v \/ w = [v EXCEPT !.bad = TRUE] \/ w = [v EXCEPT !.error = TRUE]
        \/ w = Begun(v, f) \/ w = Extended(v, f.index, f) \/ w = Closed(v, f)
      BY <1>4 DEF ReadAnthropic
  <2>2. SameEnd(v, Begun(v, f)) /\ SameEnd(v, Extended(v, f.index, f)) /\ SameEnd(v, Closed(v, f))
      BY BlocksKeepEnd
  <2> HIDE DEF w
  <2>3. IsView(w) /\ w.usage = v.usage /\ w.stop = v.stop /\ w.started = v.started /\ w.ends = v.ends
      BY <2>1, <2>2 DEF SameEnd, IsView
  <2>4. AnthropicSays(v, f, w)
      BY <1>4, <2>3 DEF AnthropicSays
  <2>5. QED
      BY <2>4 DEF w
<1>5. CASE /\ f.type = "message_delta" /\ v.started /\ v.stop = "none" /\ f.stop # "none"
           /\ \E u \in Usages :
                 \/ v.usage = NoUsage /\ f.usage = ToWire("anthropic", u)
                 \/ v.usage # NoUsage /\ v.usage = InStart(u) /\ f.usage = [NoUsage EXCEPT !.output = u.output]
  <2>1. ReadAnthropic(v, f) =
           [v EXCEPT !.stop = f.stop, !.usage = MergeUsage(@, f.usage),
                     !.bad = @ \/ v.stop # "none" \/ Open(v) # {}]
      BY <1>5 DEF ReadAnthropic
  <2>2. LET w == ReadAnthropic(v, f)
        IN  IsView(w) /\ w.usage = MergeUsage(v.usage, f.usage) /\ w.stop = f.stop /\ w.ends = v.ends /\ w.started
      BY <1>5, <2>1 DEF IsView
  <2>3. QED
      BY <1>5, <2>2 DEF AnthropicSays
<1>6. QED
    BY <1>1, <1>2, <1>3, <1>4, <1>5

\* What a frame of a Responses upstream says of the cost and the end.
ResponsesSays(v, f, w) ==
    /\ IsView(w)
    /\ \/ /\ f.type \in {"response.completed", "response.incomplete"}
          /\ f.usage \in WireUsages("responses") /\ w.usage = f.usage
          /\ w.ends = v.ends + 1 /\ w.error = v.error
       \/ /\ f.type \in {"response.failed", "error"}
          /\ f.usage = NoUsage /\ w.usage = v.usage
          /\ w.ends = v.ends + 1 /\ w.error
       \/ /\ f.type \in {"response.created", "response.output_item.added", "response.delta",
                         "response.output_item.done"}
          /\ f.usage = NoUsage /\ w.usage = v.usage
          /\ w.ends = v.ends /\ w.error = v.error

\* A response reports its usage in its last frame.
LEMMA ResponsesFrames ==
    ASSUME NEW v, IsView(v), NEW f \in FromResponses(v)
    PROVE  ResponsesSays(v, f, ReadResponses(v, f))
<1> DEFINE Endings == {"response.completed", "response.incomplete"}
           Broken == {"response.failed", "error"}
           Items == {"response.output_item.added", "response.delta", "response.output_item.done"}
<1>1. \/ f.type \in Endings /\ f.usage \in WireUsages("responses")
      \/ f.type \in Broken /\ f.usage = NoUsage
      \/ f.type = "response.created" /\ f.usage = NoUsage
      \/ f.type \in Items /\ f.usage = NoUsage
  <2>1. ASSUME NEW type, f = Frame(type)
        PROVE  f.type = type /\ f.usage = NoUsage
      BY <2>1, FrameForm DEF Wire
  <2>2. ASSUME NEW type, NEW key, NEW kind, NEW id, NEW ps, f = Part(type, key, kind, id, ps)
        PROVE  f.type = type /\ f.usage = NoUsage
      BY <2>2, PartForm DEF Wire
  <2>3. ASSUME NEW type, NEW stop, NEW cost, f = Closing(type, stop, cost)
        PROVE  f.type = type /\ f.usage = cost
      BY <2>3, ClosingForm DEF Wire
  <2>4. \/ \E type \in Broken \cup {"response.created"} : f = Frame(type)
        \/ \E type \in Items : \E key, kind, id, ps : f = Part(type, key, kind, id, ps)
        \/ \E type \in Endings, u \in Usages : \E stop : f = Closing(type, stop, ToWire("responses", u))
      BY ResponsesForms DEF ResponsesSends
  <2>5. QED
      BY <2>1, <2>2, <2>3, <2>4 DEF WireUsages
<1>2. CASE f.type \in Endings /\ f.usage \in WireUsages("responses")
  <2>1. ReadResponses(v, f) = [v EXCEPT !.stop = f.stop, !.usage = f.usage, !.ends = @ + 1, !.bad = @ \/ Open(v) # {}]
      BY <1>2 DEF ReadResponses, Ended
  <2>2. QED
      BY <1>2, <2>1 DEF ResponsesSays, IsView
<1>3. CASE f.type \in Broken /\ f.usage = NoUsage
  <2>1. ReadResponses(v, f) = [v EXCEPT !.error = TRUE, !.ends = @ + 1]
      BY <1>3 DEF ReadResponses
  <2>2. QED
      BY <1>3, <2>1 DEF ResponsesSays, IsView
<1>4. CASE f.type = "response.created" /\ f.usage = NoUsage
  <2>1. ReadResponses(v, f) = [v EXCEPT !.started = TRUE, !.bad = @ \/ v.started]
      BY <1>4 DEF ReadResponses
  <2>2. QED
      BY <1>4, <2>1 DEF ResponsesSays, IsView
<1>5. CASE f.type \in Items /\ f.usage = NoUsage
  <2> DEFINE w == ReadResponses(v, f)
  <2>1. w = Begun(v, f) \/ w = Extended(v, f.index, f) \/ w = Closed(v, f)
      BY <1>5 DEF ReadResponses
  <2>2. SameEnd(v, Begun(v, f)) /\ SameEnd(v, Extended(v, f.index, f)) /\ SameEnd(v, Closed(v, f))
      BY BlocksKeepEnd
  <2> HIDE DEF w
  <2>3. IsView(w) /\ w.usage = v.usage /\ w.ends = v.ends /\ w.error = v.error
      BY <2>1, <2>2 DEF SameEnd
  <2>4. ResponsesSays(v, f, w)
      BY <1>5, <2>3 DEF ResponsesSays
  <2>5. QED
      BY <2>4 DEF w
<1>6. QED
    BY <1>1, <1>2, <1>3, <1>4, <1>5
-----------------------------------------------------------------------------
\* What a frame is about: a block of some kind, or none.
FrameKind(f) ==
    /\ f = Wire(f.type, f.index, f.kind, f.id, f.pieces, f.stop, f.usage)
    /\ f.kind \in Kinds \cup {"none"}
    /\ f.type \in {"content_block_start", "response.output_item.added"} => f.kind \in Kinds

\* An upstream's frames are about blocks of the kinds there are.
LEMMA FrameKinds ==
    ASSUME NEW p \in Protocols, NEW v, BlocksOK(v), NEW f \in Sends(p, v)
    PROVE  FrameKind(f)
<1>1. \A key \in Open(v) : v.blocks[key].kind \in Kinds
    BY DEF Open, BlocksOK, IsBlock
<1>2. ASSUME NEW type, f = Frame(type), type \notin {"content_block_start", "response.output_item.added"}
      PROVE  FrameKind(f)
    BY <1>2, FrameForm DEF FrameKind, Wire
<1>3. ASSUME NEW type, NEW key, NEW kind \in Kinds, NEW id, NEW ps, f = Part(type, key, kind, id, ps)
      PROVE  FrameKind(f)
    BY <1>3, PartForm DEF FrameKind, Wire
<1>4. ASSUME NEW type, NEW stop, NEW cost, f = Closing(type, stop, cost),
             type \in {"chunk", "message_delta", "response.completed", "response.incomplete"}
      PROVE  FrameKind(f)
    BY <1>4, ClosingForm DEF FrameKind, Wire
<1>5. {"text", "thinking", "tool_use"} = Kinds
    BY DEF Kinds
<1>6. CASE p = "openai"
  <2>1. OpenAISends(v, f)
      BY <1>6, OpenAIForms DEF Sends
  <2>2. \/ \E type \in {"chunk", "error", "[DONE]"} : f = Frame(type)
        \/ \E kind \in Kinds : \E key, id, ps : f = Part("chunk", key, kind, id, ps)
        \/ \E stop, cost : f = Closing("chunk", stop, cost)
      BY <1>5, <2>1 DEF OpenAISends
  <2>3. QED
      BY <1>2, <1>3, <1>4, <2>2
<1>7. CASE p = "anthropic"
  <2>1. AnthropicSends(v, f)
      BY <1>7, AnthropicForms DEF Sends
  <2>2. ASSUME NEW u, f = [Frame("message_start") EXCEPT !.usage = u]
        PROVE  FrameKind(f)
      BY <2>2, FrameForm DEF FrameKind, Wire
  <2>3. ASSUME NEW key, f = Part("content_block_stop", key, "none", 0, <<>>)
        PROVE  FrameKind(f)
      BY <2>3, PartForm DEF FrameKind, Wire
  <2>4. \/ \E u : f = [Frame("message_start") EXCEPT !.usage = u]
        \/ \E type \in {"message_stop", "ping", "error"} : f = Frame(type)
        \/ \E kind \in Kinds : \E type, key, id, ps : f = Part(type, key, kind, id, ps)
        \/ \E key : f = Part("content_block_stop", key, "none", 0, <<>>)
        \/ \E stop, cost : f = Closing("message_delta", stop, cost)
      BY <1>1, <2>1 DEF AnthropicSends
  <2>5. QED
      BY <1>2, <1>3, <1>4, <2>2, <2>3, <2>4
<1>8. CASE p = "responses"
  <2>1. ResponsesSends(v, f)
      BY <1>8, ResponsesForms DEF Sends
  <2>2. \/ \E type \in {"response.created", "response.failed", "error"} : f = Frame(type)
        \/ \E kind \in Kinds : \E type, key, id, ps : f = Part(type, key, kind, id, ps)
        \/ \E type \in {"response.completed", "response.incomplete"} : \E stop, cost : f = Closing(type, stop, cost)
      BY <1>1, <2>1 DEF ResponsesSends
  <2>3. QED
      BY <1>2, <1>3, <1>4, <2>2
<1>9. QED
    BY <1>6, <1>7, <1>8 DEF Protocols

\* Whatever a client reads, its blocks are blocks.
LEMMA BlocksRead ==
    ASSUME NEW p \in Protocols, NEW v, IsView(v), BlocksOK(v), NEW f, FrameKind(f)
    PROVE  BlocksOK(Read(p, v, f))
<1> DEFINE w == Read(p, v, f)
<1>1. ASSUME NEW x, x.blocks = v.blocks
      PROVE  BlocksOK(x)
    BY <1>1 DEF BlocksOK
<1>2. \A key : BlocksOK(Extended(v, key, f))
    BY ExtendedBlocks DEF Grown
<1>3. BlocksOK(Closed(v, f))
    BY ClosedBlocks DEF Shut
<1>4. ASSUME f.kind \in Kinds
      PROVE  BlocksOK(Begun(v, f))
    BY <1>4, BegunBlocks
<1>5. CASE v.ends > 0
  <2>1. w = [v EXCEPT !.bad = TRUE, !.ends = @ + 1]
      BY <1>5 DEF Read
  <2>2. w.blocks = v.blocks
      BY <2>1 DEF IsView
  <2>3. QED
      BY <1>1, <2>2
<1>6. CASE ~(v.ends > 0) /\ p = "openai"
  <2> DEFINE key == CASE f.kind = "thinking" -> -2 [] f.kind = "text" -> -1 [] OTHER -> f.index
             g == [f EXCEPT !.index = key]
             x == IF f.kind = "none" THEN v ELSE IF Has(v, key) THEN Extended(v, key, f) ELSE Begun(v, g)
  <2>1. BlocksOK(x) /\ IsView(x)
    <3>1. SameEnd(v, Extended(v, key, f)) /\ SameEnd(v, Begun(v, g))
        BY BlocksKeepEnd
    <3>2. CASE f.kind = "none"
        BY <3>2
    <3>3. CASE f.kind # "none" /\ Has(v, key)
        BY <1>2, <3>1, <3>3 DEF SameEnd
    <3>4. CASE f.kind # "none" /\ ~Has(v, key)
      <4>1. x = Begun(v, g)
          BY <3>4
      <4>2. f.kind \in Kinds
          BY <3>4 DEF FrameKind
      <4>3. g.kind = f.kind
          BY DEF FrameKind, Wire
      <4> HIDE DEF g, x
      <4>4. QED
          BY <3>1, <4>1, <4>2, <4>3, BegunBlocks DEF SameEnd
    <3>5. QED
        BY <3>2, <3>3, <3>4
  <2>2. \/ w = [x EXCEPT !.started = TRUE,
                         !.stop = IF f.stop = "none" THEN @ ELSE f.stop,
                         !.usage = IF f.usage = NoUsage THEN @ ELSE f.usage,
                         !.bad = @ \/ (f.stop # "none" /\ v.stop # "none")]
        \/ w = [v EXCEPT !.error = TRUE] \/ w = [v EXCEPT !.ends = @ + 1] \/ w = [v EXCEPT !.bad = TRUE]
      BY <1>6 DEF Read, ReadOpenAI
  <2> HIDE DEF w, x
  <2>3. w.blocks = x.blocks \/ w.blocks = v.blocks
      BY <2>1, <2>2 DEF IsView
  <2>4. BlocksOK(w)
      BY <1>1, <2>1, <2>3 DEF BlocksOK
  <2>5. QED
      BY <2>4 DEF w
<1>7. CASE ~(v.ends > 0) /\ p = "anthropic"
  <2>1. \/ w = Begun(v, f) /\ f.kind \in Kinds
        \/ w = Extended(v, f.index, f) \/ w = Closed(v, f)
        \/ w.blocks = v.blocks
      BY <1>7 DEF Read, ReadAnthropic, FrameKind, IsView
  <2> HIDE DEF w
  <2>2. BlocksOK(w)
      BY <1>1, <1>2, <1>3, <1>4, <2>1
  <2>3. QED
      BY <2>2 DEF w
<1>8. CASE ~(v.ends > 0) /\ p = "responses"
  <2>1. \/ w = Begun(v, f) /\ f.kind \in Kinds
        \/ w = Extended(v, f.index, f) \/ w = Closed(v, f)
        \/ w.blocks = v.blocks
      BY <1>8 DEF Read, ReadResponses, Ended, FrameKind, IsView
  <2> HIDE DEF w
  <2>2. BlocksOK(w)
      BY <1>1, <1>2, <1>3, <1>4, <2>1
  <2>3. QED
      BY <2>2 DEF w
<1>9. QED
    BY <1>5, <1>6, <1>7, <1>8 DEF Protocols
-----------------------------------------------------------------------------
\* What the upstream has reported so far, by its protocol.
SaidOpenAI(v) ==
    /\ v.usage \in {NoUsage} \cup WireUsages("openai")
    /\ v.ends > 0 => v.usage # NoUsage

SaidAnthropic(v) ==
    /\ ~v.started => v.usage = NoUsage /\ v.stop = "none"
    /\ v.stop = "none" => v.ends = 0 /\ v.usage \in {NoUsage} \cup {InStart(u) : u \in Usages}
    /\ v.stop # "none" => v.usage \in WireUsages("anthropic")

SaidResponses(v) ==
    /\ v.ends = 0 => v.usage = NoUsage /\ ~v.error
    /\ v.ends > 0 => v.error \/ v.usage \in WireUsages("responses")

SaidUsage(p, v) ==
    /\ IsView(v) /\ v.ends \in Nat /\ BlocksOK(v)
    /\ p = "openai" => SaidOpenAI(v)
    /\ p = "anthropic" => SaidAnthropic(v)
    /\ p = "responses" => SaidResponses(v)

\* Merging the usage of a message_delta gives the whole of it.
LEMMA MergedIsWhole ==
    ASSUME NEW u \in Usages, NEW v, v.usage \in {NoUsage, InStart(u)},
           NEW more, more = EndCost(v, u)
    PROVE  MergeUsage(v.usage, more) = ToWire("anthropic", u)
<1>1. ToWire("anthropic", u) \in Costs
    BY UsageSurvives DEF Protocols
<1>2. PICK i \in Nat, o \in Nat, r \in Nat, w \in Nat :
         ToWire("anthropic", u) = [input |-> i, output |-> o, cacheRead |-> r, cacheWrite |-> w]
    BY <1>1 DEF Costs
<1>3. u.output = o
    BY <1>2, UsageSurvives DEF Protocols
<1>4. CASE v.usage = NoUsage
    BY <1>2, <1>4 DEF MergeUsage, EndCost, NoUsage
<1>5. CASE v.usage # NoUsage
  <2>1. v.usage = [input |-> i, output |-> 0, cacheRead |-> r, cacheWrite |-> w]
      BY <1>2, <1>5 DEF InStart
  <2>2. more = [input |-> 0, output |-> o, cacheRead |-> 0, cacheWrite |-> 0]
      BY <1>3, <1>5 DEF EndCost, NoUsage
  <2>3. QED
      BY <1>2, <2>1, <2>2 DEF MergeUsage
<1>6. QED
    BY <1>4, <1>5

\* What the upstream has reported keeps its form with every frame it sends.
LEMMA SaidKept ==
    ASSUME NEW p \in Protocols, NEW v, SaidUsage(p, v), NEW f \in Sends(p, v)
    PROVE  /\ v.ends = 0
           /\ p = "openai" => f \in FromOpenAI(v) /\ OpenAISays(v, f, Read(p, v, f))
           /\ p = "anthropic" => f \in FromAnthropic(v) /\ AnthropicSays(v, f, Read(p, v, f))
           /\ p = "responses" => f \in FromResponses(v) /\ ResponsesSays(v, f, Read(p, v, f))
           /\ SaidUsage(p, Read(p, v, f))
           /\ FrameKind(f)
<1> DEFINE w == Read(p, v, f)
<1>1. v.ends = 0 /\ IsView(v) /\ BlocksOK(v)
    BY DEF Sends, SaidUsage
<1>2. FrameKind(f) /\ BlocksOK(w)
  <2>1. FrameKind(f)
      BY <1>1, FrameKinds
  <2>2. QED
      BY <1>1, <2>1, BlocksRead
<1>3. CASE p = "openai"
  <2>1. f \in FromOpenAI(v) /\ w = ReadOpenAI(v, f)
      BY <1>1, <1>3 DEF Sends, Read
  <2>2. OpenAISays(v, f, w)
      BY <1>1, <2>1, OpenAIFrames
  <2> HIDE DEF w
  <2>3. SaidOpenAI(v)
      BY <1>3 DEF SaidUsage
  <2>4. IsView(w) /\ w.ends \in Nat /\ SaidOpenAI(w)
    <3>1. IsView(w) /\ w.ends \in Nat
        BY <1>1, <2>2 DEF OpenAISays
    <3>2. w.usage \in {NoUsage} \cup WireUsages("openai")
        BY <2>2, <2>3 DEF OpenAISays, SaidOpenAI
    <3>3. w.ends > 0 => w.usage # NoUsage
      <4>1. CASE w.ends = v.ends
          BY <1>1, <4>1
      <4>2. \A cost \in WireUsages("openai") : cost # NoUsage
          BY UsageSurvives DEF WireUsages, Protocols
      <4>3. CASE w.ends = v.ends + 1 /\ v.usage # NoUsage
          BY <2>2, <4>2, <4>3 DEF OpenAISays
      <4>4. QED
          BY <2>2, <4>1, <4>3 DEF OpenAISays
    <3>4. QED
        BY <3>1, <3>2, <3>3 DEF SaidOpenAI
  <2>5. SaidUsage(p, w)
      BY <1>2, <1>3, <2>4 DEF SaidUsage
  <2>6. QED
      BY <1>1, <1>2, <1>3, <2>1, <2>2, <2>5 DEF w
<1>4. CASE p = "anthropic"
  <2>1. f \in FromAnthropic(v) /\ w = ReadAnthropic(v, f)
      BY <1>1, <1>4 DEF Sends, Read
  <2>2. AnthropicSays(v, f, w)
      BY <1>1, <2>1, AnthropicFrames
  <2> HIDE DEF w
  <2>3. SaidAnthropic(v) /\ IsView(w) /\ w.ends \in Nat
      BY <1>1, <1>4, <2>2 DEF SaidUsage, AnthropicSays
  <2>4. SaidAnthropic(w)
    <3>1. CASE f.type = "message_delta"
      <4>1. PICK u \in Usages :
               \/ v.usage = NoUsage /\ f.usage = ToWire("anthropic", u)
               \/ v.usage # NoUsage /\ v.usage = InStart(u) /\ f.usage = [NoUsage EXCEPT !.output = u.output]
          BY <2>2, <3>1 DEF AnthropicSays
      <4>2. f.usage = EndCost(v, u) /\ v.usage \in {NoUsage, InStart(u)}
          BY <4>1 DEF EndCost
      <4>3. MergeUsage(v.usage, f.usage) = ToWire("anthropic", u)
          BY <4>2, MergedIsWhole
      <4>4. w.usage \in WireUsages("anthropic") /\ w.stop # "none" /\ w.started
          BY <2>2, <3>1, <4>3 DEF AnthropicSays, WireUsages
      <4>5. QED
          BY <4>4 DEF SaidAnthropic
    <3>2. CASE f.type = "message_start"
        BY <1>1, <2>2, <2>3, <3>2 DEF AnthropicSays, SaidAnthropic
    <3>3. CASE f.type \notin {"message_start", "message_delta"}
        BY <1>1, <2>2, <2>3, <3>3 DEF AnthropicSays, SaidAnthropic
    <3>4. QED
        BY <3>1, <3>2, <3>3
  <2>5. SaidUsage(p, w)
      BY <1>2, <1>4, <2>3, <2>4 DEF SaidUsage
  <2>6. QED
      BY <1>1, <1>2, <1>4, <2>1, <2>2, <2>5 DEF w
<1>5. CASE p = "responses"
  <2>1. f \in FromResponses(v) /\ w = ReadResponses(v, f)
      BY <1>1, <1>5 DEF Sends, Read
  <2>2. ResponsesSays(v, f, w)
      BY <1>1, <2>1, ResponsesFrames
  <2> HIDE DEF w
  <2>3. SaidResponses(v)
      BY <1>5 DEF SaidUsage
  <2>4. SaidUsage(p, w)
      BY <1>1, <1>2, <1>5, <2>2, <2>3 DEF SaidUsage, SaidResponses, ResponsesSays
  <2>5. QED
      BY <1>1, <1>2, <1>5, <2>1, <2>2, <2>4 DEF w
<1>6. QED
    BY <1>3, <1>4, <1>5 DEF Protocols

\* At its end an answer without an error has reported a whole usage.
LEMMA EndIsReported ==
    ASSUME NEW p \in Protocols, NEW v, SaidUsage(p, v), v.ends > 0, ~v.error
    PROVE  v.usage \in WireUsages(p) /\ (p = "anthropic" => v.stop # "none")
<1>1. v.ends # 0
    OBVIOUS
<1>2. CASE p = "openai"
    BY <1>2 DEF SaidUsage, SaidOpenAI
<1>3. CASE p = "anthropic"
    BY <1>1, <1>3 DEF SaidUsage, SaidAnthropic
<1>4. CASE p = "responses"
    BY <1>4 DEF SaidUsage, SaidResponses
<1>5. QED
    BY <1>2, <1>3, <1>4 DEF Protocols
-----------------------------------------------------------------------------
\* The usage harvested from the lines passed through so far.
TapInv(p, v, u) ==
    \/ u = ToIR(p, v.usage)
    \/ p = "anthropic" /\ v.stop # "none" /\ v.usage.input = 0 /\ u = [ToIR(p, v.usage) EXCEPT !.input = 0]

\* A message_delta with nothing but an output leaves the rest alone.
LEMMA TapOutput ==
    ASSUME NEW f, NEW before, NEW o, NEW i, NEW r, NEW w,
           f.type = "message_delta", f.usage # NoUsage, ToIR("anthropic", f.usage) = f.usage,
           f.usage = [input |-> 0, output |-> o, cacheRead |-> 0, cacheWrite |-> 0],
           before = [input |-> i, output |-> 0, cacheRead |-> r, cacheWrite |-> w]
    PROVE  Tap("anthropic", before, f) = [output |-> o, cacheRead |-> r, cacheWrite |-> w, input |-> i]
BY DEF Tap

\* Tap keeps up with a message_delta: what message_start reported is kept, the
\* rest is taken from the line.
LEMMA TapDelta ==
    ASSUME NEW u \in Usages, NEW v, v.usage \in {NoUsage, InStart(u)}, NEW f,
           f.type = "message_delta", f.usage = EndCost(v, u)
    PROVE  \/ Tap("anthropic", ToIR("anthropic", v.usage), f) = ToIR("anthropic", ToWire("anthropic", u))
           \/ /\ ToWire("anthropic", u).input = 0
              /\ Tap("anthropic", ToIR("anthropic", v.usage), f) =
                    [ToIR("anthropic", ToWire("anthropic", u)) EXCEPT !.input = 0]
<1> DEFINE wire == ToWire("anthropic", u)
           tapped == Tap("anthropic", ToIR("anthropic", v.usage), f)
           old == ToIR("anthropic", v.usage)
<1>1. wire \in Costs /\ wire.output = u.output /\ wire # NoUsage
    BY UsageSurvives DEF Protocols
<1>2. PICK i \in Nat, o \in Nat, r \in Nat, w \in Nat :
         wire = [input |-> i, output |-> o, cacheRead |-> r, cacheWrite |-> w]
    BY <1>1 DEF Costs
<1>3. ToIR("anthropic", wire) = [input |-> i + r + w, output |-> o, cacheRead |-> r, cacheWrite |-> w]
    BY <1>2 DEF ToIR
<1>4. CASE v.usage = NoUsage
  <2>1. f.usage = wire /\ f.usage # NoUsage
      BY <1>1, <1>4 DEF EndCost
  <2>2. old = [input |-> 0, output |-> 0, cacheRead |-> 0, cacheWrite |-> 0]
      BY <1>4 DEF ToIR, NoUsage
  <2>3. tapped = [output |-> o, cacheRead |-> r, cacheWrite |-> w, input |-> IF i > 0 THEN i + r + w ELSE 0]
      BY <1>2, <1>3, <2>1, <2>2 DEF Tap
  <2>4. QED
      BY <1>2, <1>3, <2>3
<1>5. CASE v.usage # NoUsage
  <2>1. v.usage = [input |-> i, output |-> 0, cacheRead |-> r, cacheWrite |-> w]
      BY <1>2, <1>5 DEF InStart
  <2>2. f.usage = [input |-> 0, output |-> o, cacheRead |-> 0, cacheWrite |-> 0]
      BY <1>1, <1>2, <1>5 DEF EndCost, NoUsage
  <2>3. old = [input |-> i + r + w, output |-> 0, cacheRead |-> r, cacheWrite |-> w]
      BY <2>1 DEF ToIR
  <2>4. CASE o = 0
    <3>1. tapped = old
        BY <2>2, <2>4 DEF Tap, NoUsage
    <3>2. QED
        BY <1>3, <2>3, <2>4, <3>1
  <2>5. CASE o # 0
    <3>1. f.usage # NoUsage
        BY <2>2, <2>5 DEF NoUsage
    <3>2. ToIR("anthropic", f.usage) = f.usage
        BY <2>2 DEF ToIR
    <3>3. tapped = [output |-> o, cacheRead |-> r, cacheWrite |-> w, input |-> i + r + w]
        BY <2>2, <2>3, <3>1, <3>2, TapOutput
    <3>4. QED
        BY <1>3, <3>3
  <2>6. QED
      BY <2>4, <2>5
<1>6. QED
    BY <1>4, <1>5

\* What is harvested follows what is reported, line by line.
LEMMA TapKept ==
    ASSUME NEW p \in Protocols, NEW v, SaidUsage(p, v), NEW f \in Sends(p, v),
           NEW u, TapInv(p, v, u)
    PROVE  TapInv(p, Read(p, v, f), Tap(p, u, f))
<1> DEFINE w == Read(p, v, f)
<1>1. /\ v.ends = 0
      /\ p = "openai" => OpenAISays(v, f, w)
      /\ p = "anthropic" => AnthropicSays(v, f, w)
      /\ p = "responses" => ResponsesSays(v, f, w)
    BY SaidKept
<1> HIDE DEF w
<1>2. ASSUME f.usage = NoUsage
      PROVE  Tap(p, u, f) = u
    BY <1>2 DEF Tap
<1>3. ASSUME f.usage # NoUsage, f.type \notin {"message_start", "message_delta"}
      PROVE  Tap(p, u, f) = ToIR(p, f.usage)
    BY <1>3 DEF Tap
<1>4. CASE p \in {"openai", "responses"}
  <2>1. \/ f.usage = NoUsage /\ w.usage = v.usage
        \/ f.usage # NoUsage /\ w.usage = f.usage
    <3>1. \A q \in {"openai", "responses"} : \A cost \in WireUsages(q) : cost # NoUsage
        BY UsageSurvives DEF WireUsages, Protocols
    <3>2. QED
        BY <1>1, <1>4, <3>1 DEF OpenAISays, ResponsesSays
  <2>2. f.type \notin {"message_start", "message_delta"}
      BY <1>1, <1>4 DEF OpenAISays, ResponsesSays
  <2>3. TapInv(p, w, Tap(p, u, f))
    <3>1. u = ToIR(p, v.usage)
        BY <1>4 DEF TapInv
    <3>2. Tap(p, u, f) = ToIR(p, w.usage)
        BY <1>2, <1>3, <2>1, <2>2, <3>1
    <3>3. QED
        BY <3>2 DEF TapInv
  <2>4. QED
      BY <2>3 DEF w
<1>5. CASE p = "anthropic"
  <2>1. SaidAnthropic(v) /\ AnthropicSays(v, f, w)
      BY <1>1, <1>5 DEF SaidUsage
  <2>2. TapInv(p, w, Tap(p, u, f))
    <3>1. CASE f.type = "message_start"
      <4>1. /\ v.usage = NoUsage /\ v.stop = "none" /\ w.usage = f.usage
            /\ f.usage \in {NoUsage} \cup {InStart(x) : x \in Usages}
          BY <2>1, <3>1 DEF AnthropicSays, SaidAnthropic
      <4>2. u = ToIR(p, NoUsage)
          BY <4>1 DEF TapInv
      <4>3. u = NoUsage
          BY <1>5, <4>2 DEF ToIR, NoUsage
      <4>4. CASE f.usage = NoUsage
          BY <1>2, <4>1, <4>2, <4>4 DEF TapInv
      <4>5. CASE f.usage # NoUsage
        <5>1. PICK x \in Usages : f.usage = InStart(x)
            BY <4>1, <4>5
        <5>2. ToWire("anthropic", x) \in Costs
            BY UsageSurvives DEF Protocols
        <5>3. PICK i \in Nat, o \in Nat, r \in Nat, c \in Nat :
                 ToWire("anthropic", x) = [input |-> i, output |-> o, cacheRead |-> r, cacheWrite |-> c]
            BY <5>2 DEF Costs
        <5>4. f.usage = [input |-> i, output |-> 0, cacheRead |-> r, cacheWrite |-> c]
            BY <5>1, <5>3 DEF InStart
        <5>5. ToIR(p, f.usage) = [input |-> i + r + c, output |-> 0, cacheRead |-> r, cacheWrite |-> c]
            BY <1>5, <5>4 DEF ToIR
        <5>6. Tap(p, u, f) = [ToIR(p, f.usage) EXCEPT !.output = u.output]
            BY <3>1, <4>5 DEF Tap
        <5>7. Tap(p, u, f) = ToIR(p, f.usage)
            BY <4>3, <5>5, <5>6 DEF NoUsage
        <5>8. QED
            BY <4>1, <5>7 DEF TapInv
      <4>6. QED
          BY <4>4, <4>5
    <3>2. CASE f.type = "message_delta"
      <4>1. PICK x \in Usages :
               \/ v.usage = NoUsage /\ f.usage = ToWire("anthropic", x)
               \/ v.usage # NoUsage /\ v.usage = InStart(x) /\ f.usage = [NoUsage EXCEPT !.output = x.output]
          BY <2>1, <3>2 DEF AnthropicSays
      <4>2. f.usage = EndCost(v, x) /\ v.usage \in {NoUsage, InStart(x)}
          BY <4>1 DEF EndCost
      <4>3. w.usage = ToWire("anthropic", x) /\ w.stop # "none" /\ v.stop = "none"
          BY <2>1, <3>2, <4>2, MergedIsWhole DEF AnthropicSays
      <4>4. u = ToIR(p, v.usage)
          BY <4>3 DEF TapInv
      <4>5. \/ Tap(p, u, f) = ToIR(p, ToWire("anthropic", x))
            \/ /\ ToWire("anthropic", x).input = 0
               /\ Tap(p, u, f) = [ToIR(p, ToWire("anthropic", x)) EXCEPT !.input = 0]
        <5>1. u = ToIR("anthropic", v.usage)
            BY <1>5, <4>4
        <5> DEFINE tapped == Tap("anthropic", ToIR("anthropic", v.usage), f)
                   whole == ToIR("anthropic", ToWire("anthropic", x))
        <5>2. \/ tapped = whole
              \/ ToWire("anthropic", x).input = 0 /\ tapped = [whole EXCEPT !.input = 0]
            BY <3>2, <4>2, TapDelta
        <5>3. tapped = Tap(p, u, f) /\ whole = ToIR(p, ToWire("anthropic", x))
            BY <1>5, <5>1
        <5> HIDE DEF tapped, whole
        <5>4. QED
            BY <5>2, <5>3
      <4>6. QED
          BY <1>5, <4>3, <4>5 DEF TapInv
    <3>3. CASE f.type \notin {"message_start", "message_delta"}
        BY <1>2, <2>1, <3>3 DEF AnthropicSays, TapInv
    <3>4. QED
        BY <3>1, <3>2, <3>3
  <2>3. QED
      BY <2>2 DEF w
<1>6. QED
    BY <1>4, <1>5 DEF Protocols
-----------------------------------------------------------------------------
\* FinishUsage leaves the usage alone when no event is a finish ...
LEMMA NoFinish ==
    ASSUME NEW evs, \A i \in 1..Len(evs) : evs[i].kind # "finish", NEW u
    PROVE  FinishUsage(evs, u) = u
BY DEF FinishUsage, SelectLastInSeq

\* ... and takes the one of the only event, when that is.
LEMMA OneFinish ==
    ASSUME NEW ev, ev.kind = "finish", NEW u
    PROVE  FinishUsage(<<ev>>, u) = ev.usage
<1> DEFINE I == {i \in 1..Len(<<ev>>) : <<ev>>[i].kind = "finish"}
<1>1. I = {1}
    OBVIOUS
<1>2. Max(I) = 1
    BY <1>1 DEF Max
<1>3. SelectLastInSeq(<<ev>>, LAMBDA e : e.kind = "finish") = 1
    BY <1>1, <1>2 DEF SelectLastInSeq
<1>4. QED
    BY <1>3 DEF FinishUsage

\* What the reader of a converted stream keeps of what was said.
ReaderInv(p, v, rd) ==
    /\ p = "anthropic" =>
          /\ rd = [seqTool |-> rd.seqTool, finished |-> rd.finished, usage |-> rd.usage]
          /\ rd.finished \in BOOLEAN /\ (rd.finished <=> v.stop # "none")
          /\ v.stop = "none" => rd.usage = v.usage
    /\ p = "responses" =>
          /\ rd = [started |-> rd.started, finished |-> rd.finished, failed |-> rd.failed,
                   seqTool |-> rd.seqTool, outIdx |-> rd.outIdx, argsSeen |-> rd.argsSeen]
          /\ v.ends = 0 => rd.finished = FALSE

\* The usage harvested from its finish.
FinishInv(p, v, u) ==
    /\ p = "anthropic" => u = IF v.stop = "none" THEN NoUsage ELSE ToIR(p, v.usage)
    /\ p = "responses" => v.error \/ u = ToIR(p, v.usage)

\* The events of a frame without a finish.
Unfinished(out) == \A i \in 1..Len(out) : out[i].kind # "finish"

\* A fragment makes an event or none.
LEMMA FragmentUnfinished ==
    ASSUME NEW kind, kind # "finish", NEW tool, NEW ps
    PROVE  Unfinished(NonEmpty(kind, tool, ps))
BY DEF Unfinished, NonEmpty, Event

\* The readers when they have finished.
LEMMA AnthropicFinished ==
    ASSUME NEW rd, rd = [seqTool |-> rd.seqTool, finished |-> rd.finished, usage |-> rd.usage],
           NEW r, r = [rd EXCEPT !.finished = TRUE]
    PROVE  r = [seqTool |-> r.seqTool, finished |-> r.finished, usage |-> r.usage] /\ r.finished = TRUE
<1>1. r = [seqTool |-> r.seqTool, finished |-> r.finished, usage |-> r.usage]
    OBVIOUS
<1>2. r.finished = TRUE
    OBVIOUS
<1>3. QED
    BY <1>1, <1>2

\* The reader of Anthropic finishes on message_delta, with the merged usage.
LEMMA AnthropicFed ==
    ASSUME NEW v, SaidAnthropic(v), NEW f, NEW w, AnthropicSays(v, f, w), f.kind # "finish",
           NEW rd, ReaderInv("anthropic", v, rd),
           NEW u, FinishInv("anthropic", v, u)
    PROVE  /\ ReaderInv("anthropic", w, FeedAnthropic(rd, f).machine)
           /\ FinishInv("anthropic", w, FinishUsage(FeedAnthropic(rd, f).out, u))
<1>1. /\ rd = [seqTool |-> rd.seqTool, finished |-> rd.finished, usage |-> rd.usage]
      /\ rd.finished \in BOOLEAN /\ (rd.finished <=> v.stop # "none")
      /\ v.stop = "none" => rd.usage = v.usage
      /\ u = IF v.stop = "none" THEN NoUsage ELSE ToIR("anthropic", v.usage)
    BY DEF ReaderInv, FinishInv
<1>2. CASE f.type = "message_start"
  <2>1. v.stop = "none" /\ w.stop = "none" /\ w.usage = f.usage
      BY <1>2 DEF AnthropicSays, SaidAnthropic
  <2>2. FeedAnthropic(rd, f) = Step([rd EXCEPT !.usage = [f.usage EXCEPT !.output = 0]], <<Event("start", 0, 0, <<>>)>>)
      BY <1>2 DEF FeedAnthropic
  <2>3. [f.usage EXCEPT !.output = 0] = f.usage
    <3>1. f.usage \in {NoUsage} \cup {InStart(x) : x \in Usages}
        BY <1>2 DEF AnthropicSays
    <3>2. CASE f.usage = NoUsage
        BY <3>2 DEF NoUsage
    <3>3. CASE \E x \in Usages : f.usage = InStart(x)
      <4>1. PICK x \in Usages : f.usage = InStart(x)
          BY <3>3
      <4>2. ToWire("anthropic", x) \in Costs
          BY UsageSurvives DEF Protocols
      <4>3. PICK i \in Nat, o \in Nat, r \in Nat, c \in Nat :
               ToWire("anthropic", x) = [input |-> i, output |-> o, cacheRead |-> r, cacheWrite |-> c]
          BY <4>2 DEF Costs
      <4>4. f.usage = [input |-> i, output |-> 0, cacheRead |-> r, cacheWrite |-> c]
          BY <4>1, <4>3 DEF InStart
      <4>5. QED
          BY <4>4
    <3>4. QED
        BY <3>1, <3>2, <3>3
  <2>4. FinishUsage(<<Event("start", 0, 0, <<>>)>>, u) = u
    <3>1. \A i \in 1..Len(<<Event("start", 0, 0, <<>>)>>) : <<Event("start", 0, 0, <<>>)>>[i].kind # "finish"
        BY DEF Event
    <3>2. QED
        BY <3>1, NoFinish
  <2>5. FeedAnthropic(rd, f).machine = [rd EXCEPT !.usage = f.usage]
        /\ FeedAnthropic(rd, f).out = <<Event("start", 0, 0, <<>>)>>
      BY <2>2, <2>3 DEF Step
  <2>6. ReaderInv("anthropic", w, [rd EXCEPT !.usage = f.usage])
      BY <1>1, <2>1 DEF ReaderInv
  <2>7. FinishInv("anthropic", w, u)
      BY <1>1, <2>1 DEF FinishInv
  <2>8. QED
      BY <2>4, <2>5, <2>6, <2>7
<1>3. CASE f.type = "message_delta"
  <2> DEFINE all == MergeUsage(rd.usage, f.usage)
             ev == FinishEvent(StopFrom("anthropic", f.stop), ToIR("anthropic", all))
  <2>1. v.stop = "none" /\ w.stop # "none" /\ w.usage = MergeUsage(v.usage, f.usage)
      BY <1>3 DEF AnthropicSays
  <2>2. ~rd.finished /\ all = w.usage
      BY <1>1, <2>1
  <2>3. FeedAnthropic(rd, f) = Step([rd EXCEPT !.finished = TRUE], <<ev>>)
      BY <1>3, <2>2 DEF FeedAnthropic
  <2>4. ev.kind = "finish" /\ ev.usage = ToIR("anthropic", all)
      BY DEF FinishEvent, Event
  <2> HIDE DEF ev, all
  <2>5. FinishUsage(<<ev>>, u) = ToIR("anthropic", w.usage)
      BY <2>2, <2>4, OneFinish
  <2>6. FeedAnthropic(rd, f).machine = [rd EXCEPT !.finished = TRUE] /\ FeedAnthropic(rd, f).out = <<ev>>
      BY <2>3 DEF Step
  <2>7. ReaderInv("anthropic", w, [rd EXCEPT !.finished = TRUE])
    <3>1. PICK r : r = [rd EXCEPT !.finished = TRUE]
        OBVIOUS
    <3>2. r = [seqTool |-> r.seqTool, finished |-> r.finished, usage |-> r.usage]
        BY <1>1, <3>1, AnthropicFinished
    <3>3. r.finished = TRUE
        BY <1>1, <3>1, AnthropicFinished
    <3>4. ReaderInv("anthropic", w, r)
        BY <2>1, <3>2, <3>3 DEF ReaderInv
    <3>5. QED
        BY <3>1, <3>4
  <2>8. FinishInv("anthropic", w, ToIR("anthropic", w.usage))
      BY <2>1 DEF FinishInv
  <2>9. QED
      BY <2>5, <2>6, <2>7, <2>8
<1>4. CASE f.type \notin {"message_start", "message_delta"}
  <2>1. w.stop = v.stop /\ w.usage = v.usage
      BY <1>4 DEF AnthropicSays
  <2>2. /\ Unfinished(FeedAnthropic(rd, f).out)
        /\ FeedAnthropic(rd, f).machine \in {rd, [rd EXCEPT !.seqTool = @ + 1]}
    <3>1. \A tool : Unfinished(NonEmpty("tool_delta", tool, f.pieces)) /\ Unfinished(NonEmpty(f.kind, tool, f.pieces))
        BY FragmentUnfinished
    <3>2. \A kind, tool, id : kind # "finish" => Unfinished(<<Event(kind, tool, id, <<>>)>>)
        BY DEF Unfinished, Event
    <3>3. Unfinished(<<>>)
        BY DEF Unfinished
    <3>4. QED
        BY <1>4, <3>1, <3>2, <3>3 DEF FeedAnthropic, Step
  <2>3. FinishUsage(FeedAnthropic(rd, f).out, u) = u
      BY <2>2, NoFinish DEF Unfinished
  <2>4. ReaderInv("anthropic", w, rd) /\ ReaderInv("anthropic", w, [rd EXCEPT !.seqTool = @ + 1])
      BY <1>1, <2>1 DEF ReaderInv
  <2>5. FinishInv("anthropic", w, u)
      BY <1>1, <2>1 DEF FinishInv
  <2>6. QED
      BY <2>2, <2>3, <2>4, <2>5
<1>5. QED
    BY <1>2, <1>3, <1>4

IsReader(rd) ==
    rd = [started |-> rd.started, finished |-> rd.finished, failed |-> rd.failed,
          seqTool |-> rd.seqTool, outIdx |-> rd.outIdx, argsSeen |-> rd.argsSeen]

\* The fields of a Responses reader that a frame may change.
LEMMA ReaderFields ==
    ASSUME NEW rd, IsReader(rd), NEW r, NEW x, NEW y,
           \/ r = [rd EXCEPT !.started = x]
           \/ r = [rd EXCEPT !.failed = x]
           \/ r = [rd EXCEPT !.argsSeen = x]
           \/ r = [rd EXCEPT !.seqTool = x, !.outIdx = y]
    PROVE  IsReader(r) /\ r.finished = rd.finished
<1>1. CASE r = [rd EXCEPT !.started = x]
    BY <1>1 DEF IsReader
<1>2. CASE r = [rd EXCEPT !.failed = x]
    BY <1>2 DEF IsReader
<1>3. CASE r = [rd EXCEPT !.argsSeen = x]
    BY <1>3 DEF IsReader
<1>4. CASE r = [rd EXCEPT !.seqTool = x, !.outIdx = y]
    BY <1>4 DEF IsReader
<1>5. QED
    BY <1>1, <1>2, <1>3, <1>4

\* It has finished.
LEMMA ResponsesFinished ==
    ASSUME NEW rd, IsReader(rd), NEW r, r = [rd EXCEPT !.finished = TRUE]
    PROVE  IsReader(r) /\ r.finished = TRUE
<1>1. IsReader(r)
    BY DEF IsReader
<1>2. r.finished = TRUE
    BY DEF IsReader
<1>3. QED
    BY <1>1, <1>2

\* An item's events are no finish.
LEMMA ItemUnfinished ==
    ASSUME NEW rd, NEW f, f.kind # "finish",
           f.type \in {"response.created", "response.output_item.added", "response.delta",
                       "response.output_item.done"}
    PROVE  Unfinished(FeedResponses(rd, f).out)
<1>1. \A kind, tool, id, ps : kind # "finish" => Unfinished(<<Event(kind, tool, id, ps)>>)
    BY DEF Unfinished, Event
<1>2. Unfinished(<<>>)
    BY DEF Unfinished
<1>3. \A tool, ps, ev : ev.kind # "finish" => Unfinished(UnseenArgs(rd, tool, ps) \o <<ev>>)
  <2> TAKE tool, ps, ev
  <2>1. HAVE ev.kind # "finish"
  <2>2. CASE UnseenArgs(rd, tool, ps) = <<>>
      BY <2>1, <2>2 DEF Unfinished
  <2>3. CASE UnseenArgs(rd, tool, ps) = <<Event("tool_delta", tool, 0, ps)>>
    <3>1. Event("tool_delta", tool, 0, ps).kind # "finish"
        BY DEF Event
    <3>2. QED
        BY <2>1, <2>3, <3>1 DEF Unfinished
  <2>4. QED
      BY <2>2, <2>3 DEF UnseenArgs, NonEmpty
<1>4. CASE f.type = "response.created"
    BY <1>1, <1>2, <1>4 DEF FeedResponses, Step
<1>5. CASE f.type = "response.output_item.added"
    BY <1>1, <1>2, <1>5 DEF FeedResponses, Step
<1>6. CASE f.type = "response.delta"
    BY <1>1, <1>2, <1>6 DEF FeedResponses, Step
<1>7. CASE f.type = "response.output_item.done"
  <2>1. \A tool, id, ps : Event("tool_end", tool, id, ps).kind # "finish"
      BY DEF Event
  <2>2. QED
      BY <1>2, <1>3, <1>7, <2>1 DEF FeedResponses, Step
<1>8. QED
    BY <1>4, <1>5, <1>6, <1>7

\* The reader of a Responses upstream finishes on its last frame.
LEMMA ResponsesFed ==
    ASSUME NEW v, SaidResponses(v), v.ends = 0, NEW f, NEW w, ResponsesSays(v, f, w), f.kind # "finish",
           NEW rd, ReaderInv("responses", v, rd),
           NEW u, FinishInv("responses", v, u)
    PROVE  /\ ReaderInv("responses", w, FeedResponses(rd, f).machine)
           /\ FinishInv("responses", w, FinishUsage(FeedResponses(rd, f).out, u))
<1>1. IsReader(rd) /\ rd.finished = FALSE /\ u = ToIR("responses", v.usage)
    BY DEF ReaderInv, FinishInv, SaidResponses, IsReader
<1>2. CASE f.type \in {"response.completed", "response.incomplete"}
  <2>1. w.usage = f.usage /\ w.ends # 0
      BY <1>2 DEF ResponsesSays
  <2>2. PICK stop : FeedResponses(rd, f) = LatchFinish(rd, stop, ToIR("responses", f.usage))
      BY <1>2 DEF FeedResponses
  <2> DEFINE ev == FinishEvent(stop, ToIR("responses", f.usage))
  <2>3. FeedResponses(rd, f).machine = [rd EXCEPT !.finished = TRUE] /\ FeedResponses(rd, f).out = <<ev>>
      BY <1>1, <2>2 DEF LatchFinish, Step
  <2>4. ev.kind = "finish" /\ ev.usage = ToIR("responses", f.usage)
      BY DEF FinishEvent, Event
  <2> HIDE DEF ev
  <2>5. FinishUsage(<<ev>>, u) = ToIR("responses", w.usage)
      BY <2>1, <2>4, OneFinish
  <2>6. IsReader([rd EXCEPT !.finished = TRUE])
      BY <1>1, ResponsesFinished
  <2>7. QED
      BY <2>1, <2>3, <2>5, <2>6 DEF ReaderInv, FinishInv, IsReader
<1>3. CASE f.type \in {"response.failed", "error"}
  <2>1. w.error /\ w.ends # 0
      BY <1>3 DEF ResponsesSays
  <2>2. FeedResponses(rd, f).machine = [rd EXCEPT !.failed = TRUE]
      BY <1>3 DEF FeedResponses, Step
  <2>3. IsReader([rd EXCEPT !.failed = TRUE])
      BY <1>1, ReaderFields
  <2>4. QED
      BY <2>1, <2>2, <2>3 DEF ReaderInv, FinishInv, IsReader
<1>4. CASE f.type \in {"response.created", "response.output_item.added", "response.delta",
                       "response.output_item.done"}
  <2>1. w.usage = v.usage /\ w.ends = v.ends /\ w.error = v.error
      BY <1>4 DEF ResponsesSays
  <2>2. FinishUsage(FeedResponses(rd, f).out, u) = u
      BY <1>4, ItemUnfinished, NoFinish DEF Unfinished
  <2> DEFINE r == FeedResponses(rd, f).machine
  <2>3. \/ r = rd \/ r = [rd EXCEPT !.started = TRUE]
        \/ r = [rd EXCEPT !.seqTool = @ + 1, !.outIdx = With(@, f.index, rd.seqTool)]
        \/ r = [rd EXCEPT !.argsSeen = @ \cup {rd.outIdx[f.index]}]
      BY <1>4 DEF FeedResponses, Step, UnseenArgs
  <2>4. IsReader(r) /\ r.finished = rd.finished
    <3>1. \/ r = rd
          \/ \E x, y : \/ r = [rd EXCEPT !.started = x]
                       \/ r = [rd EXCEPT !.argsSeen = x]
                       \/ r = [rd EXCEPT !.seqTool = x, !.outIdx = y]
        BY <2>3
    <3> HIDE DEF r
    <3>2. QED
        BY <1>1, <3>1, ReaderFields
  <2> HIDE DEF r
  <2>5. ReaderInv("responses", w, r)
      BY <1>1, <2>4 DEF ReaderInv, IsReader
  <2>6. FinishInv("responses", w, u)
      BY <1>1, <2>1 DEF FinishInv
  <2>7. QED
      BY <2>2, <2>5, <2>6 DEF r
<1>5. QED
    BY <1>2, <1>3, <1>4 DEF ResponsesSays
-----------------------------------------------------------------------------
\* An answer of which nothing has been said yet.
LEMMA NothingSaid ==
    ASSUME NEW p \in Protocols
    PROVE  /\ SaidUsage(p, View)
           /\ TapInv(p, View, NoUsage)
           /\ FinishInv(p, View, NoUsage)
           /\ ReaderInv(p, View, Reader[p])
<1>1. IsView(View) /\ View.ends = 0 /\ View.stop = "none" /\ View.usage = NoUsage /\ ~View.started /\ ~View.error
    BY DEF View, IsView
<1>2. BlocksOK(View)
  <2>1. View.blocks = <<>>
      BY DEF View
  <2>2. QED
      BY <2>1 DEF BlocksOK
<1>3. SaidUsage(p, View)
    BY <1>1, <1>2 DEF SaidUsage, SaidOpenAI, SaidAnthropic, SaidResponses
<1>4. ToIR(p, NoUsage) = NoUsage
    BY DEF ToIR, NoUsage
<1>5. TapInv(p, View, NoUsage) /\ FinishInv(p, View, NoUsage)
    BY <1>1, <1>4 DEF TapInv, FinishInv
<1>6. ReaderInv(p, View, Reader[p])
  <2>1. CASE p = "anthropic"
    <3>1. Reader[p] = [seqTool |-> 0, finished |-> FALSE, usage |-> NoUsage]
        BY <2>1 DEF Reader
    <3>2. QED
        BY <1>1, <2>1, <3>1 DEF ReaderInv
  <2>2. CASE p = "responses"
    <3>1. Reader[p] = [started |-> FALSE, finished |-> FALSE, failed |-> FALSE, seqTool |-> 0,
                       outIdx |-> <<>>, argsSeen |-> {}]
        BY <2>2 DEF Reader
    <3>2. QED
        BY <2>2, <3>1 DEF ReaderInv
  <2>3. QED
      BY <2>1, <2>2 DEF ReaderInv
<1>7. QED
    BY <1>3, <1>5, <1>6

\* The inductive invariant: what will be logged is what has been harvested.
Harvested ==
    IF Native THEN TapInv(Up, said, usage) ELSE FinishInv(Up, said, usage)

UsageInv ==
    /\ route \in [up : Upstreams, client : Clients, stream : BOOLEAN]
    /\ SaidUsage(Up, said)
    /\ result \in {"waiting", "refused"} => said = View /\ usage = NoUsage /\ reader = Reader[Up]
    /\ route.stream => Harvested
    /\ route.stream /\ ~Native /\ result \in {"waiting", "refused", "none"} => ReaderInv(Up, said, reader)
    /\ ~route.stream /\ result \in {"complete", "idle"} => said.error \/ usage = ToIR(Up, said.usage)

\* A conversation begins with nothing harvested.
LEMMA UsageInit == ConversationInit => UsageInv
<1> SUFFICES ASSUME ConversationInit
             PROVE  UsageInv
    OBVIOUS
<1>1. /\ route \in [up : Upstreams, client : Clients, stream : BOOLEAN]
      /\ said = View /\ usage = NoUsage /\ reader = Reader[Up] /\ result = "waiting"
    BY DEF ConversationInit
<1>2. Up \in Protocols
    BY <1>1, ProtocolsAssumption DEF Up
<1>3. QED
    BY <1>1, <1>2, NothingSaid DEF UsageInv, Harvested

\* Before an answer, or after it, the next upstream has said nothing.
LEMMA UsageAnew ==
    ASSUME route' \in [up : Upstreams, client : Clients, stream : BOOLEAN],
           said' = View, usage' = NoUsage, reader' = Reader[Up'], result' \in {"waiting", "refused", "none"}
    PROVE  UsageInv'
<1>1. Up' \in Protocols
    BY ProtocolsAssumption DEF Up
<1>2. /\ SaidUsage(Up', View) /\ TapInv(Up', View, NoUsage)
      /\ FinishInv(Up', View, NoUsage) /\ ReaderInv(Up', View, Reader[Up'])
    BY <1>1, NothingSaid
<1>3. QED
    BY <1>2 DEF UsageInv, Harvested

\* A line of a stream is harvested, passed through or converted.
LEMMA UsageOfLine ==
    ASSUME UsageInv, NEW lost \in BOOLEAN, NEW f \in Sends(Up, said), Line(f, lost)
    PROVE  UsageInv'
<1>1. /\ route.stream /\ result = "none" /\ route' = route
      /\ said' = Read(Up, said, f) /\ result' \in {"none", "unwritten"}
      /\ Native => PassLine(f, lost)
      /\ ~Native => ConvertLine(f, lost)
    BY DEF Line, PassLine, ConvertLine
<1>2. Up \in Protocols /\ Up' = Up /\ Native' = Native
    BY <1>1, ProtocolsAssumption DEF UsageInv, Up, Client, Native
<1>3. SaidUsage(Up, said) /\ SaidUsage(Up, said')
    BY <1>1, <1>2, SaidKept DEF UsageInv
<1>4. CASE Native
  <2>1. TapInv(Up, said', usage')
      BY <1>1, <1>2, <1>3, <1>4, TapKept DEF UsageInv, Harvested, PassLine
  <2>2. QED
      BY <1>1, <1>2, <1>3, <1>4, <2>1 DEF UsageInv, Harvested
<1>5. CASE ~Native
  <2>1. FinishInv(Up, said', usage') /\ ReaderInv(Up, said', reader')
    <3>1. usage' = FinishUsage(Fed(f).out, usage) /\ reader' = Fed(f).machine
        BY <1>1, <1>5 DEF ConvertLine
    <3>2. FinishInv(Up, said, usage) /\ ReaderInv(Up, said, reader)
        BY <1>1, <1>5 DEF UsageInv, Harvested
    <3>3. said.ends = 0 /\ f.kind # "finish"
        BY <1>2, <1>3, SaidKept DEF FrameKind, Kinds
    <3>4. CASE Up = "openai"
        BY <3>4 DEF FinishInv, ReaderInv
    <3>5. CASE Up = "anthropic"
      <4>1. SaidAnthropic(said) /\ AnthropicSays(said, f, said')
          BY <1>1, <1>2, <1>3, <3>5, SaidKept DEF SaidUsage
      <4>2. Fed(f) = FeedAnthropic(reader, f)
          BY <3>5, <4>1 DEF Fed, Feed, AnthropicSays
      <4>3. QED
          BY <3>1, <3>2, <3>3, <3>5, <4>1, <4>2, AnthropicFed
    <3>6. CASE Up = "responses"
      <4>1. SaidResponses(said) /\ ResponsesSays(said, f, said')
          BY <1>1, <1>2, <1>3, <3>6, SaidKept DEF SaidUsage
      <4>2. Fed(f) = FeedResponses(reader, f)
          BY <3>6, <4>1 DEF Fed, Feed, ResponsesSays
      <4>3. QED
          BY <3>1, <3>2, <3>3, <3>6, <4>1, <4>2, ResponsesFed
    <3>7. QED
        BY <1>2, <3>4, <3>5, <3>6 DEF Protocols
  <2>2. QED
      BY <1>1, <1>2, <1>3, <1>5, <2>1 DEF UsageInv, Harvested
<1>6. QED
    BY <1>4, <1>5

\* The usage of a buffered answer is decoded with the rest of it.
LEMMA UsageOfBody ==
    ASSUME UsageInv, NEW lost \in BOOLEAN, BodyRelayed(lost)
    PROVE  UsageInv'
<1>1. /\ ~route.stream /\ route' = route /\ said' = said /\ reader' = reader
      /\ usage' = DecodeResponse(Up, said).usage /\ result' \in {"unwritten", "complete"}
    BY DEF BodyRelayed
<1>2. ~said.error => usage' = ToIR(Up, said.usage)
    BY <1>1 DEF DecodeResponse
<1>3. Up' = Up
    BY <1>1 DEF Up
<1>4. QED
    BY <1>1, <1>2, <1>3 DEF UsageInv

\* Every step keeps the invariant.
LEMMA UsageNext == UsageInv /\ [ConversationNext]_conversationVars => UsageInv'
<1> SUFFICES ASSUME UsageInv, [ConversationNext]_conversationVars
             PROVE  UsageInv'
    OBVIOUS
<1>1. ASSUME NEW up \in Upstreams, Attempt(up)
      PROVE  UsageInv'
  <2>1. route' = [route EXCEPT !.up = up] /\ reader' = Reader[up] /\ said' = View /\ usage' = NoUsage
        /\ result' \in {"waiting", "refused"}
      BY <1>1 DEF Attempt, UsageInv
  <2>2. route' \in [up : Upstreams, client : Clients, stream : BOOLEAN] /\ Up' = up
      BY <2>1 DEF UsageInv, Up
  <2>3. QED
      BY <2>1, <2>2, UsageAnew
<1>2. CASE Accepted
    BY <1>2, UsageAnew DEF Accepted, UsageInv, Up
<1>3. ASSUME NEW lost \in BOOLEAN, BodyRelayed(lost)
      PROVE  UsageInv'
    BY <1>3, UsageOfBody
<1>4. ASSUME NEW lost \in BOOLEAN, NEW f \in Sends(Up, said), Line(f, lost)
      PROVE  UsageInv'
    BY <1>4, UsageOfLine
<1>5. ASSUME NEW f \in Sends(Up, said), Prepares(f)
      PROVE  UsageInv'
  <2>1. ~route.stream /\ route' = route /\ said' = Read(Up, said, f) /\ result' = "none"
      BY <1>5 DEF Prepares
  <2>2. Up \in Protocols /\ Up' = Up
      BY <2>1, ProtocolsAssumption DEF UsageInv, Up
  <2>3. SaidUsage(Up, said')
      BY <2>1, <2>2, SaidKept DEF UsageInv
  <2>4. QED
      BY <2>1, <2>2, <2>3 DEF UsageInv
<1>6. ASSUME NEW end \in {"eof", "broken"}, StreamEnds(end)
      PROVE  UsageInv'
  <2>1. /\ route.stream /\ route' = route /\ said' = said /\ usage' = usage
        /\ result' \in {"unwritten", "idle", "complete", "unread"}
      BY <1>6 DEF StreamEnds, Classified
  <2>2. Up' = Up /\ Native' = Native
      BY <2>1 DEF Up, Client, Native
  <2>3. QED
      BY <2>1, <2>2 DEF UsageInv, Harvested
<1>7. ASSUME UNCHANGED <<route, said, reader, usage>>, result' = result \/ result' = "unread"
      PROVE  UsageInv'
  <2>1. Up' = Up /\ Native' = Native
      BY <1>7 DEF Up, Client, Native
  <2>2. QED
      BY <1>7, <2>1 DEF UsageInv, Harvested
<1>8. ASSUME NEW rest, NEW image, NEW format, NEW order, Replies(order, rest, image, format)
      PROVE  UsageInv'
    BY <1>8, UsageAnew DEF Replies, UsageInv, Up
<1>9. CASE BodyUnread \/ HangUp \/ IdleTimeout \/ UNCHANGED conversationVars
    BY <1>7, <1>9 DEF BodyUnread, HangUp, IdleTimeout, conversationVars
<1>10. QED
    BY <1>1, <1>2, <1>3, <1>4, <1>5, <1>6, <1>8, <1>9 DEF ConversationNext, Relays, Next

\* What has been harvested of an answer that came to its end is what was
\* reported.
LEMMA UsageHarvested == UsageInv => UsageIsLogged
<1> SUFFICES ASSUME UsageInv,
                    result \in {"complete", "idle"}, Finished(said), ~said.error,
                    ~(Up = "openai" /\ ~Native /\ route.stream)
             PROVE  \E u \in Usages :
                       /\ said.usage = ToWire(Up, u)
                       /\ \/ usage = Reported(u)
                          \/ WhollyCached /\ usage = [Reported(u) EXCEPT !.input = 0]
    BY DEF UsageIsLogged, UsageRecorded
<1>1. Up \in Protocols
    BY ProtocolsAssumption DEF UsageInv, Up
<1>2. said.usage \in WireUsages(Up) /\ (Up = "anthropic" => said.stop # "none")
    BY <1>1, EndIsReported DEF UsageInv, Finished
<1>3. PICK u \in Usages : said.usage = ToWire(Up, u)
    BY <1>2 DEF WireUsages
<1>4. ToIR(Up, said.usage) = Reported(u)
    BY <1>1, <1>3, UsageSurvives DEF Sayable, Reported
<1>5. \/ usage = ToIR(Up, said.usage)
      \/ WhollyCached /\ usage = [ToIR(Up, said.usage) EXCEPT !.input = 0]
  <2>1. CASE ~route.stream
      BY <2>1 DEF UsageInv
  <2>2. CASE route.stream /\ Native
      BY <2>2 DEF UsageInv, Harvested, TapInv, WhollyCached
  <2>3. CASE route.stream /\ ~Native
      BY <1>1, <1>2, <2>3 DEF UsageInv, Harvested, FinishInv, Protocols
  <2>4. QED
      BY <2>1, <2>2, <2>3
<1>6. QED
    BY <1>3, <1>4, <1>5

\* For every set of protocols and usages, and conversations of any length: the
\* row of an answer that came to its end has the tokens that the upstream
\* reported, wherever in the stream it reported them (tapStreamLine, Feed,
\* relayConvertedStream, DecodeResponse).
THEOREM UsageIsLoggedAlways == ConversationSpec => []UsageIsLogged
<1>1. ConversationInit => UsageInv
    BY UsageInit
<1>2. UsageInv /\ [ConversationNext]_conversationVars => UsageInv'
    BY UsageNext
<1>3. UsageInv => UsageIsLogged
    BY UsageHarvested
<1>4. QED
    BY <1>1, <1>2, <1>3, PTL DEF ConversationSpec
-----------------------------------------------------------------------------
(***************************************************************************)
(* Second part: the form of a converted stream.  The frames of a line are  *)
(* read one after the other, and so are the events of a reader rendered:   *)
(* the folds over sequences, by the least index at which a claim fails.    *)
(***************************************************************************)
\* The largest of a set of numbers is the last that was added.
LEMMA MaxOf ==
    ASSUME NEW n \in Nat, NEW s \in SUBSET (1..n), n \in s
    PROVE  Max(s) = n
<1>1. \A y \in s : n >= y
    OBVIOUS
<1>2. \A x \in s : (\A y \in s : x >= y) => x = n
    OBVIOUS
<1>3. QED
    BY <1>1, <1>2 DEF Max

\* Induction over the numbers, for a set of them.
LEMMA FirstOut ==
    ASSUME NEW T, T \subseteq Nat, 0 \in T, \A m \in Nat : m \in T => m + 1 \in T
    PROVE  T = Nat
<1> DEFINE S == Nat \ T
<1> SUFFICES ASSUME S # {}
             PROVE  FALSE
    OBVIOUS
<1>1. PICK x \in S : \A y \in S : <<y, x>> \notin OpToRel(<, Nat)
    BY NatLessThanWellFounded, WFMin, Zenon
<1>2. x \in Nat /\ x # 0 /\ x - 1 \in Nat
    OBVIOUS
<1>3. x - 1 \in S
    OBVIOUS
<1>4. <<x - 1, x>> \in OpToRel(<, Nat)
    BY <1>2 DEF OpToRel
<1>5. QED
    BY <1>1, <1>3, <1>4

\* A renderer, and all it has sent, after one more event.
After(p, step, ev) ==
    LET next == Render(p, step.machine, ev) IN Step(next.machine, step.out \o next.out)

\* The items of a response after one more block.
Itemed(items, block) ==
    IF items # <<>> /\ block.kind # "tool_use" /\ items[Len(items)].kind = block.kind
    THEN [items EXCEPT ![Len(items)].pieces = @ \o block.pieces]
    ELSE Append(items, block)

\* A view after a frame, a renderer after an event, the blocks of an answer
\* after one more, and the items of a response.
Applied(how, p, x, e) ==
    CASE how = "read" -> Read(p, x, e)
      [] how = "render" -> After(p, x, e)
      [] how = "decode" -> Append(x, p.blocks[e])
      [] how = "items" -> Itemed(x, e)

\* g gives what the elements of a sequence at the positions of a set come to.
Accumulates(how, p, v, fs, n, g) ==
    g = [s \in SUBSET (1..n) |-> IF s = {} THEN v ELSE Applied(how, p, g[s \ {Max(s)}], fs[Max(s)])]

\* There is such a function.
LEMMA AccumulatorExists ==
    ASSUME NEW how, NEW p, NEW v, NEW fs, NEW n \in Nat
    PROVE  \E g : Accumulates(how, p, v, fs, n, g)
<1> DEFINE T == {m \in Nat : \E g : Accumulates(how, p, v, fs, m, g)}
<1>1. 0 \in T
  <2> DEFINE g == [s \in SUBSET (1..0) |-> v]
  <2>1. SUBSET (1..0) = {{}}
      OBVIOUS
  <2>2. Accumulates(how, p, v, fs, 0, g)
      BY <2>1 DEF Accumulates
  <2>3. QED
      BY <2>2
<1>2. ASSUME NEW m \in Nat, m \in T
      PROVE  m + 1 \in T
  <2>1. PICK g : Accumulates(how, p, v, fs, m, g)
      BY <1>2
  <2> DEFINE h == [s \in SUBSET (1..m + 1) |->
                      IF m + 1 \in s THEN Applied(how, p, g[s \ {m + 1}], fs[m + 1]) ELSE g[s]]
  <2>2. ASSUME NEW s \in SUBSET (1..m + 1)
        PROVE  h[s] = IF s = {} THEN v ELSE Applied(how, p, h[s \ {Max(s)}], fs[Max(s)])
    <3>1. CASE m + 1 \in s
      <4>1. Max(s) = m + 1
          BY <3>1, MaxOf
      <4>2. s \ {m + 1} \in SUBSET (1..m) /\ m + 1 \notin s \ {m + 1}
          OBVIOUS
      <4>3. h[s \ {m + 1}] = g[s \ {m + 1}]
          BY <4>2
      <4>4. QED
          BY <3>1, <4>1, <4>3
    <3>2. CASE m + 1 \notin s
      <4>1. s \in SUBSET (1..m)
          BY <3>2
      <4>2. h[s] = g[s]
          BY <3>2
      <4>3. g[s] = IF s = {} THEN v ELSE Applied(how, p, g[s \ {Max(s)}], fs[Max(s)])
          BY <2>1, <4>1 DEF Accumulates
      <4>4. s \ {Max(s)} \in SUBSET (1..m + 1) /\ m + 1 \notin s \ {Max(s)}
          BY <3>2
      <4>5. h[s \ {Max(s)}] = g[s \ {Max(s)}]
          BY <4>4
      <4>6. QED
          BY <4>2, <4>3, <4>5
    <3>3. QED
        BY <3>1, <3>2
  <2>3. h = [s \in SUBSET (1..m + 1) |-> IF s = {} THEN v ELSE Applied(how, p, h[s \ {Max(s)}], fs[Max(s)])]
    <3>1. h = [s \in SUBSET (1..m + 1) |-> h[s]]
        OBVIOUS
    <3> HIDE DEF h
    <3>2. QED
        BY <2>2, <3>1
  <2>4. Accumulates(how, p, v, fs, m + 1, h)
    <3> HIDE DEF h
    <3>1. QED
        BY <2>3 DEF Accumulates
  <2> HIDE DEF h
  <2>5. QED
      BY <2>4
<1> HIDE DEF T
<1>3. T = Nat
  <2>1. T \subseteq Nat
      BY DEF T
  <2>2. QED
      BY <1>1, <1>2, <2>1, FirstOut
<1>4. QED
    BY <1>3 DEF T

\* c is what the first elements of a sequence come to, one after the other.
Folded(how, p, v, fs, c) ==
    /\ c[0] = v
    /\ \A k \in 1..Len(fs) : c[k] = Applied(how, p, c[k - 1], fs[k])

\* The positions of a sequence are taken in their order.
LEMMA FoldStep ==
    ASSUME NEW how, NEW p, NEW v, NEW S, NEW fs \in Seq(S), NEW it, Accumulates(how, p, v, fs, Len(fs), it)
    PROVE  \E c : Folded(how, p, v, fs, c) /\ c[Len(fs)] = it[1..Len(fs)]
<1> DEFINE n == Len(fs)
           c == [k \in 0..n |-> it[1..k]]
<1>1. n \in Nat
    OBVIOUS
<1>2. \A s \in SUBSET (1..n) :
          it[s] = IF s = {} THEN v ELSE Applied(how, p, it[s \ {Max(s)}], fs[Max(s)])
    BY DEF Accumulates
<1>3. c[0] = v
  <2>1. it[{}] = v
      BY <1>2
  <2>2. 1..0 = {} /\ 0 \in 0..n
      BY <1>1
  <2>3. QED
      BY <2>1, <2>2
<1>4. ASSUME NEW k \in 1..n
      PROVE  c[k] = Applied(how, p, c[k - 1], fs[k])
  <2> HIDE DEF n
  <2>1. k \in Nat /\ 1 <= k /\ k <= n
      BY <1>1
  <2>2. Max(1..k) = k
    <3>1. (1..k) \in SUBSET (1..k) /\ k \in 1..k
        BY <2>1
    <3>2. QED
        BY <2>1, <3>1, MaxOf
  <2>3. (1..k) \ {k} = 1..(k - 1) /\ 1..k # {}
    <3>1. \A x : x \in 1..k /\ x # k <=> x \in 1..(k - 1)
        BY <2>1
    <3>2. k \in 1..k
        BY <2>1
    <3>3. QED
        BY <3>1, <3>2
  <2>4. (1..k) \in SUBSET (1..n)
      BY <1>1, <2>1
  <2>5. it[1..k] = Applied(how, p, it[1..(k - 1)], fs[k])
      BY <1>2, <2>2, <2>3, <2>4
  <2>6. k \in 0..n /\ k - 1 \in 0..n
      BY <1>1
  <2>7. QED
      BY <2>5, <2>6
<1>5. c[n] = it[1..n]
    BY <1>1
<1> HIDE DEF c
<1>6. Folded(how, p, v, fs, c)
    BY <1>3, <1>4 DEF Folded
<1>7. QED
    BY <1>5, <1>6

\* c is the view after every frame of a sequence.
Views(p, v, fs, c) ==
    /\ c[0] = v
    /\ \A k \in 1..Len(fs) : c[k] = Read(p, c[k - 1], fs[k])
    /\ ReadAll(p, v, fs) = c[Len(fs)]

\* ReadAll reads one frame after the other.
LEMMA ReadStep ==
    ASSUME NEW p, NEW v, NEW S, NEW fs \in Seq(S)
    PROVE  \E c : Views(p, v, fs, c)
<1> DEFINE n == Len(fs)
           F(g) == [s \in SUBSET (1..n) |-> IF s = {} THEN v ELSE Read(p, g[s \ {Max(s)}], fs[Max(s)])]
           it == CHOOSE g : g = F(g)
<1>1. n \in Nat /\ DOMAIN fs = 1..n
    OBVIOUS
<1>2. ReadAll(p, v, fs) = it[1..n]
  <2>1. ReadAll(p, v, fs) =
           (CHOOSE g : g = [s \in SUBSET DOMAIN fs |->
                               IF s = {} THEN v ELSE Read(p, g[s \ {Max(s)}], fs[Max(s)])])[DOMAIN fs]
      BY DEF ReadAll, FoldLeft, MapThenFoldSet
  <2>2. QED
      BY <1>1, <2>1
<1>3. it = F(it)
  <2>1. PICK g : Accumulates("read", p, v, fs, n, g)
      BY <1>1, AccumulatorExists
  <2>2. g = F(g)
      BY <2>1 DEF Accumulates, Applied
  <2> HIDE DEF F
  <2>3. QED
      BY <2>2
<1>4. Accumulates("read", p, v, fs, n, it)
  <2> HIDE DEF it
  <2>1. QED
      BY <1>3 DEF Accumulates, Applied
<1> HIDE DEF it
<1>5. PICK c : Folded("read", p, v, fs, c) /\ c[n] = it[1..n]
    BY <1>1, <1>4, FoldStep
<1>6. Views(p, v, fs, c)
    BY <1>2, <1>5 DEF Folded, Applied, Views
<1>7. QED
    BY <1>6

\* Reading no frame, or one ...
LEMMA ReadOne == \A p, v, f : ReadAll(p, v, <<>>) = v /\ ReadAll(p, v, <<f>>) = Read(p, v, f)
<1> SUFFICES ASSUME NEW p, NEW v, NEW f
             PROVE  ReadAll(p, v, <<>>) = v /\ ReadAll(p, v, <<f>>) = Read(p, v, f)
    OBVIOUS
<1>1. ReadAll(p, v, <<>>) = v
  <2>1. <<>> \in Seq({f}) /\ Len(<<>>) = 0
      OBVIOUS
  <2>2. PICK c : Views(p, v, <<>>, c)
      BY <2>1, ReadStep
  <2>3. QED
      BY <2>1, <2>2 DEF Views
<1>2. ReadAll(p, v, <<f>>) = Read(p, v, f)
  <2> DEFINE fs == <<f>>
  <2>1. fs \in Seq({f}) /\ Len(fs) = 1 /\ fs[1] = f
      OBVIOUS
  <2> HIDE DEF fs
  <2>2. PICK c : Views(p, v, fs, c)
      BY <2>1, ReadStep
  <2>3. c[1] = Read(p, c[0], fs[1])
      BY <2>1, <2>2 DEF Views
  <2>4. QED
      BY <2>1, <2>2, <2>3 DEF fs, Views
<1>3. QED
    BY <1>1, <1>2

\* ... or three.
LEMMA ReadThree ==
    ASSUME NEW p, NEW v, NEW f1, NEW f2, NEW f3
    PROVE  ReadAll(p, v, <<f1, f2, f3>>) = Read(p, Read(p, Read(p, v, f1), f2), f3)
<1> DEFINE S == {f1, f2, f3}
           fs == <<f1, f2, f3>>
<1>1. fs \in Seq(S) /\ Len(fs) = 3 /\ fs[1] = f1 /\ fs[2] = f2 /\ fs[3] = f3
    OBVIOUS
<1> HIDE DEF S, fs
<1>2. PICK c : Views(p, v, fs, c)
    BY <1>1, ReadStep
<1>3. c[1] = Read(p, c[0], fs[1]) /\ c[2] = Read(p, c[1], fs[2]) /\ c[3] = Read(p, c[2], fs[3])
    BY <1>1, <1>2 DEF Views
<1>4. QED
    BY <1>1, <1>2, <1>3 DEF fs, Views

\* Frames that follow others are read after them.
LEMMA ReadOn ==
    ASSUME NEW p, NEW v, NEW S, NEW fs \in Seq(S), NEW gs \in Seq(S)
    PROVE  ReadAll(p, v, fs \o gs) = ReadAll(p, ReadAll(p, v, fs), gs)
<1> DEFINE all == fs \o gs
           m == Len(fs)
           n == Len(gs)
           w == ReadAll(p, v, fs)
<1>1. /\ all \in Seq(S) /\ Len(all) = m + n /\ m \in Nat /\ n \in Nat
      /\ \A k \in 1..m : all[k] = fs[k]
      /\ \A k \in 1..n : all[m + k] = gs[k]
    OBVIOUS
<1>2. PICK a : Views(p, v, fs, a)
    BY ReadStep
<1>3. PICK b : Views(p, w, gs, b)
    BY ReadStep
<1>4. w = a[m] /\ ReadAll(p, w, gs) = b[n] /\ a[0] = v /\ b[0] = w
    BY <1>2, <1>3 DEF Views
<1> HIDE DEF all, w
<1>5. PICK c : Views(p, v, all, c)
    BY <1>1, ReadStep
<1>6. \A k \in 0..m : c[k] = a[k]
  <2> DEFINE T == {k \in Nat : k > m \/ c[k] = a[k]}
  <2>1. \A k \in T : k > m \/ c[k] = a[k]
      OBVIOUS
  <2>2. 0 \in T
      BY <1>2, <1>5 DEF Views
  <2>3. ASSUME NEW k \in Nat, k \in T
        PROVE  k + 1 \in T
    <3>1. CASE k + 1 > m
        BY <3>1
    <3>2. CASE ~(k + 1 > m)
      <4>1. c[k] = a[k] /\ k + 1 \in 1..m /\ k + 1 \in 1..(m + n) /\ (k + 1) - 1 = k
          BY <1>1, <2>3, <3>2
      <4>2. c[k + 1] = Read(p, c[k], fs[k + 1]) /\ a[k + 1] = Read(p, a[k], fs[k + 1])
          BY <1>1, <1>2, <1>5, <4>1 DEF Views
      <4>3. QED
          BY <4>1, <4>2
    <3>3. QED
        BY <3>1, <3>2
  <2>4. T \subseteq Nat
      OBVIOUS
  <2> HIDE DEF T
  <2>5. T = Nat
      BY <2>2, <2>3, <2>4, FirstOut
  <2>6. \A k \in 0..m : k \in Nat /\ ~(k > m)
      BY <1>1
  <2>7. QED
      BY <2>1, <2>5, <2>6
<1>7. \A k \in 0..n : c[m + k] = b[k]
  <2> DEFINE T == {k \in Nat : k > n \/ c[m + k] = b[k]}
  <2>1. \A k \in T : k > n \/ c[m + k] = b[k]
      OBVIOUS
  <2>2. 0 \in T
      BY <1>4, <1>1, <1>6
  <2>3. ASSUME NEW k \in Nat, k \in T
        PROVE  k + 1 \in T
    <3>1. CASE k + 1 > n
        BY <3>1
    <3>2. CASE ~(k + 1 > n)
      <4>1. /\ c[m + k] = b[k] /\ k + 1 \in 1..n /\ m + (k + 1) \in 1..(m + n)
            /\ (m + (k + 1)) - 1 = m + k /\ (k + 1) - 1 = k
          BY <1>1, <2>3, <3>2
      <4>2. c[m + (k + 1)] = Read(p, c[m + k], gs[k + 1]) /\ b[k + 1] = Read(p, b[k], gs[k + 1])
          BY <1>1, <1>3, <1>5, <4>1 DEF Views
      <4>3. QED
          BY <4>1, <4>2
    <3>3. QED
        BY <3>1, <3>2
  <2>4. T \subseteq Nat
      OBVIOUS
  <2> HIDE DEF T
  <2>5. T = Nat
      BY <2>2, <2>3, <2>4, FirstOut
  <2>6. \A k \in 0..n : k \in Nat /\ ~(k > n)
      BY <1>1
  <2>7. QED
      BY <2>1, <2>5, <2>6
<1>8. c[m + n] = b[n]
    BY <1>1, <1>7
<1>9. ReadAll(p, v, all) = ReadAll(p, w, gs)
    BY <1>4, <1>1, <1>5, <1>8 DEF Views
<1>10. QED
    BY <1>9 DEF all, w

\* c is the renderer after every event of a sequence.
Rendered(p, rn, evs, c) ==
    /\ c[0] = Step(rn, <<>>)
    /\ \A k \in 1..Len(evs) : c[k] = After(p, c[k - 1], evs[k])
    /\ RenderAll(p, rn, evs) = c[Len(evs)]

\* RenderAll renders one event after the other.
LEMMA RenderStep ==
    ASSUME NEW p, NEW rn, NEW S, NEW evs \in Seq(S)
    PROVE  \E c : Rendered(p, rn, evs, c)
<1> DEFINE n == Len(evs)
           F(g) == [s \in SUBSET (1..n) |-> IF s = {} THEN Step(rn, <<>>) ELSE After(p, g[s \ {Max(s)}], evs[Max(s)])]
           it == CHOOSE g : g = F(g)
<1>1. n \in Nat /\ DOMAIN evs = 1..n
    OBVIOUS
<1>2. RenderAll(p, rn, evs) = it[1..n]
  <2>1. RenderAll(p, rn, evs) =
           (CHOOSE g : g = [s \in SUBSET DOMAIN evs |->
                               IF s = {} THEN Step(rn, <<>>) ELSE After(p, g[s \ {Max(s)}], evs[Max(s)])])[DOMAIN evs]
      BY DEF RenderAll, FoldLeft, MapThenFoldSet, After
  <2>2. QED
      BY <1>1, <2>1
<1>3. it = F(it)
  <2>1. PICK g : Accumulates("render", p, Step(rn, <<>>), evs, n, g)
      BY <1>1, AccumulatorExists
  <2>2. g = F(g)
      BY <2>1 DEF Accumulates, Applied
  <2> HIDE DEF F
  <2>3. QED
      BY <2>2
<1>4. Accumulates("render", p, Step(rn, <<>>), evs, n, it)
  <2> HIDE DEF it
  <2>1. QED
      BY <1>3 DEF Accumulates, Applied
<1> HIDE DEF it
<1>5. PICK c : Folded("render", p, Step(rn, <<>>), evs, c) /\ c[n] = it[1..n]
    BY <1>1, <1>4, FoldStep
<1>6. Rendered(p, rn, evs, c)
    BY <1>2, <1>5 DEF Folded, Applied, Rendered
<1>7. QED
    BY <1>6

\* Rendering no event, one, or two.
LEMMA RenderFew ==
    ASSUME NEW p, NEW rn, NEW e1, NEW e2
    PROVE  LET one == After(p, Step(rn, <<>>), e1) IN
           /\ RenderAll(p, rn, <<>>) = Step(rn, <<>>)
           /\ RenderAll(p, rn, <<e1>>) = one
           /\ RenderAll(p, rn, <<e1, e2>>) = After(p, one, e2)
<1> DEFINE S == {e1, e2}
           one == After(p, Step(rn, <<>>), e1)
           few == <<e1>>
           more == <<e1, e2>>
<1>1. RenderAll(p, rn, <<>>) = Step(rn, <<>>)
  <2>1. <<>> \in Seq(S) /\ Len(<<>>) = 0
      OBVIOUS
  <2>2. PICK c : Rendered(p, rn, <<>>, c)
      BY <2>1, RenderStep
  <2>3. QED
      BY <2>1, <2>2 DEF Rendered
<1>2. /\ few \in Seq(S) /\ Len(few) = 1 /\ few[1] = e1
      /\ more \in Seq(S) /\ Len(more) = 2 /\ more[1] = e1 /\ more[2] = e2
    OBVIOUS
<1> HIDE DEF S, few, more
<1>3. RenderAll(p, rn, few) = one
  <2>1. PICK c : Rendered(p, rn, few, c)
      BY <1>2, RenderStep
  <2>2. c[1] = After(p, c[0], few[1])
      BY <1>2, <2>1 DEF Rendered
  <2>3. QED
      BY <1>2, <2>1, <2>2 DEF Rendered
<1>4. RenderAll(p, rn, more) = After(p, one, e2)
  <2>1. PICK c : Rendered(p, rn, more, c)
      BY <1>2, RenderStep
  <2>2. c[1] = After(p, c[0], more[1]) /\ c[2] = After(p, c[1], more[2])
      BY <1>2, <2>1 DEF Rendered
  <2>3. QED
      BY <1>2, <2>1, <2>2 DEF Rendered
<1>5. QED
    BY <1>1, <1>3, <1>4 DEF few, more
-----------------------------------------------------------------------------
(***************************************************************************)
(* Rows of frames, and what a client has seen after an event or several.   *)
(***************************************************************************)
\* A sequence of frames, or of events.
Row(out) == \E S : out \in Seq(S)

\* Rows are put together from rows, and read in order.
LEMMA RowsRead ==
    ASSUME NEW p, NEW v, NEW out, Row(out), NEW more, Row(more)
    PROVE  /\ Row(out \o more)
           /\ ReadAll(p, v, out \o more) = ReadAll(p, ReadAll(p, v, out), more)
<1>1. PICK S : out \in Seq(S)
    BY DEF Row
<1>2. PICK R : more \in Seq(R)
    BY DEF Row
<1>3. out \in Seq(S \cup R) /\ more \in Seq(S \cup R)
    BY <1>1, <1>2
<1>4. out \o more \in Seq(S \cup R)
    BY <1>3
<1>5. QED
    BY <1>3, <1>4, ReadOn DEF Row

\* Rows of no frame, one, two and three.
LEMMA RowOfFew == Row(<<>>) /\ \A f : Row(<<f>>) /\ \A g, h : Row(<<f, g>>) /\ Row(<<f, g, h>>)
<1>1. ASSUME NEW f, NEW g, NEW h
      PROVE  Row(<<>>) /\ Row(<<f>>) /\ Row(<<f, g>>) /\ Row(<<f, g, h>>)
  <2> DEFINE S == {f, g, h}
  <2>1. <<>> \in Seq(S) /\ <<f>> \in Seq(S) /\ <<f, g>> \in Seq(S) /\ <<f, g, h>> \in Seq(S)
      OBVIOUS
  <2> HIDE DEF S
  <2>2. QED
      BY <2>1 DEF Row
<1>2. QED
    BY <1>1

\* One more frame.
LEMMA RowAppended ==
    ASSUME NEW p, NEW v, NEW out, Row(out), NEW f
    PROVE  /\ Row(Append(out, f))
           /\ ReadAll(p, v, Append(out, f)) = Read(p, ReadAll(p, v, out), f)
<1>1. PICK S : out \in Seq(S)
    BY DEF Row
<1>2. Append(out, f) = out \o <<f>>
    BY <1>1
<1>3. Row(<<f>>)
    BY RowOfFew
<1>4. Row(out \o <<f>>) /\ ReadAll(p, v, out \o <<f>>) = ReadAll(p, ReadAll(p, v, out), <<f>>)
    BY <1>3, RowsRead
<1>5. QED
    BY <1>2, <1>4, ReadOne

\* Rows from rows.
LEMMA RowsMade == \A a, b, f : Row(a) /\ Row(b) => Row(a \o b) /\ Row(Append(a, f))
BY RowsRead, RowAppended

\* The renderers put out rows of frames.
LEMMA RenderRow ==
    ASSUME NEW p \in Protocols, NEW rn, NEW ev
    PROVE  Row(Render(p, rn, ev).out) /\ Row(Done(p, rn).out)
<1>1. CASE p = "openai"
  <2>1. \/ Render(p, rn, ev).out = <<>>
        \/ \E f : Render(p, rn, ev).out = <<f>>
        \/ \E f, g, h : Render(p, rn, ev).out = <<f, g, h>>
      BY <1>1 DEF Render, RenderOpenAI, Step
  <2>2. Done(p, rn).out = <<>> \/ \E f : Done(p, rn).out = <<f>>
      BY <1>1 DEF Done, DoneOpenAI, Step
  <2>3. QED
      BY <2>1, <2>2, RowOfFew
<1>2. CASE p = "anthropic"
  <2>1. Row(CloseBlock(rn).out)
      BY RowOfFew DEF CloseBlock, Step
  <2>2. \A kind, id : Row(StartBlock(rn, kind, id).out) /\ Row(OpenBlock(rn, kind).out)
      BY <2>1, RowOfFew, RowsMade DEF StartBlock, OpenBlock, Step
  <2>3. \A step, kind, ps : Row(step.out) => Row(BlockDelta(step, kind, ps).out)
      BY RowsMade DEF BlockDelta, Step
  <2>4. \A frames : Row(frames) => Row(EndMessage(rn, frames).out)
      BY <2>1, RowOfFew, RowsMade DEF EndMessage, Step
  <2>5. Row(Step(rn, <<>>).out)
      BY RowOfFew DEF Step
  <2>6. Row(RenderAnthropic(rn, ev).out)
    <3>1. \/ \E kind : RenderAnthropic(rn, ev) = BlockDelta(OpenBlock(rn, kind), kind, ev.pieces)
          \/ RenderAnthropic(rn, ev) = StartBlock(rn, "tool_use", ev.id)
          \/ RenderAnthropic(rn, ev) = BlockDelta(Step(rn, <<>>), "tool_use", ev.pieces)
          \/ \E f : RenderAnthropic(rn, ev) = Step(rn, <<f>>)
          \/ \E f : RenderAnthropic(rn, ev) = EndMessage(rn, <<f>>)
          \/ RenderAnthropic(rn, ev) = Step(rn, <<>>)
        BY DEF RenderAnthropic
    <3>2. \A f : Row(Step(rn, <<f>>).out) /\ Row(<<f>>)
        BY RowOfFew DEF Step
    <3>3. QED
        BY <2>2, <2>3, <2>4, <2>5, <3>1, <3>2
  <2>7. Row(DoneAnthropic(rn).out)
      BY <2>4, <2>5, RowOfFew DEF DoneAnthropic
  <2>8. QED
      BY <1>2, <2>6, <2>7 DEF Render, Done
<1>3. CASE p = "responses"
  <2>1. Row(CloseItem(rn).out)
      BY RowOfFew DEF CloseItem, Step
  <2>2. \A kind, id : Row(AddItem(rn, kind, id).out) /\ Row(EnsureOpen(rn, kind).out)
      BY <2>1, RowOfFew, RowsMade DEF AddItem, EnsureOpen, Step
  <2>3. \A step, kind, ps : Row(step.out) => Row(ItemDelta(step, kind, ps).out)
      BY RowsMade DEF ItemDelta, Step
  <2>4. \A f : Row(EndResponse(rn, f).out)
      BY <2>1, RowsMade DEF EndResponse, Step
  <2>5. \A f : Row(Step(rn, <<>>).out) /\ Row(Step(rn, <<f>>).out)
      BY RowOfFew DEF Step
  <2>6. Row(RenderResponses(rn, ev).out)
    <3>1. \/ RenderResponses(rn, ev) = Step(rn, <<>>)
          \/ \E f : RenderResponses(rn, ev) = Step(rn, <<f>>)
          \/ \E kind : RenderResponses(rn, ev) = ItemDelta(EnsureOpen(rn, kind), kind, ev.pieces)
          \/ RenderResponses(rn, ev) = AddItem(rn, "tool_use", ev.id)
          \/ RenderResponses(rn, ev) = CloseItem(rn)
          \/ \E f : RenderResponses(rn, ev) = EndResponse(rn, f)
        BY DEF RenderResponses
    <3>2. QED
        BY <2>1, <2>2, <2>3, <2>4, <2>5, <3>1
  <2>7. Row(DoneResponses(rn).out)
      BY <2>4, <2>5 DEF DoneResponses
  <2>8. QED
      BY <1>3, <2>6, <2>7 DEF Render, Done
<1>4. QED
    BY <1>1, <1>2, <1>3 DEF Protocols

\* A renderer and its client's view after an event ...
Relayed(p, st, ev) ==
    LET next == Render(p, st.rn, ev) IN [rn |-> next.machine, seen |-> ReadAll(p, st.seen, next.out)]

\* ... and after several.
Shown(p, st, evs) ==
    LET all == RenderAll(p, st.rn, evs) IN [rn |-> all.machine, seen |-> ReadAll(p, st.seen, all.out)]

\* One event is shown after the other.
ShownInTurn(p, st, e1, e2) ==
    /\ Shown(p, st, <<>>) = st /\ Row(RenderAll(p, st.rn, <<>>).out)
    /\ Shown(p, st, <<e1>>) = Relayed(p, st, e1) /\ Row(RenderAll(p, st.rn, <<e1>>).out)
    /\ Shown(p, st, <<e1, e2>>) = Relayed(p, Relayed(p, st, e1), e2)

\* Events are shown one after the other.
LEMMA ShownFew ==
    ASSUME NEW p \in Protocols, NEW rn, NEW v, NEW st, st = [rn |-> rn, seen |-> v], NEW e1, NEW e2
    PROVE  ShownInTurn(p, st, e1, e2)
<1> DEFINE one == After(p, Step(rn, <<>>), e1)
           r1 == Render(p, rn, e1)
           r2 == Render(p, r1.machine, e2)
<1>1. /\ RenderAll(p, rn, <<>>) = Step(rn, <<>>)
      /\ RenderAll(p, rn, <<e1>>) = one
      /\ RenderAll(p, rn, <<e1, e2>>) = After(p, one, e2)
    BY RenderFew
<1>2. Row(r1.out) /\ Row(r2.out)
    BY RenderRow
<1>3. <<>> \o r1.out = r1.out
    BY <1>2 DEF Row
<1>4. one = Step(r1.machine, r1.out)
    BY <1>3 DEF After, Step
<1>5. After(p, one, e2) = Step(r2.machine, r1.out \o r2.out)
    BY <1>4 DEF After, Step
<1>6. ReadAll(p, v, r1.out \o r2.out) = ReadAll(p, ReadAll(p, v, r1.out), r2.out)
    BY <1>2, RowsRead
<1> DEFINE st1 == Relayed(p, st, e1)
<1>7. st1 = [rn |-> r1.machine, seen |-> ReadAll(p, v, r1.out)]
    BY DEF Relayed
<1>8. Relayed(p, st1, e2) = [rn |-> r2.machine, seen |-> ReadAll(p, ReadAll(p, v, r1.out), r2.out)]
    BY <1>7 DEF Relayed
<1>12. Row(RenderAll(p, rn, <<e1>>).out)
    BY <1>1, <1>2, <1>4 DEF Step
<1>9. Shown(p, st, <<>>) = st /\ Row(RenderAll(p, rn, <<>>).out)
    BY <1>1, RowOfFew, ReadOne DEF Shown, Step
<1> HIDE DEF st1, one, r1, r2
<1>10. Shown(p, st, <<e1>>) = st1
    BY <1>1, <1>4, <1>7 DEF Shown, Step
<1>11. Shown(p, st, <<e1, e2>>) = Relayed(p, st1, e2)
  <2>1. PICK out : out = r1.out \o r2.out
      OBVIOUS
  <2>2. RenderAll(p, st.rn, <<e1, e2>>) = [machine |-> r2.machine, out |-> out]
      BY <1>1, <1>5, <2>1 DEF Step
  <2>3. PICK all : all = RenderAll(p, st.rn, <<e1, e2>>)
      OBVIOUS
  <2>4. Shown(p, st, <<e1, e2>>) = [rn |-> all.machine, seen |-> ReadAll(p, v, all.out)]
      BY <2>3 DEF Shown
  <2>5. all.machine = r2.machine /\ all.out = out
      BY <2>2, <2>3
  <2>6. ReadAll(p, v, out) = ReadAll(p, ReadAll(p, v, r1.out), r2.out)
      BY <1>6, <2>1, Zenon
  <2>7. QED
      BY <1>8, <2>4, <2>5, <2>6
<1>13. QED
    BY <1>9, <1>10, <1>11, <1>12 DEF st1, ShownInTurn
-----------------------------------------------------------------------------
(***************************************************************************)
(* What a client knows of a message: its blocks are numbered, and the last *)
(* may be open; a chat completion has them under keys.                     *)
(***************************************************************************)
\* A message that a client reads, and that has not ended.
Running(v) == IsView(v) /\ BlocksOK(v) /\ v.bad = FALSE /\ v.ends = 0

\* n blocks have begun, and the last is open if one is.
Listed(n, open, v) ==
    /\ n \in Nat
    /\ open \in Kinds \cup {"none"}
    /\ DOMAIN v.blocks = 0..(n - 1)
    /\ \A k \in DOMAIN v.blocks : v.blocks[k].open <=> (open # "none" /\ k = n - 1)
    /\ open # "none" => n > 0 /\ v.blocks[n - 1].kind = open

\* One more block ...
LEMMA BegunListed ==
    ASSUME NEW v, Running(v), NEW n, Listed(n, "none", v), NEW f, f.index = n, f.kind \in Kinds,
           NEW w, w = Begun(v, f)
    PROVE  /\ SameEnd(v, w) /\ Running(w) /\ Listed(n + 1, f.kind, w)
           /\ w.blocks[n].pieces = f.pieces
<1>1. IsView(v) /\ BlocksOK(v) /\ n \in Nat /\ DOMAIN v.blocks = 0..(n - 1) /\ "none" \notin Kinds
    BY DEF Running, Listed, Kinds
<1>2. SameEnd(v, w)
    BY <1>1, BlocksKeepEnd
<1>3. ~Has(v, f.index)
    BY <1>1 DEF Has
<1>4. /\ BlocksOK(w) /\ DOMAIN w.blocks = DOMAIN v.blocks \cup {n} /\ w.bad = v.bad
      /\ w.blocks[n] = [kind |-> f.kind, id |-> f.id, pieces |-> f.pieces, open |-> TRUE]
      /\ \A k \in DOMAIN v.blocks : w.blocks[k] = v.blocks[k]
    BY <1>1, <1>3, BegunBlocks
<1>5. Running(w)
    BY <1>2, <1>4 DEF Running, SameEnd
<1>6. DOMAIN w.blocks = 0..((n + 1) - 1) /\ n + 1 \in Nat /\ n + 1 > 0 /\ (n + 1) - 1 = n
    BY <1>1, <1>4
<1>7. w.blocks[n].open /\ w.blocks[n].kind = f.kind
    BY <1>4
<1>8. \A k \in DOMAIN v.blocks : ~w.blocks[k].open /\ k # n
    BY <1>1, <1>4 DEF Listed
<1>9. Listed(n + 1, f.kind, w)
    BY <1>1, <1>4, <1>6, <1>7, <1>8 DEF Listed
<1>10. QED
    BY <1>2, <1>4, <1>5, <1>9

\* w is v with more of its last block, which is open.
Longer(n, open, v, f, w) ==
    /\ SameEnd(v, w) /\ Running(w) /\ Listed(n, open, w)
    /\ w.blocks[n - 1].pieces = v.blocks[n - 1].pieces \o f.pieces

\* ... more of the open one ...
LEMMA ExtendedListed ==
    ASSUME NEW v, Running(v), NEW n, NEW open \in Kinds, Listed(n, open, v), NEW f, f.kind = open,
           NEW w, w = Extended(v, n - 1, f)
    PROVE  Longer(n, open, v, f, w)
<1>1. IsView(v) /\ BlocksOK(v) /\ n \in Nat /\ n > 0 /\ DOMAIN v.blocks = 0..(n - 1) /\ open # "none"
    BY DEF Running, Listed, Kinds
<1>2. SameEnd(v, w)
    BY <1>1, BlocksKeepEnd
<1>3. n - 1 \in DOMAIN v.blocks
    BY <1>1
<1>4. Fits(v, n - 1, f)
    BY <1>1, <1>3 DEF Fits, Has, Listed
<1>5. /\ BlocksOK(w) /\ DOMAIN w.blocks = DOMAIN v.blocks
      /\ \A k \in DOMAIN v.blocks : w.blocks[k].kind = v.blocks[k].kind /\ w.blocks[k].open = v.blocks[k].open
      /\ w.blocks[n - 1].pieces = v.blocks[n - 1].pieces \o f.pieces /\ w.bad = v.bad
  <2>1. PICK key : key = n - 1
      OBVIOUS
  <2>2. w = Extended(v, key, f) /\ Fits(v, key, f)
      BY <1>4, <2>1
  <2>3. Grown(v, key, f, w)
      BY <1>1, <2>2, ExtendedBlocks
  <2>4. QED
      BY <2>1, <2>2, <2>3, Zenon DEF Grown
<1>6. Running(w)
    BY <1>2, <1>5 DEF Running, SameEnd
<1>7. Listed(n, open, w)
    BY <1>3, <1>5 DEF Listed
<1>8. QED
    BY <1>2, <1>5, <1>6, <1>7 DEF Longer

\* ... and its end.
LEMMA ClosedListed ==
    ASSUME NEW v, Running(v), NEW n, NEW open \in Kinds, Listed(n, open, v),
           NEW f, f.index = n - 1, f.pieces \in {<<>>, v.blocks[n - 1].pieces},
           NEW w, w = Closed(v, f)
    PROVE  SameEnd(v, w) /\ Running(w) /\ Listed(n, "none", w)
<1>1. IsView(v) /\ BlocksOK(v) /\ n \in Nat /\ n > 0 /\ DOMAIN v.blocks = 0..(n - 1) /\ open # "none"
    BY DEF Running, Listed, Kinds
<1>2. SameEnd(v, w)
    BY <1>1, BlocksKeepEnd
<1>3. n - 1 \in DOMAIN v.blocks
    BY <1>1
<1>4. f.index \in Open(v)
    BY <1>1, <1>3 DEF Open, Listed
<1>5. /\ BlocksOK(w) /\ DOMAIN w.blocks = DOMAIN v.blocks /\ w.bad = FALSE
      /\ \A k \in DOMAIN v.blocks : w.blocks[k].open = IF k = n - 1 THEN FALSE ELSE v.blocks[k].open
  <2>1. Shut(v, f, w)
      BY <1>1, ClosedBlocks
  <2>2. v.bad = FALSE
      BY DEF Running
  <2>3. v.blocks[f.index].pieces = v.blocks[n - 1].pieces
      OBVIOUS
  <2>4. QED
      BY <1>4, <2>1, <2>2, <2>3 DEF Shut
<1>6. Running(w)
    BY <1>2, <1>5 DEF Running, SameEnd
<1>7. \A k \in DOMAIN w.blocks : ~w.blocks[k].open
    BY <1>1, <1>5 DEF Listed
<1>8. Listed(n, "none", w)
    BY <1>1, <1>5, <1>7 DEF Listed
<1>9. QED
    BY <1>2, <1>6, <1>8
-----------------------------------------------------------------------------
\* The blocks of a chat completion, each under its key: a text, a reasoning,
\* and calls, which a chunk never closes.
ChatView(v) ==
    \A k \in DOMAIN v.blocks :
        /\ v.blocks[k].open
        /\ \/ k = -2 /\ v.blocks[k].kind = "thinking"
           \/ k = -1 /\ v.blocks[k].kind = "text"
           \/ k \in Nat /\ v.blocks[k].kind = "tool_use"

ChatKey(f) == CASE f.kind = "thinking" -> -2 [] f.kind = "text" -> -1 [] OTHER -> f.index

\* A chunk with a delta.
ChatPart(f) ==
    /\ FrameKind(f) /\ f.type = "chunk" /\ f.kind \in Kinds /\ f.stop = "none" /\ f.usage = NoUsage
    /\ f.kind = "tool_use" => f.index \in Nat

\* w is v with the delta read.
ChatGrown(v, f, w) ==
    /\ IsView(w) /\ BlocksOK(w) /\ ChatView(w)
    /\ DOMAIN w.blocks = DOMAIN v.blocks \cup {ChatKey(f)}
    /\ w.blocks[ChatKey(f)].kind = f.kind
    /\ w.at = ChatKey(f)
    /\ ~w.crossed => ~v.crossed /\ (Has(v, ChatKey(f)) /\ f.kind = "tool_use" => v.at = ChatKey(f))
    /\ w.started = TRUE /\ w.stop = v.stop /\ w.usage = v.usage /\ w.error = v.error
    /\ w.ends = v.ends /\ (v.bad = FALSE => w.bad = FALSE)

\* w is x with what a chunk sets.
Charted(x, stop, cost, bad, w) ==
    /\ IsView(w) /\ w.blocks = x.blocks /\ w.at = x.at /\ w.crossed = x.crossed /\ w.error = x.error
    /\ w.ends = x.ends /\ w.started = TRUE /\ w.stop = stop /\ w.usage = cost /\ w.bad = bad

\* A chunk leaves the blocks to its delta.
LEMMA ChunkFields ==
    ASSUME NEW x, IsView(x), NEW stop, NEW cost, NEW bad,
           NEW w, w = [x EXCEPT !.started = TRUE, !.stop = stop, !.usage = cost, !.bad = bad]
    PROVE  Charted(x, stop, cost, bad, w)
<1>1. w = [blocks |-> x.blocks, at |-> x.at, crossed |-> x.crossed, started |-> TRUE, stop |-> stop,
           usage |-> cost, error |-> x.error, ends |-> x.ends, bad |-> bad]
    BY DEF IsView
<1>2. w.blocks = x.blocks /\ w.at = x.at /\ w.stop = stop /\ w.usage = cost /\ w.ends = x.ends
    BY <1>1
<1>3. w.crossed = x.crossed
    BY <1>1
<1>4. w.error = x.error
    BY <1>1
<1>5. w.started = TRUE
    BY <1>1
<1>6. w.bad = bad
    BY <1>1
<1>7. IsView(w)
    BY <1>1, <1>2, <1>3, <1>4, <1>5, <1>6 DEF IsView
<1>8. QED
    BY <1>2, <1>3, <1>4, <1>5, <1>6, <1>7 DEF Charted

\* A delta goes to the block under its key, which is begun with the first.
LEMMA ChatRead ==
    ASSUME NEW v, IsView(v), BlocksOK(v), ChatView(v), NEW f, ChatPart(f), NEW w, w = ReadOpenAI(v, f)
    PROVE  ChatGrown(v, f, w)
<1>1. PICK key : key = ChatKey(f)
    OBVIOUS
<1>2. /\ f.kind \in {"thinking", "text", "tool_use"} /\ f.type = "chunk" /\ f.stop = "none" /\ f.usage = NoUsage
      /\ f.kind # "none"
    BY DEF ChatPart, Kinds
<1>3. \/ key = -2 /\ f.kind = "thinking"
      \/ key = -1 /\ f.kind = "text"
      \/ key \in Nat /\ f.kind = "tool_use"
    BY <1>1, <1>2 DEF ChatPart, ChatKey
<1>4. PICK g : g = [f EXCEPT !.index = key]
    OBVIOUS
<1>5. g.index = key /\ g.kind = f.kind /\ g.pieces = f.pieces /\ g.id = f.id
    BY <1>4 DEF ChatPart, FrameKind, Wire
<1>6. PICK x : x = IF Has(v, key) THEN Extended(v, key, f) ELSE Begun(v, g)
    OBVIOUS
<1>7. PICK bad : bad = (x.bad \/ (f.stop # "none" /\ v.stop # "none"))
    OBVIOUS
<1>13. x.bad = FALSE => bad = FALSE
    BY <1>2, <1>7
<1>14. w = [x EXCEPT !.started = TRUE, !.stop = v.stop, !.usage = v.usage, !.bad = bad]
  <2>1. w = [x EXCEPT !.started = TRUE, !.stop = @, !.usage = @, !.bad = bad]
      BY <1>1, <1>2, <1>4, <1>6, <1>7 DEF ReadOpenAI, ChatKey
  <2>2. SameEnd(v, x)
      BY <1>6, BlocksKeepEnd
  <2>3. x.stop = v.stop /\ x.usage = v.usage
      BY <2>2 DEF SameEnd
  <2>4. QED
      BY <2>1, <2>3
<1>8. SameEnd(v, x)
    BY <1>6, BlocksKeepEnd
<1>9. /\ BlocksOK(x) /\ ChatView(x) /\ DOMAIN x.blocks = DOMAIN v.blocks \cup {key}
      /\ x.blocks[key].kind = f.kind /\ x.at = key /\ (v.bad = FALSE => x.bad = FALSE)
      /\ ~x.crossed => ~v.crossed /\ (Has(v, key) /\ f.kind = "tool_use" => v.at = key)
  <2>1. CASE Has(v, key)
    <3>1. key \in DOMAIN v.blocks
        BY <2>1 DEF Has
    <3>2. Fits(v, key, f)
        BY <1>3, <2>1, <3>1 DEF Fits, ChatView
    <3>3. Grown(v, key, f, x)
        BY <1>6, <2>1, ExtendedBlocks
    <3>4. ChatView(x)
        BY <3>3 DEF Grown, ChatView
    <3>5. ~x.crossed => ~v.crossed /\ (Has(v, key) /\ f.kind = "tool_use" => v.at = key)
        BY <2>1, <3>2, <3>3 DEF Grown
    <3>6. QED
        BY <3>1, <3>2, <3>3, <3>4, <3>5 DEF Grown, Fits
  <2>2. CASE ~Has(v, key)
    <3>1. x = Begun(v, g) /\ g.kind \in Kinds /\ ~Has(v, g.index)
        BY <1>2, <1>5, <1>6, <2>2 DEF Kinds
    <3>2. /\ BlocksOK(x) /\ DOMAIN x.blocks = DOMAIN v.blocks \cup {key}
          /\ x.blocks[key] = [kind |-> f.kind, id |-> f.id, pieces |-> f.pieces, open |-> TRUE]
          /\ \A k \in DOMAIN v.blocks : x.blocks[k] = v.blocks[k]
          /\ x.at = key /\ x.crossed = v.crossed /\ x.bad = v.bad
        BY <1>5, <3>1, BegunBlocks
    <3>3. x.blocks[key].kind = f.kind /\ x.blocks[key].open
        BY <3>2
    <3>4. ChatView(x)
        BY <1>3, <3>2, <3>3 DEF ChatView
    <3>5. QED
        BY <2>2, <3>2, <3>3, <3>4
  <2>3. QED
      BY <2>1, <2>2
<1>10. Charted(x, v.stop, v.usage, bad, w)
    BY <1>14, <1>8, ChunkFields DEF SameEnd
<1>11. BlocksOK(w) /\ ChatView(w)
    BY <1>9, <1>10 DEF BlocksOK, ChatView, Charted
<1>12. QED
    BY <1>1, <1>8, <1>9, <1>10, <1>11, <1>13 DEF ChatGrown, SameEnd, Charted
-----------------------------------------------------------------------------
(***************************************************************************)
(* The renderers: whatever event comes, the client is still in the middle  *)
(* of a message in its form, or at its end.                                *)
(***************************************************************************)
\* A chunk without a delta.
LEMMA PlainChunk ==
    ASSUME NEW v, IsView(v), NEW f, f.type = "chunk", f.kind = "none", NEW w, w = ReadOpenAI(v, f)
    PROVE  \E bad : /\ bad = (v.bad \/ (f.stop # "none" /\ v.stop # "none"))
                    /\ Charted(v, IF f.stop = "none" THEN v.stop ELSE f.stop,
                               IF f.usage = NoUsage THEN v.usage ELSE f.usage, bad, w)
<1>1. PICK bad : bad = (v.bad \/ (f.stop # "none" /\ v.stop # "none"))
    OBVIOUS
<1>2. w = [v EXCEPT !.started = TRUE, !.stop = IF f.stop = "none" THEN v.stop ELSE f.stop,
                    !.usage = IF f.usage = NoUsage THEN v.usage ELSE f.usage, !.bad = bad]
    BY <1>1 DEF ReadOpenAI
<1>3. QED
    BY <1>1, <1>2, ChunkFields

\* A renderer and its view in the middle of a message ...
Going(p, st) ==
    /\ Running(st.seen) /\ st.seen.stop = "none"
    /\ p = "openai" => st.rn = [finished |-> FALSE] /\ ChatView(st.seen)
    /\ p = "anthropic" =>
          /\ st.rn = [finished |-> FALSE, nextIndex |-> st.rn.nextIndex, open |-> st.rn.open]
          /\ Listed(st.rn.nextIndex, st.rn.open, st.seen)
    /\ p = "responses" =>
          /\ st.rn = [finished |-> FALSE, nextIndex |-> st.rn.nextIndex, open |-> st.rn.open,
                      id |-> st.rn.id, text |-> st.rn.text]
          /\ Listed(st.rn.nextIndex, st.rn.open, st.seen)
          /\ st.rn.open # "none" => st.seen.blocks[st.rn.nextIndex - 1].pieces = st.rn.text

\* ... and at its end.
Over(st) == st.rn.finished = TRUE /\ st.seen.bad = FALSE /\ st.seen.ends = 1

EventKinds == {"start", "text", "thinking", "tool_start", "tool_delta", "tool_end", "ping", "finish", "error"}

\* An event that the renderer can make frames of.
Ready(p, st, ev) ==
    /\ ev.kind \in EventKinds
    /\ p = "openai" /\ ev.kind \in {"tool_start", "tool_delta"} => ev.tool \in Nat
    /\ p = "anthropic" /\ ev.kind = "tool_delta" => st.rn.open = "tool_use"
    /\ p = "responses" /\ ev.kind = "start" => ~st.seen.started

Ends(p, ev) == ev.kind = "finish" \/ (ev.kind = "error" /\ p # "openai")

\* What it comes to.
Follows(p, st, ev, to) ==
    /\ Ends(p, ev) => Over(to)
    /\ ~Ends(p, ev) => Going(p, to)
    /\ p = "anthropic" =>
          /\ ev.kind \in {"tool_start", "tool_delta"} => to.rn.open = "tool_use"
          /\ ev.kind \in {"start", "tool_end", "ping"} => to.rn.open = st.rn.open
    /\ p = "responses" /\ ~Ends(p, ev) /\ ev.kind # "start" => to.seen.started = st.seen.started

\* A renderer puts out one frame ...
LEMMA OneRelayed ==
    ASSUME NEW p, NEW st, NEW ev, NEW m, NEW f, Render(p, st.rn, ev) = Step(m, <<f>>),
           NEW to, to = Relayed(p, st, ev)
    PROVE  to.rn = m /\ to.seen = Read(p, st.seen, f)
<1>1. Render(p, st.rn, ev).machine = m /\ Render(p, st.rn, ev).out = <<f>>
    BY DEF Step
<1>2. QED
    BY <1>1, ReadOne DEF Relayed

\* ... or none.
LEMMA NoneRelayed ==
    ASSUME NEW p, NEW st, NEW ev, NEW m, Render(p, st.rn, ev) = Step(m, <<>>),
           NEW to, to = Relayed(p, st, ev)
    PROVE  to.rn = m /\ to.seen = st.seen
<1>1. Render(p, st.rn, ev).machine = m /\ Render(p, st.rn, ev).out = <<>>
    BY DEF Step
<1>2. QED
    BY <1>1, ReadOne DEF Relayed

\* An event for a client of OpenAI.
LEMMA OpenAIFollows ==
    ASSUME NEW st, Going("openai", st), NEW ev, Ready("openai", st, ev), NEW to, to = Relayed("openai", st, ev)
    PROVE  Follows("openai", st, ev, to)
<1>1. PICK v : v = st.seen
    OBVIOUS
<1>2. PICK rn : rn = st.rn
    OBVIOUS
<1>3. /\ IsView(v) /\ BlocksOK(v) /\ v.bad = FALSE /\ v.ends = 0 /\ v.stop = "none" /\ ChatView(v)
      /\ rn = [finished |-> FALSE]
    BY <1>1, <1>2 DEF Going, Running
<1>4. \A f : Read("openai", v, f) = ReadOpenAI(v, f)
    BY <1>3 DEF Read
<1>5. Render("openai", st.rn, ev) = RenderOpenAI(rn, ev)
    BY <1>2 DEF Render
<1>6. ASSUME NEW w, Charted(v, "none", v.usage, FALSE, w)
      PROVE  Running(w) /\ w.stop = "none" /\ ChatView(w)
    BY <1>3, <1>6 DEF Charted, Running, BlocksOK, ChatView
<1>7. ASSUME to.rn = rn, Running(to.seen), to.seen.stop = "none", ChatView(to.seen), ev.kind # "finish"
      PROVE  Follows("openai", st, ev, to)
    BY <1>3, <1>7 DEF Follows, Going, Ends
<1>8. CASE ev.kind = "start"
  <2>1. RenderOpenAI(rn, ev) = Step(rn, <<Frame("chunk")>>)
      BY <1>8 DEF RenderOpenAI
  <2>2. PICK f : f = Frame("chunk")
      OBVIOUS
  <2>3. f.type = "chunk" /\ f.kind = "none" /\ f.stop = "none" /\ f.usage = NoUsage
      BY <2>2, FrameForm DEF Wire
  <2>4. to.rn = rn /\ to.seen = ReadOpenAI(v, f)
      BY <1>1, <1>2, <1>4, <1>5, <2>1, <2>2, OneRelayed
  <2>5. Charted(v, "none", v.usage, FALSE, to.seen)
    <3>1. PICK b : /\ b = (v.bad \/ (f.stop # "none" /\ v.stop # "none"))
                   /\ Charted(v, IF f.stop = "none" THEN v.stop ELSE f.stop,
                              IF f.usage = NoUsage THEN v.usage ELSE f.usage, b, to.seen)
        BY <1>3, <2>3, <2>4, PlainChunk
    <3>2. b = FALSE
        BY <1>3, <2>3, <3>1
    <3>3. QED
        BY <1>3, <2>3, <3>1, <3>2
  <2>6. QED
      BY <1>6, <1>7, <1>8, <2>4, <2>5
<1>9. CASE ev.kind \in {"text", "thinking", "tool_start", "tool_delta"}
  <2>1. PICK f : f = IF ev.kind \in {"text", "thinking"} THEN Part("chunk", 0, ev.kind, 0, ev.pieces)
                     ELSE Part("chunk", ev.tool, "tool_use", ev.id, ev.pieces)
      OBVIOUS
  <2>7. RenderOpenAI(rn, ev) = Step(rn, <<f>>)
      BY <1>9, <2>1 DEF RenderOpenAI
  <2>2. ChatPart(f)
    <3>1. CASE ev.kind \in {"text", "thinking"}
        BY <2>1, <3>1, PartForm DEF ChatPart, FrameKind, Wire, Kinds
    <3>2. CASE ev.kind \notin {"text", "thinking"}
        BY <1>9, <2>1, <3>2, PartForm DEF ChatPart, FrameKind, Wire, Kinds, Ready
    <3>3. QED
        BY <3>1, <3>2
  <2>3. to.rn = rn /\ to.seen = ReadOpenAI(v, f)
      BY <1>1, <1>2, <1>4, <1>5, <2>7, OneRelayed
  <2>4. ChatGrown(v, f, to.seen)
      BY <1>3, <2>2, <2>3, ChatRead
  <2>5. Running(to.seen) /\ to.seen.stop = "none" /\ ChatView(to.seen)
      BY <1>3, <2>4 DEF ChatGrown, Running
  <2>6. QED
      BY <1>7, <1>9, <2>3, <2>5
<1>10. CASE ev.kind = "finish"
  <2>1. PICK c1 : c1 = Closing("chunk", StopTo("openai", ev.stop), NoUsage)
      OBVIOUS
  <2>2. PICK c2 : c2 = Closing("chunk", "none", ToWire("openai", ev.usage))
      OBVIOUS
  <2>3. PICK c3 : c3 = Frame("[DONE]")
      OBVIOUS
  <2>4. RenderOpenAI(rn, ev) = Step(Terminated(rn), <<c1, c2, c3>>)
      BY <1>3, <1>10, <2>1, <2>2, <2>3 DEF RenderOpenAI
  <2>5. to.rn = Terminated(rn) /\ to.seen = ReadAll("openai", v, <<c1, c2, c3>>)
      BY <1>1, <1>5, <2>4 DEF Relayed, Step
  <2>6. PICK v1 : v1 = Read("openai", v, c1)
      OBVIOUS
  <2>7. PICK v2 : v2 = Read("openai", v1, c2)
      OBVIOUS
  <2>8. PICK v3 : v3 = Read("openai", v2, c3)
      OBVIOUS
  <2>9. to.seen = v3
      BY <2>5, <2>6, <2>7, <2>8, ReadThree
  <2>10. /\ c1.type = "chunk" /\ c1.kind = "none"
         /\ c2.type = "chunk" /\ c2.kind = "none" /\ c2.stop = "none"
         /\ c3.type = "[DONE]"
      BY <2>1, <2>2, <2>3, ClosingForm, FrameForm DEF Wire
  <2>11. IsView(v1) /\ v1.bad = FALSE /\ v1.ends = 0
    <3>1. PICK b : /\ b = (v.bad \/ (c1.stop # "none" /\ v.stop # "none"))
                   /\ Charted(v, IF c1.stop = "none" THEN v.stop ELSE c1.stop,
                              IF c1.usage = NoUsage THEN v.usage ELSE c1.usage, b, v1)
        BY <1>3, <1>4, <2>6, <2>10, PlainChunk
    <3>2. QED
        BY <1>3, <3>1 DEF Charted
  <2>12. IsView(v2) /\ v2.bad = FALSE /\ v2.ends = 0
    <3>1. v2 = ReadOpenAI(v1, c2)
        BY <2>7, <2>11 DEF Read
    <3>2. PICK b : /\ b = (v1.bad \/ (c2.stop # "none" /\ v1.stop # "none"))
                   /\ Charted(v1, IF c2.stop = "none" THEN v1.stop ELSE c2.stop,
                              IF c2.usage = NoUsage THEN v1.usage ELSE c2.usage, b, v2)
        BY <2>10, <2>11, <3>1, PlainChunk
    <3>3. QED
        BY <2>10, <2>11, <3>2 DEF Charted
  <2>13. v3 = [v2 EXCEPT !.ends = @ + 1]
      BY <2>8, <2>10, <2>12 DEF Read, ReadOpenAI
  <2>14. v3.bad = FALSE /\ v3.ends = 1
      BY <2>12, <2>13 DEF IsView
  <2>15. to.rn.finished = TRUE
      BY <1>3, <2>5 DEF Terminated
  <2>16. QED
      BY <1>10, <2>9, <2>14, <2>15 DEF Follows, Over, Ends
<1>11. CASE ev.kind = "error"
  <2>1. PICK f : f = Frame("error")
      OBVIOUS
  <2>2. RenderOpenAI(rn, ev) = Step(rn, <<f>>)
      BY <1>11, <2>1 DEF RenderOpenAI
  <2>3. f.type = "error"
      BY <2>1, FrameForm DEF Wire
  <2>4. to.rn = rn /\ to.seen = ReadOpenAI(v, f)
      BY <1>1, <1>2, <1>4, <1>5, <2>2, OneRelayed
  <2>5. to.seen = [v EXCEPT !.error = TRUE]
      BY <2>3, <2>4 DEF ReadOpenAI
  <2>6. IsView(to.seen) /\ to.seen.blocks = v.blocks /\ to.seen.ends = 0 /\ to.seen.stop = "none"
      BY <1>3, <2>5 DEF IsView
  <2>7. to.seen.bad = FALSE
      BY <1>3, <2>5 DEF IsView
  <2>8. Running(to.seen) /\ ChatView(to.seen)
      BY <1>3, <2>6, <2>7 DEF Running, BlocksOK, ChatView
  <2>9. QED
      BY <1>7, <1>11, <2>4, <2>6, <2>8
<1>12. CASE ev.kind \in {"ping", "tool_end"}
  <2>1. RenderOpenAI(rn, ev) = Step(rn, <<>>)
      BY <1>12 DEF RenderOpenAI
  <2>2. to.rn = rn /\ to.seen = v
      BY <1>1, <1>2, <1>5, <2>1, NoneRelayed
  <2>3. Running(v)
      BY <1>3 DEF Running
  <2>4. QED
      BY <1>3, <1>7, <1>12, <2>2, <2>3
<1>13. QED
    BY <1>8, <1>9, <1>10, <1>11, <1>12 DEF Ready, EventKinds
-----------------------------------------------------------------------------
\* A renderer and its view after a step of it.
Put(p, v, step) == [rn |-> step.machine, seen |-> ReadAll(p, v, step.out)]

\* The view of a client whose n blocks are all closed.
Settled(n, v) == Running(v) /\ v.stop = "none" /\ Listed(n, "none", v)

\* A block of a kind is open to be written to.
Opened(p, step, to, kind) == Row(step.out) /\ Going(p, to) /\ to.rn.open = kind

\* An Anthropic client: what is open is closed ...
LEMMA BlockClosed ==
    ASSUME NEW st, Going("anthropic", st), NEW out, out = CloseBlock(st.rn).out,
           NEW v, v = ReadAll("anthropic", st.seen, out)
    PROVE  Row(out) /\ Settled(st.rn.nextIndex, v)
<1>1. PICK rn : rn = st.rn
    OBVIOUS
<1>2. PICK x : x = st.seen
    OBVIOUS
<1>3. Running(x) /\ x.stop = "none" /\ x.ends = 0 /\ Listed(rn.nextIndex, rn.open, x)
    BY <1>1, <1>2 DEF Going, Running
<1>4. CASE rn.open = "none"
  <2>1. out = <<>>
      BY <1>1, <1>4 DEF CloseBlock, Step
  <2>2. v = x
      BY <1>2, <2>1, ReadOne
  <2>3. QED
      BY <1>1, <1>3, <1>4, <2>1, <2>2, RowOfFew DEF Settled
<1>5. CASE rn.open # "none"
  <2>1. PICK f : f = Part("content_block_stop", rn.nextIndex - 1, "none", 0, <<>>)
      OBVIOUS
  <2>2. f.type = "content_block_stop" /\ f.index = rn.nextIndex - 1 /\ f.pieces = <<>>
      BY <2>1, PartForm DEF Wire
  <2>3. out = <<f>>
      BY <1>1, <1>5, <2>1 DEF CloseBlock, Step
  <2>4. v = Read("anthropic", x, f)
      BY <1>2, <2>3, ReadOne
  <2>5. v = Closed(x, f)
      BY <1>3, <2>2, <2>4 DEF Read, ReadAnthropic
  <2>6. rn.open \in Kinds
      BY <1>3, <1>5 DEF Listed
  <2>7. SameEnd(x, v) /\ Running(v) /\ Listed(rn.nextIndex, "none", v)
      BY <1>3, <2>2, <2>5, <2>6, ClosedListed
  <2>8. QED
      BY <1>1, <1>3, <2>3, <2>7, RowOfFew DEF Settled, SameEnd
<1>6. QED
    BY <1>4, <1>5

\* ... a block is started ...
LEMMA BlockStarted ==
    ASSUME NEW st, Going("anthropic", st), NEW kind \in Kinds, NEW id,
           NEW step, step = StartBlock(st.rn, kind, id), NEW to, to = Put("anthropic", st.seen, step)
    PROVE  Opened("anthropic", step, to, kind)
<1>1. PICK n : n = st.rn.nextIndex
    OBVIOUS
<1>2. PICK shut : shut = CloseBlock(st.rn).out
    OBVIOUS
<1>3. PICK x : x = ReadAll("anthropic", st.seen, shut)
    OBVIOUS
<1>4. Row(shut) /\ Settled(n, x)
    BY <1>1, <1>2, <1>3, BlockClosed
<1>5. PICK f : f = Part("content_block_start", n, kind, id, <<>>)
    OBVIOUS
<1>6. f.type = "content_block_start" /\ f.index = n /\ f.kind = kind
    BY <1>5, PartForm DEF Wire
<1>7. PICK m : m = [st.rn EXCEPT !.nextIndex = @ + 1, !.open = kind]
    OBVIOUS
<1>8. m = [finished |-> FALSE, nextIndex |-> n + 1, open |-> kind]
  <2>1. PICK o : o = st.rn.open
      OBVIOUS
  <2>2. st.rn = [finished |-> FALSE, nextIndex |-> n, open |-> o]
      BY <1>1, <2>1 DEF Going
  <2>3. PICK k : k = n + 1
      OBVIOUS
  <2>4. m = [[finished |-> FALSE, nextIndex |-> n, open |-> o] EXCEPT !.nextIndex = k, !.open = kind]
      BY <1>1, <1>7, <2>2, <2>3
  <2>5. m = [finished |-> FALSE, nextIndex |-> k, open |-> kind]
      BY <2>4
  <2>6. QED
      BY <2>3, <2>5
<1>9. step.machine = m /\ step.out = shut \o <<f>>
    BY <1>1, <1>2, <1>5, <1>7 DEF StartBlock, Step
<1>10. Row(<<f>>) /\ Row(shut \o <<f>>)
    BY <1>4, RowOfFew, RowsMade
<1>11. to.rn = m /\ to.seen = ReadAll("anthropic", st.seen, shut \o <<f>>)
    BY <1>9 DEF Put
<1>12. to.seen = Read("anthropic", x, f)
    BY <1>3, <1>4, <1>10, <1>11, RowsRead, ReadOne
<1>13. x.ends = 0 /\ Open(x) = {} /\ Running(x) /\ Listed(n, "none", x) /\ x.stop = "none"
    BY <1>4 DEF Settled, Running, Listed, Open
<1>14. to.seen = Begun(x, f)
    BY <1>6, <1>12, <1>13 DEF Read, ReadAnthropic
<1>15. SameEnd(x, to.seen) /\ Running(to.seen) /\ Listed(n + 1, kind, to.seen)
    BY <1>6, <1>13, <1>14, BegunListed
<1>16. Going("anthropic", to)
  <2>2. to.rn.nextIndex = n + 1 /\ to.rn.open = kind
      BY <1>8, <1>11
  <2>1. to.rn = [finished |-> FALSE, nextIndex |-> to.rn.nextIndex, open |-> to.rn.open]
      BY <1>8, <1>11, <2>2
  <2>3. QED
      BY <1>13, <1>15, <2>1, <2>2 DEF Going, SameEnd
<1>17. QED
    BY <1>8, <1>9, <1>10, <1>11, <1>16 DEF Opened

\* ... if one of its kind is not open ...
LEMMA BlockReady ==
    ASSUME NEW st, Going("anthropic", st), NEW kind \in Kinds,
           NEW step, step = OpenBlock(st.rn, kind), NEW to, to = Put("anthropic", st.seen, step)
    PROVE  Opened("anthropic", step, to, kind)
<1>1. CASE st.rn.open = kind
  <2>1. step.machine = st.rn /\ step.out = <<>>
      BY <1>1 DEF OpenBlock, Step
  <2>2. to.rn = st.rn /\ to.seen = st.seen
      BY <2>1, ReadOne DEF Put
  <2>3. Going("anthropic", to)
      BY <2>2 DEF Going
  <2>4. QED
      BY <1>1, <2>1, <2>2, <2>3, RowOfFew DEF Opened
<1>2. CASE st.rn.open # kind
    BY <1>2, BlockStarted DEF OpenBlock
<1>3. QED
    BY <1>1, <1>2

\* ... and written to ...
LEMMA BlockWritten ==
    ASSUME NEW v, NEW kind \in Kinds, NEW step, Opened("anthropic", step, Put("anthropic", v, step), kind),
           NEW pieces, NEW next, next = BlockDelta(step, kind, pieces), NEW to, to = Put("anthropic", v, next)
    PROVE  Going("anthropic", to) /\ to.rn.open = kind
<1>1. PICK st : st = Put("anthropic", v, step)
    OBVIOUS
<1>2. PICK x : x = st.seen
    OBVIOUS
<1>3. PICK n : n = st.rn.nextIndex
    OBVIOUS
<1>4. /\ Row(step.out) /\ Going("anthropic", st) /\ st.rn.open = kind
      /\ st.rn = step.machine /\ x = ReadAll("anthropic", v, step.out)
    BY <1>1, <1>2 DEF Opened, Put
<1>5. Running(x) /\ x.stop = "none" /\ x.ends = 0 /\ Listed(n, kind, x)
    BY <1>2, <1>3, <1>4 DEF Going, Running
<1>6. PICK f : f = Part("content_block_delta", n - 1, kind, 0, pieces)
    OBVIOUS
<1>7. f.type = "content_block_delta" /\ f.index = n - 1 /\ f.kind = kind
    BY <1>6, PartForm DEF Wire
<1>8. next.machine = step.machine /\ next.out = Append(step.out, f)
    BY <1>3, <1>4, <1>6 DEF BlockDelta, Step
<1>9. to.rn = st.rn /\ to.seen = ReadAll("anthropic", v, Append(step.out, f))
    BY <1>4, <1>8 DEF Put
<1>10. to.seen = Read("anthropic", x, f)
    BY <1>4, <1>9, RowAppended
<1>11. to.seen = Extended(x, n - 1, f)
    BY <1>5, <1>7, <1>10 DEF Read, ReadAnthropic
<1>12. SameEnd(x, to.seen) /\ Running(to.seen) /\ Listed(n, kind, to.seen)
  <2>1. Longer(n, kind, x, f, to.seen)
      BY <1>5, <1>7, <1>11, ExtendedListed
  <2>2. QED
      BY <2>1 DEF Longer
<1>13. QED
    BY <1>3, <1>4, <1>5, <1>9, <1>12 DEF Going, SameEnd

\* ... and the message ends.
LEMMA MessageEnded ==
    ASSUME NEW st, Going("anthropic", st), NEW frames,
           frames = <<>> \/ \E f : frames = <<f>> /\ f.type \in {"message_delta", "error"},
           NEW step, step = EndMessage(st.rn, frames), NEW to, to = Put("anthropic", st.seen, step)
    PROVE  Over(to)
<1>1. PICK shut : shut = CloseBlock(st.rn).out
    OBVIOUS
<1>2. PICK x : x = ReadAll("anthropic", st.seen, shut)
    OBVIOUS
<1>3. Row(shut) /\ Settled(st.rn.nextIndex, x)
    BY <1>1, <1>2, BlockClosed
<1>4. IsView(x) /\ x.bad = FALSE /\ x.ends = 0 /\ x.stop = "none" /\ Open(x) = {}
    BY <1>3 DEF Settled, Running, Listed, Open
<1>5. PICK y : y = ReadAll("anthropic", x, frames)
    OBVIOUS
<1>6. IsView(y) /\ y.bad = FALSE /\ y.ends = 0 /\ y.blocks = x.blocks
  <2>1. CASE frames = <<>>
      BY <1>4, <1>5, <2>1, ReadOne
  <2>2. ASSUME NEW f, frames = <<f>>, f.type \in {"message_delta", "error"}
        PROVE  IsView(y) /\ y.bad = FALSE /\ y.ends = 0 /\ y.blocks = x.blocks
    <3>1. y = ReadAnthropic(x, f)
      <4>1. y = Read("anthropic", x, f)
          BY <1>5, <2>2, ReadOne
      <4>2. QED
          BY <1>4, <4>1 DEF Read
    <3>2. CASE f.type = "error"
      <4>1. y = [x EXCEPT !.error = TRUE]
          BY <3>1, <3>2 DEF ReadAnthropic
      <4>2. y.bad = FALSE
          BY <1>4, <4>1 DEF IsView
      <4>3. QED
          BY <1>4, <4>1, <4>2 DEF IsView
    <3>3. CASE f.type = "message_delta"
      <4>1. PICK cost : cost = MergeUsage(x.usage, f.usage)
          OBVIOUS
      <4>2. y = [x EXCEPT !.stop = f.stop, !.usage = cost, !.bad = FALSE]
          BY <1>4, <3>1, <3>3, <4>1 DEF ReadAnthropic
      <4>3. y.bad = FALSE
          BY <1>4, <4>2 DEF IsView
      <4>4. IsView(y)
          BY <1>4, <4>2 DEF IsView
      <4>5. y.ends = 0 /\ y.blocks = x.blocks
          BY <1>4, <4>2 DEF IsView
      <4>6. QED
          BY <4>3, <4>4, <4>5
    <3>4. QED
        BY <2>2, <3>2, <3>3
  <2>3. QED
      BY <2>1, <2>2
<1>7. PICK f : f = Frame("message_stop")
    OBVIOUS
<1>8. f.type = "message_stop"
    BY <1>7, FrameForm DEF Wire
<1>9. Row(frames) /\ Row(<<f>>) /\ Row(shut \o frames) /\ Row(shut \o frames \o <<f>>)
    BY <1>3, RowOfFew, RowsMade
<1>10. to.rn = Terminated(CloseBlock(st.rn).machine) /\ to.seen = ReadAll("anthropic", st.seen, shut \o frames \o <<f>>)
    BY <1>1, <1>7 DEF Put, EndMessage, Step
<1>11. to.rn.finished = TRUE
    BY <1>10 DEF Terminated, CloseBlock, Step, Going
<1>12. to.seen = Read("anthropic", y, f)
  <2>1. ReadAll("anthropic", st.seen, shut \o frames) = y
      BY <1>2, <1>3, <1>5, <1>9, RowsRead
  <2>2. ReadAll("anthropic", st.seen, shut \o frames \o <<f>>) = ReadAll("anthropic", y, <<f>>)
      BY <1>9, <2>1, RowsRead
  <2>3. QED
      BY <1>10, <2>2, ReadOne
<1>13. Open(y) = {}
    BY <1>4, <1>6 DEF Open
<1>14. to.seen = [y EXCEPT !.ends = 1, !.bad = FALSE]
  <2>1. to.seen = [y EXCEPT !.ends = @ + 1, !.bad = @ \/ Open(y) # {}]
      BY <1>6, <1>8, <1>12 DEF Read, ReadAnthropic
  <2>2. y.ends + 1 = 1
      BY <1>6
  <2>3. (y.bad \/ Open(y) # {}) = FALSE
      BY <1>6, <1>13
  <2>4. QED
      BY <2>1, <2>2, <2>3
<1>15. to.seen.ends = 1
    BY <1>6, <1>14 DEF IsView
<1>16. to.seen.bad = FALSE
    BY <1>6, <1>14 DEF IsView
<1>17. QED
    BY <1>11, <1>15, <1>16 DEF Over

\* An event for a client of Anthropic.
LEMMA AnthropicFollows ==
    ASSUME NEW st, Going("anthropic", st), NEW ev, Ready("anthropic", st, ev),
           NEW to, to = Relayed("anthropic", st, ev)
    PROVE  Follows("anthropic", st, ev, to)
<1>1. PICK step : step = RenderAnthropic(st.rn, ev)
    OBVIOUS
<1>2. to = Put("anthropic", st.seen, step)
    BY <1>1 DEF Relayed, Render, Put
<1>3. CASE ev.kind \in {"text", "thinking"}
  <2>1. PICK first : first = OpenBlock(st.rn, ev.kind)
      OBVIOUS
  <2>2. step = BlockDelta(first, ev.kind, ev.pieces)
      BY <1>1, <1>3, <2>1 DEF RenderAnthropic
  <2>3. ev.kind \in Kinds
      BY <1>3 DEF Kinds
  <2>4. Opened("anthropic", first, Put("anthropic", st.seen, first), ev.kind)
      BY <2>1, <2>3, BlockReady
  <2>5. Going("anthropic", to) /\ to.rn.open = ev.kind
      BY <1>2, <2>2, <2>3, <2>4, BlockWritten
  <2>6. QED
      BY <1>3, <2>5 DEF Follows, Ends
<1>4. CASE ev.kind = "tool_start"
  <2>1. step = StartBlock(st.rn, "tool_use", ev.id)
      BY <1>1, <1>4 DEF RenderAnthropic
  <2>2. Opened("anthropic", step, to, "tool_use")
      BY <1>2, <2>1, BlockStarted DEF Kinds
  <2>3. QED
      BY <1>4, <2>2 DEF Follows, Ends, Opened
<1>5. CASE ev.kind = "tool_delta"
  <2>1. PICK first : first = Step(st.rn, <<>>)
      OBVIOUS
  <2>2. step = BlockDelta(first, "tool_use", ev.pieces)
      BY <1>1, <1>5, <2>1 DEF RenderAnthropic
  <2>3. PICK same : same = Put("anthropic", st.seen, first)
      OBVIOUS
  <2>4. first.out = <<>> /\ same.rn = st.rn /\ same.seen = st.seen
      BY <2>1, <2>3, ReadOne DEF Put, Step
  <2>5. Going("anthropic", same) /\ same.rn.open = "tool_use"
      BY <1>5, <2>4 DEF Going, Ready
  <2>6. Opened("anthropic", first, same, "tool_use")
      BY <2>4, <2>5, RowOfFew DEF Opened
  <2>7. Going("anthropic", to) /\ to.rn.open = "tool_use"
      BY <1>2, <2>2, <2>3, <2>6, BlockWritten DEF Kinds
  <2>8. QED
      BY <1>5, <2>7 DEF Follows, Ends
<1>6. CASE ev.kind = "finish"
  <2>1. PICK f : f = Closing("message_delta", StopTo("anthropic", ev.stop), ToWire("anthropic", ev.usage))
      OBVIOUS
  <2>2. step = EndMessage(st.rn, <<f>>) /\ f.type = "message_delta"
      BY <1>1, <1>6, <2>1, ClosingForm DEF RenderAnthropic, Wire
  <2>3. Over(to)
      BY <1>2, <2>2, MessageEnded
  <2>4. QED
      BY <1>6, <2>3 DEF Follows, Ends
<1>7. CASE ev.kind = "error"
  <2>1. PICK f : f = Frame("error")
      OBVIOUS
  <2>2. step = EndMessage(st.rn, <<f>>) /\ f.type = "error"
      BY <1>1, <1>7, <2>1, FrameForm DEF RenderAnthropic, Wire
  <2>3. Over(to)
      BY <1>2, <2>2, MessageEnded
  <2>4. QED
      BY <1>7, <2>3 DEF Follows, Ends
<1>8. ASSUME ev.kind \in {"ping", "start", "tool_end"}, to.rn = st.rn, to.seen = st.seen
      PROVE  Follows("anthropic", st, ev, to)
  <2>1. Going("anthropic", to)
      BY <1>8 DEF Going
  <2>2. QED
      BY <1>8, <2>1 DEF Follows, Ends
<1>9. CASE ev.kind = "ping"
  <2>1. PICK f : f = Frame("ping")
      OBVIOUS
  <2>2. Render("anthropic", st.rn, ev) = Step(st.rn, <<f>>)
      BY <1>9, <2>1 DEF Render, RenderAnthropic
  <2>3. f.type = "ping" /\ st.seen.ends = 0
      BY <2>1, FrameForm DEF Wire, Going, Running
  <2>4. to.rn = st.rn /\ to.seen = Read("anthropic", st.seen, f)
      BY <2>2, OneRelayed
  <2>5. to.seen = st.seen
      BY <2>3, <2>4 DEF Read, ReadAnthropic
  <2>6. QED
      BY <1>8, <1>9, <2>4, <2>5
<1>10. CASE ev.kind \in {"start", "tool_end"}
  <2>1. Render("anthropic", st.rn, ev) = Step(st.rn, <<>>)
      BY <1>10 DEF Render, RenderAnthropic
  <2>2. QED
      BY <1>8, <1>10, <2>1, NoneRelayed
<1>11. QED
    BY <1>3, <1>4, <1>5, <1>6, <1>7, <1>9, <1>10 DEF Ready, EventKinds
-----------------------------------------------------------------------------
\* A Responses client: the item that is open is sent whole ...
LEMMA ItemClosed ==
    ASSUME NEW st, Going("responses", st), NEW out, out = CloseItem(st.rn).out,
           NEW v, v = ReadAll("responses", st.seen, out)
    PROVE  Row(out) /\ Settled(st.rn.nextIndex, v) /\ v.started = st.seen.started
<1>1. PICK rn : rn = st.rn
    OBVIOUS
<1>2. PICK x : x = st.seen
    OBVIOUS
<1>3. /\ Running(x) /\ x.stop = "none" /\ x.ends = 0 /\ Listed(rn.nextIndex, rn.open, x)
      /\ rn.open # "none" => x.blocks[rn.nextIndex - 1].pieces = rn.text
    BY <1>1, <1>2 DEF Going, Running
<1>4. CASE rn.open = "none"
  <2>1. out = <<>>
      BY <1>1, <1>4 DEF CloseItem, Step
  <2>2. v = x
      BY <1>2, <2>1, ReadOne
  <2>3. QED
      BY <1>1, <1>2, <1>3, <1>4, <2>1, <2>2, RowOfFew DEF Settled
<1>5. CASE rn.open # "none"
  <2>1. PICK f : f = Part("response.output_item.done", rn.nextIndex - 1, rn.open, rn.id, rn.text)
      OBVIOUS
  <2>2. f.type = "response.output_item.done" /\ f.index = rn.nextIndex - 1 /\ f.pieces = rn.text
      BY <2>1, PartForm DEF Wire
  <2>3. out = <<f>>
      BY <1>1, <1>5, <2>1 DEF CloseItem, Step
  <2>4. v = Read("responses", x, f)
      BY <1>2, <2>3, ReadOne
  <2>5. v = Closed(x, f)
      BY <1>3, <2>2, <2>4 DEF Read, ReadResponses
  <2>6. rn.open \in Kinds /\ f.pieces \in {<<>>, x.blocks[rn.nextIndex - 1].pieces}
      BY <1>3, <1>5, <2>2 DEF Listed
  <2>7. SameEnd(x, v) /\ Running(v) /\ Listed(rn.nextIndex, "none", v)
      BY <1>3, <2>2, <2>5, <2>6, ClosedListed
  <2>8. QED
      BY <1>1, <1>2, <1>3, <2>3, <2>7, RowOfFew DEF Settled, SameEnd
<1>6. QED
    BY <1>4, <1>5

\* The renderer of a Responses client, field by field.
ItemRenderer(n, open, id, text) ==
    [finished |-> FALSE, nextIndex |-> n, open |-> open, id |-> id, text |-> text]

\* One field of it set.
LEMMA ItemFields ==
    ASSUME NEW n, NEW open, NEW id, NEW text, NEW rn, rn = ItemRenderer(n, open, id, text), NEW x, NEW m
    PROVE  /\ m = [rn EXCEPT !.text = x] => m = ItemRenderer(n, open, id, x)
           /\ m = [rn EXCEPT !.open = x] => m = ItemRenderer(n, x, id, text)
<1>1. ASSUME m = [rn EXCEPT !.text = x]
      PROVE  m = ItemRenderer(n, open, id, x)
    BY <1>1 DEF ItemRenderer
<1>2. ASSUME m = [rn EXCEPT !.open = x]
      PROVE  m = ItemRenderer(n, x, id, text)
    BY <1>2 DEF ItemRenderer
<1>3. QED
    BY <1>1, <1>2

\* A state with its fields is in the middle of a message.
LEMMA ItemsGoing ==
    ASSUME NEW n, NEW open, NEW id, NEW text, NEW st, st.rn = ItemRenderer(n, open, id, text),
           Running(st.seen), st.seen.stop = "none", Listed(n, open, st.seen),
           open # "none" => st.seen.blocks[n - 1].pieces = text
    PROVE  Going("responses", st) /\ st.rn.open = open
<1>1. st.rn.nextIndex = n /\ st.rn.open = open /\ st.rn.id = id /\ st.rn.text = text
    BY DEF ItemRenderer
<1>2. st.rn = [finished |-> FALSE, nextIndex |-> st.rn.nextIndex, open |-> st.rn.open,
               id |-> st.rn.id, text |-> st.rn.text]
    BY <1>1 DEF ItemRenderer
<1>3. QED
    BY <1>1, <1>2 DEF Going

\* ... an item is added ...
LEMMA ItemAdded ==
    ASSUME NEW st, Going("responses", st), NEW kind \in Kinds, NEW id,
           NEW step, step = AddItem(st.rn, kind, id), NEW to, to = Put("responses", st.seen, step)
    PROVE  Opened("responses", step, to, kind) /\ to.seen.started = st.seen.started
<1>1. PICK n : n = st.rn.nextIndex
    OBVIOUS
<1>2. PICK shut : shut = CloseItem(st.rn).out
    OBVIOUS
<1>3. PICK x : x = ReadAll("responses", st.seen, shut)
    OBVIOUS
<1>4. Row(shut) /\ Settled(n, x) /\ x.started = st.seen.started
    BY <1>1, <1>2, <1>3, ItemClosed
<1>5. PICK f : f = Part("response.output_item.added", n, kind, id, <<>>)
    OBVIOUS
<1>6. f.type = "response.output_item.added" /\ f.index = n /\ f.kind = kind /\ f.pieces = <<>>
    BY <1>5, PartForm DEF Wire
<1>7. PICK m : m = [st.rn EXCEPT !.nextIndex = @ + 1, !.open = kind, !.id = id, !.text = <<>>]
    OBVIOUS
<1>8. m = ItemRenderer(n + 1, kind, id, <<>>)
  <2>1. PICK o : o = st.rn.open
      OBVIOUS
  <2>2. PICK d : d = st.rn.id
      OBVIOUS
  <2>3. PICK t : t = st.rn.text
      OBVIOUS
  <2>4. st.rn = [finished |-> FALSE, nextIndex |-> n, open |-> o, id |-> d, text |-> t]
      BY <1>1, <2>1, <2>2, <2>3 DEF Going
  <2>5. PICK k : k = n + 1
      OBVIOUS
  <2>6. m = [[finished |-> FALSE, nextIndex |-> n, open |-> o, id |-> d, text |-> t]
                EXCEPT !.nextIndex = k, !.open = kind, !.id = id, !.text = <<>>]
      BY <1>1, <1>7, <2>4, <2>5
  <2>7. m = [finished |-> FALSE, nextIndex |-> k, open |-> kind, id |-> id, text |-> <<>>]
      BY <2>6
  <2>8. QED
      BY <2>5, <2>7 DEF ItemRenderer
<1>9. step.machine = m /\ step.out = shut \o <<f>>
    BY <1>1, <1>2, <1>5, <1>7 DEF AddItem, Step
<1>10. Row(<<f>>) /\ Row(shut \o <<f>>)
    BY <1>4, RowOfFew, RowsMade
<1>11. to.rn = m /\ to.seen = ReadAll("responses", st.seen, shut \o <<f>>)
    BY <1>9 DEF Put
<1>12. to.seen = Read("responses", x, f)
    BY <1>3, <1>4, <1>10, <1>11, RowsRead, ReadOne
<1>13. x.ends = 0 /\ Running(x) /\ Listed(n, "none", x) /\ x.stop = "none"
    BY <1>4 DEF Settled, Running
<1>14. to.seen = Begun(x, f)
    BY <1>6, <1>12, <1>13 DEF Read, ReadResponses
<1>15. SameEnd(x, to.seen) /\ Running(to.seen) /\ Listed(n + 1, kind, to.seen) /\ to.seen.blocks[n].pieces = <<>>
    BY <1>6, <1>13, <1>14, BegunListed
<1>16. Going("responses", to) /\ to.rn.open = kind
  <2>1. (n + 1) - 1 = n
      BY <1>13 DEF Listed
  <2>2. to.rn = ItemRenderer(n + 1, kind, id, <<>>) /\ to.seen.stop = "none"
      BY <1>8, <1>11, <1>13, <1>15 DEF SameEnd
  <2>3. QED
      BY <1>15, <2>1, <2>2, ItemsGoing
<1>17. QED
    BY <1>4, <1>9, <1>10, <1>15, <1>16 DEF Opened, SameEnd

\* ... if one of its kind is not open ...
LEMMA ItemReady ==
    ASSUME NEW st, Going("responses", st), NEW kind \in Kinds,
           NEW step, step = EnsureOpen(st.rn, kind), NEW to, to = Put("responses", st.seen, step)
    PROVE  Opened("responses", step, to, kind) /\ to.seen.started = st.seen.started
<1>1. CASE st.rn.open = kind
  <2>1. step.machine = st.rn /\ step.out = <<>>
      BY <1>1 DEF EnsureOpen, Step
  <2>2. to.rn = st.rn /\ to.seen = st.seen
      BY <2>1, ReadOne DEF Put
  <2>3. Going("responses", to)
      BY <2>2 DEF Going
  <2>4. QED
      BY <1>1, <2>1, <2>2, <2>3, RowOfFew DEF Opened
<1>2. CASE st.rn.open # kind
    BY <1>2, ItemAdded DEF EnsureOpen
<1>3. QED
    BY <1>1, <1>2

\* ... and written to ...
LEMMA ItemWritten ==
    ASSUME NEW v, NEW kind \in Kinds, NEW step, NEW st, st = Put("responses", v, step),
           Opened("responses", step, st, kind),
           NEW pieces, NEW next, next = ItemDelta(step, kind, pieces), NEW to, to = Put("responses", v, next)
    PROVE  Going("responses", to) /\ to.seen.started = st.seen.started
<1>1. PICK x : x = st.seen
    OBVIOUS
<1>2. PICK n : n = st.rn.nextIndex
    OBVIOUS
<1>3. /\ Row(step.out) /\ Going("responses", st) /\ st.rn.open = kind
      /\ st.rn = step.machine /\ x = ReadAll("responses", v, step.out)
    BY <1>1 DEF Opened, Put
<1>4. PICK t : t = st.rn.text
    OBVIOUS
<1>5. PICK d : d = st.rn.id
    OBVIOUS
<1>6. /\ Running(x) /\ x.stop = "none" /\ x.ends = 0 /\ Listed(n, kind, x)
      /\ x.blocks[n - 1].pieces = t /\ st.rn = ItemRenderer(n, kind, d, t)
    BY <1>1, <1>2, <1>3, <1>4, <1>5 DEF Going, Running, ItemRenderer, Kinds
<1>7. PICK f : f = Part("response.delta", n - 1, kind, 0, pieces)
    OBVIOUS
<1>8. f.type = "response.delta" /\ f.index = n - 1 /\ f.kind = kind /\ f.pieces = pieces
    BY <1>7, PartForm DEF Wire
<1>9. PICK more : more = t \o pieces
    OBVIOUS
<1>10. next.machine = [st.rn EXCEPT !.text = more] /\ next.out = Append(step.out, f)
    BY <1>2, <1>3, <1>4, <1>7, <1>9 DEF ItemDelta, Step
<1>11. to.rn = ItemRenderer(n, kind, d, more) /\ to.seen = ReadAll("responses", v, Append(step.out, f))
  <2>1. to.rn = next.machine /\ to.seen = ReadAll("responses", v, Append(step.out, f))
      BY <1>10 DEF Put
  <2>2. to.rn = [st.rn EXCEPT !.text = more]
      BY <1>10, <2>1
  <2>3. QED
      BY <1>6, <2>1, <2>2, ItemFields
<1>12. to.seen = Read("responses", x, f)
    BY <1>3, <1>11, RowAppended
<1>13. to.seen = Extended(x, n - 1, f)
    BY <1>6, <1>8, <1>12 DEF Read, ReadResponses
<1>14. Longer(n, kind, x, f, to.seen)
    BY <1>6, <1>8, <1>13, ExtendedListed
<1>15. to.seen.blocks[n - 1].pieces = more
    BY <1>6, <1>8, <1>9, <1>14 DEF Longer
<1>16. SameEnd(x, to.seen) /\ Running(to.seen) /\ Listed(n, kind, to.seen)
    BY <1>14 DEF Longer
<1>17. to.seen.stop = "none" /\ to.seen.started = st.seen.started
    BY <1>1, <1>6, <1>16 DEF SameEnd
<1>18. QED
    BY <1>11, <1>15, <1>16, <1>17, ItemsGoing

\* ... and the response ends.
LEMMA ResponseEnded ==
    ASSUME NEW st, Going("responses", st), NEW f,
           f.type \in {"response.completed", "response.incomplete", "response.failed"},
           NEW step, step = EndResponse(st.rn, f), NEW to, to = Put("responses", st.seen, step)
    PROVE  Over(to)
<1>1. PICK shut : shut = CloseItem(st.rn).out
    OBVIOUS
<1>2. PICK x : x = ReadAll("responses", st.seen, shut)
    OBVIOUS
<1>3. Row(shut) /\ Settled(st.rn.nextIndex, x)
    BY <1>1, <1>2, ItemClosed
<1>4. IsView(x) /\ x.bad = FALSE /\ x.ends = 0 /\ Open(x) = {}
    BY <1>3 DEF Settled, Running, Listed, Open
<1>5. to.rn = Terminated(CloseItem(st.rn).machine) /\ to.seen = ReadAll("responses", st.seen, Append(shut, f))
    BY <1>1 DEF Put, EndResponse, Step
<1>6. to.rn.finished = TRUE
    BY <1>5 DEF Terminated, CloseItem, Step, Going
<1>7. to.seen = Read("responses", x, f)
    BY <1>2, <1>3, <1>5, RowAppended
<1>8. to.seen.ends = 1 /\ to.seen.bad = FALSE
  <2>1. x.ends + 1 = 1 /\ (x.bad \/ Open(x) # {}) = FALSE
      BY <1>4
  <2>2. CASE f.type = "response.failed"
    <3>1. to.seen = [x EXCEPT !.error = TRUE, !.ends = 1]
        BY <1>4, <1>7, <2>1, <2>2 DEF Read, ReadResponses
    <3>2. to.seen.ends = 1
        BY <1>4, <3>1 DEF IsView
    <3>3. to.seen.bad = FALSE
        BY <1>4, <3>1 DEF IsView
    <3>4. QED
        BY <3>2, <3>3
  <2>3. CASE f.type # "response.failed"
    <3>1. to.seen = Ended(x, f)
        BY <1>4, <1>7, <2>3 DEF Read, ReadResponses
    <3>2. to.seen = [x EXCEPT !.stop = f.stop, !.usage = f.usage, !.ends = 1, !.bad = FALSE]
        BY <2>1, <3>1 DEF Ended
    <3>3. to.seen.ends = 1
        BY <1>4, <3>2 DEF IsView
    <3>4. to.seen.bad = FALSE
        BY <1>4, <3>2 DEF IsView
    <3>5. QED
        BY <3>3, <3>4
  <2>4. QED
      BY <2>2, <2>3
<1>9. QED
    BY <1>6, <1>8 DEF Over

\* An event for a client of Responses.
LEMMA ResponsesFollows ==
    ASSUME NEW st, Going("responses", st), NEW ev, Ready("responses", st, ev),
           NEW to, to = Relayed("responses", st, ev)
    PROVE  Follows("responses", st, ev, to)
<1>1. PICK step : step = RenderResponses(st.rn, ev)
    OBVIOUS
<1>2. to = Put("responses", st.seen, step)
    BY <1>1 DEF Relayed, Render, Put
<1>3. st.rn.finished = FALSE
    BY DEF Going
<1>4. ASSUME Going("responses", to), to.seen.started = st.seen.started, ev.kind \notin {"finish", "error"}
      PROVE  Follows("responses", st, ev, to)
    BY <1>4 DEF Follows, Ends
<1>5. ASSUME NEW kind \in Kinds, step = ItemDelta(EnsureOpen(st.rn, kind), kind, ev.pieces)
      PROVE  Going("responses", to) /\ to.seen.started = st.seen.started
  <2>1. PICK first : first = EnsureOpen(st.rn, kind)
      OBVIOUS
  <2>2. PICK mid : mid = Put("responses", st.seen, first)
      OBVIOUS
  <2>3. Opened("responses", first, mid, kind) /\ mid.seen.started = st.seen.started
      BY <2>1, <2>2, ItemReady
  <2>4. Going("responses", to) /\ to.seen.started = mid.seen.started
      BY <1>2, <1>5, <2>1, <2>2, <2>3, ItemWritten
  <2>5. QED
      BY <2>3, <2>4
<1>6. CASE ev.kind \in {"text", "thinking"}
  <2>1. step = ItemDelta(EnsureOpen(st.rn, ev.kind), ev.kind, ev.pieces) /\ ev.kind \in Kinds
      BY <1>1, <1>3, <1>6 DEF RenderResponses, Kinds
  <2>2. QED
      BY <1>4, <1>5, <1>6, <2>1
<1>7. CASE ev.kind = "tool_delta"
  <2>1. step = ItemDelta(EnsureOpen(st.rn, "tool_use"), "tool_use", ev.pieces) /\ "tool_use" \in Kinds
      BY <1>1, <1>3, <1>7 DEF RenderResponses, Kinds
  <2>2. QED
      BY <1>4, <1>5, <1>7, <2>1
<1>8. CASE ev.kind = "tool_start"
  <2>1. step = AddItem(st.rn, "tool_use", ev.id) /\ "tool_use" \in Kinds
      BY <1>1, <1>3, <1>8 DEF RenderResponses, Kinds
  <2>2. Opened("responses", step, to, "tool_use") /\ to.seen.started = st.seen.started
      BY <1>2, <2>1, ItemAdded
  <2>3. QED
      BY <1>4, <1>8, <2>2 DEF Opened
<1>9. CASE ev.kind = "finish"
  <2>1. PICK f : f = Closing(IF ev.stop = "max_tokens" THEN "response.incomplete" ELSE "response.completed",
                             StopTo("responses", ev.stop), ToWire("responses", ev.usage))
      OBVIOUS
  <2>2. step = EndResponse(st.rn, f)
      BY <1>1, <1>3, <1>9, <2>1 DEF RenderResponses
  <2>3. f.type \in {"response.completed", "response.incomplete"}
      BY <2>1, ClosingForm DEF Wire
  <2>4. Over(to)
      BY <1>2, <2>2, <2>3, ResponseEnded
  <2>5. QED
      BY <1>9, <2>4 DEF Follows, Ends
<1>10. CASE ev.kind = "error"
  <2>1. PICK f : f = Frame("response.failed")
      OBVIOUS
  <2>2. step = EndResponse(st.rn, f)
      BY <1>1, <1>3, <1>10, <2>1 DEF RenderResponses
  <2>3. f.type = "response.failed"
      BY <2>1, FrameForm DEF Wire
  <2>4. Over(to)
      BY <1>2, <2>2, <2>3, ResponseEnded
  <2>5. QED
      BY <1>10, <2>4 DEF Follows, Ends
<1>11. CASE ev.kind = "start"
  <2>1. PICK f : f = Frame("response.created")
      OBVIOUS
  <2>2. Render("responses", st.rn, ev) = Step(st.rn, <<f>>)
      BY <1>3, <1>11, <2>1 DEF Render, RenderResponses
  <2>3. f.type = "response.created"
      BY <2>1, FrameForm DEF Wire
  <2>4. PICK x : x = st.seen
      OBVIOUS
  <2>5. Running(x) /\ IsView(x) /\ x.ends = 0 /\ ~x.started /\ x.bad = FALSE /\ x.stop = "none"
      BY <1>11, <2>4 DEF Ready, Going, Running
  <2>6. to.rn = st.rn /\ to.seen = Read("responses", x, f)
      BY <2>2, <2>4, OneRelayed
  <2>7. to.seen = [x EXCEPT !.started = TRUE, !.bad = FALSE]
    <3>1. to.seen = [x EXCEPT !.started = TRUE, !.bad = @ \/ x.started]
        BY <2>3, <2>5, <2>6 DEF Read, ReadResponses
    <3>2. (x.bad \/ x.started) = FALSE
        BY <2>5
    <3>3. QED
        BY <3>1, <3>2
  <2>8. IsView(to.seen) /\ to.seen.blocks = x.blocks /\ to.seen.ends = 0 /\ to.seen.stop = "none"
      BY <2>5, <2>7 DEF IsView
  <2>9. to.seen.bad = FALSE
      BY <2>5, <2>7 DEF IsView
  <2>10. Running(to.seen)
      BY <2>5, <2>8, <2>9 DEF Running, BlocksOK
  <2>11. Going("responses", to)
      BY <2>4, <2>6, <2>8, <2>10 DEF Going, Listed
  <2>12. QED
      BY <1>11, <2>11 DEF Follows, Ends
<1>12. CASE ev.kind = "tool_end" /\ st.rn.open = "tool_use"
  <2>1. PICK out : out = CloseItem(st.rn).out
      OBVIOUS
  <2>2. step.machine = [st.rn EXCEPT !.open = "none"] /\ step.out = out
      BY <1>1, <1>3, <1>12, <2>1 DEF RenderResponses, CloseItem, Step
  <2>3. to.rn = [st.rn EXCEPT !.open = "none"] /\ to.seen = ReadAll("responses", st.seen, out)
      BY <1>2, <2>2 DEF Put
  <2>4. Settled(st.rn.nextIndex, to.seen) /\ to.seen.started = st.seen.started
      BY <2>1, <2>3, ItemClosed
  <2>5. to.rn = ItemRenderer(st.rn.nextIndex, "none", st.rn.id, st.rn.text)
    <3>1. PICK n : n = st.rn.nextIndex
        OBVIOUS
    <3>2. PICK d : d = st.rn.id
        OBVIOUS
    <3>3. PICK t : t = st.rn.text
        OBVIOUS
    <3>4. st.rn = ItemRenderer(n, "tool_use", d, t)
        BY <1>12, <3>1, <3>2, <3>3 DEF ItemRenderer, Going
    <3>5. QED
        BY <2>3, <3>1, <3>2, <3>3, <3>4, ItemFields
  <2>6. Going("responses", to)
      BY <2>4, <2>5, ItemsGoing DEF Settled
  <2>7. QED
      BY <1>4, <1>12, <2>4, <2>6
<1>13. CASE ev.kind = "ping" \/ (ev.kind = "tool_end" /\ st.rn.open # "tool_use")
  <2>1. Render("responses", st.rn, ev) = Step(st.rn, <<>>)
      BY <1>3, <1>13 DEF Render, RenderResponses
  <2>2. to.rn = st.rn /\ to.seen = st.seen
      BY <2>1, NoneRelayed
  <2>3. Going("responses", to)
      BY <2>2 DEF Going
  <2>4. QED
      BY <1>4, <1>13, <2>2, <2>3
<1>14. QED
    BY <1>6, <1>7, <1>8, <1>9, <1>10, <1>11, <1>12, <1>13 DEF Ready, EventKinds
-----------------------------------------------------------------------------
\* An event for a client of any protocol ...
LEMMA EventFollows ==
    ASSUME NEW p \in Protocols, NEW st, Going(p, st), NEW ev, Ready(p, st, ev), NEW to, to = Relayed(p, st, ev)
    PROVE  Follows(p, st, ev, to)
BY OpenAIFollows, AnthropicFollows, ResponsesFollows DEF Protocols

\* ... is ignored once a response has ended.
LEMMA LateEvent ==
    ASSUME NEW st, Over(st), NEW ev, NEW to, to = Relayed("responses", st, ev)
    PROVE  Over(to)
<1>1. Render("responses", st.rn, ev) = Step(st.rn, <<>>)
    BY DEF Over, Render, RenderResponses
<1>2. to.rn = st.rn /\ to.seen = st.seen
    BY <1>1, NoneRelayed
<1>3. QED
    BY <1>2 DEF Over

\* When the stream is over, what has not ended yet ends.
LEMMA StreamDone ==
    ASSUME NEW p \in Protocols, NEW st, Going(p, st) \/ Over(st), NEW w, w = ReadAll(p, st.seen, Done(p, st.rn).out)
    PROVE  w.bad = FALSE /\ w.ends = 1
<1>1. CASE Over(st)
  <2>1. Done(p, st.rn).out = <<>>
      BY <1>1 DEF Over, Done, DoneOpenAI, DoneAnthropic, DoneResponses, Step, Protocols
  <2>2. w = st.seen
      BY <2>1, ReadOne
  <2>3. QED
      BY <1>1, <2>2 DEF Over
<1>2. CASE Going(p, st) /\ p = "openai"
  <2>1. PICK f : f = Frame("[DONE]")
      OBVIOUS
  <2>2. st.rn.finished = FALSE /\ IsView(st.seen) /\ st.seen.bad = FALSE /\ st.seen.ends = 0
      BY <1>2 DEF Going, Running
  <2>3. Done(p, st.rn).out = <<f>> /\ f.type = "[DONE]"
      BY <1>2, <2>1, <2>2, FrameForm DEF Done, DoneOpenAI, Step, Wire
  <2>4. w = Read(p, st.seen, f)
      BY <2>3, ReadOne
  <2>5. w = [st.seen EXCEPT !.ends = @ + 1]
      BY <1>2, <2>2, <2>3, <2>4 DEF Read, ReadOpenAI
  <2>6. w.ends = 1
      BY <2>2, <2>5 DEF IsView
  <2>7. w.bad = FALSE
      BY <2>2, <2>5 DEF IsView
  <2>8. QED
      BY <2>6, <2>7
<1>3. CASE Going(p, st) /\ p = "anthropic"
  <2>1. PICK step : step = EndMessage(st.rn, <<>>)
      OBVIOUS
  <2>2. st.rn.finished = FALSE
      BY <1>3 DEF Going
  <2>3. Done(p, st.rn) = step
      BY <1>3, <2>1, <2>2 DEF Done, DoneAnthropic
  <2>4. PICK to : to = Put("anthropic", st.seen, step)
      OBVIOUS
  <2>5. Over(to)
      BY <1>3, <2>1, <2>4, MessageEnded
  <2>6. QED
      BY <1>3, <2>3, <2>4, <2>5 DEF Put, Over
<1>4. CASE Going(p, st) /\ p = "responses"
  <2>1. PICK f : f = Closing("response.completed", "completed", NoUsage)
      OBVIOUS
  <2>2. PICK step : step = EndResponse(st.rn, f)
      OBVIOUS
  <2>3. st.rn.finished = FALSE /\ f.type = "response.completed"
      BY <1>4, <2>1, ClosingForm DEF Going, Wire
  <2>4. Done(p, st.rn) = step
      BY <1>4, <2>1, <2>2, <2>3 DEF Done, DoneResponses
  <2>5. PICK to : to = Put("responses", st.seen, step)
      OBVIOUS
  <2>6. Over(to)
      BY <1>4, <2>2, <2>3, <2>5, ResponseEnded
  <2>7. QED
      BY <1>4, <2>4, <2>5, <2>6 DEF Put, Over
<1>5. QED
    BY <1>1, <1>2, <1>3, <1>4 DEF Protocols

\* Fragments of a call leave a message going, and for Anthropic its block open.
Carried(p, st, to) ==
    /\ Going(p, to)
    /\ p = "anthropic" => to.rn.open = "tool_use"
    /\ p = "responses" => to.seen.started = st.seen.started

\* A call begins, and perhaps its arguments; or they go on.
LEMMA CallCarried ==
    ASSUME NEW p \in Protocols, NEW rn, NEW s, NEW st, st = [rn |-> rn, seen |-> s], Going(p, st),
           NEW e1, e1.kind = "tool_start", NEW e2, e2.kind = "tool_delta",
           p = "openai" => e1.tool \in Nat /\ e2.tool \in Nat,
           NEW out, \/ out \in {<<e1>>, <<e1, e2>>}
                    \/ out \in {<<>>, <<e2>>} /\ (p = "anthropic" => st.rn.open = "tool_use"),
           NEW to, to = Shown(p, st, out)
    PROVE  Carried(p, st, to)
<1>1. ASSUME NEW x, Going(p, x), NEW ev \in {e1, e2},
             p = "anthropic" => ev = e1 \/ x.rn.open = "tool_use",
             NEW y, y = Relayed(p, x, ev)
      PROVE  Carried(p, x, y)
  <2>1. ev.kind \in {"tool_start", "tool_delta"} /\ (p = "openai" => ev.tool \in Nat)
      BY <1>1
  <2>2. p = "anthropic" /\ ev.kind = "tool_delta" => x.rn.open = "tool_use"
      BY <1>1
  <2>3. Ready(p, x, ev)
      BY <2>1, <2>2 DEF Ready, EventKinds
  <2>4. Follows(p, x, ev, y)
      BY <1>1, <2>3, EventFollows
  <2>5. QED
      BY <2>1, <2>4 DEF Follows, Carried, Ends
<1>7. ShownInTurn(p, st, e1, e2)
    BY ShownFew
<1>2. CASE out = <<>> /\ (p = "anthropic" => st.rn.open = "tool_use")
  <2>1. to = st
      BY <1>2, <1>7 DEF ShownInTurn
  <2>2. QED
      BY <1>2, <2>1 DEF Carried
<1>3. CASE out = <<e1>>
  <2>1. to = Relayed(p, st, e1)
      BY <1>3, <1>7 DEF ShownInTurn
  <2>2. QED
      BY <1>1, <2>1
<1>4. CASE out = <<e2>> /\ (p = "anthropic" => st.rn.open = "tool_use")
  <2>1. to = Relayed(p, st, e2)
    <3>1. ShownInTurn(p, st, e2, e1)
        BY ShownFew
    <3>2. QED
        BY <1>4, <3>1 DEF ShownInTurn
  <2>2. QED
      BY <1>1, <1>4, <2>1
<1>5. CASE out = <<e1, e2>>
  <2>1. PICK mid : mid = Relayed(p, st, e1)
      OBVIOUS
  <2>2. to = Relayed(p, mid, e2)
      BY <1>5, <1>7, <2>1 DEF ShownInTurn
  <2>3. Carried(p, st, mid)
      BY <1>1, <2>1
  <2>4. Going(p, mid) /\ (p = "anthropic" => mid.rn.open = "tool_use")
      BY <2>3 DEF Carried
  <2>5. Carried(p, mid, to)
      BY <1>1, <2>2, <2>4
  <2>6. QED
      BY <2>3, <2>5 DEF Carried
<1>6. QED
    BY <1>2, <1>3, <1>4, <1>5

\* One event is shown.
LEMMA OneShown ==
    ASSUME NEW p \in Protocols, NEW rn, NEW s, NEW st, st = [rn |-> rn, seen |-> s], Going(p, st),
           NEW ev, Ready(p, st, ev), NEW to, to = Shown(p, st, <<ev>>)
    PROVE  Follows(p, st, ev, to)
<1>1. to = Relayed(p, st, ev)
  <2>1. ShownInTurn(p, st, ev, ev)
      BY ShownFew
  <2>2. QED
      BY <2>1 DEF ShownInTurn
<1>2. QED
    BY <1>1, EventFollows
-----------------------------------------------------------------------------
(***************************************************************************)
(* The readers: the events of a line are such that the renderer is ready   *)
(* for them, whatever the upstream has said so far.                        *)
(***************************************************************************)
\* What the reader of an OpenAI upstream makes of a chunk.
ChunkFed(rd, f, step) ==
    /\ step.machine.started = TRUE
    /\ DOMAIN step.machine.chunkIdx = DOMAIN rd.chunkIdx \cup IF f.kind = "tool_use" THEN {f.index} ELSE {}
    /\ ~rd.started /\ f.kind = "none" => step.out = <<Event("start", 0, 0, <<>>)>>
    /\ rd.started /\ f.kind = "none" => step.out = <<>>
    /\ rd.started /\ f.kind \in {"text", "thinking"} => step.out \in {<<>>, <<Event(f.kind, 0, 0, f.pieces)>>}
    /\ rd.started /\ f.kind = "tool_use" =>
          \E e1, e2 : /\ e1.kind = "tool_start" /\ e2.kind = "tool_delta"
                      /\ step.out \in IF f.index \in DOMAIN rd.chunkIdx THEN {<<>>, <<e2>>}
                                      ELSE {<<e1>>, <<e1, e2>>}

\* Few events after few.
LEMMA FewAfterFew ==
    /\ <<>> \o <<>> = <<>>
    /\ \A a : <<>> \o <<a>> = <<a>> /\ <<a>> \o <<>> = <<a>>
    /\ \A a, b : <<>> \o <<a, b>> = <<a, b>> /\ <<a>> \o <<b>> = <<a, b>>
<1>1. ASSUME NEW a, NEW b
      PROVE  /\ <<>> \o <<>> = <<>>
             /\ <<>> \o <<a>> = <<a>> /\ <<a>> \o <<>> = <<a>>
             /\ <<>> \o <<a, b>> = <<a, b>> /\ <<a>> \o <<b>> = <<a, b>>
  <2> DEFINE S == {a, b}
  <2>1. <<>> \in Seq(S) /\ <<a>> \in Seq(S) /\ <<a, b>> \in Seq(S)
      OBVIOUS
  <2>2. \A s \in Seq(S) : <<>> \o s = s /\ s \o <<>> = s
      OBVIOUS
  <2>3. <<a>> \o <<b>> = <<a, b>>
    <3>1. PICK s : s = <<a>>
        OBVIOUS
    <3>2. s \in Seq(S) /\ Len(s) = 1 /\ s[1] = a
        BY <3>1
    <3>3. PICK t : t = s \o <<b>>
        OBVIOUS
    <3>9. PICK r : r = <<b>>
        OBVIOUS
    <3>10. r \in Seq(S) /\ Len(r) = 1 /\ r[1] = b
        BY <3>9
    <3>4. t \in Seq(S) /\ Len(t) = 2 /\ t[1] = a /\ t[2] = b
      <4> HIDE DEF S
      <4>1. t = s \o r /\ s \in Seq(S) /\ r \in Seq(S)
          BY <3>2, <3>3, <3>9, <3>10
      <4>2. /\ t \in Seq(S) /\ Len(t) = Len(s) + Len(r)
            /\ \A k \in 1..Len(s) : t[k] = s[k]
            /\ \A k \in 1..Len(r) : t[Len(s) + k] = r[k]
          BY <4>1
      <4>3. Len(t) = 2 /\ 1 \in 1..Len(s) /\ 1 \in 1..Len(r) /\ Len(s) + 1 = 2
          BY <3>2, <3>10, <4>2
      <4>4. t[1] = s[1] /\ t[2] = r[1]
          BY <4>2, <4>3
      <4>5. QED
          BY <3>2, <3>10, <4>2, <4>3, <4>4
    <3>5. PICK u : u = <<a, b>>
        OBVIOUS
    <3>6. u \in Seq(S) /\ Len(u) = 2 /\ u[1] = a /\ u[2] = b
        BY <3>5
    <3>7. t = u
      <4>1. \A i \in 1..2 : t[i] = u[i]
          BY <3>4, <3>6
      <4>2. t = [i \in 1..2 |-> t[i]] /\ u = [i \in 1..2 |-> u[i]]
          BY <3>4, <3>6
      <4> HIDE DEF S
      <4>3. QED
          BY <4>1, <4>2
    <3>8. QED
        BY <3>1, <3>3, <3>5, <3>7
  <2> HIDE DEF S
  <2>4. QED
      BY <2>1, <2>2, <2>3
<1>2. QED
    BY <1>1

\* A chunk starts the message, carries a delta, or none.
LEMMA ChunkIsFed ==
    ASSUME NEW rd, NEW f, FrameKind(f), f.type = "chunk", NEW step, step = FeedOpenAI(rd, f)
    PROVE  ChunkFed(rd, f, step)
<1>1. PICK fresh : fresh = (f.kind = "tool_use" /\ f.index \notin DOMAIN rd.chunkIdx)
    OBVIOUS
<1>2. PICK n : n = Len(SetToSeq(DOMAIN rd.chunkIdx))
    OBVIOUS
<1>3. PICK tools : tools = IF fresh THEN With(rd.chunkIdx, f.index, n) ELSE rd.chunkIdx
    OBVIOUS
<1>4. PICK opened : opened = IF rd.started THEN <<>> ELSE <<Event("start", 0, 0, <<>>)>>
    OBVIOUS
<1>5. PICK called : called = IF fresh THEN <<Event("tool_start", n, f.id, <<>>)>> ELSE <<>>
    OBVIOUS
<1>6. PICK delta : delta = CASE f.kind = "none" -> <<>>
                             [] f.kind = "tool_use" -> called \o NonEmpty("tool_delta", tools[f.index], f.pieces)
                             [] OTHER -> NonEmpty(f.kind, 0, f.pieces)
    OBVIOUS
<1>7. PICK out : out = opened \o delta
    OBVIOUS
<1>8. \E x, y : step = Step([started |-> TRUE, chunkIdx |-> tools, finish |-> x, usage |-> y], out)
    BY <1>1, <1>2, <1>3, <1>4, <1>5, <1>6, <1>7 DEF FeedOpenAI
<1>9. step.machine.started = TRUE /\ step.machine.chunkIdx = tools /\ step.out = out
    BY <1>8 DEF Step
<1>10. DOMAIN tools = DOMAIN rd.chunkIdx \cup IF f.kind = "tool_use" THEN {f.index} ELSE {}
    BY <1>1, <1>3 DEF With
<1>11. ASSUME f.kind = "none"
       PROVE  out = opened
    BY <1>4, <1>6, <1>7, <1>11
<1>12. ASSUME rd.started
       PROVE  out = <<>> \o delta
    BY <1>4, <1>7, <1>12
<1>13. ASSUME rd.started, f.kind \in {"text", "thinking"}
       PROVE  out \in {<<>>, <<Event(f.kind, 0, 0, f.pieces)>>}
  <2>1. delta \in {<<>>, <<Event(f.kind, 0, 0, f.pieces)>>}
      BY <1>6, <1>13 DEF NonEmpty
  <2>2. QED
      BY <1>12, <1>13, <2>1, FewAfterFew
<1>14. ASSUME rd.started, f.kind = "tool_use"
       PROVE  \E e1, e2 : /\ e1.kind = "tool_start" /\ e2.kind = "tool_delta"
                          /\ out \in IF f.index \in DOMAIN rd.chunkIdx THEN {<<>>, <<e2>>} ELSE {<<e1>>, <<e1, e2>>}
  <2>1. PICK e1 : e1 = Event("tool_start", n, f.id, <<>>)
      OBVIOUS
  <2>2. PICK e2 : e2 = Event("tool_delta", tools[f.index], 0, f.pieces)
      OBVIOUS
  <2>3. e1.kind = "tool_start" /\ e2.kind = "tool_delta"
      BY <2>1, <2>2 DEF Event
  <2>4. called = IF f.index \in DOMAIN rd.chunkIdx THEN <<>> ELSE <<e1>>
      BY <1>1, <1>5, <1>14, <2>1
  <2>5. PICK more : more = NonEmpty("tool_delta", tools[f.index], f.pieces)
      OBVIOUS
  <2>6. more \in {<<>>, <<e2>>}
      BY <2>2, <2>5 DEF NonEmpty
  <2>7. delta = called \o more
      BY <1>6, <1>14, <2>5
  <2>8. delta \in IF f.index \in DOMAIN rd.chunkIdx THEN {<<>>, <<e2>>} ELSE {<<e1>>, <<e1, e2>>}
      BY <2>4, <2>6, <2>7, FewAfterFew
  <2>9. out = delta
      BY <1>12, <1>14, <2>8, FewAfterFew
  <2>10. QED
      BY <2>3, <2>8, <2>9
<1>15. QED
    BY <1>4, <1>9, <1>10, <1>11, <1>13, <1>14 DEF ChunkFed
-----------------------------------------------------------------------------
\* The block written to last is a call.
AtCall(v) == v.at \in DOMAIN v.blocks /\ v.blocks[v.at].kind = "tool_use"

\* An OpenAI upstream has said v, of which the relay has made st.
FromOpenAIUp(p, v, rd, st) ==
    /\ ChatView(v) /\ IsFiniteSet(DOMAIN v.blocks)
    /\ DOMAIN rd.chunkIdx \subseteq DOMAIN v.blocks
    /\ rd.started <=> v.started
    /\ v.error => p = "responses" /\ Over(st)
    /\ ~v.error => /\ Going(p, st)
                   /\ p = "responses" /\ st.seen.started => v.started
                   /\ p = "anthropic" /\ AtCall(v) => st.rn.open = "tool_use"

\* The chunks of an OpenAI upstream.
LEMMA OpenAIChunks ==
    ASSUME NEW v, ChatView(v), IsFiniteSet(DOMAIN v.blocks), NEW f, FrameKind(f), OpenAISends(v, f)
    PROVE  /\ ~v.error
           /\ \/ f.type = "chunk" /\ f.kind = "none"
              \/ v.started /\ ChatPart(f)
              \/ f.type = "error"
              \/ f.type = "[DONE]"
<1>1. ~v.error
    BY DEF OpenAISends
<1>2. CASE f \in {Frame("chunk"), Frame("error"), Frame("[DONE]")}
    BY <1>1, <1>2, FrameForm DEF Wire
<1>3. ASSUME NEW stop, NEW cost, f = Closing("chunk", stop, cost)
      PROVE  f.type = "chunk" /\ f.kind = "none"
    BY <1>3, ClosingForm DEF Wire
<1>4. ASSUME v.started, NEW kind \in {"text", "thinking"}, NEW ps, f = Part("chunk", 0, kind, 0, ps)
      PROVE  ChatPart(f)
  <2>1. f = Wire("chunk", 0, kind, 0, ps, "none", NoUsage)
      BY <1>4, PartForm
  <2>2. QED
      BY <2>1 DEF ChatPart, Wire, Kinds
<1>5. ASSUME v.started, NEW n \in Nat, NEW id, NEW ps, f = Part("chunk", n, "tool_use", id, ps)
      PROVE  ChatPart(f)
  <2>1. f = Wire("chunk", n, "tool_use", id, ps, "none", NoUsage)
      BY <1>5, PartForm
  <2>2. QED
      BY <2>1 DEF ChatPart, Wire, Kinds
<1>6. Cardinality(Calls(v)) \in Nat
  <2>1. Calls(v) \subseteq DOMAIN v.blocks
      BY DEF Calls
  <2>2. QED
      BY <2>1, FS_Subset, FS_CardinalityType
<1>7. \A key \in Calls(v) : key \in Nat
    BY DEF Calls, ChatView
<1>8. \/ f \in {Frame("chunk"), Frame("error"), Frame("[DONE]")}
      \/ \E stop, cost : f = Closing("chunk", stop, cost)
      \/ v.started /\ \E kind \in {"text", "thinking"} : \E ps : f = Part("chunk", 0, kind, 0, ps)
      \/ v.started /\ \E n \in Nat : \E id, ps : f = Part("chunk", n, "tool_use", id, ps)
    BY <1>6, <1>7 DEF OpenAISends
<1>9. QED
    BY <1>1, <1>2, <1>3, <1>4, <1>5, <1>8

\* A line of an OpenAI upstream is conveyed to a client of another protocol.
LEMMA OpenAIConveyed ==
    ASSUME NEW p \in {"anthropic", "responses"}, NEW v, IsView(v), BlocksOK(v), v.ends = 0,
           NEW f, FrameKind(f), OpenAISends(v, f), NEW w, w = Read("openai", v, f),
           ~(p = "anthropic" /\ (w.crossed \/ w.error)),
           NEW rd, NEW rn, NEW s, NEW st, st = [rn |-> rn, seen |-> s], FromOpenAIUp(p, v, rd, st),
           NEW step, step = IF f.type = "[DONE]" THEN Step(rd, <<>>) ELSE FeedOpenAI(rd, f),
           NEW to, to = Shown(p, st, step.out)
    PROVE  FromOpenAIUp(p, w, step.machine, to)
<1>1. /\ ChatView(v) /\ IsFiniteSet(DOMAIN v.blocks) /\ DOMAIN rd.chunkIdx \subseteq DOMAIN v.blocks
      /\ rd.started <=> v.started
    BY DEF FromOpenAIUp
<1>2. /\ ~v.error
      /\ \/ f.type = "chunk" /\ f.kind = "none"
         \/ v.started /\ ChatPart(f)
         \/ f.type = "error"
         \/ f.type = "[DONE]"
    BY <1>1, OpenAIChunks
<1>3. /\ Going(p, st)
      /\ p = "responses" /\ st.seen.started => v.started
      /\ p = "anthropic" /\ AtCall(v) => st.rn.open = "tool_use"
    BY <1>2 DEF FromOpenAIUp
<1>4. w = ReadOpenAI(v, f) /\ p \in Protocols
    BY DEF Read, Protocols
<1>5. \A e : ShownInTurn(p, st, e, e)
    BY <1>4, ShownFew
<1>6. CASE f.type = "[DONE]"
  <2>1. w = [v EXCEPT !.ends = @ + 1]
      BY <1>4, <1>6 DEF ReadOpenAI
  <2>2. w.blocks = v.blocks /\ w.at = v.at /\ w.started = v.started /\ w.error = v.error
      BY <2>1 DEF IsView
  <2>3. step.machine = rd /\ step.out = <<>>
      BY <1>6 DEF Step
  <2>4. to = st
      BY <1>5, <2>3 DEF ShownInTurn
  <2>5. QED
      BY <1>1, <1>2, <1>3, <2>2, <2>3, <2>4 DEF FromOpenAIUp, ChatView, AtCall
<1>7. CASE f.type = "error"
  <2>1. PICK ev : ev = Event("error", 0, 0, <<>>)
      OBVIOUS
  <2>2. ev.kind = "error"
      BY <2>1 DEF Event
  <2>3. step = Step(rd, <<ev>>)
      BY <1>7, <2>1 DEF FeedOpenAI
  <2>4. step.machine = rd /\ step.out = <<ev>>
      BY <2>3 DEF Step
  <2>5. w = [v EXCEPT !.error = TRUE]
      BY <1>4, <1>7 DEF ReadOpenAI
  <2>6. w.blocks = v.blocks /\ w.started = v.started
      BY <2>5 DEF IsView
  <2>7. w.error
      BY <2>5 DEF IsView
  <2>8. p = "responses"
      BY <2>7
  <2>9. Ready(p, st, ev)
      BY <2>2, <2>8 DEF Ready, EventKinds
  <2>10. Follows(p, st, ev, to)
      BY <1>3, <1>4, <2>4, <2>9, OneShown
  <2>11. Over(to)
      BY <2>2, <2>8, <2>10 DEF Follows, Ends
  <2>12. QED
      BY <1>1, <2>4, <2>6, <2>7, <2>8, <2>11 DEF FromOpenAIUp, ChatView
<1>8. CASE f.type = "chunk" /\ f.kind = "none"
  <2>1. PICK stop, cost, bad : Charted(v, stop, cost, bad, w)
      BY <1>4, <1>8, PlainChunk
  <2>2. w.blocks = v.blocks /\ w.at = v.at /\ w.started = TRUE /\ w.error = v.error
      BY <2>1 DEF Charted
  <2>3. ChunkFed(rd, f, step)
      BY <1>8, ChunkIsFed
  <2>4. step.machine.started = TRUE /\ DOMAIN step.machine.chunkIdx = DOMAIN rd.chunkIdx
      BY <1>8, <2>3 DEF ChunkFed
  <2>5. /\ Going(p, to)
        /\ p = "anthropic" => to.rn.open = st.rn.open
    <3>1. CASE rd.started
      <4>1. step.out = <<>>
          BY <1>8, <2>3, <3>1 DEF ChunkFed
      <4>2. to = st
          BY <1>5, <4>1 DEF ShownInTurn
      <4>3. QED
          BY <1>3, <4>2
    <3>2. CASE ~rd.started
      <4>1. PICK ev : ev = Event("start", 0, 0, <<>>)
          OBVIOUS
      <4>2. step.out = <<ev>> /\ ev.kind = "start"
          BY <1>8, <2>3, <3>2, <4>1 DEF ChunkFed, Event
      <4>3. Ready(p, st, ev)
          BY <1>1, <1>3, <3>2, <4>2 DEF Ready, EventKinds
      <4>4. Follows(p, st, ev, to)
          BY <1>3, <1>4, <4>2, <4>3, OneShown
      <4>5. QED
          BY <4>2, <4>4 DEF Follows, Ends
    <3>3. QED
        BY <3>1, <3>2
  <2>6. QED
      BY <1>1, <1>2, <1>3, <2>2, <2>4, <2>5 DEF FromOpenAIUp, ChatView, AtCall
<1>9. CASE v.started /\ ChatPart(f)
  <2>1. ChatGrown(v, f, w)
      BY <1>1, <1>4, <1>9, ChatRead
  <2>2. f.type = "chunk" /\ f.kind \in Kinds /\ f.kind # "none"
      BY <1>9 DEF ChatPart, Kinds
  <2>3. ChunkFed(rd, f, step)
      BY <2>2, ChunkIsFed
  <2>4. /\ ChatView(w) /\ DOMAIN w.blocks = DOMAIN v.blocks \cup {ChatKey(f)} /\ w.started = TRUE /\ w.error = v.error
        /\ w.at = ChatKey(f) /\ w.blocks[ChatKey(f)].kind = f.kind
      BY <2>1 DEF ChatGrown
  <2>5. IsFiniteSet(DOMAIN w.blocks)
      BY <1>1, <2>4, FS_AddElement
  <2>6. step.machine.started = TRUE /\ DOMAIN step.machine.chunkIdx \subseteq DOMAIN w.blocks
    <3>1. f.kind = "tool_use" => ChatKey(f) = f.index
        BY DEF ChatKey
    <3>2. QED
        BY <1>1, <2>3, <2>4, <3>1 DEF ChunkFed
  <2>7. /\ Going(p, to)
        /\ p = "anthropic" /\ AtCall(w) => to.rn.open = "tool_use"
    <3>1. CASE f.kind \in {"text", "thinking"}
      <4>1. PICK ev : ev = Event(f.kind, 0, 0, f.pieces)
          OBVIOUS
      <4>2. step.out \in {<<>>, <<ev>>} /\ ev.kind = f.kind
          BY <1>1, <1>9, <2>3, <3>1, <4>1 DEF ChunkFed, Event
      <4>3. Going(p, to)
        <5>1. CASE step.out = <<>>
            BY <1>3, <1>5, <5>1 DEF ShownInTurn
        <5>2. CASE step.out = <<ev>>
          <6>1. Ready(p, st, ev)
              BY <1>4, <3>1, <4>2 DEF Ready, EventKinds
          <6>2. Follows(p, st, ev, to)
              BY <1>3, <1>4, <5>2, <6>1, OneShown
          <6>3. QED
              BY <3>1, <4>2, <6>2 DEF Follows, Ends
        <5>3. QED
            BY <4>2, <5>1, <5>2
      <4>4. ~AtCall(w)
          BY <2>4, <3>1 DEF AtCall
      <4>5. QED
          BY <4>3, <4>4
    <3>2. CASE f.kind = "tool_use"
      <4>1. PICK e1, e2 : /\ e1.kind = "tool_start" /\ e2.kind = "tool_delta"
                          /\ step.out \in IF f.index \in DOMAIN rd.chunkIdx THEN {<<>>, <<e2>>}
                                          ELSE {<<e1>>, <<e1, e2>>}
          BY <1>1, <1>9, <2>3, <3>2 DEF ChunkFed
      <4>2. ASSUME f.index \in DOMAIN rd.chunkIdx, p = "anthropic"
            PROVE  st.rn.open = "tool_use"
        <5>1. ChatKey(f) = f.index /\ Has(v, f.index) /\ ~w.crossed
            BY <1>1, <3>2, <4>2 DEF ChatKey, Has
        <5>2. v.at = f.index
            BY <2>1, <3>2, <5>1 DEF ChatGrown
        <5>3. f.index \in Nat
            BY <1>9, <3>2 DEF ChatPart
        <5>4. AtCall(v)
            BY <1>1, <5>1, <5>2, <5>3 DEF AtCall, Has, ChatView
        <5>5. QED
            BY <1>3, <4>2, <5>4
      <4>3. Carried(p, st, to)
        <5>1. p # "openai"
            OBVIOUS
        <5>2. QED
            BY <1>3, <1>4, <4>1, <4>2, <5>1, CallCarried
      <4>4. QED
          BY <4>3 DEF Carried
    <3>3. QED
        BY <2>2, <3>1, <3>2 DEF Kinds
  <2>8. QED
      BY <1>2, <2>4, <2>5, <2>6, <2>7 DEF FromOpenAIUp
<1>10. QED
    BY <1>2, <1>6, <1>7, <1>8, <1>9
-----------------------------------------------------------------------------
\* Anthropic has said v, of which the relay has made st.
FromAnthropicUp(p, v, rd, st) ==
    /\ rd.seqTool \in Nat
    /\ Called(v) => rd.seqTool > 0
    /\ Going(p, st) \/ Over(st)
    /\ v.stop = "none" /\ ~v.error => Going(p, st)
    /\ p = "responses" /\ Going(p, st) /\ st.seen.started => v.started

\* The fields of a reader of Anthropic that a frame may change.
LEMMA AnthropicFields ==
    ASSUME NEW rd, rd = [seqTool |-> rd.seqTool, finished |-> rd.finished, usage |-> rd.usage],
           NEW x, NEW r
    PROVE  /\ r = [rd EXCEPT !.usage = x] => r.seqTool = rd.seqTool
           /\ r = [rd EXCEPT !.finished = x] => r.seqTool = rd.seqTool
           /\ r = [rd EXCEPT !.seqTool = x] => r.seqTool = x
<1>1. ASSUME r = [rd EXCEPT !.usage = x]
      PROVE  r.seqTool = rd.seqTool
    BY <1>1
<1>2. ASSUME r = [rd EXCEPT !.finished = x]
      PROVE  r.seqTool = rd.seqTool
    BY <1>2
<1>3. ASSUME r = [rd EXCEPT !.seqTool = x]
      PROVE  r.seqTool = x
    BY <1>3
<1>4. QED
    BY <1>1, <1>2, <1>3

\* A frame of Anthropic that is not about a call adds none.
LEMMA AnthropicCalls ==
    ASSUME NEW v, IsView(v), BlocksOK(v), NEW f, FrameKind(f), NEW w, w = ReadAnthropic(v, f),
           f.type \in {"ping", "message_start", "content_block_start", "content_block_delta", "content_block_stop",
                       "message_delta", "message_stop", "error"},
           f.type = "content_block_start" => f.kind # "tool_use",
           Called(w)
    PROVE  Called(v)
<1>1. ASSUME w.blocks = v.blocks
      PROVE  Called(v)
    BY <1>1 DEF Called
<1>2. CASE f.type = "ping"
    BY <1>1, <1>2 DEF ReadAnthropic
<1>3. CASE f.type \in {"message_start", "message_delta", "message_stop", "error"}
  <2>1. w.blocks = v.blocks
      BY <1>3 DEF ReadAnthropic, IsView
  <2>2. QED
      BY <1>1, <2>1
<1>4. CASE f.type = "content_block_start"
  <2>1. CASE w = Begun(v, f)
    <3>1. f.kind \in Kinds /\ f.kind # "tool_use"
        BY <1>4 DEF FrameKind
    <3>2. CASE Has(v, f.index)
      <4>1. w = [v EXCEPT !.bad = TRUE]
          BY <2>1, <3>2 DEF Begun
      <4>2. w.blocks = v.blocks
          BY <4>1 DEF IsView
      <4>3. QED
          BY <1>1, <4>2
    <3>3. CASE ~Has(v, f.index)
      <4>1. /\ DOMAIN w.blocks = DOMAIN v.blocks \cup {f.index}
            /\ w.blocks[f.index] = [kind |-> f.kind, id |-> f.id, pieces |-> f.pieces, open |-> TRUE]
            /\ \A k \in DOMAIN v.blocks : w.blocks[k] = v.blocks[k]
          BY <2>1, <3>1, <3>3, BegunBlocks
      <4>2. w.blocks[f.index].kind # "tool_use"
          BY <3>1, <4>1
      <4>3. QED
          BY <4>1, <4>2 DEF Called
    <3>4. QED
        BY <3>2, <3>3
  <2>2. CASE w = [v EXCEPT !.bad = TRUE]
    <3>1. w.blocks = v.blocks
        BY <2>2 DEF IsView
    <3>2. QED
        BY <1>1, <3>1
  <2>3. QED
      BY <1>4, <2>1, <2>2 DEF ReadAnthropic
<1>5. CASE f.type = "content_block_delta"
  <2>1. PICK key : key = f.index
      OBVIOUS
  <2>2. w = Extended(v, key, f)
      BY <1>5, <2>1 DEF ReadAnthropic
  <2>3. Grown(v, key, f, w)
      BY <2>2, ExtendedBlocks
  <2>4. QED
      BY <2>3 DEF Grown, Called
<1>6. CASE f.type = "content_block_stop"
  <2>1. w = Closed(v, f)
      BY <1>6 DEF ReadAnthropic
  <2>2. Shut(v, f, w)
      BY <2>1, ClosedBlocks
  <2>3. QED
      BY <2>2 DEF Shut, Called
<1>7. QED
    BY <1>2, <1>3, <1>4, <1>5, <1>6

\* The frames of Anthropic: their types, and the calls their fragments are of.
LEMMA AnthropicTypes ==
    ASSUME NEW v, BlocksOK(v), NEW f, AnthropicSends(v, f)
    PROVE  /\ ~v.error
           /\ f.type \in {"ping", "message_start", "content_block_start", "content_block_delta",
                          "content_block_stop", "message_delta", "message_stop", "error"}
           /\ f.type = "message_stop" <=> v.started /\ v.stop # "none"
           /\ f.type = "message_start" <=> ~v.started
           /\ f.type = "content_block_delta" => f.kind \in Kinds /\ (f.kind = "tool_use" => Called(v))
<1>1. ~v.error
    BY DEF AnthropicSends
<1>2. CASE ~v.started
  <2>1. PICK cost : f = [Frame("message_start") EXCEPT !.usage = cost]
      BY <1>2 DEF AnthropicSends
  <2>2. f.type = "message_start"
      BY <2>1, FrameForm DEF Wire
  <2>3. QED
      BY <1>1, <1>2, <2>2
<1>3. CASE v.started /\ v.stop # "none"
  <2>1. f.type = "message_stop"
      BY <1>3, FrameForm DEF AnthropicSends, Wire
  <2>2. QED
      BY <1>1, <1>3, <2>1
<1>4. CASE v.started /\ v.stop = "none"
  <2>1. ASSUME NEW type \in {"ping", "error", "content_block_start", "content_block_stop", "message_delta"},
               f.type = type
        PROVE  /\ ~v.error
               /\ f.type \in {"ping", "message_start", "content_block_start", "content_block_delta",
                              "content_block_stop", "message_delta", "message_stop", "error"}
               /\ f.type = "message_stop" <=> v.started /\ v.stop # "none"
               /\ f.type = "message_start" <=> ~v.started
               /\ f.type = "content_block_delta" => f.kind \in Kinds /\ (f.kind = "tool_use" => Called(v))
      BY <1>1, <1>4, <2>1
  <2>2. CASE f \in {Frame("ping"), Frame("error")}
    <3>1. f.type \in {"ping", "error"}
        BY <2>2, FrameForm DEF Wire
    <3>2. QED
        BY <2>1, <3>1
  <2>3. ASSUME NEW key \in Open(v), NEW ps, f = Part("content_block_delta", key, v.blocks[key].kind, 0, ps)
        PROVE  f.type = "content_block_delta" /\ f.kind \in Kinds /\ (f.kind = "tool_use" => Called(v))
    <3>1. key \in DOMAIN v.blocks /\ v.blocks[key].kind \in Kinds
        BY DEF Open, BlocksOK, IsBlock
    <3>2. PICK kind : kind = v.blocks[key].kind
        OBVIOUS
    <3>3. f = Wire("content_block_delta", key, kind, 0, ps, "none", NoUsage)
        BY <2>3, <3>2, PartForm
    <3>4. f.type = "content_block_delta" /\ f.kind = kind
        BY <3>3 DEF Wire
    <3>5. QED
        BY <3>1, <3>2, <3>4 DEF Called
  <2>4. ASSUME NEW type \in {"content_block_start", "content_block_stop"}, NEW key, NEW kind, NEW id, NEW ps,
               f = Part(type, key, kind, id, ps)
        PROVE  f.type = type
    <3>1. f = Wire(type, key, kind, id, ps, "none", NoUsage)
        BY <2>4, PartForm
    <3>2. QED
        BY <3>1 DEF Wire
  <2>5. ASSUME NEW stop, NEW cost, f = Closing("message_delta", stop, cost)
        PROVE  f.type = "message_delta"
    <3>1. f = Wire("message_delta", 0, "none", 0, <<>>, stop, cost)
        BY <2>5, ClosingForm
    <3>2. QED
        BY <3>1 DEF Wire
  <2>6. \/ f \in {Frame("ping"), Frame("error")}
        \/ \E key \in Open(v) : \E ps : f = Part("content_block_delta", key, v.blocks[key].kind, 0, ps)
        \/ \E key : f = Part("content_block_stop", key, "none", 0, <<>>)
        \/ \E key, kind, id : f = Part("content_block_start", key, kind, id, <<>>)
        \/ \E stop, cost : f = Closing("message_delta", stop, cost)
      BY <1>4 DEF AnthropicSends
  <2>7. CASE \E key \in Open(v) : \E ps : f = Part("content_block_delta", key, v.blocks[key].kind, 0, ps)
      BY <1>1, <1>4, <2>3, <2>7
  <2>8. CASE f.type \in {"content_block_start", "content_block_stop", "message_delta"}
      BY <2>1, <2>8
  <2>9. QED
      BY <2>2, <2>4, <2>5, <2>6, <2>7, <2>8
<1>5. QED
    BY <1>2, <1>3, <1>4

\* A line of Anthropic is conveyed to a client of another protocol.
LEMMA AnthropicConveyed ==
    ASSUME NEW p \in {"openai", "responses"}, NEW v, SaidUsage("anthropic", v), v.ends = 0,
           NEW f, FrameKind(f), AnthropicSends(v, f), NEW w, w = Read("anthropic", v, f), AnthropicSays(v, f, w),
           NEW rd, ReaderInv("anthropic", v, rd),
           NEW rn, NEW s, NEW st, st = [rn |-> rn, seen |-> s], FromAnthropicUp(p, v, rd, st),
           NEW step, step = FeedAnthropic(rd, f), NEW to, to = Shown(p, st, step.out)
    PROVE  FromAnthropicUp(p, w, step.machine, to)
<1>1. /\ rd.seqTool \in Nat /\ (Called(v) => rd.seqTool > 0)
      /\ Going(p, st) \/ Over(st)
      /\ v.stop = "none" /\ ~v.error => Going(p, st)
      /\ p = "responses" /\ Going(p, st) /\ st.seen.started => v.started
    BY DEF FromAnthropicUp
<1>0. IsView(v) /\ BlocksOK(v) /\ (~v.started => v.stop = "none")
    BY DEF SaidUsage, SaidAnthropic
<1>2. /\ ~v.error
      /\ f.type \in {"ping", "message_start", "content_block_start", "content_block_delta",
                     "content_block_stop", "message_delta", "message_stop", "error"}
      /\ f.type = "message_stop" <=> v.started /\ v.stop # "none"
      /\ f.type = "message_start" <=> ~v.started
      /\ f.type = "content_block_delta" => f.kind \in Kinds /\ (f.kind = "tool_use" => Called(v))
    BY <1>0, AnthropicTypes
<1>3. w = ReadAnthropic(v, f) /\ p \in Protocols
    BY DEF Read, Protocols
<1>4. \A e : ShownInTurn(p, st, e, e)
    BY <1>3, ShownFew
<1>5. rd = [seqTool |-> rd.seqTool, finished |-> rd.finished, usage |-> rd.usage] /\ (rd.finished <=> v.stop # "none")
    BY DEF ReaderInv
<1>6. Called(w) /\ ~(f.type = "content_block_start" /\ f.kind = "tool_use") => Called(v)
    BY <1>0, <1>2, <1>3, AnthropicCalls
<1>7. CASE f.type = "message_start"
  <2>1. PICK ev : ev = Event("start", 0, 0, <<>>)
      OBVIOUS
  <2>2. PICK m : m = [rd EXCEPT !.usage = [f.usage EXCEPT !.output = 0]]
      OBVIOUS
  <2>3. step = Step(m, <<ev>>)
      BY <1>7, <2>1, <2>2 DEF FeedAnthropic
  <2>4. step.machine = m /\ step.out = <<ev>> /\ ev.kind = "start"
      BY <2>1, <2>3 DEF Step, Event
  <2>5. m.seqTool = rd.seqTool
      BY <1>5, <2>2, AnthropicFields
  <2>6. Going(p, st)
      BY <1>0, <1>1, <1>2, <1>7
  <2>7. Ready(p, st, ev)
      BY <1>1, <1>2, <1>7, <2>4, <2>6 DEF Ready, EventKinds
  <2>8. Follows(p, st, ev, to)
      BY <1>3, <2>4, <2>6, <2>7, OneShown
  <2>9. Going(p, to)
      BY <2>4, <2>8 DEF Follows, Ends
  <2>10. w.started
      BY <1>7 DEF AnthropicSays
  <2>11. QED
      BY <1>1, <1>6, <1>7, <2>4, <2>5, <2>9, <2>10 DEF FromAnthropicUp
<1>8. ASSUME f.type \notin {"message_start", "message_delta"}
      PROVE  w.stop = v.stop /\ w.started = v.started
    BY <1>8 DEF AnthropicSays
<1>9. CASE f.type \in {"message_stop", "content_block_stop"} \/ (f.type = "content_block_start" /\ f.kind # "tool_use")
  <2>1. step = Step(rd, <<>>)
      BY <1>9 DEF FeedAnthropic
  <2>2. step.machine = rd /\ step.out = <<>>
      BY <2>1 DEF Step
  <2>3. to = st
      BY <1>4, <2>2 DEF ShownInTurn
  <2>4. QED
      BY <1>1, <1>2, <1>6, <1>8, <1>9, <2>2, <2>3 DEF FromAnthropicUp
<1>10. CASE f.type \in {"ping", "content_block_delta"} \/ (f.type = "content_block_start" /\ f.kind = "tool_use")
  <2>1. PICK ev : ev = CASE f.type = "ping" -> Event("ping", 0, 0, <<>>)
                         [] f.type = "content_block_start" -> Event("tool_start", rd.seqTool, f.id, <<>>)
                         [] OTHER -> IF f.kind = "tool_use" THEN Event("tool_delta", LatestTool(rd), 0, f.pieces)
                                     ELSE Event(f.kind, 0, 0, f.pieces)
      OBVIOUS
  <2>2. PICK m : m = IF f.type = "content_block_start" THEN [rd EXCEPT !.seqTool = rd.seqTool + 1] ELSE rd
      OBVIOUS
  <2>3. step = Step(m, <<ev>>) \/ step = Step(m, <<>>)
    <3>1. CASE f.type = "ping"
        BY <2>1, <2>2, <3>1 DEF FeedAnthropic
    <3>2. CASE f.type = "content_block_start" /\ f.kind = "tool_use"
        BY <2>1, <2>2, <3>2 DEF FeedAnthropic
    <3>3. CASE f.type = "content_block_delta"
        BY <2>1, <2>2, <3>3 DEF FeedAnthropic, NonEmpty
    <3>4. QED
        BY <1>10, <3>1, <3>2, <3>3
  <2>4. step.machine = m /\ step.out \in {<<>>, <<ev>>}
      BY <2>3 DEF Step
  <2>5. m.seqTool \in Nat /\ m.seqTool >= rd.seqTool /\ (f.type = "content_block_start" => m.seqTool > 0)
    <3>1. CASE f.type = "content_block_start"
      <4>1. m.seqTool = rd.seqTool + 1
          BY <1>5, <2>2, <3>1, AnthropicFields
      <4>2. QED
          BY <1>1, <4>1
    <3>2. CASE f.type # "content_block_start"
        BY <1>1, <2>2, <3>2
    <3>3. QED
        BY <3>1, <3>2
  <2>6. Going(p, st)
      BY <1>1, <1>2, <1>10
  <2>7. Ready(p, st, ev) /\ ev.kind \notin {"finish", "error", "start"}
    <3>1. CASE f.type = "ping"
        BY <2>1, <3>1 DEF Ready, EventKinds, Event
    <3>2. CASE f.type = "content_block_start"
        BY <1>1, <2>1, <3>2 DEF Ready, EventKinds, Event
    <3>3. CASE f.type = "content_block_delta" /\ f.kind = "tool_use"
      <4>1. LatestTool(rd) \in Nat
          BY <1>1, <1>2, <3>3 DEF LatestTool
      <4>2. ev = Event("tool_delta", LatestTool(rd), 0, f.pieces)
          BY <2>1, <3>3
      <4>3. ev.kind = "tool_delta" /\ ev.tool \in Nat
          BY <4>1, <4>2 DEF Event
      <4>4. QED
          BY <4>3 DEF Ready, EventKinds
    <3>4. CASE f.type = "content_block_delta" /\ f.kind # "tool_use"
      <4>1. ev = Event(f.kind, 0, 0, f.pieces) /\ f.kind \in {"text", "thinking"}
          BY <1>2, <2>1, <3>4 DEF Kinds
      <4>2. ev.kind \in {"text", "thinking"}
          BY <4>1 DEF Event
      <4>3. QED
          BY <4>2 DEF Ready, EventKinds
    <3>5. QED
        BY <1>10, <3>1, <3>2, <3>3, <3>4
  <2>8. Going(p, to) /\ (p = "responses" => to.seen.started = st.seen.started)
    <3>1. CASE step.out = <<>>
      <4>1. to = st
          BY <1>4, <3>1 DEF ShownInTurn
      <4>2. QED
          BY <2>6, <4>1
    <3>2. CASE step.out = <<ev>>
      <4>1. Follows(p, st, ev, to)
          BY <1>3, <2>6, <2>7, <3>2, OneShown
      <4>2. QED
          BY <2>7, <4>1 DEF Follows, Ends
    <3>3. QED
        BY <2>4, <3>1, <3>2
  <2>9. Called(w) => m.seqTool > 0
      BY <1>1, <1>6, <1>10, <2>5
  <2>10. p = "responses" /\ Going(p, to) /\ to.seen.started => w.started
      BY <1>1, <1>8, <1>10, <2>6, <2>8
  <2>11. QED
      BY <2>4, <2>5, <2>8, <2>9, <2>10 DEF FromAnthropicUp
<1>11. CASE f.type = "error"
  <2>1. PICK ev : ev = Event("error", 0, 0, <<>>)
      OBVIOUS
  <2>2. step = Step(rd, <<ev>>)
      BY <1>11, <2>1 DEF FeedAnthropic
  <2>3. step.machine = rd /\ step.out = <<ev>> /\ ev.kind = "error"
      BY <2>1, <2>2 DEF Step, Event
  <2>4. Going(p, st)
      BY <1>1, <1>2, <1>11
  <2>5. Ready(p, st, ev)
      BY <2>3 DEF Ready, EventKinds
  <2>6. Follows(p, st, ev, to)
      BY <1>3, <2>3, <2>4, <2>5, OneShown
  <2>7. w = [v EXCEPT !.error = TRUE]
      BY <1>3, <1>11 DEF ReadAnthropic
  <2>8. w.error
      BY <1>0, <2>7 DEF IsView
  <2>9. CASE p = "openai"
    <3>1. Going(p, to)
        BY <2>3, <2>6, <2>9 DEF Follows, Ends
    <3>2. QED
        BY <1>1, <1>6, <1>11, <2>3, <2>8, <2>9, <3>1 DEF FromAnthropicUp
  <2>10. CASE p = "responses"
    <3>1. Over(to)
        BY <2>3, <2>6, <2>10 DEF Follows, Ends
    <3>2. ~Going(p, to)
        BY <2>10, <3>1 DEF Over, Going
    <3>3. QED
        BY <1>1, <1>6, <1>11, <2>3, <2>8, <3>1, <3>2 DEF FromAnthropicUp
  <2>11. QED
      BY <2>9, <2>10
<1>12. CASE f.type = "message_delta"
  <2>1. PICK ev : ev = FinishEvent(StopFrom("anthropic", f.stop), ToIR("anthropic", MergeUsage(rd.usage, f.usage)))
      OBVIOUS
  <2>2. PICK m : m = [rd EXCEPT !.finished = TRUE]
      OBVIOUS
  <2>3. v.stop = "none" /\ w.stop # "none" /\ w.started
      BY <1>12 DEF AnthropicSays
  <2>4. step = Step(m, <<ev>>)
      BY <1>5, <1>12, <2>1, <2>2, <2>3 DEF FeedAnthropic
  <2>5. step.machine = m /\ step.out = <<ev>> /\ ev.kind = "finish"
      BY <2>1, <2>4 DEF Step, FinishEvent, Event
  <2>6. m.seqTool = rd.seqTool
      BY <1>5, <2>2, AnthropicFields
  <2>7. Going(p, st)
      BY <1>1, <1>2, <2>3
  <2>8. Ready(p, st, ev)
      BY <2>5 DEF Ready, EventKinds
  <2>9. Follows(p, st, ev, to)
      BY <1>3, <2>5, <2>7, <2>8, OneShown
  <2>10. Over(to)
      BY <2>5, <2>9 DEF Follows, Ends
  <2>11. QED
      BY <1>1, <1>6, <1>12, <2>3, <2>5, <2>6, <2>10 DEF FromAnthropicUp
<1>13. QED
    BY <1>2, <1>7, <1>9, <1>10, <1>11, <1>12
-----------------------------------------------------------------------------
\* A Responses upstream has said v, of which the relay has made st.
FromResponsesUp(p, v, rd, st) ==
    /\ rd.seqTool \in Nat
    /\ \A k \in DOMAIN rd.outIdx : rd.outIdx[k] \in Nat
    /\ v.ends = 0 => /\ Going(p, st) /\ rd.failed = FALSE
                     /\ p = "anthropic" /\ AtCall(v) => st.rn.open = "tool_use"
    /\ v.ends # 0 => (Going(p, st) \/ Over(st)) /\ (rd.failed \/ rd.finished)

\* Where a frame of a response finds the block it is for, and leaves it.
CallStays(v, f, w) ==
    /\ AtCall(w) => AtCall(v) \/ (f.type = "response.output_item.added" /\ f.kind = "tool_use")
    /\ f.type \in {"response.delta", "response.output_item.done"} /\ f.kind = "tool_use" => AtCall(v)
    /\ f.type = "response.delta" /\ f.kind # "tool_use" => ~AtCall(w)

\* The frames of a Responses upstream: their types, and what items they are for.
LEMMA ResponsesTypes ==
    ASSUME NEW v, BlocksOK(v), NEW f, ResponsesSends(v, f)
    PROVE  /\ f.type \in {"response.created", "response.output_item.added", "response.delta",
                          "response.output_item.done", "response.completed", "response.incomplete",
                          "response.failed", "error"}
           /\ f.type \in {"response.delta", "response.output_item.done"} =>
                 f.index \in Open(v) /\ f.kind \in Kinds /\ f.kind = v.blocks[f.index].kind
<1> DEFINE Items == {"response.delta", "response.output_item.done"}
           Others == {"response.created", "response.output_item.added", "response.completed",
                      "response.incomplete", "response.failed", "error"}
<1>1. ASSUME NEW type \in {"response.created", "response.failed", "error"}, f = Frame(type)
      PROVE  f.type \in Others
    BY <1>1, FrameForm DEF Wire
<1>2. ASSUME NEW n, NEW kind, NEW id, f = Part("response.output_item.added", n, kind, id, <<>>)
      PROVE  f.type \in Others
  <2>1. f = Wire("response.output_item.added", n, kind, id, <<>>, "none", NoUsage)
      BY <1>2, PartForm
  <2>2. QED
      BY <2>1 DEF Wire
<1>3. ASSUME NEW type \in {"response.completed", "response.incomplete"}, NEW stop, NEW cost,
             f = Closing(type, stop, cost)
      PROVE  f.type \in Others
  <2>1. f = Wire(type, 0, "none", 0, <<>>, stop, cost)
      BY <1>3, ClosingForm
  <2>2. QED
      BY <2>1 DEF Wire
<1>4. ASSUME NEW type \in Items, NEW key \in Open(v), NEW id, NEW ps, f = Part(type, key, v.blocks[key].kind, id, ps)
      PROVE  f.type = type /\ f.index \in Open(v) /\ f.kind \in Kinds /\ f.kind = v.blocks[f.index].kind
  <2>1. key \in DOMAIN v.blocks /\ v.blocks[key].kind \in Kinds
      BY DEF Open, BlocksOK, IsBlock
  <2>2. PICK kind : kind = v.blocks[key].kind
      OBVIOUS
  <2>3. f = Wire(type, key, kind, id, ps, "none", NoUsage)
      BY <1>4, <2>2, PartForm
  <2>4. f.type = type /\ f.index = key /\ f.kind = kind
      BY <2>3 DEF Wire
  <2>5. QED
      BY <2>1, <2>2, <2>4
<1>5. \/ \E type \in {"response.created", "response.failed", "error"} : f = Frame(type)
      \/ \E n, kind, id : f = Part("response.output_item.added", n, kind, id, <<>>)
      \/ \E type \in {"response.completed", "response.incomplete"} : \E stop, cost : f = Closing(type, stop, cost)
      \/ \E type \in Items, key \in Open(v) : \E id, ps : f = Part(type, key, v.blocks[key].kind, id, ps)
    BY DEF ResponsesSends
<1>6. \/ f.type \in Others
      \/ (f.type \in Items /\ f.index \in Open(v) /\ f.kind \in Kinds /\ f.kind = v.blocks[f.index].kind)
    BY <1>1, <1>2, <1>3, <1>4, <1>5
<1>7. QED
    BY <1>6

\* Fragments that do not cross are for the call that was written to last.
LEMMA CallAt ==
    ASSUME NEW v, IsView(v), BlocksOK(v), NEW f, FrameKind(f), ResponsesSends(v, f),
           NEW w, w = ReadResponses(v, f), ~w.crossed
    PROVE  CallStays(v, f, w)
<1>1. /\ f.type \in {"response.created", "response.output_item.added", "response.delta",
                     "response.output_item.done", "response.completed", "response.incomplete",
                     "response.failed", "error"}
      /\ f.type \in {"response.delta", "response.output_item.done"} =>
            f.index \in Open(v) /\ f.kind \in Kinds /\ f.kind = v.blocks[f.index].kind
    BY ResponsesTypes
<1>2. CASE f.type \notin {"response.output_item.added", "response.delta", "response.output_item.done"}
  <2>1. w.blocks = v.blocks /\ w.at = v.at
      BY <1>1, <1>2 DEF ReadResponses, Ended, IsView
  <2>2. QED
      BY <1>2, <2>1 DEF CallStays, AtCall
<1>3. CASE f.type = "response.output_item.added"
  <2>1. w = Begun(v, f) /\ f.kind \in Kinds
      BY <1>3 DEF ReadResponses, FrameKind
  <2>2. CASE Has(v, f.index)
    <3>1. w = [v EXCEPT !.bad = TRUE]
        BY <2>1, <2>2 DEF Begun
    <3>2. w.blocks = v.blocks /\ w.at = v.at
        BY <3>1 DEF IsView
    <3>3. QED
        BY <1>3, <3>2 DEF CallStays, AtCall
  <2>3. CASE ~Has(v, f.index)
    <3>1. /\ w.blocks[f.index] = [kind |-> f.kind, id |-> f.id, pieces |-> f.pieces, open |-> TRUE]
          /\ w.at = f.index
        BY <2>1, <2>3, BegunBlocks
    <3>2. w.blocks[f.index].kind = f.kind
        BY <3>1
    <3>3. QED
        BY <1>3, <3>1, <3>2 DEF CallStays, AtCall
  <2>4. QED
      BY <2>2, <2>3
<1>4. CASE f.type = "response.delta"
  <2>1. PICK key : key = f.index
      OBVIOUS
  <2>2. w = Extended(v, key, f)
      BY <1>4, <2>1 DEF ReadResponses
  <2>3. Grown(v, key, f, w)
      BY <2>2, ExtendedBlocks
  <2>4. key \in DOMAIN v.blocks /\ v.blocks[key].open /\ v.blocks[key].kind = f.kind
      BY <1>1, <1>4, <2>1 DEF Open
  <2>5. Fits(v, key, f)
      BY <2>4 DEF Fits, Has
  <2>6. w.at = key /\ w.blocks[key].kind = f.kind /\ (f.kind = "tool_use" => v.at = key)
      BY <2>3, <2>4, <2>5 DEF Grown
  <2>7. QED
      BY <1>4, <2>4, <2>6 DEF CallStays, AtCall
<1>5. CASE f.type = "response.output_item.done"
  <2>1. w = Closed(v, f)
      BY <1>5 DEF ReadResponses
  <2>2. Shut(v, f, w)
      BY <2>1, ClosedBlocks
  <2>3. /\ DOMAIN w.blocks = DOMAIN v.blocks /\ w.at = v.at
        /\ \A k \in DOMAIN v.blocks : w.blocks[k].kind = v.blocks[k].kind
      BY <2>2 DEF Shut
  <2>4. f.kind = "tool_use" => v.at = f.index /\ f.index \in DOMAIN v.blocks /\ v.blocks[f.index].kind = "tool_use"
      BY <1>1, <1>5, <2>2 DEF Shut, Open
  <2>5. QED
      BY <1>5, <2>3, <2>4 DEF CallStays, AtCall
<1>6. QED
    BY <1>1, <1>2, <1>3, <1>4, <1>5

\* Which tools a Responses reader knows, and whether it has failed.
LEMMA ToolsKept ==
    ASSUME NEW rd, IsReader(rd), NEW r, NEW x,
           \/ r = [rd EXCEPT !.started = x]
           \/ r = [rd EXCEPT !.argsSeen = x]
           \/ r = [rd EXCEPT !.finished = x]
    PROVE  r.seqTool = rd.seqTool /\ r.outIdx = rd.outIdx /\ r.failed = rd.failed
<1>1. r.seqTool = rd.seqTool /\ r.outIdx = rd.outIdx
    BY DEF IsReader
<1>2. r.failed = rd.failed
    BY DEF IsReader
<1>3. QED
    BY <1>1, <1>2

\* One more tool.
ToolTold(rd, n, idx) == [rd EXCEPT !.seqTool = n, !.outIdx = idx]

LEMMA ToolAdded ==
    ASSUME NEW rd, IsReader(rd), NEW n, NEW idx, NEW r, r = ToolTold(rd, n, idx)
    PROVE  r.seqTool = n /\ r.outIdx = idx /\ r.failed = rd.failed
<1>1. r.seqTool = n /\ r.outIdx = idx
    BY DEF IsReader, ToolTold
<1>2. r.failed = rd.failed
    BY DEF IsReader, ToolTold
<1>3. QED
    BY <1>1, <1>2

\* The upstream has failed.
LEMMA ReaderFailed ==
    ASSUME NEW rd, IsReader(rd), NEW r, r = [rd EXCEPT !.failed = TRUE]
    PROVE  r.seqTool = rd.seqTool /\ r.outIdx = rd.outIdx /\ r.failed = TRUE
<1>1. r.seqTool = rd.seqTool /\ r.outIdx = rd.outIdx
    BY DEF IsReader
<1>2. r.failed = TRUE
    BY DEF IsReader
<1>3. QED
    BY <1>1, <1>2
-----------------------------------------------------------------------------
\* A line of a Responses upstream is conveyed to a client of another protocol.
LEMMA ResponsesConveyed ==
    ASSUME NEW p \in {"openai", "anthropic"}, NEW v, SaidUsage("responses", v), v.ends = 0,
           NEW f, FrameKind(f), ResponsesSends(v, f), NEW w, w = Read("responses", v, f), ResponsesSays(v, f, w),
           p = "anthropic" => ~w.crossed,
           NEW rd, ReaderInv("responses", v, rd),
           NEW rn, NEW s, NEW st, st = [rn |-> rn, seen |-> s], FromResponsesUp(p, v, rd, st),
           NEW step, step = FeedResponses(rd, f), NEW to, to = Shown(p, st, step.out)
    PROVE  FromResponsesUp(p, w, step.machine, to)
<1>1. /\ rd.seqTool \in Nat
      /\ \A k \in DOMAIN rd.outIdx : rd.outIdx[k] \in Nat
      /\ Going(p, st) /\ rd.failed = FALSE
      /\ p = "anthropic" /\ AtCall(v) => st.rn.open = "tool_use"
    BY DEF FromResponsesUp
<1>2. IsView(v) /\ BlocksOK(v) /\ w = ReadResponses(v, f) /\ p \in Protocols
    BY DEF SaidUsage, Read, Protocols
<1>3. IsReader(rd) /\ rd.finished = FALSE
    BY DEF ReaderInv, IsReader
<1>4. /\ f.type \in {"response.created", "response.output_item.added", "response.delta",
                     "response.output_item.done", "response.completed", "response.incomplete",
                     "response.failed", "error"}
      /\ f.type \in {"response.delta", "response.output_item.done"} =>
            f.index \in Open(v) /\ f.kind \in Kinds /\ f.kind = v.blocks[f.index].kind
    BY <1>2, ResponsesTypes
<1>5. p = "anthropic" => CallStays(v, f, w)
    BY <1>2, CallAt
<1>6. \A e1, e2 : ShownInTurn(p, st, e1, e2)
    BY <1>2, ShownFew
<1>7. ASSUME NEW m, step.machine = m, m.seqTool \in Nat, \A k \in DOMAIN m.outIdx : m.outIdx[k] \in Nat,
             m.failed = FALSE, w.ends = 0, Going(p, to),
             p = "anthropic" /\ AtCall(w) => to.rn.open = "tool_use"
      PROVE  FromResponsesUp(p, w, step.machine, to)
    BY <1>7 DEF FromResponsesUp
<1>8. ASSUME f.type \in {"response.created", "response.output_item.added", "response.delta",
                         "response.output_item.done"}
      PROVE  w.ends = 0
    BY <1>8 DEF ResponsesSays
<1>9. ASSUME step = Step(rd, <<>>),
             f.type \in {"response.created", "response.output_item.added", "response.delta",
                         "response.output_item.done"},
             ~(f.type = "response.output_item.added" /\ f.kind = "tool_use")
      PROVE  FromResponsesUp(p, w, step.machine, to)
  <2>1. step.machine = rd /\ step.out = <<>>
      BY <1>9 DEF Step
  <2>2. to = st
      BY <1>6, <2>1 DEF ShownInTurn
  <2>3. QED
      BY <1>1, <1>5, <1>7, <1>8, <1>9, <2>1, <2>2 DEF CallStays
<1>10. CASE f.type = "response.created"
  <2>1. PICK ev : ev = Event("start", 0, 0, <<>>)
      OBVIOUS
  <2>2. PICK m : m = [rd EXCEPT !.started = TRUE]
      OBVIOUS
  <2>3. step = Step(m, <<>>) \/ step = Step(m, <<ev>>)
      BY <1>10, <2>1, <2>2 DEF FeedResponses
  <2>4. step.machine = m /\ step.out \in {<<>>, <<ev>>} /\ ev.kind = "start"
      BY <2>1, <2>3 DEF Step, Event
  <2>5. m.seqTool = rd.seqTool /\ m.outIdx = rd.outIdx /\ m.failed = rd.failed
      BY <1>3, <2>2, ToolsKept
  <2>6. Ready(p, st, ev)
      BY <2>4 DEF Ready, EventKinds
  <2>7. Going(p, to) /\ (p = "anthropic" => to.rn.open = st.rn.open)
    <3>1. CASE step.out = <<>>
      <4>1. to = st
          BY <1>6, <3>1 DEF ShownInTurn
      <4>2. QED
          BY <1>1, <4>1
    <3>2. CASE step.out = <<ev>>
      <4>1. Follows(p, st, ev, to)
          BY <1>1, <1>2, <2>6, <3>2, OneShown
      <4>2. QED
          BY <2>4, <4>1 DEF Follows, Ends
    <3>3. QED
        BY <2>4, <3>1, <3>2
  <2>8. p = "anthropic" /\ AtCall(w) => to.rn.open = "tool_use"
      BY <1>1, <1>5, <1>10, <2>7 DEF CallStays
  <2>9. QED
      BY <1>1, <1>7, <1>8, <1>10, <2>4, <2>5, <2>7, <2>8
<1>11. CASE f.type = "response.output_item.added" /\ f.kind = "tool_use"
  <2>1. PICK ev : ev = Event("tool_start", rd.seqTool, f.id, <<>>)
      OBVIOUS
  <2>2. PICK n : n = rd.seqTool + 1
      OBVIOUS
  <2>3. PICK idx : idx = With(rd.outIdx, f.index, rd.seqTool)
      OBVIOUS
  <2>4. PICK m : m = ToolTold(rd, n, idx)
      OBVIOUS
  <2>5. step = Step(m, <<ev>>)
      BY <1>11, <2>1, <2>2, <2>3, <2>4 DEF FeedResponses, ToolTold
  <2>6. step.machine = m /\ step.out = <<ev>>
      BY <2>5 DEF Step
  <2>7. ev.kind = "tool_start" /\ ev.tool = rd.seqTool
      BY <2>1 DEF Event
  <2>8. m.seqTool = n /\ m.outIdx = idx /\ m.failed = rd.failed
      BY <1>3, <2>4, ToolAdded
  <2>9. n \in Nat /\ \A k \in DOMAIN idx : idx[k] \in Nat
      BY <1>1, <2>2, <2>3 DEF With
  <2>10. Ready(p, st, ev)
      BY <1>1, <2>7 DEF Ready, EventKinds
  <2>11. Follows(p, st, ev, to)
      BY <1>1, <1>2, <2>6, <2>10, OneShown
  <2>12. Going(p, to) /\ (p = "anthropic" => to.rn.open = "tool_use")
      BY <2>7, <2>11 DEF Follows, Ends
  <2>13. QED
      BY <1>1, <1>7, <1>8, <1>11, <2>6, <2>8, <2>9, <2>12
<1>12. CASE f.type = "response.output_item.added" /\ f.kind # "tool_use"
  <2>1. step = Step(rd, <<>>)
      BY <1>12 DEF FeedResponses
  <2>2. QED
      BY <1>9, <1>12, <2>1
<1>13. CASE f.type = "response.delta" /\ f.kind # "tool_use"
  <2>1. PICK ev : ev = Event(f.kind, 0, 0, f.pieces)
      OBVIOUS
  <2>2. step = Step(rd, <<ev>>)
      BY <1>13, <2>1 DEF FeedResponses
  <2>3. step.machine = rd /\ step.out = <<ev>>
      BY <2>2 DEF Step
  <2>4. ev.kind = f.kind /\ f.kind \in {"text", "thinking"}
      BY <1>4, <1>13, <2>1 DEF Event, Kinds
  <2>5. Ready(p, st, ev)
      BY <2>4 DEF Ready, EventKinds
  <2>6. Follows(p, st, ev, to)
      BY <1>1, <1>2, <2>3, <2>5, OneShown
  <2>7. Going(p, to)
      BY <2>4, <2>6 DEF Follows, Ends
  <2>8. p = "anthropic" => ~AtCall(w)
      BY <1>5, <1>13 DEF CallStays
  <2>9. QED
      BY <1>1, <1>7, <1>8, <1>13, <2>3, <2>7, <2>8
<1>14. CASE f.type \in {"response.delta", "response.output_item.done"} /\ f.kind = "tool_use"
  <2>1. p = "anthropic" => AtCall(v) /\ st.rn.open = "tool_use"
      BY <1>1, <1>5, <1>14 DEF CallStays
  <2>2. CASE f.index \notin DOMAIN rd.outIdx
    <3>1. step = Step(rd, <<>>)
        BY <1>14, <2>2 DEF FeedResponses
    <3>2. QED
        BY <1>9, <1>14, <3>1
  <2>3. CASE f.index \in DOMAIN rd.outIdx
    <3>1. PICK tool : tool = rd.outIdx[f.index]
        OBVIOUS
    <3>2. PICK e1 : e1 = Event("tool_delta", tool, 0, f.pieces)
        OBVIOUS
    <3>3. PICK e2 : e2 = Event("tool_end", tool, 0, <<>>)
        OBVIOUS
    <3>4. e1.kind = "tool_delta" /\ e1.tool = tool /\ e2.kind = "tool_end" /\ tool \in Nat
        BY <1>1, <2>3, <3>1, <3>2, <3>3 DEF Event
    <3>5. PICK m : m = IF f.type = "response.delta" THEN [rd EXCEPT !.argsSeen = @ \cup {tool}] ELSE rd
        OBVIOUS
    <3>6. m.seqTool = rd.seqTool /\ m.outIdx = rd.outIdx /\ m.failed = rd.failed
      <4>1. PICK x : x = rd.argsSeen \cup {tool}
          OBVIOUS
      <4>2. m = rd \/ m = [rd EXCEPT !.argsSeen = x]
          BY <3>5, <4>1
      <4>3. QED
          BY <1>3, <4>2, ToolsKept
    <3>7. step.machine = m /\ step.out \in {<<e1>>, <<e2>>, <<e1, e2>>}
      <4>1. CASE f.type = "response.delta"
        <5>1. step = Step(m, <<e1>>)
            BY <1>14, <2>3, <3>1, <3>2, <3>5, <4>1 DEF FeedResponses
        <5>2. QED
            BY <5>1 DEF Step
      <4>2. CASE f.type = "response.output_item.done"
        <5>1. PICK unseen : unseen = UnseenArgs(rd, tool, f.pieces)
            OBVIOUS
        <5>2. PICK out : out = unseen \o <<e2>>
            OBVIOUS
        <5>3. step = Step(m, out)
            BY <1>14, <2>3, <3>1, <3>3, <3>5, <4>2, <5>1, <5>2 DEF FeedResponses
        <5>4. unseen \in {<<>>, <<e1>>}
            BY <3>2, <5>1 DEF UnseenArgs, NonEmpty
        <5>5. out \in {<<e2>>, <<e1, e2>>}
            BY <5>2, <5>4, FewAfterFew
        <5>6. QED
            BY <5>3, <5>5 DEF Step
      <4>3. QED
          BY <1>14, <4>1, <4>2
    <3>8. ASSUME NEW x, Going(p, x), p = "anthropic" => x.rn.open = "tool_use", NEW e \in {e1, e2},
                 NEW y, y = Relayed(p, x, e)
          PROVE  Going(p, y) /\ (p = "anthropic" => y.rn.open = "tool_use")
      <4>1. e.kind \in {"tool_delta", "tool_end"} /\ (e.kind = "tool_delta" => e.tool \in Nat)
          BY <3>4
      <4>2. Ready(p, x, e)
          BY <3>8, <4>1 DEF Ready, EventKinds
      <4>3. Follows(p, x, e, y)
          BY <1>2, <3>8, <4>2, EventFollows
      <4>4. QED
          BY <3>8, <4>1, <4>3 DEF Follows, Ends
    <3>9. Going(p, to) /\ (p = "anthropic" => to.rn.open = "tool_use")
      <4>1. ASSUME NEW e \in {e1, e2}, step.out = <<e>>
            PROVE  Going(p, to) /\ (p = "anthropic" => to.rn.open = "tool_use")
        <5>1. ShownInTurn(p, st, e, e)
            BY <1>6
        <5>2. to = Relayed(p, st, e)
            BY <4>1, <5>1 DEF ShownInTurn
        <5>3. QED
            BY <1>1, <2>1, <3>8, <5>2
      <4>2. CASE step.out = <<e1, e2>>
        <5>1. PICK mid : mid = Relayed(p, st, e1)
            OBVIOUS
        <5>2. ShownInTurn(p, st, e1, e2)
            BY <1>6
        <5>3. to = Relayed(p, mid, e2)
            BY <4>2, <5>1, <5>2 DEF ShownInTurn
        <5>4. Going(p, mid) /\ (p = "anthropic" => mid.rn.open = "tool_use")
            BY <1>1, <2>1, <3>8, <5>1
        <5>5. QED
            BY <3>8, <5>3, <5>4
      <4>3. QED
          BY <3>7, <4>1, <4>2
    <3>10. QED
        BY <1>1, <1>7, <1>8, <1>14, <3>6, <3>7, <3>9
  <2>4. QED
      BY <2>2, <2>3
<1>15. CASE f.type = "response.output_item.done" /\ f.kind # "tool_use"
  <2>1. step = Step(rd, <<>>)
      BY <1>15 DEF FeedResponses
  <2>2. QED
      BY <1>9, <1>15, <2>1
<1>16. CASE f.type \in {"response.completed", "response.incomplete"}
  <2>1. PICK stop, cost : step = LatchFinish(rd, stop, cost)
      BY <1>16 DEF FeedResponses
  <2>2. PICK ev : ev = FinishEvent(stop, cost)
      OBVIOUS
  <2>3. PICK m : m = [rd EXCEPT !.finished = TRUE]
      OBVIOUS
  <2>4. step = Step(m, <<ev>>)
      BY <1>3, <2>1, <2>2, <2>3 DEF LatchFinish
  <2>5. step.machine = m /\ step.out = <<ev>>
      BY <2>4 DEF Step
  <2>6. ev.kind = "finish"
      BY <2>2 DEF FinishEvent, Event
  <2>7. m.seqTool = rd.seqTool /\ m.outIdx = rd.outIdx
      BY <1>3, <2>3, ToolsKept
  <2>8. m.finished = TRUE
      BY <1>3, <2>3, ResponsesFinished
  <2>9. Ready(p, st, ev)
      BY <2>6 DEF Ready, EventKinds
  <2>10. Follows(p, st, ev, to)
      BY <1>1, <1>2, <2>5, <2>9, OneShown
  <2>11. Over(to)
      BY <2>6, <2>10 DEF Follows, Ends
  <2>12. w.ends # 0
      BY <1>16 DEF ResponsesSays
  <2>13. QED
      BY <1>1, <2>5, <2>7, <2>8, <2>11, <2>12 DEF FromResponsesUp
<1>17. CASE f.type \in {"response.failed", "error"}
  <2>1. PICK ev : ev = Event("error", 0, 0, <<>>)
      OBVIOUS
  <2>2. PICK m : m = [rd EXCEPT !.failed = TRUE]
      OBVIOUS
  <2>3. step = Step(m, <<ev>>)
      BY <1>17, <2>1, <2>2 DEF FeedResponses
  <2>4. step.machine = m /\ step.out = <<ev>> /\ ev.kind = "error"
      BY <2>1, <2>3 DEF Step, Event
  <2>5. m.seqTool = rd.seqTool /\ m.outIdx = rd.outIdx
      BY <1>3, <2>2, ReaderFailed
  <2>6. m.failed = TRUE
      BY <1>3, <2>2, ReaderFailed
  <2>7. Ready(p, st, ev)
      BY <2>4 DEF Ready, EventKinds
  <2>8. Follows(p, st, ev, to)
      BY <1>1, <1>2, <2>4, <2>7, OneShown
  <2>9. Going(p, to) \/ Over(to)
      BY <2>8 DEF Follows
  <2>10. w.ends # 0
      BY <1>17 DEF ResponsesSays
  <2>11. QED
      BY <1>1, <2>4, <2>5, <2>6, <2>9, <2>10 DEF FromResponsesUp
<1>18. QED
    BY <1>4, <1>10, <1>11, <1>12, <1>13, <1>14, <1>15, <1>16, <1>17
-----------------------------------------------------------------------------
(***************************************************************************)
(* The relay, from its preamble to its end, and the inductive invariant.   *)
(***************************************************************************)
\* An upstream of some protocol has said v, of which the relay has made st.
FromUp(up, p, v, rd, st) ==
    /\ up = "openai" => FromOpenAIUp(p, v, rd, st)
    /\ up = "anthropic" => FromAnthropicUp(p, v, rd, st)
    /\ up = "responses" => FromResponsesUp(p, v, rd, st)

\* A relay that has made st of what was said has shown nothing bad.
LEMMA NothingBad ==
    ASSUME NEW up \in Protocols, NEW p, NEW v, NEW rd, NEW st, FromUp(up, p, v, rd, st)
    PROVE  Going(p, st) \/ Over(st)
BY DEF FromUp, FromOpenAIUp, FromAnthropicUp, FromResponsesUp, Protocols

\* Nothing said, nothing shown but the preamble.
LEMMA PreambleShown ==
    ASSUME NEW p \in Protocols, NEW s,
           s = ReadAll(p, View, IF p = "anthropic" THEN <<Frame("message_start")>> ELSE <<>>),
           NEW st, st = [rn |-> Renderer[p], seen |-> s]
    PROVE  Going(p, st) /\ (p # "anthropic" => s.started = FALSE)
<1>1. IsView(View) /\ View.ends = 0 /\ View.stop = "none" /\ View.started = FALSE /\ View.bad = FALSE
    BY DEF View, IsView
<1>2. View.blocks = <<>>
    BY DEF View
<1>3. /\ IsView(s) /\ s.blocks = <<>> /\ s.ends = 0 /\ s.stop = "none" /\ s.bad = FALSE
      /\ p # "anthropic" => s.started = FALSE
  <2>1. CASE p # "anthropic"
    <3>1. s = View
        BY <2>1, ReadOne
    <3>2. QED
        BY <1>1, <1>2, <3>1
  <2>2. CASE p = "anthropic"
    <3>1. PICK f : f = Frame("message_start")
        OBVIOUS
    <3>2. f.type = "message_start" /\ f.usage = NoUsage
        BY <3>1, FrameForm DEF Wire
    <3>3. s = Read("anthropic", View, f)
        BY <2>2, <3>1, ReadOne
    <3>4. s = [View EXCEPT !.started = TRUE, !.usage = f.usage, !.bad = @ \/ View.started]
        BY <1>1, <3>2, <3>3 DEF Read, ReadAnthropic
    <3>5. IsView(s)
        BY <1>1, <3>4 DEF IsView
    <3>6. s.blocks = View.blocks /\ s.ends = View.ends /\ s.stop = View.stop
        BY <1>1, <3>4 DEF IsView
    <3>7. s.bad = FALSE
        BY <1>1, <3>4 DEF IsView
    <3>8. QED
        BY <1>1, <1>2, <2>2, <3>5, <3>6, <3>7
  <2>3. QED
      BY <2>1, <2>2
<1>4. BlocksOK(s) /\ ChatView(s) /\ Listed(0, "none", s)
  <2>1. DOMAIN s.blocks = {} /\ s.blocks = [k \in DOMAIN s.blocks |-> s.blocks[k]]
      BY <1>3
  <2>2. {} = 0..(0 - 1)
      OBVIOUS
  <2>3. QED
      BY <2>1, <2>2 DEF BlocksOK, ChatView, Listed
<1>5. Running(s)
    BY <1>3, <1>4 DEF Running
<1>6. PICK rn : rn = Renderer[p]
    OBVIOUS
<1>7. st.rn = rn /\ st.seen = s
    BY <1>6
<1>8. CASE p = "openai"
  <2>1. rn = [finished |-> FALSE]
      BY <1>6, <1>8 DEF Renderer
  <2>2. QED
      BY <1>3, <1>4, <1>5, <1>7, <1>8, <2>1 DEF Going
<1>9. CASE p = "anthropic"
  <2>1. rn = [finished |-> FALSE, nextIndex |-> 0, open |-> "none"]
      BY <1>6, <1>9 DEF Renderer
  <2>2. rn.nextIndex = 0 /\ rn.open = "none" /\ rn = [finished |-> FALSE, nextIndex |-> rn.nextIndex, open |-> rn.open]
      BY <2>1
  <2>3. QED
      BY <1>3, <1>4, <1>5, <1>7, <1>9, <2>2 DEF Going
<1>10. CASE p = "responses"
  <2>1. rn = [finished |-> FALSE, nextIndex |-> 0, open |-> "none", id |-> 0, text |-> <<>>]
      BY <1>6, <1>10 DEF Renderer
  <2>2. rn.nextIndex = 0 /\ rn.open = "none" /\ rn.id = 0 /\ rn.text = <<>>
      BY <2>1
  <2>3. rn = [finished |-> FALSE, nextIndex |-> rn.nextIndex, open |-> rn.open, id |-> rn.id, text |-> rn.text]
      BY <2>1, <2>2
  <2>4. QED
      BY <1>3, <1>4, <1>5, <1>7, <1>10, <2>2, <2>3 DEF Going
<1>11. QED
    BY <1>3, <1>8, <1>9, <1>10 DEF Protocols

\* So the relay begins.
LEMMA RelayBegins ==
    ASSUME NEW up \in Protocols, NEW p \in Protocols, NEW s,
           s = ReadAll(p, View, IF p = "anthropic" THEN <<Frame("message_start")>> ELSE <<>>),
           NEW st, st = [rn |-> Renderer[p], seen |-> s]
    PROVE  FromUp(up, p, View, Reader[up], st)
<1>1. Going(p, st) /\ (p # "anthropic" => st.seen.started = FALSE)
    BY PreambleShown
<1>2. /\ View.ends = 0 /\ View.stop = "none" /\ View.started = FALSE /\ View.error = FALSE
      /\ DOMAIN View.blocks = {}
    BY DEF View
<1>3. ~Called(View) /\ ~AtCall(View) /\ ChatView(View) /\ IsFiniteSet(DOMAIN View.blocks)
    BY <1>2, FS_EmptySet DEF Called, AtCall, ChatView
<1>4. PICK rd : rd = Reader[up]
    OBVIOUS
<1>5. CASE up = "openai"
  <2>1. rd.started = FALSE /\ DOMAIN rd.chunkIdx = {}
      BY <1>4, <1>5 DEF Reader
  <2>2. QED
      BY <1>1, <1>2, <1>3, <1>4, <1>5, <2>1 DEF FromUp, FromOpenAIUp
<1>6. CASE up = "anthropic"
  <2>1. rd.seqTool = 0
      BY <1>4, <1>6 DEF Reader
  <2>2. QED
      BY <1>1, <1>2, <1>3, <1>4, <1>6, <2>1 DEF FromUp, FromAnthropicUp
<1>7. CASE up = "responses"
  <2>1. rd.seqTool = 0 /\ DOMAIN rd.outIdx = {}
      BY <1>4, <1>7 DEF Reader
  <2>2. rd.failed = FALSE
      BY <1>4, <1>7 DEF Reader
  <2>3. QED
      BY <1>1, <1>2, <1>3, <1>4, <1>7, <2>1, <2>2 DEF FromUp, FromResponsesUp
<1>8. QED
    BY <1>5, <1>6, <1>7 DEF Protocols

\* What the reader still owes when the stream is over, if anything, is a finish
\* that the renderer takes.
Owed(p, st, out) ==
    \/ out = <<>> /\ (Going(p, st) \/ Over(st))
    \/ \E ev : out = <<ev>> /\ ev.kind = "finish" /\ (Going(p, st) \/ (p = "responses" /\ Over(st)))

\* A reader that owes a finish has not put out one.
LEMMA FinishOwed ==
    ASSUME NEW up \in Protocols, NEW p, NEW v, NEW rd, ReaderInv(up, v, rd), NEW st, FromUp(up, p, v, rd, st),
           NEW out, out = FinishRead(up, rd).out
    PROVE  Owed(p, st, out)
<1>1. \A stop, cost : FinishEvent(stop, cost).kind = "finish"
    BY DEF FinishEvent, Event
<1>2. CASE up = "openai"
  <2>1. out = <<FinishEvent(rd.finish, rd.usage)>>
      BY <1>2 DEF FinishRead, FinishOpenAI, Step
  <2>2. Going(p, st) \/ (p = "responses" /\ Over(st))
      BY <1>2 DEF FromUp, FromOpenAIUp
  <2>3. QED
      BY <1>1, <2>1, <2>2 DEF Owed
<1>3. CASE up = "anthropic"
  <2>1. out = <<>>
      BY <1>3 DEF FinishRead, Step
  <2>2. QED
      BY <2>1, NothingBad DEF Owed
<1>4. CASE up = "responses"
  <2>1. CASE rd.failed \/ rd.finished
    <3>1. out = <<>>
        BY <1>4, <2>1 DEF FinishRead, FinishResponses, LatchFinish, Step
    <3>2. QED
        BY <3>1, NothingBad DEF Owed
  <2>2. CASE ~rd.failed /\ ~rd.finished
    <3>1. Going(p, st)
        BY <1>4, <2>2 DEF FromUp, FromResponsesUp
    <3>2. PICK ev : ev = FinishEvent(CompletedStop(rd), NoUsage)
        OBVIOUS
    <3>3. FinishRead(up, rd) = Step([rd EXCEPT !.finished = TRUE], <<ev>>)
        BY <1>4, <2>2, <3>2 DEF FinishRead, FinishResponses, LatchFinish
    <3>4. out = <<ev>>
        BY <3>3 DEF Step
    <3>5. QED
        BY <1>1, <3>1, <3>2, <3>4 DEF Owed
  <2>3. QED
      BY <2>1, <2>2
<1>5. QED
    BY <1>2, <1>3, <1>4 DEF Protocols

\* The client's message ends once.
LEMMA EndShown ==
    ASSUME NEW p \in Protocols, NEW rn, NEW s, NEW st, st = [rn |-> rn, seen |-> s], NEW out, Owed(p, st, out),
           NEW all, all = RenderAll(p, rn, out),
           NEW w, w = ReadAll(p, s, all.out \o Done(p, all.machine).out)
    PROVE  w.bad = FALSE /\ w.ends = 1
<1>1. PICK to : to = Shown(p, st, out)
    OBVIOUS
<1>2. to.rn = all.machine /\ to.seen = ReadAll(p, s, all.out)
    BY <1>1 DEF Shown
<1>3. \A e : ShownInTurn(p, st, e, e)
    BY ShownFew
<1>4. Row(all.out)
    BY <1>3 DEF Owed, ShownInTurn
<1>5. PICK more : more = Done(p, all.machine).out
    OBVIOUS
<1>6. Row(more)
    BY <1>5, RenderRow
<1>7. w = ReadAll(p, to.seen, more)
  <2>1. PICK first : first = all.out
      OBVIOUS
  <2>2. ReadAll(p, s, first \o more) = ReadAll(p, ReadAll(p, s, first), more)
      BY <1>4, <1>6, <2>1, RowsRead
  <2>3. w = ReadAll(p, s, first \o more) /\ to.seen = ReadAll(p, s, first)
      BY <1>2, <1>5, <2>1, Zenon
  <2>4. QED
      BY <2>2, <2>3
<1>8. Going(p, to) \/ Over(to)
  <2>1. CASE out = <<>>
    <3>1. to = st
        BY <1>1, <1>3, <2>1 DEF ShownInTurn
    <3>2. QED
        BY <3>1 DEF Owed
  <2>2. ASSUME NEW ev, out = <<ev>>, ev.kind = "finish", Going(p, st) \/ (p = "responses" /\ Over(st))
        PROVE  Going(p, to) \/ Over(to)
    <3>1. to = Relayed(p, st, ev)
      <4>1. ShownInTurn(p, st, ev, ev)
          BY <1>3
      <4>2. QED
          BY <1>1, <2>2, <4>1 DEF ShownInTurn
    <3>2. CASE Going(p, st)
      <4>1. Ready(p, st, ev)
          BY <2>2 DEF Ready, EventKinds
      <4>2. Follows(p, st, ev, to)
          BY <3>1, <3>2, <4>1, EventFollows
      <4>3. QED
          BY <2>2, <4>2 DEF Follows, Ends
    <3>3. CASE p = "responses" /\ Over(st)
        BY <3>1, <3>3, LateEvent
    <3>4. QED
        BY <2>2, <3>2, <3>3
  <2>3. QED
      BY <2>1, <2>2 DEF Owed
<1>9. w = ReadAll(p, to.seen, Done(p, to.rn).out)
    BY <1>2, <1>5, <1>7
<1>10. QED
    BY <1>8, <1>9, StreamDone
-----------------------------------------------------------------------------
\* Calls that cross stay crossed.
LEMMA CrossedKept ==
    ASSUME NEW p \in {"openai", "responses"}, NEW v, IsView(v), BlocksOK(v), v.ends = 0, v.crossed,
           NEW f, FrameKind(f), NEW w, w = Read(p, v, f)
    PROVE  w.crossed
<1>1. ASSUME NEW x, NEW y, y = x, x.crossed
      PROVE  y.crossed
    BY <1>1
<1>2. ASSUME NEW key, NEW x, x = Extended(v, key, f)
      PROVE  IsView(x) /\ x.crossed
  <2>1. Grown(v, key, f, x)
      BY <1>2, ExtendedBlocks
  <2>2. IsView(x)
      BY <1>2, BlocksKeepEnd DEF SameEnd
  <2>3. CASE Fits(v, key, f)
      BY <2>1, <2>2, <2>3 DEF Grown
  <2>4. CASE ~Fits(v, key, f)
    <3>1. x = [v EXCEPT !.bad = TRUE]
        BY <2>1, <2>4 DEF Grown
    <3>2. x.crossed
        BY <3>1 DEF IsView
    <3>3. QED
        BY <2>2, <3>2
  <2>5. QED
      BY <2>3, <2>4
<1>3. ASSUME NEW g, g.kind \in Kinds, NEW x, x = Begun(v, g)
      PROVE  IsView(x) /\ x.crossed
  <2>1. IsView(x)
      BY <1>3, BlocksKeepEnd DEF SameEnd
  <2>2. CASE Has(v, g.index)
    <3>1. x = [v EXCEPT !.bad = TRUE]
        BY <1>3, <2>2 DEF Begun
    <3>2. x.crossed
        BY <3>1 DEF IsView
    <3>3. QED
        BY <2>1, <3>2
  <2>3. CASE ~Has(v, g.index)
    <3>1. x.crossed = v.crossed
        BY <1>3, <2>3, BegunBlocks
    <3>2. QED
        BY <2>1, <3>1
  <2>4. QED
      BY <2>2, <2>3
<1>4. CASE p = "openai"
  <2>1. w = ReadOpenAI(v, f)
      BY <1>4 DEF Read
  <2>2. CASE f.type # "chunk"
    <3>1. w = [v EXCEPT !.error = TRUE] \/ w = [v EXCEPT !.ends = @ + 1] \/ w = [v EXCEPT !.bad = TRUE]
        BY <2>1, <2>2 DEF ReadOpenAI
    <3>2. QED
        BY <3>1 DEF IsView
  <2>3. CASE f.type = "chunk"
    <3>1. PICK key : key = CASE f.kind = "thinking" -> -2 [] f.kind = "text" -> -1 [] OTHER -> f.index
        OBVIOUS
    <3>2. PICK g : g = [f EXCEPT !.index = key]
        OBVIOUS
    <3>3. PICK x : x = IF f.kind = "none" THEN v ELSE IF Has(v, key) THEN Extended(v, key, f) ELSE Begun(v, g)
        OBVIOUS
    <3>4. IsView(x) /\ x.crossed
      <4>1. CASE f.kind = "none"
          BY <3>3, <4>1
      <4>2. CASE f.kind # "none" /\ Has(v, key)
          BY <1>2, <3>3, <4>2
      <4>3. CASE f.kind # "none" /\ ~Has(v, key)
        <5>1. x = Begun(v, g)
            BY <3>3, <4>3
        <5>2. g.kind = f.kind /\ f.kind \in Kinds
            BY <3>2, <4>3 DEF FrameKind, Wire
        <5>3. QED
            BY <1>3, <5>1, <5>2
      <4>4. QED
          BY <4>1, <4>2, <4>3
    <3>5. PICK bad : bad = (x.bad \/ (f.stop # "none" /\ v.stop # "none"))
        OBVIOUS
    <3>8. PICK stop : stop = IF f.stop = "none" THEN x.stop ELSE f.stop
        OBVIOUS
    <3>9. PICK cost : cost = IF f.usage = NoUsage THEN x.usage ELSE f.usage
        OBVIOUS
    <3>10. w = [x EXCEPT !.started = TRUE, !.stop = stop, !.usage = cost, !.bad = bad]
        BY <2>1, <2>3, <3>1, <3>2, <3>3, <3>5, <3>8, <3>9 DEF ReadOpenAI
    <3>11. Charted(x, stop, cost, bad, w)
        BY <3>4, <3>10, ChunkFields
    <3>6. w.crossed = x.crossed
        BY <3>11 DEF Charted
    <3>7. QED
        BY <3>4, <3>6
  <2>4. QED
      BY <2>2, <2>3
<1>5. CASE p = "responses"
  <2>1. w = ReadResponses(v, f)
      BY <1>5 DEF Read
  <2>2. CASE f.type = "response.output_item.added"
    <3>1. w = Begun(v, f) /\ f.kind \in Kinds
        BY <2>1, <2>2 DEF ReadResponses, FrameKind
    <3>2. QED
        BY <1>3, <3>1
  <2>3. CASE f.type = "response.delta"
    <3>1. w = Extended(v, f.index, f)
        BY <2>1, <2>3 DEF ReadResponses
    <3>2. QED
        BY <1>2, <3>1
  <2>4. CASE f.type = "response.output_item.done"
    <3>1. w = Closed(v, f)
        BY <2>1, <2>4 DEF ReadResponses
    <3>2. Shut(v, f, w)
        BY <3>1, ClosedBlocks
    <3>3. CASE f.index \in Open(v)
        BY <3>2, <3>3 DEF Shut
    <3>4. CASE f.index \notin Open(v)
      <4>1. w = [v EXCEPT !.bad = TRUE]
          BY <3>2, <3>4 DEF Shut
      <4>2. QED
          BY <4>1 DEF IsView
    <3>5. QED
        BY <3>3, <3>4
  <2>5. CASE f.type \notin {"response.output_item.added", "response.delta", "response.output_item.done"}
    <3>1. \/ w = [v EXCEPT !.started = TRUE, !.bad = @ \/ v.started]
          \/ w = [v EXCEPT !.stop = f.stop, !.usage = f.usage, !.ends = @ + 1, !.bad = @ \/ Open(v) # {}]
          \/ w = [v EXCEPT !.error = TRUE, !.ends = @ + 1]
          \/ w = [v EXCEPT !.bad = TRUE]
        BY <2>1, <2>5 DEF ReadResponses, Ended
    <3>2. QED
        BY <3>1 DEF IsView
  <2>6. QED
      BY <2>2, <2>3, <2>4, <2>5
<1>6. QED
    BY <1>4, <1>5

\* The streams that are not followed to the letter: calls that cross, for a
\* client of Anthropic, and the finish that an OpenAI upstream's error is
\* followed by.
Excused == Client = "anthropic" /\ (said.crossed \/ (Up = "openai" /\ said.error))

\* The inductive invariant: the renderer and the client agree on what is open,
\* with what the reader knows of the upstream's message.
FormInv ==
    /\ UsageInv
    /\ result \in {"waiting", "refused"} => seen = View /\ renderer = Renderer[Client]
    /\ ~Native /\ (route.stream => ~Excused) => seen.bad = FALSE
    /\ route.stream /\ ~Native /\ ~Excused =>
          /\ result = "none" => FromUp(Up, Client, said, reader, [rn |-> renderer, seen |-> seen])
          /\ result \in {"complete", "idle", "unread"} => seen.ends = 1
-----------------------------------------------------------------------------
\* A conversation begins with nothing shown.
LEMMA FormInit == ConversationInit => FormInv
<1> SUFFICES ASSUME ConversationInit
             PROVE  FormInv
    OBVIOUS
<1>1. UsageInv
    BY UsageInit
<1>2. result = "waiting" /\ seen = View /\ renderer = Renderer[Client] /\ View.bad = FALSE
    BY DEF ConversationInit, View
<1>3. QED
    BY <1>1, <1>2 DEF FormInv

\* Before an answer, nothing is shown to the client.
LEMMA FormAnew ==
    ASSUME UsageInv', result' \in {"waiting", "refused"}, seen' = View, renderer' = Renderer[Client']
    PROVE  FormInv'
<1>1. View.bad = FALSE
    BY DEF View
<1>2. QED
    BY <1>1 DEF FormInv

\* A step after which the same has been said and shown.
LEMMA FormSame ==
    ASSUME FormInv, UsageInv', UNCHANGED <<route, said, reader, renderer, seen>>,
           result' = result \/ (~route.stream /\ result' = "unread")
    PROVE  FormInv'
<1>1. Up' = Up /\ Client' = Client /\ Native' = Native
    BY DEF Up, Client, Native
<1>2. Excused' = Excused
    BY <1>1 DEF Excused
<1>3. CASE result' = result
    BY <1>1, <1>2, <1>3 DEF FormInv
<1>4. CASE ~route.stream /\ result' = "unread"
    BY <1>1, <1>2, <1>4 DEF FormInv
<1>5. QED
    BY <1>3, <1>4

\* The relay begins with its preamble.
LEMMA FormAccepted ==
    ASSUME FormInv, UsageInv', Accepted
    PROVE  FormInv'
<1>1. /\ result = "waiting" /\ result' = "none" /\ seen' = Preamble
      /\ route' = route /\ said' = said /\ reader' = reader /\ renderer' = renderer
    BY DEF Accepted
<1>2. /\ said = View /\ reader = Reader[Up] /\ renderer = Renderer[Client]
      /\ route \in [up : Upstreams, client : Clients, stream : BOOLEAN]
    BY <1>1 DEF FormInv, UsageInv
<1>3. Up \in Protocols /\ Client \in Protocols /\ Up' = Up /\ Client' = Client /\ Native' = Native
    BY <1>1, <1>2, ProtocolsAssumption DEF Up, Client, Native
<1>4. View.bad = FALSE /\ ~View.crossed /\ ~View.error
    BY DEF View
<1>5. CASE route.stream /\ ~Native
  <2>1. PICK s : s = seen'
      OBVIOUS
  <2>2. StartFrames(Client) = IF Client = "anthropic" THEN <<Frame("message_start")>> ELSE <<>>
      BY DEF StartFrames
  <2>3. s = ReadAll(Client, View, IF Client = "anthropic" THEN <<Frame("message_start")>> ELSE <<>>)
      BY <1>1, <1>5, <2>1, <2>2, Zenon DEF Preamble
  <2>4. PICK st : st = [rn |-> Renderer[Client], seen |-> s]
      OBVIOUS
  <2>5. FromUp(Up, Client, View, Reader[Up], st)
      BY <1>3, <2>3, <2>4, RelayBegins
  <2>6. Going(Client, st)
      BY <1>3, <2>3, <2>4, PreambleShown
  <2>7. s.bad = FALSE
      BY <2>4, <2>6 DEF Going, Running
  <2>8. [rn |-> renderer', seen |-> seen'] = st
      BY <1>1, <1>2, <2>1, <2>4
  <2>9. FromUp(Up', Client', said', reader', [rn |-> renderer', seen |-> seen'])
      BY <1>1, <1>2, <1>3, <2>5, <2>8
  <2>10. QED
      BY <1>1, <1>3, <2>1, <2>7, <2>9 DEF FormInv
<1>6. CASE ~(route.stream /\ ~Native)
  <2>1. seen' = View
      BY <1>1, <1>6, ReadOne DEF Preamble
  <2>2. QED
      BY <1>1, <1>3, <1>4, <1>6, <2>1 DEF FormInv
<1>7. QED
    BY <1>5, <1>6

\* A body is no message in parts.
LEMMA FormOfBody ==
    ASSUME FormInv, UsageInv', NEW lost \in BOOLEAN, BodyRelayed(lost)
    PROVE  FormInv'
<1>1. /\ ~route.stream /\ route' = route /\ result' \in {"unwritten", "complete"}
      /\ seen' = seen \/ Native \/ seen' = EncodeResponse(Client, DecodeResponse(Up, said))
    BY DEF BodyRelayed
<1>2. Up' = Up /\ Client' = Client /\ Native' = Native
    BY <1>1 DEF Up, Client, Native
<1>3. \A p, resp : EncodeResponse(p, resp).bad = FALSE
  <2> TAKE p, resp
  <2>1. \E x, y, z : \/ EncodeResponse(p, resp) = [View EXCEPT !.error = TRUE, !.ends = 1]
                     \/ EncodeResponse(p, resp) = [View EXCEPT !.blocks = x, !.stop = y, !.usage = z, !.ends = 1]
      BY DEF EncodeResponse
  <2>2. QED
      BY <2>1 DEF View
<1>4. ~Native => seen'.bad = FALSE
    BY <1>1, <1>3 DEF FormInv
<1>5. QED
    BY <1>1, <1>2, <1>4 DEF FormInv
-----------------------------------------------------------------------------
\* What is excused stays excused.
LEMMA ExcusedKept ==
    ASSUME FormInv, NEW lost \in BOOLEAN, NEW f \in Sends(Up, said), Line(f, lost), ~Native, Excused
    PROVE  Excused'
<1>1. route' = route /\ said' = Read(Up, said, f)
    BY DEF Line
<1>2. Up \in Protocols /\ Up' = Up /\ Client' = Client /\ SaidUsage(Up, said)
    BY <1>1, ProtocolsAssumption DEF FormInv, UsageInv, Up, Client
<1>3. said.ends = 0 /\ FrameKind(f) /\ IsView(said) /\ BlocksOK(said)
    BY <1>2, SaidKept DEF SaidUsage
<1>4. Up = "openai" => ~said.error
    BY <1>2, SaidKept, OpenAIForms DEF OpenAISends
<1>5. Up \in {"openai", "responses"} /\ Client = "anthropic" /\ said.crossed
    BY <1>2, <1>4 DEF Excused, Native, Protocols
<1>6. said'.crossed
    BY <1>1, <1>3, <1>5, CrossedKept
<1>7. QED
    BY <1>2, <1>5, <1>6 DEF Excused

\* A line is conveyed, from any upstream to any client.
LEMMA LineConveyed ==
    ASSUME NEW up \in Protocols, NEW p \in Protocols, p # up, NEW v, SaidUsage(up, v), NEW f \in Sends(up, v),
           NEW w, w = Read(up, v, f), ~(p = "anthropic" /\ (w.crossed \/ (up = "openai" /\ w.error))),
           NEW rd, ReaderInv(up, v, rd),
           NEW rn, NEW s, NEW st, st = [rn |-> rn, seen |-> s], FromUp(up, p, v, rd, st),
           NEW step, step = IF f.type = "[DONE]" THEN Step(rd, <<>>) ELSE Feed(up, rd, f),
           NEW to, to = Shown(p, st, step.out)
    PROVE  FromUp(up, p, w, step.machine, to)
<1>1. v.ends = 0 /\ FrameKind(f) /\ IsView(v) /\ BlocksOK(v)
    BY SaidKept DEF SaidUsage
<1>2. CASE up = "openai"
  <2>1. OpenAISends(v, f)
      BY <1>2, SaidKept, OpenAIForms
  <2>2. step = IF f.type = "[DONE]" THEN Step(rd, <<>>) ELSE FeedOpenAI(rd, f)
      BY <1>2 DEF Feed
  <2>3. p \in {"anthropic", "responses"} /\ FromOpenAIUp(p, v, rd, st) /\ w = Read("openai", v, f)
      BY <1>2 DEF Protocols, FromUp
  <2>4. ~(p = "anthropic" /\ (w.crossed \/ w.error))
      BY <1>2
  <2>5. FromOpenAIUp(p, w, step.machine, to)
      BY <1>1, <2>1, <2>2, <2>3, <2>4, OpenAIConveyed
  <2>6. QED
      BY <1>2, <2>5 DEF FromUp
<1>3. CASE up = "anthropic"
  <2>1. AnthropicSays(v, f, w)
      BY <1>3, SaidKept
  <2>2. AnthropicSends(v, f)
    <3>1. f \in FromAnthropic(v)
        BY <1>3, SaidKept
    <3>2. QED
        BY <3>1, AnthropicForms
  <2>3. step = FeedAnthropic(rd, f)
      BY <1>3, <2>1 DEF Feed, AnthropicSays
  <2>4. p \in {"openai", "responses"} /\ FromAnthropicUp(p, v, rd, st) /\ w = Read("anthropic", v, f)
      BY <1>3 DEF Protocols, FromUp
  <2>5. SaidUsage("anthropic", v) /\ ReaderInv("anthropic", v, rd)
      BY <1>3
  <2>6. FromAnthropicUp(p, w, step.machine, to)
      BY <1>1, <2>1, <2>2, <2>3, <2>4, <2>5, AnthropicConveyed
  <2>7. QED
      BY <1>3, <2>6 DEF FromUp
<1>4. CASE up = "responses"
  <2>1. ResponsesSays(v, f, w)
      BY <1>4, SaidKept
  <2>2. ResponsesSends(v, f)
      BY <1>4, SaidKept, ResponsesForms
  <2>3. step = FeedResponses(rd, f)
      BY <1>4, <2>1 DEF Feed, ResponsesSays
  <2>4. p \in {"openai", "anthropic"} /\ FromResponsesUp(p, v, rd, st) /\ w = Read("responses", v, f)
      BY <1>4 DEF Protocols, FromUp
  <2>5. SaidUsage("responses", v) /\ ReaderInv("responses", v, rd) /\ (p = "anthropic" => ~w.crossed)
      BY <1>4
  <2>6. FromResponsesUp(p, w, step.machine, to)
      BY <1>1, <2>1, <2>2, <2>3, <2>4, <2>5, ResponsesConveyed
  <2>7. QED
      BY <1>4, <2>6 DEF FromUp
<1>5. QED
    BY <1>2, <1>3, <1>4 DEF Protocols

\* A line of a stream is shown to the client.
LEMMA FormOfLine ==
    ASSUME FormInv, UsageInv', NEW lost \in BOOLEAN, NEW f \in Sends(Up, said), Line(f, lost)
    PROVE  FormInv'
<1>1. /\ route.stream /\ result = "none" /\ route' = route
      /\ said' = Read(Up, said, f) /\ result' \in {"none", "unwritten"}
      /\ ~Native => ConvertLine(f, lost)
    BY DEF Line, PassLine, ConvertLine
<1>2. Up \in Protocols /\ Client \in Protocols /\ Up' = Up /\ Client' = Client /\ Native' = Native
    BY <1>1, ProtocolsAssumption DEF FormInv, UsageInv, Up, Client, Native
<1>3. CASE Native \/ Excused'
    BY <1>1, <1>2, <1>3 DEF FormInv
<1>4. CASE ~Native /\ ~Excused'
  <2>1. ~Excused
      BY <1>4, ExcusedKept
  <2>2. PICK st : st = [rn |-> renderer, seen |-> seen]
      OBVIOUS
  <2>3. FromUp(Up, Client, said, reader, st) /\ seen.bad = FALSE
      BY <1>1, <1>4, <2>1, <2>2 DEF FormInv
  <2>4. SaidUsage(Up, said) /\ ReaderInv(Up, said, reader) /\ Client # Up
      BY <1>1, <1>4 DEF FormInv, UsageInv, Native
  <2>5. PICK step : step = Fed(f)
      OBVIOUS
  <2>6. step = IF f.type = "[DONE]" THEN Step(reader, <<>>) ELSE Feed(Up, reader, f)
      BY <2>5 DEF Fed
  <2>7. PICK all : all = RenderAll(Client, renderer, step.out)
      OBVIOUS
  <2>8. PICK to : to = Shown(Client, st, step.out)
      OBVIOUS
  <2>9. to = [rn |-> all.machine, seen |-> ReadAll(Client, seen, all.out)]
      BY <2>2, <2>7, <2>8 DEF Shown
  <2>10. ~(Client = "anthropic" /\ (said'.crossed \/ (Up = "openai" /\ said'.error)))
      BY <1>2, <1>4 DEF Excused
  <2>11. FromUp(Up, Client, said', step.machine, to)
    <3>1. PICK w : w = said'
        OBVIOUS
    <3>2. w = Read(Up, said, f) /\ ~(Client = "anthropic" /\ (w.crossed \/ (Up = "openai" /\ w.error)))
        BY <1>1, <2>10, <3>1
    <3>3. FromUp(Up, Client, w, step.machine, to)
        BY <1>2, <2>2, <2>3, <2>4, <2>6, <2>8, <3>2, LineConveyed
    <3>4. QED
        BY <3>1, <3>3
  <2>12. /\ reader' = step.machine /\ renderer' = all.machine
         /\ \/ result' = "unwritten" /\ seen' = seen
            \/ seen' = ReadAll(Client, seen, all.out)
      BY <1>1, <1>4, <2>5, <2>7 DEF ConvertLine
  <2>13. to.seen.bad = FALSE
    <3>1. Going(Client, to) \/ Over(to)
        BY <1>2, <2>11, NothingBad
    <3>2. QED
        BY <3>1 DEF Going, Over, Running
  <2>14. CASE result' = "unwritten" /\ seen' = seen
      BY <1>1, <1>2, <2>3, <2>14 DEF FormInv
  <2>15. CASE seen' = ReadAll(Client, seen, all.out)
    <3>1. [rn |-> renderer', seen |-> seen'] = to /\ seen' = to.seen
        BY <2>9, <2>12, <2>15
    <3>2. FromUp(Up', Client', said', reader', [rn |-> renderer', seen |-> seen'])
        BY <1>2, <2>11, <2>12, <3>1
    <3>3. QED
        BY <1>1, <1>2, <2>13, <3>1, <3>2 DEF FormInv
  <2>16. QED
      BY <2>12, <2>14, <2>15
<1>5. QED
    BY <1>3, <1>4

\* The stream is over, and the client's message ends.
LEMMA FormOfEnd ==
    ASSUME FormInv, UsageInv', NEW end \in {"eof", "broken"}, StreamEnds(end)
    PROVE  FormInv'
<1>1. /\ route.stream /\ result = "none" /\ route' = route /\ said' = said
      /\ result' \in {"unwritten", "idle", "complete", "unread"}
      /\ cancelled => result' = "unwritten"
    BY DEF StreamEnds, Classified
<1>2. Up \in Protocols /\ Client \in Protocols /\ Up' = Up /\ Client' = Client /\ Native' = Native
    BY <1>1, ProtocolsAssumption DEF FormInv, UsageInv, Up, Client, Native
<1>3. Excused' = Excused
    BY <1>1, <1>2 DEF Excused
<1>4. CASE Native \/ Excused
    BY <1>1, <1>2, <1>3, <1>4 DEF FormInv
<1>5. CASE ~Native /\ ~Excused
  <2>1. PICK st : st = [rn |-> renderer, seen |-> seen]
      OBVIOUS
  <2>2. FromUp(Up, Client, said, reader, st) /\ seen.bad = FALSE /\ ReaderInv(Up, said, reader)
      BY <1>1, <1>5, <2>1 DEF FormInv, UsageInv
  <2>3. PICK out : out = FinishRead(Up, reader).out
      OBVIOUS
  <2>4. Owed(Client, st, out)
      BY <1>2, <2>2, <2>3, FinishOwed
  <2>5. PICK all : all = RenderAll(Client, renderer, out)
      OBVIOUS
  <2>6. PICK w : w = ReadAll(Client, seen, all.out \o Done(Client, all.machine).out)
      OBVIOUS
  <2>7. w.bad = FALSE /\ w.ends = 1
      BY <1>2, <2>1, <2>4, <2>5, <2>6, EndShown
  <2>8. seen' = w \/ (cancelled /\ seen' = seen)
      BY <1>5, <2>3, <2>5, <2>6, Zenon DEF StreamEnds
  <2>9. seen'.bad = FALSE /\ (result' # "unwritten" => seen'.ends = 1)
      BY <1>1, <2>2, <2>7, <2>8
  <2>10. QED
      BY <1>1, <1>2, <1>3, <2>9 DEF FormInv
<1>6. QED
    BY <1>4, <1>5

\* Every step keeps the invariant.
LEMMA FormNext == FormInv /\ [ConversationNext]_conversationVars => FormInv'
<1> SUFFICES ASSUME FormInv, [ConversationNext]_conversationVars
             PROVE  FormInv'
    OBVIOUS
<1>1. UsageInv'
    BY UsageNext DEF FormInv
<1>2. ASSUME NEW up \in Upstreams, Attempt(up)
      PROVE  FormInv'
  <2>1. route' = [route EXCEPT !.up = up] /\ result = "waiting" /\ result' \in {"waiting", "refused"}
        /\ seen' = seen /\ renderer' = renderer
      BY <1>2 DEF Attempt
  <2>2. seen = View /\ renderer = Renderer[Client] /\ route \in [up : Upstreams, client : Clients, stream : BOOLEAN]
      BY <2>1 DEF FormInv, UsageInv
  <2>3. Client' = Client
      BY <2>1, <2>2 DEF Client
  <2>4. QED
      BY <1>1, <2>1, <2>2, <2>3, FormAnew
<1>3. CASE Accepted
    BY <1>1, <1>3, FormAccepted
<1>4. ASSUME NEW lost \in BOOLEAN, BodyRelayed(lost)
      PROVE  FormInv'
    BY <1>1, <1>4, FormOfBody
<1>5. ASSUME NEW lost \in BOOLEAN, NEW f \in Sends(Up, said), Line(f, lost)
      PROVE  FormInv'
    BY <1>1, <1>5, FormOfLine
<1>6. ASSUME NEW f \in Sends(Up, said), Prepares(f)
      PROVE  FormInv'
  <2>1. ~route.stream /\ route' = route /\ seen' = seen /\ result' = "none"
      BY <1>6 DEF Prepares
  <2>2. Native' = Native
      BY <2>1 DEF Up, Client, Native
  <2>3. QED
      BY <1>1, <2>1, <2>2 DEF FormInv
<1>7. ASSUME NEW end \in {"eof", "broken"}, StreamEnds(end)
      PROVE  FormInv'
    BY <1>1, <1>7, FormOfEnd
<1>8. CASE BodyUnread \/ HangUp \/ IdleTimeout \/ UNCHANGED conversationVars
    BY <1>1, <1>8, FormSame DEF BodyUnread, HangUp, IdleTimeout, conversationVars
<1>9. ASSUME NEW rest, NEW image, NEW format, NEW order, Replies(order, rest, image, format)
      PROVE  FormInv'
  <2>1. seen' = View /\ renderer' = Renderer[Client] /\ result' = "waiting" /\ Client' = Client
      BY <1>9 DEF Replies, Client
  <2>2. QED
      BY <1>1, <2>1, FormAnew
<1>10. QED
    BY <1>2, <1>3, <1>4, <1>5, <1>6, <1>7, <1>8, <1>9 DEF ConversationNext, Relays, Next

\* The client's stream is in its form, and what is not followable is excused.
LEMMA FormIsKept == FormInv => ClientStreamWellFormed
<1> SUFFICES ASSUME FormInv, ~Native, Followable, ~(Up = "openai" /\ Client = "anthropic" /\ said.error)
             PROVE  ~seen.bad /\ (route.stream /\ result \in {"complete", "idle", "unread"} => seen.ends = 1)
    BY DEF ClientStreamWellFormed
<1>1. route.stream => ~Excused
    BY DEF Followable, Excused
<1>2. QED
    BY <1>1 DEF FormInv

\* For every set of protocols and conversations of any length: a converted
\* stream obeys the client's protocol at every frame and has exactly one end,
\* but where calls cross or an error is followed by a finish (Feed, Frame,
\* Finish and Done of sse.go, relayConvertedStream).
THEOREM ClientStreamWellFormedAlways == ConversationSpec => []ClientStreamWellFormed
<1>1. ConversationInit => FormInv
    BY FormInit
<1>2. FormInv /\ [ConversationNext]_conversationVars => FormInv'
    BY FormNext
<1>3. FormInv => ClientStreamWellFormed
    BY FormIsKept
<1>4. QED
    BY <1>1, <1>2, <1>3, PTL DEF ConversationSpec
-----------------------------------------------------------------------------
(***************************************************************************)
(* Third part: what the client of an answer is told of how it ended.       *)
(* Frames that say nothing of it leave a view as it is, a frame that does  *)
(* sets what it says, and so the client has been told what the reader has  *)
(* read, but for what the reader keeps until the end.                      *)
(***************************************************************************)
\* A view that says the same of how the message ends.
SameVerdict(v, w) ==
    IsView(w) /\ w.stop = v.stop /\ w.usage = v.usage /\ w.error = v.error /\ w.ends = v.ends

\* A frame that does not tell how a message ends.
QuietFrame(p, f) ==
    /\ p = "openai" => f.type = "chunk" /\ f.stop = "none" /\ f.usage = NoUsage
    /\ p = "anthropic" => f.type \in {"ping", "content_block_start", "content_block_delta", "content_block_stop"}
    /\ p = "responses" => f.type \in {"response.created", "response.output_item.added", "response.delta",
                                      "response.output_item.done"}

\* A quiet frame is read as such.
LEMMA QuietRead ==
    ASSUME NEW p \in Protocols, NEW v, IsView(v), v.ends = 0, NEW f, QuietFrame(p, f), NEW w, w = Read(p, v, f)
    PROVE  SameVerdict(v, w)
<1>1. CASE p = "openai"
  <2>1. w = ReadOpenAI(v, f) /\ f.type = "chunk" /\ f.stop = "none" /\ f.usage = NoUsage
      BY <1>1 DEF Read, QuietFrame
  <2>2. PICK x : x = IF f.kind = "none" THEN v
                     ELSE IF Has(v, ChatKey(f)) THEN Extended(v, ChatKey(f), f)
                          ELSE Begun(v, [f EXCEPT !.index = ChatKey(f)])
      OBVIOUS
  <2>3. SameEnd(v, x)
    <3>1. SameEnd(v, v)
        BY DEF SameEnd
    <3>2. QED
        BY <2>2, <3>1, BlocksKeepEnd
  <2>4. PICK bad : bad = (x.bad \/ (f.stop # "none" /\ v.stop # "none"))
      OBVIOUS
  <2>5. w = [x EXCEPT !.started = TRUE, !.stop = @, !.usage = @, !.bad = bad]
      BY <2>1, <2>2, <2>4 DEF ReadOpenAI, ChatKey
  <2>6. w = [x EXCEPT !.started = TRUE, !.stop = x.stop, !.usage = x.usage, !.bad = bad]
      BY <2>5
  <2>7. Charted(x, x.stop, x.usage, bad, w)
      BY <2>3, <2>6, ChunkFields DEF SameEnd
  <2>8. QED
      BY <2>3, <2>7 DEF SameEnd, Charted, SameVerdict
<1>2. ASSUME NEW x, SameEnd(v, x)
      PROVE  SameVerdict(v, x)
    BY <1>2 DEF SameEnd, SameVerdict
<1>3. SameVerdict(v, v) /\ SameVerdict(v, [v EXCEPT !.bad = TRUE])
  <2>1. SameVerdict(v, v)
      BY DEF SameVerdict
  <2>2. PICK x : x = [v EXCEPT !.bad = TRUE]
      OBVIOUS
  <2>3. SameEnd(v, x)
      BY <2>2 DEF SameEnd, IsView
  <2>4. QED
      BY <1>2, <2>1, <2>2, <2>3
<1>4. CASE p = "anthropic"
  <2>1. w = ReadAnthropic(v, f)
      BY <1>4 DEF Read
  <2>2. w \in {v, [v EXCEPT !.bad = TRUE], Begun(v, f), Extended(v, f.index, f), Closed(v, f)}
      BY <1>4, <2>1 DEF ReadAnthropic, QuietFrame
  <2>3. QED
      BY <1>2, <1>3, <2>2, BlocksKeepEnd
<1>5. CASE p = "responses"
  <2>1. w = ReadResponses(v, f)
      BY <1>5 DEF Read
  <2>2. \/ w \in {Begun(v, f), Extended(v, f.index, f), Closed(v, f)}
        \/ \E bad : w = [v EXCEPT !.started = TRUE, !.bad = bad]
      BY <1>5, <2>1 DEF ReadResponses, QuietFrame
  <2>3. ASSUME NEW bad
        PROVE  SameVerdict(v, [v EXCEPT !.started = TRUE, !.bad = bad])
    <3>1. PICK x : x = [v EXCEPT !.started = TRUE, !.bad = bad]
        OBVIOUS
    <3>2. x = [blocks |-> v.blocks, at |-> v.at, crossed |-> v.crossed, started |-> TRUE, stop |-> v.stop,
               usage |-> v.usage, error |-> v.error, ends |-> v.ends, bad |-> bad]
        BY <3>1 DEF IsView
    <3>3. x.stop = v.stop /\ x.usage = v.usage /\ x.error = v.error /\ x.ends = v.ends
        BY <3>2
    <3>4. IsView(x)
        BY <3>2 DEF IsView
    <3>5. QED
        BY <3>1, <3>3, <3>4 DEF SameVerdict
  <2>4. QED
      BY <1>2, <2>2, <2>3, BlocksKeepEnd
<1>6. QED
    BY <1>1, <1>4, <1>5 DEF Protocols

\* ... and rows of them.
QuietRow(p, out) == Row(out) /\ \A i \in 1..Len(out) : QuietFrame(p, out[i])

\* Quiet rows from quiet rows.
LEMMA QuietMade ==
    ASSUME NEW p
    PROVE  /\ QuietRow(p, <<>>)
           /\ \A f : QuietFrame(p, f) => QuietRow(p, <<f>>)
           /\ \A a, b : QuietRow(p, a) /\ QuietRow(p, b) => QuietRow(p, a \o b)
           /\ \A a, f : QuietRow(p, a) /\ QuietFrame(p, f) => QuietRow(p, Append(a, f))
<1>1. QuietRow(p, <<>>)
    BY RowOfFew DEF QuietRow
<1>2. ASSUME NEW f, QuietFrame(p, f)
      PROVE  QuietRow(p, <<f>>)
    BY <1>2, RowOfFew DEF QuietRow
<1>3. ASSUME NEW a, NEW b, QuietRow(p, a), QuietRow(p, b)
      PROVE  QuietRow(p, a \o b)
  <2>1. Row(a \o b) /\ Row(a) /\ Row(b)
      BY <1>3, RowsMade DEF QuietRow
  <2>2. PICK S : a \in Seq(S)
      BY <2>1 DEF Row
  <2>3. PICK R : b \in Seq(R)
      BY <2>1 DEF Row
  <2>4. ASSUME NEW i \in 1..Len(a \o b)
        PROVE  QuietFrame(p, (a \o b)[i])
    <3>1. CASE i <= Len(a)
      <4>1. (a \o b)[i] = a[i] /\ i \in 1..Len(a)
          BY <2>2, <2>3, <3>1
      <4>2. QED
          BY <1>3, <4>1 DEF QuietRow
    <3>2. CASE i > Len(a)
      <4>1. (a \o b)[i] = b[i - Len(a)] /\ i - Len(a) \in 1..Len(b)
          BY <2>2, <2>3, <3>2
      <4>2. QED
          BY <1>3, <4>1 DEF QuietRow
    <3>3. QED
        BY <2>2, <2>3, <3>1, <3>2
  <2>5. QED
      BY <2>1, <2>4 DEF QuietRow
<1>4. ASSUME NEW a, NEW f, QuietRow(p, a), QuietFrame(p, f)
      PROVE  QuietRow(p, Append(a, f))
  <2>1. PICK S : a \in Seq(S)
      BY <1>4 DEF QuietRow, Row
  <2>2. Append(a, f) = a \o <<f>>
      BY <2>1
  <2>3. QED
      BY <1>2, <1>3, <1>4, <2>2
<1>5. QED
    BY <1>1, <1>2, <1>3, <1>4

\* However many they are.
LEMMA QuietRowRead ==
    ASSUME NEW p \in Protocols, NEW v, IsView(v), v.ends = 0, NEW out, QuietRow(p, out)
    PROVE  SameVerdict(v, ReadAll(p, v, out))
<1>1. PICK S : out \in Seq(S)
    BY DEF QuietRow, Row
<1>2. PICK c : Views(p, v, out, c)
    BY <1>1, ReadStep
<1> DEFINE T == {m \in Nat : m <= Len(out) => SameVerdict(v, c[m])}
<1>3. 0 \in T
    BY <1>2 DEF Views, SameVerdict
<1>4. ASSUME NEW m \in Nat, m \in T
      PROVE  m + 1 \in T
  <2>1. SUFFICES ASSUME m + 1 <= Len(out)
                 PROVE  SameVerdict(v, c[m + 1])
      OBVIOUS
  <2>2. m + 1 \in 1..Len(out) /\ (m + 1) - 1 = m /\ m <= Len(out)
      BY <1>1, <2>1
  <2>3. c[m + 1] = Read(p, c[m], out[m + 1]) /\ QuietFrame(p, out[m + 1])
      BY <1>2, <2>2 DEF Views, QuietRow
  <2>4. SameVerdict(v, c[m])
      BY <1>4, <2>2
  <2>5. IsView(c[m]) /\ c[m].ends = 0
      BY <2>4 DEF SameVerdict
  <2>6. SameVerdict(c[m], c[m + 1])
      BY <2>3, <2>5, QuietRead
  <2>7. QED
      BY <2>4, <2>6 DEF SameVerdict
<1> HIDE DEF T
<1>5. T = Nat
  <2>1. T \subseteq Nat
      BY DEF T
  <2>2. QED
      BY <1>3, <1>4, <2>1, FirstOut
<1>6. Len(out) \in Nat
    BY <1>1
<1>7. SameVerdict(v, c[Len(out)])
    BY <1>5, <1>6 DEF T
<1>8. QED
    BY <1>2, <1>7 DEF Views

\* An event in the middle of a message.
Midway(ev) == ev.kind \notin {"finish", "error"}

\* A block or an item is closed quietly.
LEMMA ClosedQuietly == \A rn : QuietRow("anthropic", CloseBlock(rn).out) /\ QuietRow("responses", CloseItem(rn).out)
<1> TAKE rn
<1>1. QuietRow("anthropic", CloseBlock(rn).out)
  <2>1. PICK f : f = Part("content_block_stop", rn.nextIndex - 1, "none", 0, <<>>)
      OBVIOUS
  <2>2. QuietFrame("anthropic", f)
      BY <2>1, PartForm DEF QuietFrame, Wire
  <2>3. CloseBlock(rn).out = <<>> \/ CloseBlock(rn).out = <<f>>
      BY <2>1 DEF CloseBlock, Step
  <2>4. QED
      BY <2>2, <2>3, QuietMade
<1>2. QuietRow("responses", CloseItem(rn).out)
  <2>1. PICK f : f = Part("response.output_item.done", rn.nextIndex - 1, rn.open, rn.id, rn.text)
      OBVIOUS
  <2>2. QuietFrame("responses", f)
      BY <2>1, PartForm DEF QuietFrame, Wire
  <2>3. CloseItem(rn).out = <<>> \/ CloseItem(rn).out = <<f>>
      BY <2>1 DEF CloseItem, Step
  <2>4. QED
      BY <2>2, <2>3, QuietMade
<1>3. QED
    BY <1>1, <1>2

\* It is rendered as quiet frames.
LEMMA QuietEvent ==
    ASSUME NEW p \in Protocols, NEW rn, NEW ev, Midway(ev)
    PROVE  QuietRow(p, Render(p, rn, ev).out)
<1>1. CASE p = "openai"
  <2>1. \A index, kind, id, ps : QuietFrame(p, Part("chunk", index, kind, id, ps)) /\ QuietFrame(p, Frame("chunk"))
      BY <1>1, FrameForm, PartForm DEF QuietFrame, Wire
  <2>2. \/ Render(p, rn, ev).out = <<>>
        \/ Render(p, rn, ev).out = <<Frame("chunk")>>
        \/ \E index, kind, id, ps : Render(p, rn, ev).out = <<Part("chunk", index, kind, id, ps)>>
      BY <1>1 DEF Render, RenderOpenAI, Step, Midway
  <2>3. QED
      BY <2>1, <2>2, QuietMade
<1>2. CASE p = "anthropic"
  <2>1. \A type, index, kind, id, ps :
           type \in {"content_block_start", "content_block_delta", "content_block_stop"} =>
              QuietFrame(p, Part(type, index, kind, id, ps))
      BY <1>2, PartForm DEF QuietFrame, Wire
  <2>2. QuietFrame(p, Frame("ping"))
      BY <1>2, FrameForm DEF QuietFrame, Wire
  <2>3. QuietRow(p, CloseBlock(rn).out)
      BY <1>2, ClosedQuietly
  <2>4. \A kind, id : QuietRow(p, StartBlock(rn, kind, id).out) /\ QuietRow(p, OpenBlock(rn, kind).out)
    <3>1. \A kind, id : QuietRow(p, StartBlock(rn, kind, id).out)
      <4>1. TAKE kind, id
      <4>2. PICK f : f = Part("content_block_start", rn.nextIndex, kind, id, <<>>)
          OBVIOUS
      <4>3. StartBlock(rn, kind, id).out = CloseBlock(rn).out \o <<f>>
          BY <4>2 DEF StartBlock, Step
      <4>4. QuietFrame(p, f)
          BY <2>1, <4>2
      <4>5. QuietRow(p, <<f>>)
          BY <4>4, QuietMade
      <4>6. QED
          BY <2>3, <4>3, <4>5, QuietMade
    <3>2. \A kind : OpenBlock(rn, kind).out = <<>> \/ OpenBlock(rn, kind) = StartBlock(rn, kind, 0)
        BY DEF OpenBlock, Step
    <3>3. QED
        BY <3>1, <3>2, QuietMade
  <2>5. \A step, kind, ps : QuietRow(p, step.out) => QuietRow(p, BlockDelta(step, kind, ps).out)
    <3>1. \A step, kind, ps : \E f : /\ QuietFrame(p, f)
                                     /\ BlockDelta(step, kind, ps).out = Append(step.out, f)
        BY <2>1 DEF BlockDelta, Step
    <3>2. QED
        BY <3>1, QuietMade
  <2>6. QuietRow(p, Step(rn, <<>>).out) /\ QuietRow(p, Step(rn, <<Frame("ping")>>).out)
      BY <2>2, QuietMade DEF Step
  <2>7. \/ \E kind : RenderAnthropic(rn, ev) = BlockDelta(OpenBlock(rn, kind), kind, ev.pieces)
        \/ RenderAnthropic(rn, ev) = StartBlock(rn, "tool_use", ev.id)
        \/ RenderAnthropic(rn, ev) = BlockDelta(Step(rn, <<>>), "tool_use", ev.pieces)
        \/ RenderAnthropic(rn, ev) = Step(rn, <<Frame("ping")>>)
        \/ RenderAnthropic(rn, ev) = Step(rn, <<>>)
      BY DEF RenderAnthropic, Midway
  <2>8. QED
      BY <1>2, <2>4, <2>5, <2>6, <2>7 DEF Render
<1>3. CASE p = "responses"
  <2>1. \A type, index, kind, id, ps :
           type \in {"response.output_item.added", "response.delta", "response.output_item.done"} =>
              QuietFrame(p, Part(type, index, kind, id, ps))
      BY <1>3, PartForm DEF QuietFrame, Wire
  <2>2. QuietFrame(p, Frame("response.created"))
      BY <1>3, FrameForm DEF QuietFrame, Wire
  <2>3. QuietRow(p, CloseItem(rn).out)
      BY <1>3, ClosedQuietly
  <2>4. \A kind, id : QuietRow(p, AddItem(rn, kind, id).out) /\ QuietRow(p, EnsureOpen(rn, kind).out)
    <3>1. \A kind, id : QuietRow(p, AddItem(rn, kind, id).out)
      <4>1. TAKE kind, id
      <4>2. PICK f : f = Part("response.output_item.added", rn.nextIndex, kind, id, <<>>)
          OBVIOUS
      <4>3. AddItem(rn, kind, id).out = CloseItem(rn).out \o <<f>>
          BY <4>2 DEF AddItem, Step
      <4>4. QuietFrame(p, f)
          BY <2>1, <4>2
      <4>5. QuietRow(p, <<f>>)
          BY <4>4, QuietMade
      <4>6. QED
          BY <2>3, <4>3, <4>5, QuietMade
    <3>2. \A kind : EnsureOpen(rn, kind).out = <<>> \/ EnsureOpen(rn, kind) = AddItem(rn, kind, 0)
        BY DEF EnsureOpen, Step
    <3>3. QED
        BY <3>1, <3>2, QuietMade
  <2>5. \A step, kind, ps : QuietRow(p, step.out) => QuietRow(p, ItemDelta(step, kind, ps).out)
    <3>1. \A step, kind, ps : \E f : /\ QuietFrame(p, f)
                                     /\ ItemDelta(step, kind, ps).out = Append(step.out, f)
        BY <2>1 DEF ItemDelta, Step
    <3>2. QED
        BY <3>1, QuietMade
  <2>6. QuietRow(p, Step(rn, <<>>).out) /\ QuietRow(p, Step(rn, <<Frame("response.created")>>).out)
      BY <2>2, QuietMade DEF Step
  <2>7. \/ RenderResponses(rn, ev) = Step(rn, <<>>)
        \/ RenderResponses(rn, ev) = Step(rn, <<Frame("response.created")>>)
        \/ \E kind : RenderResponses(rn, ev) = ItemDelta(EnsureOpen(rn, kind), kind, ev.pieces)
        \/ RenderResponses(rn, ev) = AddItem(rn, "tool_use", ev.id)
        \/ RenderResponses(rn, ev) = CloseItem(rn)
      BY DEF RenderResponses, Midway
  <2>8. QED
      BY <1>3, <2>3, <2>4, <2>5, <2>6, <2>7 DEF Render
<1>4. QED
    BY <1>1, <1>2, <1>3 DEF Protocols

\* Events of which none ends the message.
Murmurs(evs) == Row(evs) /\ \A i \in 1..Len(evs) : Midway(evs[i])

\* They leave the verdict open.
LEMMA QuietShown ==
    ASSUME NEW p \in Protocols, NEW rn, NEW s, IsView(s), s.ends = 0, NEW evs, Murmurs(evs)
    PROVE  SameVerdict(s, ReadAll(p, s, RenderAll(p, rn, evs).out))
<1>1. PICK S : evs \in Seq(S)
    BY DEF Murmurs, Row
<1>2. PICK c : Rendered(p, rn, evs, c)
    BY <1>1, RenderStep
<1> DEFINE T == {m \in Nat : m <= Len(evs) => QuietRow(p, c[m].out)}
<1>3. 0 \in T
    BY <1>2, QuietMade DEF Rendered, Step
<1>4. ASSUME NEW m \in Nat, m \in T
      PROVE  m + 1 \in T
  <2>1. SUFFICES ASSUME m + 1 <= Len(evs)
                 PROVE  QuietRow(p, c[m + 1].out)
      OBVIOUS
  <2>2. m + 1 \in 1..Len(evs) /\ (m + 1) - 1 = m /\ m <= Len(evs)
      BY <1>1, <2>1
  <2>3. c[m + 1] = After(p, c[m], evs[m + 1]) /\ Midway(evs[m + 1])
      BY <1>2, <2>2 DEF Rendered, Murmurs
  <2>4. c[m + 1].out = c[m].out \o Render(p, c[m].machine, evs[m + 1]).out
    <3>1. PICK a, ev : a = c[m] /\ ev = evs[m + 1]
        OBVIOUS
    <3>2. After(p, a, ev).out = a.out \o Render(p, a.machine, ev).out
        BY DEF After, Step
    <3>3. c[m + 1] = After(p, a, ev)
        BY <2>3, <3>1
    <3>4. QED
        BY <3>1, <3>2, <3>3, Zenon
  <2>5. QuietRow(p, c[m].out)
      BY <1>4, <2>2
  <2>6. QuietRow(p, Render(p, c[m].machine, evs[m + 1]).out)
      BY <2>3, QuietEvent
  <2>7. QED
      BY <2>4, <2>5, <2>6, QuietMade
<1> HIDE DEF T
<1>5. T = Nat
  <2>1. T \subseteq Nat
      BY DEF T
  <2>2. QED
      BY <1>3, <1>4, <2>1, FirstOut
<1>6. Len(evs) \in Nat
    BY <1>1
<1>7. QuietRow(p, c[Len(evs)].out)
    BY <1>5, <1>6 DEF T
<1>8. QED
    BY <1>2, <1>7, QuietRowRead DEF Rendered
-----------------------------------------------------------------------------
\* The fields of a view that tell how its message ends.
Fields(v, stop, cost, error, ends, w) ==
    /\ IsView(w) /\ w.blocks = v.blocks
    /\ w.stop = stop /\ w.usage = cost /\ w.error = error /\ w.ends = ends

\* The view that has them.
ViewOf(v, stop, cost, error, ends, bad) ==
    [blocks |-> v.blocks, at |-> v.at, crossed |-> v.crossed, started |-> v.started, stop |-> stop,
     usage |-> cost, error |-> error, ends |-> ends, bad |-> bad]

\* Some of them set.
LEMMA FieldsSet ==
    ASSUME NEW v, IsView(v), NEW stop, NEW cost, NEW ends, NEW bad, NEW w
    PROVE  /\ w = [v EXCEPT !.stop = stop, !.usage = cost, !.bad = bad] => Fields(v, stop, cost, v.error, v.ends, w)
           /\ w = [v EXCEPT !.stop = stop, !.usage = cost, !.ends = ends, !.bad = bad] =>
                 Fields(v, stop, cost, v.error, ends, w)
           /\ w = [v EXCEPT !.ends = ends, !.bad = bad] => Fields(v, v.stop, v.usage, v.error, ends, w)
           /\ w = [v EXCEPT !.bad = bad, !.ends = ends] => Fields(v, v.stop, v.usage, v.error, ends, w)
           /\ w = [v EXCEPT !.ends = ends] => Fields(v, v.stop, v.usage, v.error, ends, w)
           /\ w = [v EXCEPT !.error = TRUE] => Fields(v, v.stop, v.usage, TRUE, v.ends, w)
           /\ w = [v EXCEPT !.error = TRUE, !.ends = ends] => Fields(v, v.stop, v.usage, TRUE, ends, w)
<1>1. ASSUME NEW x, NEW y, NEW e, NEW n, NEW b, w = ViewOf(v, x, y, e, n, b)
      PROVE  Fields(v, x, y, e, n, w)
  <2>1. w.blocks = v.blocks /\ w.stop = x /\ w.usage = y /\ w.error = e /\ w.ends = n
      BY <1>1 DEF ViewOf
  <2>2. IsView(w)
      BY <1>1 DEF ViewOf, IsView
  <2>3. QED
      BY <2>1, <2>2 DEF Fields
<1>2. ASSUME w = [v EXCEPT !.stop = stop, !.usage = cost, !.bad = bad]
      PROVE  Fields(v, stop, cost, v.error, v.ends, w)
  <2>1. w = ViewOf(v, stop, cost, v.error, v.ends, bad)
      BY <1>2 DEF ViewOf, IsView
  <2>2. QED
      BY <1>1, <2>1
<1>3. ASSUME w = [v EXCEPT !.stop = stop, !.usage = cost, !.ends = ends, !.bad = bad]
      PROVE  Fields(v, stop, cost, v.error, ends, w)
  <2>1. w = ViewOf(v, stop, cost, v.error, ends, bad)
      BY <1>3 DEF ViewOf, IsView
  <2>2. QED
      BY <1>1, <2>1
<1>4. ASSUME \/ w = [v EXCEPT !.ends = ends, !.bad = bad]
             \/ w = [v EXCEPT !.bad = bad, !.ends = ends]
      PROVE  Fields(v, v.stop, v.usage, v.error, ends, w)
  <2>1. w = ViewOf(v, v.stop, v.usage, v.error, ends, bad)
      BY <1>4 DEF ViewOf, IsView
  <2>2. QED
      BY <1>1, <2>1
<1>5. ASSUME w = [v EXCEPT !.ends = ends]
      PROVE  Fields(v, v.stop, v.usage, v.error, ends, w)
  <2>1. w = ViewOf(v, v.stop, v.usage, v.error, ends, v.bad)
      BY <1>5 DEF ViewOf, IsView
  <2>2. QED
      BY <1>1, <2>1
<1>6. ASSUME w = [v EXCEPT !.error = TRUE]
      PROVE  Fields(v, v.stop, v.usage, TRUE, v.ends, w)
  <2>1. w = ViewOf(v, v.stop, v.usage, TRUE, v.ends, v.bad)
      BY <1>6 DEF ViewOf, IsView
  <2>2. QED
      BY <1>1, <2>1
<1>7. ASSUME w = [v EXCEPT !.error = TRUE, !.ends = ends]
      PROVE  Fields(v, v.stop, v.usage, TRUE, ends, w)
  <2>1. w = ViewOf(v, v.stop, v.usage, TRUE, ends, v.bad)
      BY <1>7 DEF ViewOf, IsView
  <2>2. QED
      BY <1>1, <2>1
<1>8. QED
    BY <1>2, <1>3, <1>4, <1>5, <1>6, <1>7

\* Nothing is told yet of how a message ends ...
Untold(s) == IsView(s) /\ s.stop = "none" /\ s.usage = NoUsage /\ s.error = FALSE /\ s.ends = 0

\* ... or all of it is.
Told(p, s, stop, cost) ==
    /\ IsView(s) /\ s.ends \in Nat \ {0} /\ s.error = FALSE
    /\ s.stop = StopTo(p, stop) /\ s.usage = ToWire(p, cost)

\* A client that was told of an error.
Broken(s) == IsView(s) /\ s.error = TRUE

\* An error stays, whatever else is set.
LEMMA BrokenStays ==
    \A x, y, a, b, c, d :
        Broken(x) /\ (\/ y = [x EXCEPT !.bad = a]
                       \/ y = [x EXCEPT !.ends = d]
                       \/ y = [x EXCEPT !.error = TRUE]
                       \/ y = [x EXCEPT !.error = TRUE, !.ends = d]
                       \/ y = [x EXCEPT !.bad = a, !.ends = d]
                       \/ y = [x EXCEPT !.ends = d, !.bad = a]
                       \/ y = [x EXCEPT !.started = TRUE, !.bad = a]
                       \/ y = [x EXCEPT !.started = TRUE, !.usage = b, !.bad = a]
                       \/ y = [x EXCEPT !.stop = c, !.usage = b, !.bad = a]
                       \/ y = [x EXCEPT !.stop = c, !.usage = b, !.ends = d, !.bad = a]) => Broken(y)
<1> TAKE x, y, a, b, c, d
<1> HAVE Broken(x) /\ (\/ y = [x EXCEPT !.bad = a]
                       \/ y = [x EXCEPT !.ends = d]
                       \/ y = [x EXCEPT !.error = TRUE]
                       \/ y = [x EXCEPT !.error = TRUE, !.ends = d]
                       \/ y = [x EXCEPT !.bad = a, !.ends = d]
                       \/ y = [x EXCEPT !.ends = d, !.bad = a]
                       \/ y = [x EXCEPT !.started = TRUE, !.bad = a]
                       \/ y = [x EXCEPT !.started = TRUE, !.usage = b, !.bad = a]
                       \/ y = [x EXCEPT !.stop = c, !.usage = b, !.bad = a]
                       \/ y = [x EXCEPT !.stop = c, !.usage = b, !.ends = d, !.bad = a])
<1>0. IsView(x) /\ x.error = TRUE
    BY DEF Broken
<1>1. ASSUME y = [x EXCEPT !.bad = a]
      PROVE  Broken(y)
    BY <1>0, <1>1 DEF Broken, IsView
<1>2. ASSUME y = [x EXCEPT !.ends = d]
      PROVE  Broken(y)
    BY <1>0, <1>2 DEF Broken, IsView
<1>3. ASSUME y = [x EXCEPT !.error = TRUE]
      PROVE  Broken(y)
    BY <1>0, <1>3 DEF Broken, IsView
<1>4. ASSUME y = [x EXCEPT !.error = TRUE, !.ends = d]
      PROVE  Broken(y)
    BY <1>0, <1>4 DEF Broken, IsView
<1>5. ASSUME y = [x EXCEPT !.bad = a, !.ends = d]
      PROVE  Broken(y)
    BY <1>0, <1>5 DEF Broken, IsView
<1>6. ASSUME y = [x EXCEPT !.ends = d, !.bad = a]
      PROVE  Broken(y)
    BY <1>0, <1>6 DEF Broken, IsView
<1>7. ASSUME y = [x EXCEPT !.started = TRUE, !.bad = a]
      PROVE  Broken(y)
    BY <1>0, <1>7 DEF Broken, IsView
<1>8. ASSUME y = [x EXCEPT !.started = TRUE, !.usage = b, !.bad = a]
      PROVE  Broken(y)
    BY <1>0, <1>8 DEF Broken, IsView
<1>9. ASSUME y = [x EXCEPT !.stop = c, !.usage = b, !.bad = a]
      PROVE  Broken(y)
    BY <1>0, <1>9 DEF Broken, IsView
<1>10. ASSUME y = [x EXCEPT !.stop = c, !.usage = b, !.ends = d, !.bad = a]
      PROVE  Broken(y)
    BY <1>0, <1>10 DEF Broken, IsView
<1>11. QED
    BY <1>1, <1>2, <1>3, <1>4, <1>5, <1>6, <1>7, <1>8, <1>9, <1>10

\* What a frame leaves of a message that has ended, or was broken.
Lasts(v, w) ==
    /\ v.ends \in Nat \ {0} => Fields(v, v.stop, v.usage, v.error, w.ends, w) /\ w.ends \in Nat \ {0}
    /\ Broken(v) => Broken(w)

\* Nothing comes after the end, and an error stays.
LEMMA ReadLasts ==
    ASSUME NEW p \in Protocols, NEW v, IsView(v), NEW f, NEW w, w = Read(p, v, f)
    PROVE  Lasts(v, w)
<1>1. ASSUME v.ends \in Nat \ {0}
      PROVE  Fields(v, v.stop, v.usage, v.error, w.ends, w) /\ w.ends \in Nat \ {0}
  <2>1. PICK n \in Nat : n = v.ends + 1 /\ n # 0
      BY <1>1
  <2>2. w = [v EXCEPT !.bad = TRUE, !.ends = n]
      BY <1>1, <2>1 DEF Read
  <2>3. Fields(v, v.stop, v.usage, v.error, n, w)
      BY <2>2, FieldsSet
  <2>4. QED
      BY <2>1, <2>3 DEF Fields
<1>2. ASSUME Broken(v)
      PROVE  Broken(w)
  <2>3. \A g, key : Broken(Begun(v, g)) /\ Broken(Extended(v, key, g)) /\ Broken(Closed(v, g))
      BY <1>2, BlocksKeepEnd DEF Broken, SameEnd
  <2>4. CASE v.ends > 0
    <3>1. PICK a, n : a = TRUE /\ n = v.ends + 1
        OBVIOUS
    <3>2. w = [v EXCEPT !.bad = a, !.ends = n]
        BY <2>4, <3>1 DEF Read
    <3>3. QED
        BY <1>2, <3>2, BrokenStays
  <2>5. CASE p = "openai" /\ ~(v.ends > 0)
    <3>1. w = ReadOpenAI(v, f)
        BY <2>5 DEF Read
    <3>2. CASE f.type = "chunk"
      <4>1. PICK x : x = IF f.kind = "none" THEN v
                         ELSE IF Has(v, ChatKey(f)) THEN Extended(v, ChatKey(f), f)
                              ELSE Begun(v, [f EXCEPT !.index = ChatKey(f)])
          OBVIOUS
      <4>2. Broken(x)
          BY <1>2, <2>3, <4>1
      <4>3. PICK a : a = IF f.stop = "none" THEN x.stop ELSE f.stop
          OBVIOUS
      <4>4. PICK b : b = IF f.usage = NoUsage THEN x.usage ELSE f.usage
          OBVIOUS
      <4>5. PICK c : c = (x.bad \/ (f.stop # "none" /\ v.stop # "none"))
          OBVIOUS
      <4>6. w = [x EXCEPT !.started = TRUE, !.stop = IF f.stop = "none" THEN @ ELSE f.stop,
                          !.usage = IF f.usage = NoUsage THEN @ ELSE f.usage, !.bad = c]
          BY <3>1, <3>2, <4>1, <4>5 DEF ReadOpenAI, ChatKey
      <4>7. w = [x EXCEPT !.started = TRUE, !.stop = a, !.usage = b, !.bad = c]
          BY <4>3, <4>4, <4>6
      <4>8. Charted(x, a, b, c, w)
          BY <4>2, <4>7, ChunkFields DEF Broken
      <4>9. QED
          BY <4>2, <4>8 DEF Charted, Broken
    <3>3. CASE f.type # "chunk"
      <4>1. \/ w = [v EXCEPT !.error = TRUE]
            \/ w = [v EXCEPT !.ends = v.ends + 1]
            \/ w = [v EXCEPT !.bad = TRUE]
          BY <3>1, <3>3 DEF ReadOpenAI
      <4>2. QED
          BY <1>2, <4>1, BrokenStays
    <3>4. QED
        BY <3>2, <3>3
  <2>6. CASE p = "anthropic" /\ ~(v.ends > 0)
    <3>1. w = ReadAnthropic(v, f)
        BY <2>6 DEF Read
    <3>2. \/ w \in {v, Begun(v, f), Extended(v, f.index, f), Closed(v, f)}
          \/ w = [v EXCEPT !.bad = TRUE]
          \/ w = [v EXCEPT !.error = TRUE]
          \/ \E a, b : w = [v EXCEPT !.started = TRUE, !.usage = b, !.bad = a]
          \/ \E a, b, c : w = [v EXCEPT !.stop = c, !.usage = b, !.bad = a]
          \/ \E a, b : w = [v EXCEPT !.ends = b, !.bad = a]
        BY <3>1 DEF ReadAnthropic
    <3>3. CASE w \in {v, Begun(v, f), Extended(v, f.index, f), Closed(v, f)}
        BY <1>2, <2>3, <3>3
    <3>4. QED
        BY <1>2, <3>2, <3>3, BrokenStays
  <2>7. CASE p = "responses" /\ ~(v.ends > 0)
    <3>1. w = ReadResponses(v, f)
        BY <2>7 DEF Read
    <3>2. CASE f.type \in {"response.completed", "response.incomplete"}
      <4>1. PICK bad : bad = (v.bad \/ Open(v) # {})
          OBVIOUS
      <4>2. PICK n : n = v.ends + 1
          OBVIOUS
      <4>3. w = [v EXCEPT !.stop = f.stop, !.usage = f.usage, !.ends = n, !.bad = bad]
          BY <3>1, <3>2, <4>1, <4>2 DEF ReadResponses, Ended
      <4>4. QED
          BY <1>2, <4>3, BrokenStays
    <3>3. CASE f.type \in {"response.failed", "error"}
      <4>1. w = [v EXCEPT !.error = TRUE, !.ends = v.ends + 1]
          BY <3>1, <3>3 DEF ReadResponses
      <4>2. QED
          BY <1>2, <4>1, BrokenStays
    <3>4. CASE f.type = "response.created"
      <4>1. PICK bad : bad = (v.bad \/ v.started)
          OBVIOUS
      <4>2. w = [v EXCEPT !.started = TRUE, !.bad = bad]
          BY <3>1, <3>4, <4>1 DEF ReadResponses
      <4>3. QED
          BY <1>2, <4>2, BrokenStays
    <3>5. w \in {Begun(v, f), Extended(v, f.index, f), Closed(v, f)} => Broken(w)
        BY <2>3
    <3>6. w = [v EXCEPT !.bad = TRUE] => Broken(w)
        BY <1>2, BrokenStays
    <3>7. QED
        BY <3>1, <3>2, <3>3, <3>4, <3>5, <3>6 DEF ReadResponses
  <2>8. QED
      BY <2>4, <2>5, <2>6, <2>7 DEF Protocols
<1>3. QED
    BY <1>1, <1>2 DEF Lasts

\* However many frames come.
LEMMA RowLasts ==
    ASSUME NEW p \in Protocols, NEW v, IsView(v), v.ends \in Nat \ {0} \/ Broken(v), NEW out, Row(out)
    PROVE  Lasts(v, ReadAll(p, v, out))
<1>1. PICK S : out \in Seq(S)
    BY DEF Row
<1>2. PICK c : Views(p, v, out, c)
    BY <1>1, ReadStep
<1> DEFINE T == {m \in Nat : m <= Len(out) => Lasts(v, c[m]) /\ IsView(c[m])}
<1>3. 0 \in T
    BY <1>2 DEF Views, Lasts, Fields
<1>4. ASSUME NEW m \in Nat, m \in T
      PROVE  m + 1 \in T
  <2>1. SUFFICES ASSUME m + 1 <= Len(out)
                 PROVE  Lasts(v, c[m + 1]) /\ IsView(c[m + 1])
      OBVIOUS
  <2>2. m + 1 \in 1..Len(out) /\ (m + 1) - 1 = m /\ m <= Len(out)
      BY <1>1, <2>1
  <2>3. c[m + 1] = Read(p, c[m], out[m + 1])
      BY <1>2, <2>2 DEF Views
  <2>4. Lasts(v, c[m]) /\ IsView(c[m])
      BY <1>4, <2>2
  <2>5. Lasts(c[m], c[m + 1])
      BY <2>3, <2>4, ReadLasts
  <2>6. QED
      BY <2>4, <2>5 DEF Lasts, Fields, Broken
<1> HIDE DEF T
<1>5. T = Nat
  <2>1. T \subseteq Nat
      BY DEF T
  <2>2. QED
      BY <1>3, <1>4, <2>1, FirstOut
<1>6. Len(out) \in Nat
    BY <1>1
<1>7. Lasts(v, c[Len(out)])
    BY <1>5, <1>6 DEF T
<1>8. QED
    BY <1>2, <1>7 DEF Views

\* A cost on the wire is one, and comes back as far as it can be said.
LEMMA WireCost ==
    ASSUME NEW p \in Protocols, NEW c \in Costs, NEW u, u = ToWire(p, c)
    PROVE  /\ u \in Costs /\ u.output = c.output /\ u.cacheRead = c.cacheRead
           /\ c.input >= c.cacheRead + c.cacheWrite => ToIR(p, u).input = c.input
<1>1. PICK i \in Nat, o \in Nat, r \in Nat, w \in Nat :
         c = [input |-> i, output |-> o, cacheRead |-> r, cacheWrite |-> w]
    BY DEF Costs
<1>2. CASE p = "anthropic"
  <2>1. PICK n : n = IF i > r + w THEN i - r - w ELSE 0
      OBVIOUS
  <2> n \in Nat
    <3>1. CASE i > r + w
        BY <2>1, <3>1
    <3>2. CASE ~(i > r + w)
        BY <2>1, <3>2
    <3>3. QED
        BY <3>1, <3>2
  <2>2. u = [input |-> n, output |-> o, cacheRead |-> r, cacheWrite |-> w]
      BY <1>1, <1>2, <2>1 DEF ToWire
  <2>3. ToIR(p, u).input = n + r + w
      BY <1>2, <2>2 DEF ToIR
  <2>4. i >= r + w => n + r + w = i
    <3>1. CASE i > r + w
        BY <2>1, <3>1
    <3>2. CASE ~(i > r + w)
        BY <2>1, <3>2
    <3>3. QED
        BY <3>1, <3>2
  <2>5. QED
      BY <1>1, <2>2, <2>3, <2>4 DEF Costs
<1>3. CASE p # "anthropic"
  <2>1. u = [input |-> i, output |-> o, cacheRead |-> r, cacheWrite |-> 0]
      BY <1>1, <1>3 DEF ToWire
  <2>2. ToIR(p, u).input = i
      BY <1>3, <2>1 DEF ToIR
  <2>3. QED
      BY <1>1, <2>1, <2>2 DEF Costs
<1>4. QED
    BY <1>2, <1>3

\* A finish tells all of it, unless it has been told.
LEMMA FinishTold ==
    ASSUME NEW p \in Protocols, NEW rn, p # "anthropic" => rn.finished = FALSE,
           NEW s, Untold(s), NEW ev, ev.kind = "finish", ev.usage \in Costs,
           NEW w, w = ReadAll(p, s, Render(p, rn, ev).out)
    PROVE  Told(p, w, ev.stop, ev.usage)
<1>1. PICK cost : cost = ToWire(p, ev.usage)
    OBVIOUS
<1>2. PICK stop : stop = StopTo(p, ev.stop)
    OBVIOUS
<1>3. IsView(s) /\ s.stop = "none" /\ s.usage = NoUsage /\ s.error = FALSE /\ s.ends = 0 /\ 0 + 1 = 1
    BY DEF Untold
<1>4. ASSUME NEW x, Fields(x, stop, cost, FALSE, 1, w)
      PROVE  Told(p, w, ev.stop, ev.usage)
    BY <1>1, <1>2, <1>4 DEF Fields, Told
<1>5. CASE p = "openai"
  <2>1. PICK f1 : f1 = Closing("chunk", stop, NoUsage)
      OBVIOUS
  <2>2. PICK f2 : f2 = Closing("chunk", "none", cost)
      OBVIOUS
  <2>3. PICK f3 : f3 = Frame("[DONE]")
      OBVIOUS
  <2>4. Render(p, rn, ev).out = <<f1, f2, f3>>
      BY <1>1, <1>2, <1>5, <2>1, <2>2, <2>3 DEF Render, RenderOpenAI, Step
  <2>5. /\ f1.type = "chunk" /\ f1.kind = "none" /\ f1.stop = stop /\ f1.usage = NoUsage
        /\ f2.type = "chunk" /\ f2.kind = "none" /\ f2.stop = "none" /\ f2.usage = cost
        /\ f3.type = "[DONE]"
      BY <2>1, <2>2, <2>3, FrameForm, ClosingForm DEF Wire
  <2>6. stop # "none"
      BY <1>2, <1>5 DEF StopTo
  <2>7. PICK x : x = Read(p, s, f1)
      OBVIOUS
  <2>8. PICK y : y = Read(p, x, f2)
      OBVIOUS
  <2>9. w = Read(p, y, f3)
      BY <2>4, <2>7, <2>8, ReadThree
  <2>10. IsView(x) /\ x.stop = stop /\ x.usage = NoUsage /\ x.error = FALSE /\ x.ends = 0
    <3>1. x = ReadOpenAI(s, f1)
        BY <1>3, <1>5, <2>7 DEF Read
    <3>2. \E bad : Charted(s, stop, NoUsage, bad, x)
        BY <1>3, <2>5, <2>6, <3>1, PlainChunk
    <3>3. QED
        BY <1>3, <3>2 DEF Charted
  <2>11. IsView(y) /\ y.stop = stop /\ y.usage = cost /\ y.error = FALSE /\ y.ends = 0
    <3>1. y = ReadOpenAI(x, f2)
        BY <1>5, <2>8, <2>10 DEF Read
    <3>2. \E bad : Charted(x, stop, cost, bad, y)
        BY <2>5, <2>10, <3>1, PlainChunk
    <3>3. QED
        BY <2>10, <3>2 DEF Charted
  <2>12. w = [y EXCEPT !.ends = 1]
      BY <1>3, <1>5, <2>5, <2>9, <2>11 DEF Read, ReadOpenAI
  <2>13. Fields(y, stop, cost, FALSE, 1, w)
    <3>1. Fields(y, y.stop, y.usage, y.error, 1, w)
        BY <2>11, <2>12, FieldsSet
    <3>2. QED
        BY <2>11, <3>1 DEF Fields
  <2>14. QED
      BY <1>4, <2>13
<1>6. CASE p = "anthropic"
  <2>1. PICK f1 : f1 = Closing("message_delta", stop, cost)
      OBVIOUS
  <2>2. PICK f2 : f2 = Frame("message_stop")
      OBVIOUS
  <2>3. PICK shut : shut = CloseBlock(rn).out
      OBVIOUS
  <2>4. Render(p, rn, ev).out = (shut \o <<f1>>) \o <<f2>>
      BY <1>1, <1>2, <1>6, <2>1, <2>2, <2>3 DEF Render, RenderAnthropic, EndMessage, Step
  <2>5. f1.type = "message_delta" /\ f1.stop = stop /\ f1.usage = cost /\ f2.type = "message_stop"
      BY <2>1, <2>2, FrameForm, ClosingForm DEF Wire
  <2>6. PICK x : x = ReadAll(p, s, shut)
      OBVIOUS
  <2>7. PICK y : y = Read(p, x, f1)
      OBVIOUS
  <2>8. QuietRow(p, shut) /\ Row(shut)
      BY <1>6, <2>3, ClosedQuietly DEF QuietRow
  <2>9. w = Read(p, y, f2)
    <3>1. Row(<<f1>>) /\ Row(<<f2>>) /\ Row(shut \o <<f1>>)
        BY <2>8, RowOfFew, RowsMade
    <3>2. ReadAll(p, s, (shut \o <<f1>>) \o <<f2>>) = ReadAll(p, ReadAll(p, s, shut \o <<f1>>), <<f2>>)
        BY <3>1, RowsRead
    <3>3. ReadAll(p, s, shut \o <<f1>>) = ReadAll(p, x, <<f1>>)
        BY <2>6, <2>8, <3>1, RowsRead
    <3>4. QED
        BY <2>4, <2>7, <3>2, <3>3, ReadOne
  <2>10. IsView(x) /\ x.stop = "none" /\ x.usage = NoUsage /\ x.error = FALSE /\ x.ends = 0
      BY <1>3, <2>6, <2>8, QuietRowRead DEF SameVerdict
  <2>11. MergeUsage(NoUsage, cost) = cost
    <3>1. cost \in Costs
        BY <1>1, <1>6, WireCost
    <3>2. PICK i \in Nat, o \in Nat, r \in Nat, c \in Nat :
             cost = [input |-> i, output |-> o, cacheRead |-> r, cacheWrite |-> c]
        BY <3>1 DEF Costs
    <3>3. QED
        BY <3>2 DEF MergeUsage, NoUsage
  <2>12. IsView(y) /\ y.stop = stop /\ y.usage = cost /\ y.error = FALSE /\ y.ends = 0
    <3>1. PICK bad : bad = (x.bad \/ x.stop # "none" \/ Open(x) # {})
        OBVIOUS
    <3>2. y = [x EXCEPT !.stop = stop, !.usage = cost, !.bad = bad]
        BY <1>6, <2>5, <2>7, <2>10, <2>11, <3>1 DEF Read, ReadAnthropic
    <3>3. Fields(x, stop, cost, x.error, x.ends, y)
        BY <2>10, <3>2, FieldsSet
    <3>4. QED
        BY <2>10, <3>3 DEF Fields
  <2>13. PICK bad : bad = (y.bad \/ Open(y) # {})
      OBVIOUS
  <2>14. w = [y EXCEPT !.ends = 1, !.bad = bad]
      BY <1>3, <1>6, <2>5, <2>9, <2>12, <2>13 DEF Read, ReadAnthropic
  <2>15. Fields(y, stop, cost, FALSE, 1, w)
    <3>1. Fields(y, y.stop, y.usage, y.error, 1, w)
        BY <2>12, <2>14, FieldsSet
    <3>2. QED
        BY <2>12, <3>1 DEF Fields
  <2>16. QED
      BY <1>4, <2>15
<1>7. CASE p = "responses"
  <2>1. PICK f : f = Closing(IF ev.stop = "max_tokens" THEN "response.incomplete" ELSE "response.completed", stop, cost)
      OBVIOUS
  <2>2. PICK shut : shut = CloseItem(rn).out
      OBVIOUS
  <2>3. Render(p, rn, ev).out = Append(shut, f)
      BY <1>1, <1>2, <1>7, <2>1, <2>2 DEF Render, RenderResponses, EndResponse, Step
  <2>4. f.type \in {"response.incomplete", "response.completed"} /\ f.stop = stop /\ f.usage = cost
      BY <2>1, ClosingForm DEF Wire
  <2>5. QuietRow(p, shut) /\ Row(shut)
      BY <1>7, <2>2, ClosedQuietly DEF QuietRow
  <2>6. PICK x : x = ReadAll(p, s, shut)
      OBVIOUS
  <2>7. IsView(x) /\ x.error = FALSE /\ x.ends = 0
      BY <1>3, <2>5, <2>6, QuietRowRead DEF SameVerdict
  <2>8. w = Read(p, x, f)
      BY <2>3, <2>5, <2>6, RowAppended
  <2>9. PICK bad : bad = (x.bad \/ Open(x) # {})
      OBVIOUS
  <2>10. w = [x EXCEPT !.stop = stop, !.usage = cost, !.ends = 1, !.bad = bad]
    <3>1. w = Ended(x, f)
        BY <1>7, <2>4, <2>7, <2>8 DEF Read, ReadResponses
    <3>2. QED
        BY <1>3, <2>4, <2>7, <2>9, <3>1 DEF Ended
  <2>11. Fields(x, stop, cost, x.error, 1, w)
      BY <2>7, <2>10, FieldsSet
  <2>12. QED
      BY <1>4, <2>7, <2>11
<1>8. QED
    BY <1>5, <1>6, <1>7 DEF Protocols

\* An error is told as one.
LEMMA ErrorTold ==
    ASSUME NEW p \in Protocols, NEW rn, p # "anthropic" => rn.finished = FALSE,
           NEW s, Untold(s), NEW ev, ev.kind = "error",
           NEW w, w = ReadAll(p, s, Render(p, rn, ev).out)
    PROVE  Broken(w)
<1>1. IsView(s) /\ s.ends = 0
    BY DEF Untold
<1>2. ASSUME NEW x, IsView(x), NEW n
      PROVE  Broken([x EXCEPT !.error = TRUE]) /\ Broken([x EXCEPT !.error = TRUE, !.ends = n])
  <2>1. PICK y : y = [x EXCEPT !.error = TRUE]
      OBVIOUS
  <2>2. PICK z : z = [x EXCEPT !.error = TRUE, !.ends = n]
      OBVIOUS
  <2>3. Fields(x, x.stop, x.usage, TRUE, x.ends, y)
      BY <1>2, <2>1, FieldsSet
  <2>4. Fields(x, x.stop, x.usage, TRUE, n, z)
      BY <1>2, <2>2, FieldsSet
  <2>5. QED
      BY <2>1, <2>2, <2>3, <2>4 DEF Fields, Broken
<1>3. CASE p = "openai"
  <2>1. PICK f : f = Frame("error")
      OBVIOUS
  <2>2. Render(p, rn, ev).out = <<f>> /\ f.type = "error"
      BY <1>3, <2>1, FrameForm DEF Render, RenderOpenAI, Step, Wire
  <2>3. w = Read(p, s, f)
      BY <2>2, ReadOne
  <2>4. w = [s EXCEPT !.error = TRUE]
    <3>1. w = ReadOpenAI(s, f)
        BY <1>1, <1>3, <2>3 DEF Read
    <3>2. QED
        BY <2>2, <3>1 DEF ReadOpenAI
  <2>5. QED
      BY <1>1, <1>2, <2>4
<1>4. CASE p = "anthropic"
  <2>1. PICK f1 : f1 = Frame("error")
      OBVIOUS
  <2>2. PICK f2 : f2 = Frame("message_stop")
      OBVIOUS
  <2>3. PICK shut : shut = CloseBlock(rn).out
      OBVIOUS
  <2>4. Render(p, rn, ev).out = (shut \o <<f1>>) \o <<f2>> /\ f1.type = "error"
      BY <1>4, <2>1, <2>2, <2>3, FrameForm DEF Render, RenderAnthropic, EndMessage, Step, Wire
  <2>5. PICK x : x = ReadAll(p, s, shut)
      OBVIOUS
  <2>6. QuietRow(p, shut) /\ Row(shut)
      BY <1>4, <2>3, ClosedQuietly DEF QuietRow
  <2>7. IsView(x) /\ x.ends = 0
      BY <1>1, <2>5, <2>6, QuietRowRead DEF SameVerdict
  <2>8. PICK y : y = Read(p, x, f1)
      OBVIOUS
  <2>9. w = Read(p, y, f2)
    <3>1. Row(<<f1>>) /\ Row(<<f2>>) /\ Row(shut \o <<f1>>)
        BY <2>6, RowOfFew, RowsMade
    <3>2. ReadAll(p, s, (shut \o <<f1>>) \o <<f2>>) = ReadAll(p, ReadAll(p, s, shut \o <<f1>>), <<f2>>)
        BY <3>1, RowsRead
    <3>3. ReadAll(p, s, shut \o <<f1>>) = ReadAll(p, x, <<f1>>)
        BY <2>5, <2>6, <3>1, RowsRead
    <3>4. QED
        BY <2>4, <2>8, <3>2, <3>3, ReadOne
  <2>10. y = [x EXCEPT !.error = TRUE]
      BY <1>4, <2>4, <2>7, <2>8 DEF Read, ReadAnthropic
  <2>11. Broken(y)
      BY <1>2, <2>7, <2>10
  <2>12. QED
      BY <2>9, <2>11, ReadLasts DEF Lasts, Broken
<1>5. CASE p = "responses"
  <2>1. PICK f : f = Frame("response.failed")
      OBVIOUS
  <2>2. PICK shut : shut = CloseItem(rn).out
      OBVIOUS
  <2>3. Render(p, rn, ev).out = Append(shut, f) /\ f.type = "response.failed"
      BY <1>5, <2>1, <2>2, FrameForm DEF Render, RenderResponses, EndResponse, Step, Wire
  <2>4. QuietRow(p, shut) /\ Row(shut)
      BY <1>5, <2>2, ClosedQuietly DEF QuietRow
  <2>5. PICK x : x = ReadAll(p, s, shut)
      OBVIOUS
  <2>6. IsView(x) /\ x.ends = 0
      BY <1>1, <2>4, <2>5, QuietRowRead DEF SameVerdict
  <2>7. w = Read(p, x, f)
      BY <2>3, <2>4, <2>5, RowAppended
  <2>8. PICK n : n = x.ends + 1
      OBVIOUS
  <2>9. w = [x EXCEPT !.error = TRUE, !.ends = n]
      BY <1>5, <2>3, <2>6, <2>7, <2>8 DEF Read, ReadResponses
  <2>10. Fields(x, x.stop, x.usage, TRUE, n, w)
      BY <2>6, <2>9, FieldsSet
  <2>11. QED
      BY <2>10 DEF Fields, Broken
<1>6. QED
    BY <1>3, <1>4, <1>5 DEF Protocols

(***************************************************************************)
(* Which calls a client knows of.                                          *)
(***************************************************************************)
\* A frame that may begin a block, and the key it is under.
Starts(f) == f.kind # "none" /\ f.type \in {"chunk", "content_block_start", "response.output_item.added"}
KeyOf(p, f) == IF p = "openai" THEN ChatKey(f) ELSE f.index

\* w has the blocks of v, each of its kind, and perhaps one that f begins, and
\* the error of v, or one of its own.
Grows(p, v, f, w) ==
    /\ IsView(w) /\ BlocksOK(w) /\ w.error \in {v.error, TRUE}
    /\ \A k \in DOMAIN v.blocks : w.blocks[k].kind = v.blocks[k].kind
    /\ \/ DOMAIN w.blocks = DOMAIN v.blocks
       \/ /\ Starts(f) /\ DOMAIN w.blocks = DOMAIN v.blocks \cup {KeyOf(p, f)}
          /\ w.blocks[KeyOf(p, f)].kind = f.kind

\* No frame takes a block away.
LEMMA BlocksGrow ==
    ASSUME NEW p \in Protocols, NEW v, IsView(v), BlocksOK(v), NEW f, FrameKind(f), NEW w, w = Read(p, v, f)
    PROVE  Grows(p, v, f, w)
<1>1. ASSUME NEW x, IsView(x), x.blocks = v.blocks, x.error \in {v.error, TRUE}
      PROVE  Grows(p, v, f, x)
    BY <1>1 DEF Grows, BlocksOK
<1>2. ASSUME NEW key, NEW x, x = Extended(v, key, f)
      PROVE  Grows(p, v, f, x)
  <2>1. Grown(v, key, f, x)
      BY <1>2, ExtendedBlocks
  <2>2. IsView(x) /\ x.error = v.error
      BY <1>2, BlocksKeepEnd DEF SameEnd
  <2>3. QED
      BY <2>1, <2>2 DEF Grown, Grows
<1>3. ASSUME NEW x, x = Closed(v, f)
      PROVE  Grows(p, v, f, x)
  <2>1. Shut(v, f, x)
      BY <1>3, ClosedBlocks
  <2>2. IsView(x) /\ x.error = v.error
      BY <1>3, BlocksKeepEnd DEF SameEnd
  <2>3. QED
      BY <2>1, <2>2 DEF Shut, Grows
<1>4. ASSUME NEW g, g.index = KeyOf(p, f), g.kind = f.kind, f.kind \in Kinds, Starts(f), NEW x, x = Begun(v, g)
      PROVE  Grows(p, v, f, x)
  <2>1. IsView(x) /\ x.error = v.error
      BY <1>4, BlocksKeepEnd DEF SameEnd
  <2>2. CASE Has(v, g.index)
    <3>1. x = [v EXCEPT !.bad = TRUE]
        BY <1>4, <2>2, BegunBlocks
    <3>2. x.blocks = v.blocks
        BY <3>1 DEF IsView
    <3>3. QED
        BY <1>1, <2>1, <3>2
  <2>3. CASE ~Has(v, g.index)
    <3>1. /\ BlocksOK(x) /\ DOMAIN x.blocks = DOMAIN v.blocks \cup {g.index}
          /\ x.blocks[g.index] = [kind |-> g.kind, id |-> g.id, pieces |-> g.pieces, open |-> TRUE]
          /\ \A k \in DOMAIN v.blocks : x.blocks[k] = v.blocks[k]
        BY <1>4, <2>3, BegunBlocks
    <3>2. x.blocks[g.index].kind = f.kind
        BY <1>4, <3>1
    <3>3. QED
        BY <1>4, <2>1, <3>1, <3>2 DEF Grows
  <2>4. QED
      BY <2>2, <2>3
<1>5. CASE v.ends > 0
  <2>1. w = [v EXCEPT !.bad = TRUE, !.ends = @ + 1]
      BY <1>5 DEF Read
  <2>2. w.blocks = v.blocks /\ IsView(w) /\ w.error = v.error
      BY <2>1 DEF IsView
  <2>3. QED
      BY <1>1, <2>2
<1>6. CASE ~(v.ends > 0) /\ p = "openai"
  <2>1. PICK g : g = [f EXCEPT !.index = ChatKey(f)]
      OBVIOUS
  <2>2. g.kind = f.kind /\ g.index = KeyOf(p, f)
      BY <1>6, <2>1 DEF FrameKind, Wire, KeyOf
  <2>3. w = ReadOpenAI(v, f)
      BY <1>6 DEF Read
  <2>4. CASE f.type = "chunk"
    <3>1. PICK x : x = IF f.kind = "none" THEN v
                       ELSE IF Has(v, ChatKey(f)) THEN Extended(v, ChatKey(f), f) ELSE Begun(v, g)
        OBVIOUS
    <3>2. Grows(p, v, f, x)
      <4>1. f.kind # "none" => Starts(f) /\ f.kind \in Kinds
          BY <2>4 DEF Starts, FrameKind
      <4>2. CASE x = v
          BY <1>1, <4>2
      <4>3. CASE x = Extended(v, ChatKey(f), f)
          BY <1>2, <4>3
      <4>4. CASE f.kind # "none" /\ x = Begun(v, g)
          BY <1>4, <2>2, <4>1, <4>4
      <4>5. QED
          BY <3>1, <4>2, <4>3, <4>4
    <3>3. PICK stop : stop = IF f.stop = "none" THEN x.stop ELSE f.stop
        OBVIOUS
    <3>4. PICK cost : cost = IF f.usage = NoUsage THEN x.usage ELSE f.usage
        OBVIOUS
    <3>5. PICK bad : bad = (x.bad \/ (f.stop # "none" /\ v.stop # "none"))
        OBVIOUS
    <3>6. w = [x EXCEPT !.started = TRUE, !.stop = IF f.stop = "none" THEN @ ELSE f.stop,
                        !.usage = IF f.usage = NoUsage THEN @ ELSE f.usage, !.bad = bad]
        BY <2>1, <2>3, <2>4, <3>1, <3>5 DEF ReadOpenAI, ChatKey
    <3>7. w = [x EXCEPT !.started = TRUE, !.stop = stop, !.usage = cost, !.bad = bad]
        BY <3>3, <3>4, <3>6
    <3>8. Charted(x, stop, cost, bad, w)
        BY <3>2, <3>7, ChunkFields DEF Grows
    <3>9. QED
        BY <3>2, <3>8 DEF Charted, Grows, BlocksOK
  <2>5. CASE f.type # "chunk"
    <3>1. w = [v EXCEPT !.error = TRUE] \/ w = [v EXCEPT !.ends = @ + 1] \/ w = [v EXCEPT !.bad = TRUE]
        BY <2>3, <2>5 DEF ReadOpenAI
    <3>2. w.blocks = v.blocks /\ IsView(w) /\ w.error \in {v.error, TRUE}
        BY <3>1 DEF IsView
    <3>3. QED
        BY <1>1, <3>2
  <2>6. QED
      BY <2>4, <2>5
<1>7. CASE ~(v.ends > 0) /\ p # "openai"
  <2>1. w = IF p = "anthropic" THEN ReadAnthropic(v, f) ELSE ReadResponses(v, f)
      BY <1>7 DEF Read, Protocols
  <2>2. \/ w = Begun(v, f) /\ f.type \in {"content_block_start", "response.output_item.added"}
        \/ w = Extended(v, f.index, f) \/ w = Closed(v, f)
        \/ w.blocks = v.blocks /\ IsView(w) /\ w.error \in {v.error, TRUE}
    <3>1. CASE p = "anthropic"
        BY <2>1, <3>1 DEF ReadAnthropic, IsView
    <3>2. CASE p # "anthropic"
        BY <2>1, <3>2 DEF ReadResponses, Ended, IsView
    <3>3. QED
        BY <3>1, <3>2
  <2>3. CASE w = Begun(v, f) /\ f.type \in {"content_block_start", "response.output_item.added"}
    <3>1. f.kind \in Kinds /\ Starts(f) /\ f.index = KeyOf(p, f)
        BY <1>7, <2>3 DEF FrameKind, Starts, Kinds, KeyOf
    <3>2. QED
        BY <1>4, <2>3, <3>1
  <2>4. QED
      BY <1>1, <1>2, <1>3, <2>2, <2>3
<1>8. QED
    BY <1>5, <1>6, <1>7

\* A frame that begins a call.
Calling(f) == f.kind = "tool_use" /\ Starts(f)

\* A call is not forgotten, and only a frame that begins one makes it.
CallsKept(v, f, w) ==
    /\ Called(v) => Called(w)
    /\ Called(w) => Called(v) \/ Calling(f)

\* So it is, whatever is read.
LEMMA CallRead ==
    ASSUME NEW p, NEW v, NEW f, NEW w, Grows(p, v, f, w)
    PROVE  CallsKept(v, f, w)
<1>1. Called(v) => Called(w)
    BY DEF Grows, Called
<1>2. Called(w) => Called(v) \/ Calling(f)
    BY DEF Grows, Called, Calling
<1>3. QED
    BY <1>1, <1>2 DEF CallsKept

\* A frame about a block of some kind, or none, that begins a call only if call
\* says that it may; and rows of them.
Fit(call, f) == FrameKind(f) /\ (Calling(f) => call)
FitRow(call, out) == \E S : out \in Seq(S) /\ \A f \in S : Fit(call, f)

\* They are put together from such rows.
LEMMA FitMade ==
    ASSUME NEW call
    PROVE  /\ FitRow(call, <<>>)
           /\ \A f : Fit(call, f) => FitRow(call, <<f>>)
           /\ \A a, b : FitRow(call, a) /\ FitRow(call, b) => FitRow(call, a \o b)
           /\ \A a, f : FitRow(call, a) /\ Fit(call, f) => FitRow(call, Append(a, f))
<1>1. FitRow(call, <<>>)
  <2>1. PICK S : S = {}
      OBVIOUS
  <2>2. <<>> \in Seq(S) /\ \A f \in S : Fit(call, f)
      BY <2>1
  <2>3. QED
      BY <2>2 DEF FitRow
<1>2. ASSUME NEW f, Fit(call, f)
      PROVE  FitRow(call, <<f>>)
  <2>1. PICK S : S = {f}
      OBVIOUS
  <2>2. <<f>> \in Seq(S) /\ \A g \in S : Fit(call, g)
      BY <1>2, <2>1
  <2>3. QED
      BY <2>2 DEF FitRow
<1>3. ASSUME NEW a, NEW b, FitRow(call, a), FitRow(call, b)
      PROVE  FitRow(call, a \o b)
  <2>1. PICK S : a \in Seq(S) /\ \A f \in S : Fit(call, f)
      BY <1>3 DEF FitRow
  <2>2. PICK R : b \in Seq(R) /\ \A f \in R : Fit(call, f)
      BY <1>3 DEF FitRow
  <2>3. a \in Seq(S \cup R) /\ b \in Seq(S \cup R)
      BY <2>1, <2>2
  <2>4. a \o b \in Seq(S \cup R)
      BY <2>3
  <2>5. QED
      BY <2>1, <2>2, <2>4 DEF FitRow
<1>4. ASSUME NEW a, NEW f, FitRow(call, a), Fit(call, f)
      PROVE  FitRow(call, Append(a, f))
  <2>1. PICK S : a \in Seq(S)
      BY <1>4 DEF FitRow
  <2>2. Append(a, f) = a \o <<f>>
      BY <2>1
  <2>3. QED
      BY <1>2, <1>3, <1>4, <2>2
<1>5. QED
    BY <1>1, <1>2, <1>3, <1>4

\* What a client knows of calls after such a row.
RowGrows(call, v, w) ==
    /\ IsView(w) /\ BlocksOK(w)
    /\ Called(v) => Called(w)
    /\ ~call /\ Called(w) => Called(v)

\* So it does, whatever the row.
LEMMA RowGrown ==
    ASSUME NEW p \in Protocols, NEW v, IsView(v), BlocksOK(v), NEW call, NEW out, FitRow(call, out),
           NEW w, w = ReadAll(p, v, out)
    PROVE  RowGrows(call, v, w)
<1>1. PICK S : out \in Seq(S) /\ \A f \in S : Fit(call, f)
    BY DEF FitRow
<1>2. PICK c : Views(p, v, out, c)
    BY <1>1, ReadStep
<1> DEFINE T == {m \in Nat : m <= Len(out) => RowGrows(call, v, c[m])}
<1>3. 0 \in T
    BY <1>2 DEF Views, RowGrows
<1>4. ASSUME NEW m \in Nat, m \in T
      PROVE  m + 1 \in T
  <2>1. SUFFICES ASSUME m + 1 <= Len(out)
                 PROVE  RowGrows(call, v, c[m + 1])
      OBVIOUS
  <2>2. m + 1 \in 1..Len(out) /\ (m + 1) - 1 = m /\ m <= Len(out)
      BY <1>1, <2>1
  <2>3. c[m + 1] = Read(p, c[m], out[m + 1]) /\ out[m + 1] \in S
      BY <1>1, <1>2, <2>2 DEF Views
  <2>4. RowGrows(call, v, c[m])
      BY <1>4, <2>2
  <2>5. FrameKind(out[m + 1]) /\ (Calling(out[m + 1]) => call)
      BY <1>1, <2>3 DEF Fit
  <2>6. Grows(p, c[m], out[m + 1], c[m + 1])
      BY <2>3, <2>4, <2>5, BlocksGrow DEF RowGrows
  <2>7. CallsKept(c[m], out[m + 1], c[m + 1])
      BY <2>6, CallRead
  <2>8. QED
      BY <2>4, <2>5, <2>6, <2>7 DEF RowGrows, Grows, CallsKept
<1> HIDE DEF T
<1>5. T = Nat
  <2>1. T \subseteq Nat
      BY DEF T
  <2>2. QED
      BY <1>3, <1>4, <2>1, FirstOut
<1>6. Len(out) \in Nat
    BY <1>1
<1>7. RowGrows(call, v, c[Len(out)])
    BY <1>5, <1>6 DEF T
<1>8. QED
    BY <1>2, <1>7 DEF Views

\* The frames of a Responses renderer.
LEMMA ItemsFit ==
    /\ \A index, id, ps : \A kind \in Kinds \cup {"none"} :
          /\ Fit(FALSE, Part("response.output_item.done", index, kind, id, ps))
          /\ Fit(FALSE, Part("response.delta", index, kind, id, ps))
    /\ \A index, id, ps : \A kind \in Kinds :
          Fit(kind = "tool_use", Part("response.output_item.added", index, kind, id, ps))
    /\ \A type, stop, cost : type \notin {"content_block_start", "response.output_item.added"} =>
          Fit(FALSE, Frame(type)) /\ Fit(FALSE, Closing(type, stop, cost))
<1>1. ASSUME NEW type, NEW index, NEW kind \in Kinds \cup {"none"}, NEW id, NEW ps, NEW stop, NEW cost, NEW call,
             type \in {"content_block_start", "response.output_item.added"} => kind \in Kinds,
             type \in {"chunk", "content_block_start", "response.output_item.added"} /\ kind = "tool_use" => call,
             NEW f, f = Wire(type, index, kind, id, ps, stop, cost)
      PROVE  Fit(call, f)
  <2>1. f.type = type /\ f.kind = kind /\ FrameKind(f)
      BY <1>1 DEF Wire, FrameKind
  <2>2. QED
      BY <1>1, <2>1 DEF Fit, Calling, Starts
<1>2. ASSUME NEW index, NEW id, NEW ps, NEW kind \in Kinds \cup {"none"}
      PROVE  /\ Fit(FALSE, Part("response.output_item.done", index, kind, id, ps))
             /\ Fit(FALSE, Part("response.delta", index, kind, id, ps))
             /\ kind \in Kinds => Fit(kind = "tool_use", Part("response.output_item.added", index, kind, id, ps))
    BY <1>1, PartForm
<1>3. ASSUME NEW type, NEW stop, NEW cost, type \notin {"content_block_start", "response.output_item.added"}
      PROVE  Fit(FALSE, Frame(type)) /\ Fit(FALSE, Closing(type, stop, cost))
  <2>1. "none" \in Kinds \cup {"none"} /\ "none" # "tool_use"
      OBVIOUS
  <2>2. QED
      BY <1>1, <1>3, <2>1, FrameForm, ClosingForm
<1>4. QED
    BY <1>2, <1>3

\* Only an event of a call begins one.
LEMMA EventFits ==
    ASSUME NEW rn, rn.open \in Kinds \cup {"none"}, NEW ev, ev.kind \in EventKinds,
           NEW call, call = (ev.kind \in {"tool_start", "tool_delta"})
    PROVE  FitRow(call, RenderResponses(rn, ev).out)
<1>1. \A f : Fit(FALSE, f) => Fit(call, f)
    BY DEF Fit
<1>2. FitRow(call, CloseItem(rn).out)
  <2>1. PICK f : f = Part("response.output_item.done", rn.nextIndex - 1, rn.open, rn.id, rn.text)
      OBVIOUS
  <2>2. Fit(call, f)
      BY <1>1, <2>1, ItemsFit
  <2>3. CloseItem(rn).out = <<>> \/ CloseItem(rn).out = <<f>>
      BY <2>1 DEF CloseItem, Step
  <2>4. QED
      BY <2>2, <2>3, FitMade
<1>3. ASSUME NEW kind \in Kinds, NEW id, kind = "tool_use" => call
      PROVE  FitRow(call, AddItem(rn, kind, id).out)
  <2>1. PICK f : f = Part("response.output_item.added", rn.nextIndex, kind, id, <<>>)
      OBVIOUS
  <2>2. AddItem(rn, kind, id).out = CloseItem(rn).out \o <<f>>
      BY <2>1 DEF AddItem, Step
  <2>3. Fit(kind = "tool_use", f)
      BY <2>1, ItemsFit
  <2>4. Fit(call, f)
      BY <1>3, <2>3 DEF Fit
  <2>5. FitRow(call, <<f>>)
      BY <2>4, FitMade
  <2>6. QED
      BY <1>2, <2>2, <2>5, FitMade
<1>4. ASSUME NEW kind \in Kinds, kind = "tool_use" => call
      PROVE  FitRow(call, ItemDelta(EnsureOpen(rn, kind), kind, ev.pieces).out)
  <2>1. PICK step : step = EnsureOpen(rn, kind)
      OBVIOUS
  <2>2. step.out = <<>> \/ step = AddItem(rn, kind, 0)
      BY <2>1 DEF EnsureOpen, Step
  <2>3. FitRow(call, step.out)
      BY <1>3, <1>4, <2>2, FitMade
  <2>4. PICK f : f = Part("response.delta", step.machine.nextIndex - 1, kind, 0, ev.pieces)
      OBVIOUS
  <2>5. ItemDelta(step, kind, ev.pieces).out = Append(step.out, f)
      BY <2>4 DEF ItemDelta, Step
  <2>6. Fit(call, f)
      BY <1>1, <2>4, ItemsFit
  <2>7. QED
      BY <2>1, <2>3, <2>5, <2>6, FitMade
<1>5. ASSUME NEW f, Fit(FALSE, f)
      PROVE  FitRow(call, Step(rn, <<f>>).out) /\ FitRow(call, EndResponse(rn, f).out)
  <2>1. Step(rn, <<f>>).out = <<f>> /\ EndResponse(rn, f).out = Append(CloseItem(rn).out, f)
      BY DEF Step, EndResponse
  <2>2. Fit(call, f)
      BY <1>1, <1>5
  <2>3. QED
      BY <1>2, <2>1, <2>2, FitMade
<1>6. FitRow(call, Step(rn, <<>>).out)
    BY FitMade DEF Step
<1>7. CASE ev.kind \in {"text", "thinking", "tool_delta"} /\ ~rn.finished
  <2>1. PICK kind \in Kinds : /\ kind = IF ev.kind = "tool_delta" THEN "tool_use" ELSE ev.kind
                              /\ kind = "tool_use" => call
      BY <1>7 DEF Kinds
  <2>2. RenderResponses(rn, ev) = ItemDelta(EnsureOpen(rn, kind), kind, ev.pieces)
      BY <1>7, <2>1 DEF RenderResponses
  <2>3. QED
      BY <1>4, <2>1, <2>2
<1>8. CASE ev.kind = "tool_start" /\ ~rn.finished
  <2>1. RenderResponses(rn, ev) = AddItem(rn, "tool_use", ev.id) /\ "tool_use" \in Kinds /\ call
      BY <1>8 DEF RenderResponses, Kinds
  <2>2. QED
      BY <1>3, <2>1
<1>9. CASE ev.kind \in {"start", "finish", "error"} /\ ~rn.finished
  <2>1. PICK f : f = IF ev.kind = "start" THEN Frame("response.created")
                     ELSE IF ev.kind = "error" THEN Frame("response.failed")
                     ELSE Closing(IF ev.stop = "max_tokens" THEN "response.incomplete" ELSE "response.completed",
                                  StopTo("responses", ev.stop), ToWire("responses", ev.usage))
      OBVIOUS
  <2>2. Fit(FALSE, f)
      BY <2>1, ItemsFit
  <2>3. RenderResponses(rn, ev) = Step(rn, <<f>>) \/ RenderResponses(rn, ev) = EndResponse(rn, f)
      BY <1>9, <2>1 DEF RenderResponses
  <2>4. QED
      BY <1>5, <2>2, <2>3
<1>10. CASE rn.finished \/ ev.kind \in {"ping", "tool_end"}
  <2>1. RenderResponses(rn, ev) = Step(rn, <<>>) \/ RenderResponses(rn, ev) = CloseItem(rn)
      BY <1>10 DEF RenderResponses
  <2>2. QED
      BY <1>2, <1>6, <2>1
<1>11. QED
    BY <1>7, <1>8, <1>9, <1>10 DEF EventKinds

\* What a Responses client knows of calls after an event.
CallsShown(st, ev, to) ==
    /\ Called(st.seen) => Called(to.seen)
    /\ Called(to.seen) => Called(st.seen) \/ ev.kind \in {"tool_start", "tool_delta"}
    /\ ev.kind = "tool_start" => Called(to.seen)

\* So it does: a call is shown as one, and nothing else is.
LEMMA EventCalls ==
    ASSUME NEW st, Going("responses", st), NEW ev, Ready("responses", st, ev),
           NEW to, to = Relayed("responses", st, ev)
    PROVE  CallsShown(st, ev, to)
<1>1. Running(st.seen) /\ Listed(st.rn.nextIndex, st.rn.open, st.seen) /\ st.rn.finished = FALSE
    BY DEF Going
<1>2. st.rn.open \in Kinds \cup {"none"} /\ IsView(st.seen) /\ BlocksOK(st.seen) /\ ev.kind \in EventKinds
    BY <1>1 DEF Listed, Running, Ready
<1>3. PICK call : call = (ev.kind \in {"tool_start", "tool_delta"})
    OBVIOUS
<1>4. PICK next : next = RenderResponses(st.rn, ev)
    OBVIOUS
<1>5. to.rn = next.machine /\ to.seen = ReadAll("responses", st.seen, next.out)
    BY <1>4 DEF Relayed, Render
<1>6. RowGrows(call, st.seen, to.seen)
  <2>1. FitRow(call, next.out)
      BY <1>2, <1>3, <1>4, EventFits
  <2>2. QED
      BY <1>2, <1>5, <2>1, RowGrown DEF Protocols
<1>7. ASSUME ev.kind = "tool_start"
      PROVE  Called(to.seen)
  <2>1. Going("responses", to)
      BY <1>7, ResponsesFollows DEF Follows, Ends
  <2>2. next = AddItem(st.rn, "tool_use", ev.id)
      BY <1>1, <1>4, <1>7 DEF RenderResponses
  <2>3. PICK n : n = st.rn.nextIndex + 1
      OBVIOUS
  <2>4. to.rn = [st.rn EXCEPT !.nextIndex = n, !.open = "tool_use", !.id = ev.id, !.text = <<>>]
      BY <1>5, <2>2, <2>3 DEF AddItem, Step
  <2>5. st.rn = [finished |-> FALSE, nextIndex |-> st.rn.nextIndex, open |-> st.rn.open,
                 id |-> st.rn.id, text |-> st.rn.text]
      BY DEF Going
  <2>6. to.rn.open = "tool_use"
      BY <2>4, <2>5
  <2>7. Listed(to.rn.nextIndex, "tool_use", to.seen)
      BY <2>1, <2>6 DEF Going
  <2>8. PICK m \in Nat : m = to.rn.nextIndex
      BY <2>7 DEF Listed
  <2>9. DOMAIN to.seen.blocks = 0..(m - 1) /\ m > 0 /\ to.seen.blocks[m - 1].kind = "tool_use"
      BY <2>7, <2>8 DEF Listed
  <2>10. m - 1 \in 0..(m - 1)
      BY <2>9
  <2>11. QED
      BY <2>9, <2>10 DEF Called
<1>8. QED
    BY <1>3, <1>6, <1>7 DEF RowGrows, CallsShown
-----------------------------------------------------------------------------
\* What has been said, in the form of its protocol: how it stops says whether a
\* tool was called, and it does not end before that.
SaidForm(p, v) ==
    /\ v.error \in BOOLEAN
    /\ p = "openai" => IsFiniteSet(DOMAIN v.blocks) /\ ChatView(v) /\ v.stop \in {"none"} \cup ChatStops(v)
    /\ p # "openai" => \E n \in Nat : DOMAIN v.blocks = 0..(n - 1)
    /\ p = "anthropic" => v.stop \in {"none"} \cup MessageStops(v)
    /\ p = "responses" => v.stop \in {"none", "completed", "incomplete"}
    /\ v.ends > 0 /\ ~v.error => v.stop # "none"

\* What a message stops with is one of these, whatever it is read with.
LEMMA StopsOfCalls ==
    ASSUME NEW v, NEW w
    PROVE  /\ ChatStops(v) \subseteq {"length", "stop", "tool_calls"}
           /\ w.blocks = v.blocks => ChatStops(w) = ChatStops(v)
           /\ (Called(w) <=> Called(v)) => MessageStops(w) = MessageStops(v)
           /\ MessageStops(v) \subseteq {"max_tokens", "end_turn", "tool_use"}
BY DEF ChatStops, MessageStops, Calls

\* Frames of OpenAI keep the form.
LEMMA OpenAIKeepsForm ==
    ASSUME NEW v, SaidUsage("openai", v), SaidForm("openai", v), NEW f \in Sends("openai", v),
           NEW w, w = Read("openai", v, f)
    PROVE  SaidForm("openai", w)
<1>1. /\ v.ends = 0 /\ FrameKind(f) /\ OpenAISends(v, f) /\ IsView(v) /\ BlocksOK(v)
      /\ w = ReadOpenAI(v, f)
    <2>1. v.ends = 0 /\ FrameKind(f) /\ OpenAISends(v, f)
        BY SaidKept, OpenAIForms DEF Protocols
    <2>2. QED
        BY <2>1 DEF SaidUsage, Read
<1>2. /\ v.error \in BOOLEAN /\ IsFiniteSet(DOMAIN v.blocks) /\ ChatView(v)
      /\ v.stop \in {"none"} \cup ChatStops(v)
    BY DEF SaidForm
<1>3. \/ f.type = "chunk" /\ f.kind = "none"
      \/ ChatPart(f)
      \/ f.type = "error"
      \/ f.type = "[DONE]"
    BY <1>1, <1>2, OpenAIChunks
<1>4. ASSUME NEW stop, stop \in {"none"} \cup ChatStops(v), IsView(w), w.blocks = v.blocks, w.stop = stop,
             w.error \in BOOLEAN, w.ends > 0 /\ ~w.error => stop # "none"
      PROVE  SaidForm("openai", w)
  <2>1. ChatStops(w) = ChatStops(v)
      BY <1>4, StopsOfCalls
  <2>2. QED
      BY <1>2, <1>4, <2>1 DEF SaidForm, ChatView
<1>5. /\ f.type = "chunk" => f.stop \in {"none"} \cup ChatStops(v)
      /\ f.type = "chunk" /\ f.kind # "none" => v.stop = "none"
      /\ f.type = "[DONE]" => v.stop # "none"
  <2>1. ASSUME NEW type, f = Frame(type)
        PROVE  f.type = type /\ f.stop = "none" /\ f.kind = "none"
      BY <2>1, FrameForm DEF Wire
  <2>2. ASSUME NEW index, NEW kind, NEW id, NEW ps, f = Part("chunk", index, kind, id, ps)
        PROVE  f.type = "chunk" /\ f.stop = "none"
      BY <2>2, PartForm DEF Wire
  <2>3. ASSUME NEW stop, NEW cost, f = Closing("chunk", stop, cost)
        PROVE  f.type = "chunk" /\ f.stop = stop /\ f.kind = "none"
      BY <2>3, ClosingForm DEF Wire
  <2>4. \/ f \in {Frame("chunk"), Frame("error")}
        \/ v.stop = "none" /\ \E index, kind, id, ps : f = Part("chunk", index, kind, id, ps)
        \/ \E stop, cost : stop \in {"none"} \cup ChatStops(v) /\ f = Closing("chunk", stop, cost)
        \/ v.stop # "none" /\ f = Frame("[DONE]")
      BY <1>1 DEF OpenAISends
  <2>5. QED
      BY <2>1, <2>2, <2>3, <2>4
<1>6. CASE f.type = "chunk" /\ f.kind = "none"
  <2>1. PICK bad : Charted(v, IF f.stop = "none" THEN v.stop ELSE f.stop,
                           IF f.usage = NoUsage THEN v.usage ELSE f.usage, bad, w)
      BY <1>1, <1>6, PlainChunk
  <2>2. PICK stop : stop = IF f.stop = "none" THEN v.stop ELSE f.stop
      OBVIOUS
  <2>3. stop \in {"none"} \cup ChatStops(v)
      BY <1>2, <1>5, <1>6, <2>2
  <2>4. IsView(w) /\ w.blocks = v.blocks /\ w.stop = stop /\ w.error = v.error /\ w.ends = 0
      BY <1>1, <2>1, <2>2 DEF Charted
  <2>5. QED
      BY <1>2, <1>4, <2>3, <2>4
<1>7. CASE ChatPart(f)
  <2>1. ChatGrown(v, f, w)
      BY <1>1, <1>2, <1>7, ChatRead
  <2>2. v.stop = "none"
      BY <1>5, <1>7 DEF ChatPart, Kinds
  <2>3. IsFiniteSet(DOMAIN w.blocks)
    <3>1. DOMAIN w.blocks = DOMAIN v.blocks \cup {ChatKey(f)}
        BY <2>1 DEF ChatGrown
    <3>2. QED
        BY <1>2, <3>1, FS_AddElement
  <2>4. QED
      BY <1>1, <1>2, <2>1, <2>2, <2>3 DEF SaidForm, ChatGrown
<1>8. CASE f.type = "error"
  <2>1. w = [v EXCEPT !.error = TRUE]
      BY <1>1, <1>8 DEF ReadOpenAI
  <2>2. Fields(v, v.stop, v.usage, TRUE, v.ends, w)
      BY <1>1, <2>1, FieldsSet
  <2>3. QED
      BY <1>2, <1>4, <2>2 DEF Fields
<1>9. CASE f.type = "[DONE]"
  <2>1. PICK n : n = v.ends + 1
      OBVIOUS
  <2>2. w = [v EXCEPT !.ends = n]
      BY <1>1, <1>9, <2>1 DEF ReadOpenAI
  <2>3. Fields(v, v.stop, v.usage, v.error, n, w)
      BY <1>1, <2>2, FieldsSet
  <2>4. QED
      BY <1>2, <1>4, <1>5, <1>9, <2>3 DEF Fields
<1>10. QED
    BY <1>3, <1>6, <1>7, <1>8, <1>9

\* The numbers of a list of blocks, and of one more.
LEMMA CountedOn ==
    ASSUME NEW v, NEW n \in Nat, DOMAIN v.blocks = 0..(n - 1)
    PROVE  Count(v) = n /\ DOMAIN v.blocks \cup {n} = 0..((n + 1) - 1)
<1>1. Count(v) = n
  <2>1. Cardinality(0..(n - 1)) = IF 0 > n - 1 THEN 0 ELSE (n - 1) - 0 + 1
      BY FS_Interval
  <2>2. QED
      BY <2>1 DEF Count
<1>2. DOMAIN v.blocks \cup {n} = 0..((n + 1) - 1)
    OBVIOUS
<1>3. QED
    BY <1>1, <1>2

\* A block that begins is the next of the list.
LEMMA ListGoesOn ==
    ASSUME NEW p \in {"anthropic", "responses"}, NEW v, NEW n \in Nat, DOMAIN v.blocks = 0..(n - 1),
           NEW f, Starts(f) => f.index = Count(v), NEW w, Grows(p, v, f, w)
    PROVE  \E m \in Nat : DOMAIN w.blocks = 0..(m - 1)
<1>1. CASE DOMAIN w.blocks = DOMAIN v.blocks
    BY <1>1
<1>2. CASE Starts(f) /\ DOMAIN w.blocks = DOMAIN v.blocks \cup {f.index}
  <2>1. DOMAIN w.blocks = 0..((n + 1) - 1)
      BY <1>2, CountedOn
  <2>2. QED
      BY <2>1
<1>3. QED
    BY <1>1, <1>2 DEF Grows, KeyOf

\* Frames of Anthropic keep the form.
LEMMA AnthropicKeepsForm ==
    ASSUME NEW v, SaidUsage("anthropic", v), SaidForm("anthropic", v), NEW f \in Sends("anthropic", v),
           NEW w, w = Read("anthropic", v, f)
    PROVE  SaidForm("anthropic", w) /\ CallsKept(v, f, w)
<1>1. v.ends = 0 /\ FrameKind(f) /\ AnthropicSays(v, f, w) /\ AnthropicSends(v, f)
    BY SaidKept, AnthropicForms DEF Protocols
<1>2. Grows("anthropic", v, f, w)
    BY <1>1, BlocksGrow DEF SaidUsage, Protocols
<1>3. CallsKept(v, f, w)
    BY <1>2, CallRead
<1>4. w.error \in BOOLEAN
    BY <1>2 DEF Grows, SaidForm
<1>5. /\ Starts(f) => f.index = Count(v)
      /\ f.type = "message_delta" => ~Starts(f) /\ f.stop \in MessageStops(v)
      /\ v.stop # "none" => ~Starts(f)
  <2>1. ASSUME NEW type, f = Frame(type)
        PROVE  ~Starts(f) /\ f.type = type
      BY <2>1, FrameForm DEF Wire, Starts
  <2>2. ASSUME NEW cost, f = [Frame("message_start") EXCEPT !.usage = cost]
        PROVE  ~Starts(f) /\ f.type = "message_start"
      BY <2>2, FrameForm DEF Wire, Starts
  <2>3. ASSUME NEW type, NEW index, NEW kind, NEW id, NEW ps, f = Part(type, index, kind, id, ps)
        PROVE  f.type = type /\ f.index = index
      BY <2>3, PartForm DEF Wire
  <2>4. ASSUME NEW stop, NEW cost, f = Closing("message_delta", stop, cost)
        PROVE  ~Starts(f) /\ f.type = "message_delta" /\ f.stop = stop
      BY <2>4, ClosingForm DEF Wire, Starts
  <2>5. \/ \E cost : v.stop = "none" /\ f = [Frame("message_start") EXCEPT !.usage = cost]
        \/ f = Frame("message_stop")
        \/ v.stop = "none" /\ f \in {Frame("ping"), Frame("error")}
        \/ v.stop = "none" /\ \E type, index, kind, id, ps :
              /\ type \in {"content_block_delta", "content_block_stop"}
              /\ f = Part(type, index, kind, id, ps)
        \/ v.stop = "none" /\ \E kind, id, ps : f = Part("content_block_start", Count(v), kind, id, ps)
        \/ v.stop = "none" /\ \E stop, cost : stop \in MessageStops(v) /\ f = Closing("message_delta", stop, cost)
    <3>1. ~v.started => v.stop = "none"
        BY DEF SaidUsage, SaidAnthropic
    <3>2. CASE ~v.started
        BY <1>1, <3>1, <3>2 DEF AnthropicSends
    <3>3. CASE v.started /\ v.stop # "none"
        BY <1>1, <3>3 DEF AnthropicSends
    <3>4. CASE v.started /\ v.stop = "none"
      <4>1. \/ f \in {Frame("ping"), Frame("error")}
            \/ \E key, ps : f = Part("content_block_delta", key, v.blocks[key].kind, 0, ps)
            \/ \E key : f = Part("content_block_stop", key, "none", 0, <<>>)
            \/ \E kind : f = Part("content_block_start", Count(v), kind, NextId(v, kind), <<>>)
            \/ \E stop, u : stop \in MessageStops(v) /\ f = Closing("message_delta", stop, EndCost(v, u))
          BY <1>1, <3>4 DEF AnthropicSends
      <4>2. QED
          BY <3>4, <4>1
    <3>5. QED
        BY <3>2, <3>3, <3>4
  <2>6. QED
      BY <2>1, <2>2, <2>3, <2>4, <2>5 DEF Starts
<1>6. \E n \in Nat : DOMAIN w.blocks = 0..(n - 1)
    BY <1>2, <1>5, ListGoesOn DEF SaidForm
<1>7. ~Starts(f) => MessageStops(w) = MessageStops(v)
    BY <1>3, StopsOfCalls DEF CallsKept, Calling
<1>8. w.stop \in {"none"} \cup MessageStops(w) /\ (w.ends > 0 => w.stop # "none")
  <2>1. CASE f.type = "message_delta"
    <3>1. w.stop = f.stop /\ w.ends = 0
        BY <1>1, <2>1 DEF AnthropicSays
    <3>2. QED
        BY <1>5, <1>7, <2>1, <3>1
  <2>2. CASE f.type # "message_delta"
    <3>1. w.stop = v.stop /\ (w.ends = 0 \/ v.stop # "none")
        BY <1>1, <2>2 DEF AnthropicSays
    <3>2. QED
        BY <1>5, <1>7, <3>1 DEF SaidForm
  <2>3. QED
      BY <2>1, <2>2
<1>9. QED
    BY <1>3, <1>4, <1>6, <1>8 DEF SaidForm

\* Frames of a Responses upstream keep the form.
LEMMA ResponsesKeepsForm ==
    ASSUME NEW v, SaidUsage("responses", v), SaidForm("responses", v), NEW f \in Sends("responses", v),
           NEW w, w = Read("responses", v, f)
    PROVE  SaidForm("responses", w) /\ CallsKept(v, f, w)
<1>1. v.ends = 0 /\ FrameKind(f) /\ ResponsesSays(v, f, w) /\ ResponsesSends(v, f) /\ IsView(v)
    BY SaidKept, ResponsesForms DEF Protocols, SaidUsage
<1>2. Grows("responses", v, f, w)
    BY <1>1, BlocksGrow DEF SaidUsage, Protocols
<1>3. CallsKept(v, f, w)
    BY <1>2, CallRead
<1>4. w.error \in BOOLEAN
    BY <1>2 DEF Grows, SaidForm
<1>5. /\ Starts(f) => f.index = Count(v)
      /\ f.type \in {"response.completed", "response.incomplete"} => f.stop \in {"completed", "incomplete"}
  <2>1. ASSUME NEW type, f = Frame(type), type \in {"response.created", "response.failed", "error"}
        PROVE  ~Starts(f) /\ f.type = type
      BY <2>1, FrameForm DEF Wire, Starts
  <2>2. ASSUME NEW type, NEW index, NEW kind, NEW id, NEW ps, f = Part(type, index, kind, id, ps)
        PROVE  f.type = type /\ f.index = index
      BY <2>2, PartForm DEF Wire
  <2>3. ASSUME NEW type, NEW stop, NEW cost, f = Closing(type, stop, cost)
        PROVE  ~Starts(f) /\ f.stop = stop
      BY <2>3, ClosingForm DEF Wire, Starts
  <2>4. \/ f \in {Frame("response.created"), Frame("response.failed"), Frame("error")}
        \/ \E kind, id, ps : f = Part("response.output_item.added", Count(v), kind, id, ps)
        \/ \E type, index, kind, id, ps : /\ type \in {"response.delta", "response.output_item.done"}
                                          /\ f = Part(type, index, kind, id, ps)
        \/ \E type, stop, cost : stop \in {"completed", "incomplete"} /\ f = Closing(type, stop, cost)
      BY <1>1 DEF ResponsesSends
  <2>5. QED
      BY <2>1, <2>2, <2>3, <2>4 DEF Starts
<1>6. \E n \in Nat : DOMAIN w.blocks = 0..(n - 1)
    BY <1>2, <1>5, ListGoesOn DEF SaidForm
<1>7. w.stop \in {"none", "completed", "incomplete"} /\ (w.ends > 0 /\ ~w.error => w.stop # "none")
  <2>1. CASE f.type \in {"response.completed", "response.incomplete"}
    <3>1. PICK bad : bad = (v.bad \/ Open(v) # {})
        OBVIOUS
    <3>2. PICK n : n = v.ends + 1
        OBVIOUS
    <3>3. w = [v EXCEPT !.stop = f.stop, !.usage = f.usage, !.ends = n, !.bad = bad]
        BY <1>1, <2>1, <3>1, <3>2 DEF Read, ReadResponses, Ended
    <3>4. Fields(v, f.stop, f.usage, v.error, n, w)
        BY <1>1, <3>3, FieldsSet
    <3>5. QED
        BY <1>5, <2>1, <3>4 DEF Fields
  <2>2. CASE f.type \in {"response.failed", "error"}
    <3>1. PICK n : n = v.ends + 1
        OBVIOUS
    <3>2. w = [v EXCEPT !.error = TRUE, !.ends = n]
        BY <1>1, <2>2, <3>1 DEF Read, ReadResponses
    <3>3. Fields(v, v.stop, v.usage, TRUE, n, w)
        BY <1>1, <3>2, FieldsSet
    <3>4. QED
        BY <3>3 DEF Fields, SaidForm
  <2>3. CASE f.type \in {"response.created", "response.output_item.added", "response.delta",
                         "response.output_item.done"}
    <3>1. SameVerdict(v, w)
        BY <1>1, <2>3, QuietRead DEF QuietFrame, Protocols
    <3>2. QED
        BY <1>1, <3>1 DEF SameVerdict, SaidForm
  <2>4. QED
      BY <1>1, <2>1, <2>2, <2>3 DEF ResponsesSays
<1>8. QED
    BY <1>3, <1>4, <1>6, <1>7 DEF SaidForm

\* The form is kept with every frame of every protocol.
LEMMA FormKeptBySaid ==
    ASSUME NEW p \in Protocols, NEW v, SaidUsage(p, v), SaidForm(p, v), NEW f \in Sends(p, v)
    PROVE  SaidForm(p, Read(p, v, f))
BY OpenAIKeepsForm, AnthropicKeepsForm, ResponsesKeepsForm DEF Protocols

\* An answer of which nothing is said has it.
LEMMA FormOfNothing == \A p \in Protocols : SaidForm(p, View)
<1>1. DOMAIN View.blocks = {} /\ View.error = FALSE /\ View.stop = "none" /\ View.ends = 0
    BY DEF View
<1>2. IsFiniteSet({}) /\ 0 \in Nat /\ 0..(0 - 1) = {}
    BY FS_EmptySet
<1>3. DOMAIN View.blocks = 0..(0 - 1) /\ IsFiniteSet(DOMAIN View.blocks) /\ ChatView(View)
    BY <1>1, <1>2 DEF ChatView
<1>4. ASSUME NEW p \in Protocols
      PROVE  SaidForm(p, View)
  <2>1. PICK v : v = View
      OBVIOUS
  <2>2. /\ v.error = FALSE /\ v.stop = "none" /\ v.ends = 0 /\ ~(0 > 0)
        /\ IsFiniteSet(DOMAIN v.blocks) /\ ChatView(v) /\ DOMAIN v.blocks = 0..(0 - 1)
      BY <1>1, <1>3, <2>1
  <2>3. \E n \in Nat : DOMAIN v.blocks = 0..(n - 1)
      BY <2>2
  <2>4. SaidForm(p, v)
      BY <2>2, <2>3, Zenon DEF SaidForm
  <2>5. QED
      BY <2>1, <2>4
<1>5. QED
    BY <1>4
-----------------------------------------------------------------------------
\* Events of the middle of a message are put together.
LEMMA MurmursMade ==
    /\ Murmurs(<<>>)
    /\ \A ev : Midway(ev) => Murmurs(<<ev>>)
    /\ \A a, b : Murmurs(a) /\ Murmurs(b) => Murmurs(a \o b)
<1>1. Murmurs(<<>>)
    BY RowOfFew DEF Murmurs
<1>2. ASSUME NEW ev, Midway(ev)
      PROVE  Murmurs(<<ev>>)
    BY <1>2, RowOfFew DEF Murmurs
<1>3. ASSUME NEW a, NEW b, Murmurs(a), Murmurs(b)
      PROVE  Murmurs(a \o b)
  <2>1. Row(a \o b) /\ Row(a) /\ Row(b)
      BY <1>3, RowsMade DEF Murmurs
  <2>2. PICK S : a \in Seq(S)
      BY <2>1 DEF Row
  <2>3. PICK R : b \in Seq(R)
      BY <2>1 DEF Row
  <2>4. ASSUME NEW i \in 1..Len(a \o b)
        PROVE  Midway((a \o b)[i])
    <3>1. CASE i <= Len(a)
      <4>1. (a \o b)[i] = a[i] /\ i \in 1..Len(a)
          BY <2>2, <2>3, <3>1
      <4>2. QED
          BY <1>3, <4>1 DEF Murmurs
    <3>2. CASE i > Len(a)
      <4>1. (a \o b)[i] = b[i - Len(a)] /\ i - Len(a) \in 1..Len(b)
          BY <2>2, <2>3, <3>2
      <4>2. QED
          BY <1>3, <4>1 DEF Murmurs
    <3>3. QED
        BY <2>2, <2>3, <3>1, <3>2
  <2>5. QED
      BY <2>1, <2>4 DEF Murmurs
<1>4. QED
    BY <1>1, <1>2, <1>3

\* A fragment is one.
LEMMA FragmentMurmurs ==
    ASSUME NEW kind \in {"text", "thinking", "tool_start", "tool_delta", "tool_end", "ping", "start"},
           NEW tool, NEW id, NEW ps
    PROVE  Murmurs(<<Event(kind, tool, id, ps)>>) /\ Murmurs(NonEmpty(kind, tool, ps))
<1>1. Midway(Event(kind, tool, id, ps)) /\ Midway(Event(kind, tool, 0, ps))
    BY DEF Midway, Event
<1>2. QED
    BY <1>1, MurmursMade DEF NonEmpty

\* So a chunk is read, ...
LEMMA ChunkMurmurs ==
    ASSUME NEW rd, NEW f, FrameKind(f), f.type = "chunk"
    PROVE  Murmurs(FeedOpenAI(rd, f).out)
<1>1. PICK opened : opened = IF rd.started THEN <<>> ELSE <<Event("start", 0, 0, <<>>)>>
    OBVIOUS
<1>2. Murmurs(opened)
    BY <1>1, FragmentMurmurs, MurmursMade
<1>3. \E called, tool, delta :
         /\ FeedOpenAI(rd, f).out = opened \o delta
         /\ called \in {<<>>, <<Event("tool_start", tool, f.id, <<>>)>>}
         /\ \E n : delta = CASE f.kind = "none" -> <<>>
                            [] f.kind = "tool_use" -> called \o NonEmpty("tool_delta", n, f.pieces)
                            [] OTHER -> NonEmpty(f.kind, 0, f.pieces)
  <2>1. PICK seqTool : seqTool = Len(SetToSeq(DOMAIN rd.chunkIdx))
      OBVIOUS
  <2>2. PICK fresh : fresh = (f.kind = "tool_use" /\ f.index \notin DOMAIN rd.chunkIdx)
      OBVIOUS
  <2>3. PICK tools : tools = IF fresh THEN With(rd.chunkIdx, f.index, seqTool) ELSE rd.chunkIdx
      OBVIOUS
  <2>4. PICK called : called = IF fresh THEN <<Event("tool_start", seqTool, f.id, <<>>)>> ELSE <<>>
      OBVIOUS
  <2>5. PICK n : n = tools[f.index]
      OBVIOUS
  <2>6. PICK delta : delta = CASE f.kind = "none" -> <<>>
                               [] f.kind = "tool_use" -> called \o NonEmpty("tool_delta", n, f.pieces)
                               [] OTHER -> NonEmpty(f.kind, 0, f.pieces)
      OBVIOUS
  <2>7. \E m : FeedOpenAI(rd, f) = Step(m, opened \o delta)
      BY <1>1, <2>1, <2>2, <2>3, <2>4, <2>5, <2>6 DEF FeedOpenAI
  <2>8. \A m, out : Step(m, out).out = out
      BY DEF Step
  <2>9. FeedOpenAI(rd, f).out = opened \o delta
      BY <2>7, <2>8
  <2>10. QED
      BY <2>4, <2>6, <2>9
<1>4. PICK called, tool, delta :
         /\ FeedOpenAI(rd, f).out = opened \o delta
         /\ called \in {<<>>, <<Event("tool_start", tool, f.id, <<>>)>>}
         /\ \E n : delta = CASE f.kind = "none" -> <<>>
                            [] f.kind = "tool_use" -> called \o NonEmpty("tool_delta", n, f.pieces)
                            [] OTHER -> NonEmpty(f.kind, 0, f.pieces)
    BY <1>3
<1>5. Murmurs(called)
    BY <1>4, FragmentMurmurs, MurmursMade
<1>6. Murmurs(delta)
  <2>1. f.kind \in {"text", "thinking", "tool_use", "none"}
      BY DEF FrameKind, Kinds
  <2>2. CASE f.kind = "none"
      BY <1>4, <2>2, MurmursMade
  <2>3. CASE f.kind = "tool_use"
    <3>1. PICK n : delta = called \o NonEmpty("tool_delta", n, f.pieces)
        BY <1>4, <2>3
    <3>2. Murmurs(NonEmpty("tool_delta", n, f.pieces))
        BY FragmentMurmurs
    <3>3. QED
        BY <1>5, <3>1, <3>2, MurmursMade
  <2>4. CASE f.kind \in {"text", "thinking"}
    <3>1. delta = NonEmpty(f.kind, 0, f.pieces)
        BY <1>4, <2>4
    <3>2. QED
        BY <2>4, <3>1, FragmentMurmurs
  <2>5. QED
      BY <2>1, <2>2, <2>3, <2>4
<1>7. QED
    BY <1>2, <1>4, <1>6, MurmursMade

\* ... a frame of Anthropic that does not end the message, ...
LEMMA AnthropicMurmurs ==
    ASSUME NEW rd, NEW f, f.type \notin {"message_delta", "error"},
           f.type = "content_block_delta" => f.kind \in Kinds
    PROVE  Murmurs(FeedAnthropic(rd, f).out)
<1>1. \A m, out : Step(m, out).out = out
    BY DEF Step
<1>2. \/ FeedAnthropic(rd, f).out = <<>>
      \/ \E n, id : \E kind \in {"start", "ping", "tool_start"} : FeedAnthropic(rd, f).out = <<Event(kind, n, id, <<>>)>>
      \/ \E n : \E kind \in {"tool_delta", "text", "thinking"} : FeedAnthropic(rd, f).out = NonEmpty(kind, n, f.pieces)
  <2>1. CASE f.type = "content_block_delta"
    <3>1. FeedAnthropic(rd, f).out = IF f.kind = "tool_use" THEN NonEmpty("tool_delta", LatestTool(rd), f.pieces)
                                     ELSE NonEmpty(f.kind, 0, f.pieces)
        BY <1>1, <2>1 DEF FeedAnthropic
    <3>2. QED
        BY <2>1, <3>1 DEF Kinds
  <2>2. CASE f.type # "content_block_delta"
    <3>1. FeedAnthropic(rd, f).out \in {<<>>, <<Event("start", 0, 0, <<>>)>>, <<Event("ping", 0, 0, <<>>)>>,
                                        <<Event("tool_start", rd.seqTool, f.id, <<>>)>>}
        BY <1>1, <2>2 DEF FeedAnthropic
    <3>2. QED
        BY <3>1
  <2>3. QED
      BY <2>1, <2>2
<1>3. QED
    BY <1>2, FragmentMurmurs, MurmursMade

\* ... and one of a response.
LEMMA ItemMurmurs ==
    ASSUME NEW rd, NEW f, FrameKind(f),
           f.type \in {"response.created", "response.output_item.added", "response.delta",
                       "response.output_item.done"},
           f.type = "response.delta" => f.kind \in Kinds
    PROVE  Murmurs(FeedResponses(rd, f).out)
<1>1. \A m, out : Step(m, out).out = out
    BY DEF Step
<1>2. \/ FeedResponses(rd, f).out = <<>>
      \/ \E n, id, ps : \E kind \in {"start", "tool_start", "tool_delta", "text", "thinking"} :
            FeedResponses(rd, f).out = <<Event(kind, n, id, ps)>>
      \/ \E n : FeedResponses(rd, f).out = UnseenArgs(rd, n, f.pieces) \o <<Event("tool_end", n, 0, <<>>)>>
  <2>1. CASE f.type = "response.delta"
    <3>1. CASE f.kind = "tool_use"
        BY <1>1, <2>1, <3>1 DEF FeedResponses
    <3>2. CASE f.kind \in {"text", "thinking"}
        BY <1>1, <2>1, <3>2 DEF FeedResponses
    <3>3. QED
        BY <2>1, <3>1, <3>2 DEF Kinds
  <2>2. CASE f.type = "response.output_item.done"
    <3>1. PICK tool : tool = rd.outIdx[f.index]
        OBVIOUS
    <3>2. PICK out : out = UnseenArgs(rd, tool, f.pieces) \o <<Event("tool_end", tool, 0, <<>>)>>
        OBVIOUS
    <3>3. FeedResponses(rd, f) = Step(rd, out) \/ FeedResponses(rd, f) = Step(rd, <<>>)
        BY <2>2, <3>1, <3>2 DEF FeedResponses
    <3>4. FeedResponses(rd, f).out \in {out, <<>>}
        BY <1>1, <3>3
    <3>5. QED
        BY <3>2, <3>4
  <2>3. CASE f.type \in {"response.created", "response.output_item.added"}
    <3>1. FeedResponses(rd, f).out \in {<<>>, <<Event("start", 0, 0, <<>>)>>,
                                        <<Event("tool_start", rd.seqTool, f.id, <<>>)>>}
        BY <1>1, <2>3 DEF FeedResponses
    <3>2. QED
        BY <3>1
  <2>4. QED
      BY <2>1, <2>2, <2>3
<1>3. \A n : Murmurs(UnseenArgs(rd, n, f.pieces) \o <<Event("tool_end", n, 0, <<>>)>>)
  <2>1. TAKE n
  <2>2. Murmurs(UnseenArgs(rd, n, f.pieces))
      BY FragmentMurmurs, MurmursMade DEF UnseenArgs
  <2>3. Murmurs(<<Event("tool_end", n, 0, <<>>)>>)
      BY FragmentMurmurs
  <2>4. QED
      BY <2>2, <2>3, MurmursMade
<1>4. QED
    BY <1>2, <1>3, FragmentMurmurs, MurmursMade
-----------------------------------------------------------------------------
\* Why a canonical answer stopped of which v was said.
Why(up, v) ==
    IF up = "responses" /\ v.stop = "completed" THEN IF Called(v) THEN "tool_use" ELSE "end_turn"
    ELSE StopFrom(up, v.stop)

\* What the client of a relay has been told of an answer, of which v was said
\* and the reader has kept the rest.
Telling(up, p, v, rd, s) ==
    /\ v.error => Broken(s)
    /\ up = "openai" /\ ~v.error =>
          /\ Untold(s)
          /\ rd.finish = StopFrom("openai", v.stop) /\ rd.usage = ToIR("openai", v.usage)
    /\ up = "anthropic" /\ ~v.error =>
          IF v.stop = "none" THEN Untold(s) ELSE Told(p, s, Why(up, v), ToIR(up, v.usage))
    /\ up = "responses" =>
          /\ rd.seqTool \in Nat /\ (Called(v) <=> rd.seqTool > 0)
          /\ ~v.error => IF v.ends = 0 THEN Untold(s) ELSE Told(p, s, Why(up, v), ToIR(up, v.usage))
    /\ p = "responses" /\ ~v.error => (Called(s) <=> Called(v))

\* Which calls a Responses client knows of after no event, after one, and after
\* those of a call.
LEMMA CallsFollow ==
    ASSUME NEW rn, NEW s, NEW st, st = [rn |-> rn, seen |-> s], Going("responses", st),
           NEW out, NEW to, to = Shown("responses", st, out)
    PROVE  /\ out = <<>> => (Called(to.seen) <=> Called(s))
           /\ \A ev : out = <<ev>> /\ Ready("responses", st, ev) /\ ev.kind \notin {"tool_start", "tool_delta"} =>
                 (Called(to.seen) <=> Called(s))
           /\ \A ev : out = <<ev>> /\ ev.kind = "tool_delta" /\ Called(s) => Called(to.seen)
           /\ \A e1, e2 : e1.kind = "tool_start" /\ e2.kind = "tool_delta" /\ out \in {<<e1>>, <<e1, e2>>} =>
                 Called(to.seen)
<1>1. \A e1, e2 : ShownInTurn("responses", st, e1, e2)
    BY ShownFew DEF Protocols
<1>2. st.seen = s
    BY Zenon
<1>3. out = <<>> => to = st
    BY <1>1 DEF ShownInTurn
<1>4. ASSUME NEW ev, out = <<ev>>
      PROVE  to = Relayed("responses", st, ev)
    BY <1>1, <1>4 DEF ShownInTurn
<1>5. ASSUME NEW ev, out = <<ev>>, Ready("responses", st, ev), ev.kind \notin {"tool_start", "tool_delta"}
      PROVE  Called(to.seen) <=> Called(s)
    BY <1>2, <1>4, <1>5, EventCalls DEF CallsShown
<1>6. \A x, ev : ev.kind \in {"tool_start", "tool_delta"} => Ready("responses", x, ev)
    BY DEF Ready, EventKinds
<1>7. ASSUME NEW ev, out = <<ev>>, ev.kind = "tool_delta", Called(s)
      PROVE  Called(to.seen)
    BY <1>2, <1>4, <1>6, <1>7, EventCalls DEF CallsShown
<1>8. ASSUME NEW e1, NEW e2, e1.kind = "tool_start", e2.kind = "tool_delta", out \in {<<e1>>, <<e1, e2>>}
      PROVE  Called(to.seen)
  <2>1. PICK mid : mid = Relayed("responses", st, e1)
      OBVIOUS
  <2>2. Called(mid.seen)
      BY <1>6, <1>8, <2>1, EventCalls DEF CallsShown
  <2>3. Going("responses", mid)
      BY <1>6, <1>8, <2>1, ResponsesFollows DEF Follows, Ends
  <2>4. CASE out = <<e1>>
      BY <1>4, <2>1, <2>2, <2>4
  <2>5. CASE out = <<e1, e2>>
    <3>1. to = Relayed("responses", mid, e2)
        BY <1>1, <2>1, <2>5 DEF ShownInTurn
    <3>2. QED
        BY <1>6, <1>8, <2>2, <2>3, <3>1, EventCalls DEF CallsShown
  <2>6. QED
      BY <1>8, <2>4, <2>5
<1>9. QED
    BY <1>2, <1>3, <1>5, <1>7, <1>8

\* An event that is not of a call, by itself.
LEMMA CallsStay ==
    ASSUME NEW rn, NEW s, NEW st, st = [rn |-> rn, seen |-> s], Going("responses", st),
           NEW ev, Ready("responses", st, ev), ev.kind \notin {"tool_start", "tool_delta"},
           NEW to, to = Shown("responses", st, <<ev>>)
    PROVE  Called(to.seen) <=> Called(s)
BY CallsFollow

\* One event that tells of an error, or how the message ends.
LEMMA EndTold ==
    ASSUME NEW p \in Protocols, NEW rn, p # "anthropic" => rn.finished = FALSE, NEW s, Untold(s),
           NEW st, st = [rn |-> rn, seen |-> s], NEW ev, NEW to, to = Shown(p, st, <<ev>>)
    PROVE  /\ ev.kind = "error" => Broken(to.seen)
           /\ ev.kind = "finish" /\ ev.usage \in Costs => Told(p, to.seen, ev.stop, ev.usage)
<1>1. to = Relayed(p, st, ev)
  <2>1. ShownInTurn(p, st, ev, ev)
      BY ShownFew
  <2>2. QED
      BY <2>1 DEF ShownInTurn
<1>2. to.seen = ReadAll(p, s, Render(p, rn, ev).out)
    BY <1>1 DEF Relayed
<1>3. QED
    BY <1>2, ErrorTold, FinishTold

\* Other events tell nothing.
LEMMA NothingTold ==
    ASSUME NEW p \in Protocols, NEW rn, NEW s, NEW st, st = [rn |-> rn, seen |-> s],
           NEW out, Murmurs(out), NEW to, to = Shown(p, st, out)
    PROVE  Untold(s) => Untold(to.seen)
<1>1. to.seen = ReadAll(p, s, RenderAll(p, rn, out).out)
    BY DEF Shown
<1>2. QED
    BY <1>1, QuietShown DEF SameVerdict, Untold

\* What a chunk says of the end, and what the reader keeps of it.
LEMMA ChunkKept ==
    ASSUME NEW v, IsView(v), BlocksOK(v), ChatView(v), NEW f, FrameKind(f), f.type = "chunk",
           f.kind = "none" \/ ChatPart(f), NEW w, w = ReadOpenAI(v, f),
           NEW rd, rd.finish = StopFrom("openai", v.stop), rd.usage = ToIR("openai", v.usage),
           NEW r, r = FeedOpenAI(rd, f).machine
    PROVE  w.error = v.error /\ r.finish = StopFrom("openai", w.stop) /\ r.usage = ToIR("openai", w.usage)
<1>1. /\ w.error = v.error
      /\ w.stop = IF f.stop = "none" THEN v.stop ELSE f.stop
      /\ w.usage = IF f.usage = NoUsage THEN v.usage ELSE f.usage
  <2>1. CASE f.kind = "none"
    <3>1. PICK bad : Charted(v, IF f.stop = "none" THEN v.stop ELSE f.stop,
                             IF f.usage = NoUsage THEN v.usage ELSE f.usage, bad, w)
        BY <2>1, PlainChunk
    <3>2. QED
        BY <3>1 DEF Charted
  <2>2. CASE ChatPart(f)
    <3>1. ChatGrown(v, f, w) /\ f.stop = "none" /\ f.usage = NoUsage
        BY <2>2, ChatRead DEF ChatPart
    <3>2. QED
        BY <3>1 DEF ChatGrown
  <2>3. QED
      BY <2>1, <2>2
<1>2. /\ r.finish = IF f.stop = "none" THEN rd.finish ELSE StopFrom("openai", f.stop)
      /\ r.usage = IF f.usage = NoUsage THEN rd.usage ELSE ToIR("openai", f.usage)
  <2>1. \A m, out : Step(m, out).machine = m
      BY DEF Step
  <2>2. PICK finish : finish = IF f.stop = "none" THEN rd.finish ELSE StopFrom("openai", f.stop)
      OBVIOUS
  <2>3. PICK cost : cost = IF f.usage = NoUsage THEN rd.usage ELSE ToIR("openai", f.usage)
      OBVIOUS
  <2>4. \E tools, out : FeedOpenAI(rd, f) = Step([started |-> TRUE, chunkIdx |-> tools, finish |-> finish, usage |-> cost],
                                                 out)
      BY <2>2, <2>3 DEF FeedOpenAI
  <2>5. PICK tools, out : FeedOpenAI(rd, f) = Step([started |-> TRUE, chunkIdx |-> tools, finish |-> finish,
                                                    usage |-> cost], out)
      BY <2>4
  <2>6. r = [started |-> TRUE, chunkIdx |-> tools, finish |-> finish, usage |-> cost]
      BY <2>1, <2>5
  <2>7. QED
      BY <2>2, <2>3, <2>6
<1>3. QED
    BY <1>1, <1>2

\* What a line of an OpenAI upstream tells.
LEMMA OpenAITells ==
    ASSUME NEW p \in {"anthropic", "responses"}, NEW v, SaidUsage("openai", v), SaidForm("openai", v),
           NEW f \in Sends("openai", v), NEW w, w = Read("openai", v, f),
           NEW rd, NEW rn, NEW s, NEW st, st = [rn |-> rn, seen |-> s], Telling("openai", p, v, rd, s),
           p = "responses" => FromOpenAIUp(p, v, rd, st),
           NEW step, step = IF f.type = "[DONE]" THEN Step(rd, <<>>) ELSE FeedOpenAI(rd, f),
           NEW to, to = Shown(p, st, step.out)
    PROVE  Telling("openai", p, w, step.machine, to.seen)
<1>1. /\ v.ends = 0 /\ FrameKind(f) /\ OpenAISends(v, f) /\ IsView(v) /\ BlocksOK(v)
      /\ w = ReadOpenAI(v, f)
    <2>1. v.ends = 0 /\ FrameKind(f) /\ OpenAISends(v, f)
        BY SaidKept, OpenAIForms DEF Protocols
    <2>2. QED
        BY <2>1 DEF SaidUsage, Read
<1>2. IsFiniteSet(DOMAIN v.blocks) /\ ChatView(v)
    BY DEF SaidForm
<1>3. /\ ~v.error
      /\ \/ f.type = "chunk" /\ f.kind = "none"
         \/ v.started /\ ChatPart(f) /\ f.type = "chunk"
         \/ f.type = "error"
         \/ f.type = "[DONE]"
    BY <1>1, <1>2, OpenAIChunks DEF ChatPart
<1>4. /\ Untold(s) /\ rd.finish = StopFrom("openai", v.stop) /\ rd.usage = ToIR("openai", v.usage)
      /\ p = "responses" => (Called(s) <=> Called(v)) /\ Going(p, st)
    BY <1>3 DEF Telling, FromOpenAIUp
<1>5. \A m, out : Step(m, out).machine = m /\ Step(m, out).out = out
    BY DEF Step
<1>6. CallsKept(v, f, w) /\ Grows("openai", v, f, w)
    BY <1>1, BlocksGrow, CallRead DEF Protocols
<1>7. p \in Protocols /\ st.rn = rn /\ st.seen = s
    BY DEF Protocols
<1>8. CASE f.type = "chunk"
  <2>1. step = FeedOpenAI(rd, f)
      BY <1>8
  <2>2. w.error = v.error /\ step.machine.finish = StopFrom("openai", w.stop)
        /\ step.machine.usage = ToIR("openai", w.usage)
      BY <1>1, <1>2, <1>3, <1>4, <1>8, <2>1, ChunkKept
  <2>3. Untold(to.seen)
    <3>1. Murmurs(step.out)
        BY <1>1, <1>8, <2>1, ChunkMurmurs
    <3>2. QED
        BY <1>4, <1>7, <3>1, NothingTold
  <2>4. ASSUME p = "responses"
        PROVE  Called(to.seen) <=> Called(w)
    <3>1. /\ Going("responses", st) /\ (Called(s) <=> Called(v)) /\ (rd.started <=> v.started)
          /\ DOMAIN rd.chunkIdx \subseteq DOMAIN v.blocks /\ (st.seen.started => v.started)
        BY <1>3, <1>4, <2>4 DEF FromOpenAIUp
    <3>2. ChunkFed(rd, f, step)
        BY <1>1, <1>8, <2>1, ChunkIsFed
    <3>3. f.kind \in {"none", "text", "thinking", "tool_use"}
        BY <1>1 DEF FrameKind, Kinds
    <3>4. f.kind # "tool_use" => (Called(w) <=> Called(v))
        BY <1>6 DEF CallsKept, Calling
    <3>5. CASE f.kind = "none" /\ ~rd.started
      <4>1. PICK ev : ev = Event("start", 0, 0, <<>>)
          OBVIOUS
      <4>2. step.out = <<ev>> /\ ev.kind = "start"
          BY <3>2, <3>5, <4>1 DEF ChunkFed, Event
      <4>3. Ready("responses", st, ev)
          BY <3>1, <3>5, <4>2 DEF Ready, EventKinds
      <4>4. Going("responses", st) /\ to = Shown("responses", st, step.out) /\ ev.kind \notin {"tool_start", "tool_delta"}
          BY <2>4, <3>1, <4>2
      <4>5. to = Shown("responses", st, <<ev>>)
          BY <4>2, <4>4
      <4>6. Called(to.seen) <=> Called(s)
          BY <4>3, <4>4, <4>5, CallsStay, Zenon
      <4>7. QED
          BY <3>1, <3>4, <3>5, <4>6
    <3>6. CASE f.kind = "none" /\ rd.started
      <4>1. step.out = <<>>
          BY <3>2, <3>6 DEF ChunkFed
      <4>2. QED
          BY <2>4, <3>1, <3>4, <3>6, <4>1, CallsFollow
    <3>7. CASE f.kind \in {"text", "thinking"}
      <4>1. PICK ev : ev = Event(f.kind, 0, 0, f.pieces)
          OBVIOUS
      <4>2. step.out \in {<<>>, <<ev>>} /\ ev.kind = f.kind
          BY <1>3, <1>8, <3>1, <3>2, <3>7, <4>1 DEF ChunkFed, Event
      <4>3. Ready("responses", st, ev)
          BY <3>7, <4>2 DEF Ready, EventKinds
      <4>4. QED
          BY <2>4, <3>1, <3>4, <3>7, <4>2, <4>3, CallsFollow
    <3>8. CASE f.kind = "tool_use"
      <4>1. ChatGrown(v, f, w) /\ ChatKey(f) = f.index /\ f.index \in Nat /\ v.started
        <5>1. v.started /\ ChatPart(f)
            BY <1>3, <1>8, <3>8
        <5>2. ChatGrown(v, f, w)
            BY <1>1, <1>2, <5>1, ChatRead
        <5>3. QED
            BY <3>8, <5>1, <5>2 DEF ChatKey, ChatPart
      <4>2. Called(w)
          BY <3>8, <4>1 DEF ChatGrown, Called
      <4>3. PICK e1, e2 : /\ e1.kind = "tool_start" /\ e2.kind = "tool_delta"
                          /\ step.out \in IF f.index \in DOMAIN rd.chunkIdx THEN {<<>>, <<e2>>}
                                          ELSE {<<e1>>, <<e1, e2>>}
          BY <3>1, <3>2, <3>8, <4>1 DEF ChunkFed
      <4>4. CASE f.index \in DOMAIN rd.chunkIdx
        <5>1. f.index \in DOMAIN v.blocks
            BY <3>1, <4>4
        <5>2. v.blocks[f.index].kind = "tool_use"
            BY <1>2, <4>1, <5>1 DEF ChatView
        <5>3. Called(s) /\ step.out \in {<<>>, <<e2>>}
            BY <3>1, <4>3, <4>4, <5>1, <5>2 DEF Called
        <5>4. Called(to.seen)
            BY <2>4, <3>1, <4>3, <5>3, CallsFollow
        <5>5. QED
            BY <4>2, <5>4
      <4>5. CASE f.index \notin DOMAIN rd.chunkIdx
        <5>1. step.out \in {<<e1>>, <<e1, e2>>}
            BY <4>3, <4>5
        <5>2. Called(to.seen)
            BY <2>4, <3>1, <4>3, <5>1, CallsFollow
        <5>3. QED
            BY <4>2, <5>2
      <4>6. QED
          BY <4>4, <4>5
    <3>9. QED
        BY <3>3, <3>5, <3>6, <3>7, <3>8
  <2>5. QED
      BY <1>3, <2>2, <2>3, <2>4 DEF Telling
<1>9. CASE f.type = "error"
  <2>1. PICK ev : ev = Event("error", 0, 0, <<>>)
      OBVIOUS
  <2>2. step.out = <<ev>> /\ ev.kind = "error"
      BY <1>5, <1>9, <2>1 DEF FeedOpenAI, Event
  <2>3. p # "anthropic" => rn.finished = FALSE
      BY <1>4, <1>7 DEF Going
  <2>4. Broken(to.seen)
      BY <1>4, <1>7, <2>2, <2>3, EndTold
  <2>5. w.error = TRUE
    <3>1. w = [v EXCEPT !.error = TRUE]
        BY <1>1, <1>9 DEF ReadOpenAI
    <3>2. QED
        BY <1>1, <3>1 DEF IsView
  <2>6. QED
      BY <2>4, <2>5 DEF Telling
<1>10. CASE f.type = "[DONE]"
  <2>1. step.machine = rd /\ to = st
    <3>1. step = Step(rd, <<>>)
        BY <1>10
    <3>2. to = Shown(p, st, <<>>)
        BY <1>5, <3>1
    <3>3. ShownInTurn(p, st, rd, rd)
        BY <1>7, ShownFew
    <3>4. QED
        BY <1>5, <3>1, <3>2, <3>3 DEF ShownInTurn
  <2>2. PICK n : n = v.ends + 1
      OBVIOUS
  <2>3. w = [v EXCEPT !.ends = n]
      BY <1>1, <1>10, <2>2 DEF ReadOpenAI
  <2>4. Fields(v, v.stop, v.usage, v.error, n, w)
      BY <1>1, <2>3, FieldsSet
  <2>5. w.stop = v.stop /\ w.usage = v.usage /\ w.error = v.error /\ (Called(w) <=> Called(v))
      BY <2>4 DEF Fields, Called
  <2>6. QED
      BY <1>3, <1>4, <1>7, <2>1, <2>5 DEF Telling
<1>11. QED
    BY <1>3, <1>8, <1>9, <1>10

\* No event changes nothing.
LEMMA NoneShown ==
    ASSUME NEW p \in Protocols, NEW rn, NEW s, NEW st, st = [rn |-> rn, seen |-> s], NEW to, to = Shown(p, st, <<>>)
    PROVE  to.seen = s
<1>1. ShownInTurn(p, st, rn, rn)
    BY ShownFew
<1>2. QED
    BY <1>1 DEF ShownInTurn

\* A call that begins is one the upstream has made.
LEMMA CallBegun ==
    ASSUME NEW v, IsView(v), BlocksOK(v), NEW n \in Nat, DOMAIN v.blocks = 0..(n - 1),
           NEW f, f.index = Count(v), f.kind = "tool_use", NEW w, w = Begun(v, f)
    PROVE  Called(w)
<1>1. f.index = n /\ f.kind \in Kinds
    BY CountedOn DEF Kinds
<1>2. n \notin 0..(n - 1)
    OBVIOUS
<1>3. ~Has(v, f.index)
    BY <1>1, <1>2 DEF Has
<1>4. /\ DOMAIN w.blocks = DOMAIN v.blocks \cup {f.index}
      /\ w.blocks[f.index] = [kind |-> f.kind, id |-> f.id, pieces |-> f.pieces, open |-> TRUE]
    BY <1>1, <1>3, BegunBlocks
<1>5. f.index \in DOMAIN w.blocks /\ w.blocks[f.index].kind = "tool_use"
    BY <1>4
<1>6. QED
    BY <1>5 DEF Called

\* Only an error frame of Anthropic is an error, and only a block that starts is
\* a call.
LEMMA AnthropicErrs ==
    ASSUME NEW v, IsView(v), v.ends = 0, NEW f, NEW w, w = Read("anthropic", v, f),
           f.type \in {"ping", "message_start", "content_block_start", "content_block_delta",
                       "content_block_stop", "message_delta", "message_stop", "error"}
    PROVE  w.error = IF f.type = "error" THEN TRUE ELSE v.error
<1>1. w = ReadAnthropic(v, f)
    BY DEF Read
<1>2. CASE f.type = "error"
  <2>1. w = [v EXCEPT !.error = TRUE]
      BY <1>1, <1>2 DEF ReadAnthropic
  <2>2. QED
      BY <1>2, <2>1 DEF IsView
<1>3. CASE f.type \in {"ping", "content_block_start", "content_block_delta", "content_block_stop"}
  <2>1. SameVerdict(v, w)
      BY <1>3, QuietRead DEF QuietFrame, Protocols
  <2>2. QED
      BY <1>3, <2>1 DEF SameVerdict
<1>4. CASE f.type \in {"message_start", "message_delta", "message_stop"}
  <2>1. CASE f.type = "message_start"
    <3>1. PICK bad : bad = (v.bad \/ v.started)
        OBVIOUS
    <3>2. w = [v EXCEPT !.started = TRUE, !.usage = f.usage, !.bad = bad]
        BY <1>1, <2>1, <3>1 DEF ReadAnthropic
    <3>3. QED
        BY <2>1, <3>2 DEF IsView
  <2>2. CASE f.type = "message_delta"
    <3>1. PICK bad : bad = (v.bad \/ v.stop # "none" \/ Open(v) # {})
        OBVIOUS
    <3>2. w = [v EXCEPT !.stop = f.stop, !.usage = MergeUsage(v.usage, f.usage), !.bad = bad]
        BY <1>1, <2>2, <3>1 DEF ReadAnthropic
    <3>3. QED
        BY <2>2, <3>2 DEF IsView
  <2>3. CASE f.type = "message_stop"
    <3>1. PICK bad : bad = (v.bad \/ Open(v) # {})
        OBVIOUS
    <3>2. w = [v EXCEPT !.ends = v.ends + 1, !.bad = bad]
        BY <1>1, <2>3, <3>1 DEF ReadAnthropic
    <3>3. QED
        BY <2>3, <3>2 DEF IsView
  <2>4. QED
      BY <1>4, <2>1, <2>2, <2>3
<1>5. QED
    BY <1>2, <1>3, <1>4

\* What a line of Anthropic tells.
LEMMA AnthropicTells ==
    ASSUME NEW p \in {"openai", "responses"}, NEW v, SaidUsage("anthropic", v), SaidForm("anthropic", v),
           NEW f \in Sends("anthropic", v), NEW w, w = Read("anthropic", v, f),
           NEW rd, ReaderInv("anthropic", v, rd),
           NEW rn, NEW s, NEW st, st = [rn |-> rn, seen |-> s], Telling("anthropic", p, v, rd, s),
           FromAnthropicUp(p, v, rd, st),
           NEW step, step = FeedAnthropic(rd, f), NEW to, to = Shown(p, st, step.out)
    PROVE  Telling("anthropic", p, w, step.machine, to.seen)
<1>1. /\ v.ends = 0 /\ FrameKind(f) /\ AnthropicSays(v, f, w) /\ AnthropicSends(v, f)
      /\ IsView(v) /\ BlocksOK(v) /\ SaidAnthropic(v)
    BY SaidKept, AnthropicForms DEF Protocols, SaidUsage
<1>2. /\ ~v.error
      /\ f.type \in {"ping", "message_start", "content_block_start", "content_block_delta",
                     "content_block_stop", "message_delta", "message_stop", "error"}
      /\ f.type = "message_stop" <=> v.started /\ v.stop # "none"
      /\ f.type = "message_start" <=> ~v.started
      /\ f.type = "content_block_delta" => f.kind \in Kinds /\ (f.kind = "tool_use" => Called(v))
    BY <1>1, AnthropicTypes
<1>3. CallsKept(v, f, w)
    BY <1>1, BlocksGrow, CallRead DEF Protocols
<1>4. w.error = IF f.type = "error" THEN TRUE ELSE v.error
    BY <1>1, <1>2, AnthropicErrs
<1>5. \A m, out : Step(m, out).machine = m /\ Step(m, out).out = out
    BY DEF Step
<1>6. p \in Protocols /\ st.rn = rn /\ st.seen = s
    BY DEF Protocols
<1>7. f.type # "message_stop" =>
         v.stop = "none" /\ Going(p, st) /\ Untold(s) /\ rn.finished = FALSE
  <2>1. v.stop = "none" \/ f.type = "message_stop"
      BY <1>1, <1>2 DEF SaidAnthropic
  <2>2. v.stop = "none" => Going(p, st) /\ Untold(s)
      BY <1>2 DEF FromAnthropicUp, Telling
  <2>3. Going(p, st) => rn.finished = FALSE
      BY <1>6 DEF Going
  <2>4. QED
      BY <2>1, <2>2, <2>3
<1>8. p = "responses" => (Called(s) <=> Called(v))
    BY <1>2 DEF Telling
<1>9. f.type # "content_block_start" \/ f.kind # "tool_use" => (Called(w) <=> Called(v))
    BY <1>2, <1>3 DEF CallsKept, Calling, Starts
<1>10. CASE f.type = "message_delta"
  <2>1. /\ v.stop = "none" /\ f.stop # "none"
        /\ w.usage = MergeUsage(v.usage, f.usage) /\ w.stop = f.stop
      BY <1>1, <1>10 DEF AnthropicSays
  <2>2. PICK u \in Usages : f.usage = EndCost(v, u) /\ v.usage \in {NoUsage, InStart(u)}
    <3>1. \E u \in Usages :
             \/ v.usage = NoUsage /\ f.usage = ToWire("anthropic", u)
             \/ v.usage # NoUsage /\ v.usage = InStart(u) /\ f.usage = [NoUsage EXCEPT !.output = u.output]
        BY <1>1, <1>10 DEF AnthropicSays
    <3>2. QED
        BY <3>1 DEF EndCost
  <2>3. w.usage = ToWire("anthropic", u)
      BY <2>1, <2>2, MergedIsWhole
  <2>4. PICK stop : stop = StopFrom("anthropic", f.stop)
      OBVIOUS
  <2>5. PICK cost : cost = ToIR("anthropic", w.usage)
      OBVIOUS
  <2>6. cost \in Costs
    <3>1. u \in Costs /\ cost = Sayable("anthropic", u)
        BY <2>3, <2>5, UsageSurvives DEF Protocols
    <3>2. QED
        BY <3>1 DEF Sayable, Costs
  <2>7. PICK ev : ev = FinishEvent(stop, cost)
      OBVIOUS
  <2>8. ev.kind = "finish" /\ ev.stop = stop /\ ev.usage = cost
      BY <2>7 DEF FinishEvent, Event
  <2>9. step.out = <<ev>>
    <3>1. rd.finished = FALSE /\ rd.usage = v.usage
        BY <2>1 DEF ReaderInv
    <3>2. \E m : step = Step(m, <<FinishEvent(StopFrom("anthropic", f.stop),
                                              ToIR("anthropic", MergeUsage(rd.usage, f.usage)))>>)
        BY <1>10, <3>1 DEF FeedAnthropic
    <3>3. step.out = <<FinishEvent(StopFrom("anthropic", f.stop), ToIR("anthropic", MergeUsage(rd.usage, f.usage)))>>
        BY <1>5, <3>2
    <3>4. QED
        BY <2>1, <2>4, <2>5, <2>7, <3>1, <3>3
  <2>10. Told(p, to.seen, stop, cost)
      BY <1>6, <1>7, <1>10, <2>6, <2>8, <2>9, EndTold
  <2>11. Why("anthropic", w) = stop
      BY <2>1, <2>4 DEF Why
  <2>12. p = "responses" => (Called(to.seen) <=> Called(w))
    <3>1. Ready("responses", st, ev) /\ ev.kind \notin {"tool_start", "tool_delta"}
        BY <2>8 DEF Ready, EventKinds
    <3>2. p = "responses" => (Called(to.seen) <=> Called(s))
        BY <1>7, <1>10, <2>9, <3>1, CallsStay
    <3>3. QED
        BY <1>8, <1>9, <1>10, <3>2
  <2>13. QED
      BY <1>2, <1>4, <1>10, <2>1, <2>5, <2>10, <2>11, <2>12 DEF Telling
<1>11. CASE f.type = "error"
  <2>1. PICK ev : ev = Event("error", 0, 0, <<>>)
      OBVIOUS
  <2>2. step.out = <<ev>> /\ ev.kind = "error"
      BY <1>5, <1>11, <2>1 DEF FeedAnthropic, Event
  <2>3. Broken(to.seen)
      BY <1>6, <1>7, <1>11, <2>2, EndTold
  <2>4. QED
      BY <1>4, <1>11, <2>3 DEF Telling
<1>12. CASE f.type = "message_stop"
  <2>1. w.stop = v.stop /\ w.usage = v.usage /\ v.stop # "none"
      BY <1>1, <1>2, <1>12 DEF AnthropicSays
  <2>2. to.seen = s
    <3>1. step.out = <<>>
        BY <1>5, <1>12 DEF FeedAnthropic
    <3>2. QED
        BY <1>6, <3>1, NoneShown
  <2>3. Why("anthropic", w) = Why("anthropic", v)
      BY <2>1 DEF Why
  <2>4. QED
      BY <1>2, <1>4, <1>8, <1>9, <1>12, <2>1, <2>2, <2>3 DEF Telling
<1>13. CASE f.type \notin {"message_delta", "error", "message_stop"}
  <2>1. w.stop = "none" /\ ~w.error
      BY <1>1, <1>2, <1>4, <1>7, <1>13 DEF AnthropicSays
  <2>2. Untold(to.seen)
    <3>1. Murmurs(step.out)
        BY <1>2, <1>13, AnthropicMurmurs
    <3>2. QED
        BY <1>6, <1>7, <1>13, <3>1, NothingTold
  <2>3. ASSUME p = "responses"
        PROVE  Called(to.seen) <=> Called(w)
    <3>1. Going("responses", st) /\ (Called(s) <=> Called(v)) /\ to = Shown("responses", st, step.out)
        BY <1>7, <1>8, <1>13, <2>3
    <3>2. ASSUME NEW ev, step.out = <<ev>>, Ready("responses", st, ev), ev.kind \notin {"tool_start", "tool_delta"}
          PROVE  Called(to.seen) <=> Called(v)
      <4>1. to = Shown("responses", st, <<ev>>)
          BY <3>1, <3>2
      <4>2. Called(to.seen) <=> Called(s)
          BY <3>1, <3>2, <4>1, CallsStay
      <4>3. QED
          BY <3>1, <4>2
    <3>3. ASSUME step.out = <<>>
          PROVE  Called(to.seen) <=> Called(v)
        BY <1>6, <3>1, <3>3, NoneShown
    <3>4. CASE f.type \in {"message_start", "ping"}
      <4>1. PICK ev : ev = Event(IF f.type = "ping" THEN "ping" ELSE "start", 0, 0, <<>>)
          OBVIOUS
      <4>2. step.out = <<ev>>
          BY <1>5, <3>4, <4>1 DEF FeedAnthropic
      <4>3. ev.kind = IF f.type = "ping" THEN "ping" ELSE "start"
          BY <4>1 DEF Event
      <4>4. f.type = "message_start" => ~st.seen.started
          BY <1>2, <2>3, <3>1 DEF FromAnthropicUp
      <4>5. Ready("responses", st, ev)
          BY <3>4, <4>3, <4>4 DEF Ready, EventKinds
      <4>6. QED
          BY <1>9, <3>2, <3>4, <4>2, <4>3, <4>5
    <3>5. CASE f.type = "content_block_start" /\ f.kind = "tool_use"
      <4>1. PICK e1 : e1 = Event("tool_start", rd.seqTool, f.id, <<>>)
          OBVIOUS
      <4>2. PICK e2 : e2 = Event("tool_delta", 0, 0, <<>>)
          OBVIOUS
      <4>3. step.out = <<e1>> /\ e1.kind = "tool_start" /\ e2.kind = "tool_delta"
          BY <1>5, <3>5, <4>1, <4>2 DEF FeedAnthropic, Event
      <4>4. Called(to.seen)
          BY <3>1, <4>3, CallsFollow
      <4>5. Called(w)
        <5>1. Open(v) = {} /\ f.index = Count(v)
          <6>1. \E kind : Open(v) = {} /\ f = Part("content_block_start", Count(v), kind, NextId(v, kind), <<>>)
            <7>1. \A type : f = Frame(type) => f.type = type
                BY FrameForm DEF Wire
            <7>2. \A u : f = [Frame("message_start") EXCEPT !.usage = u] => f.type = "message_start"
                BY FrameForm DEF Wire
            <7>3. \A type, index, kind, id, ps : f = Part(type, index, kind, id, ps) => f.type = type
                BY PartForm DEF Wire
            <7>4. \A type, stop, cost : f = Closing(type, stop, cost) => f.type = type
                BY ClosingForm DEF Wire
            <7>5. QED
                BY <1>1, <3>5, <7>1, <7>2, <7>3, <7>4 DEF AnthropicSends
          <6>2. QED
              BY <6>1, PartForm DEF Wire
        <5>2. w = Begun(v, f)
            BY <1>1, <3>5, <5>1 DEF Read, ReadAnthropic
        <5>3. PICK n \in Nat : DOMAIN v.blocks = 0..(n - 1)
            BY DEF SaidForm
        <5>4. QED
            BY <1>1, <3>5, <5>1, <5>2, <5>3, CallBegun
      <4>6. QED
          BY <4>4, <4>5
    <3>6. CASE f.type = "content_block_stop" \/ (f.type = "content_block_start" /\ f.kind # "tool_use")
      <4>1. step.out = <<>>
          BY <1>5, <3>6 DEF FeedAnthropic
      <4>2. QED
          BY <1>9, <3>3, <3>6, <4>1
    <3>7. CASE f.type = "content_block_delta"
      <4>1. PICK kind : kind = IF f.kind = "tool_use" THEN "tool_delta" ELSE f.kind
          OBVIOUS
      <4>2. PICK tool : tool = IF f.kind = "tool_use" THEN LatestTool(rd) ELSE 0
          OBVIOUS
      <4>3. PICK ev : ev = Event(kind, tool, 0, f.pieces)
          OBVIOUS
      <4>4. step.out \in {<<>>, <<ev>>}
        <5>1. step.out = NonEmpty(kind, tool, f.pieces)
            BY <1>5, <3>7, <4>1, <4>2 DEF FeedAnthropic
        <5>2. QED
            BY <4>3, <5>1 DEF NonEmpty
      <4>5. ev.kind = kind
          BY <4>3 DEF Event
      <4>6. CASE f.kind = "tool_use"
        <5>1. Called(v) /\ Called(s) /\ ev.kind = "tool_delta"
            BY <1>2, <3>1, <3>7, <4>1, <4>5, <4>6
        <5>2. Called(to.seen)
          <6>1. step.out = <<ev>> => Called(to.seen)
              BY <3>1, <5>1, CallsFollow
          <6>2. QED
              BY <3>3, <4>4, <5>1, <6>1
        <5>3. QED
            BY <1>9, <3>7, <5>1, <5>2
      <4>7. CASE f.kind # "tool_use"
        <5>1. ev.kind \in {"text", "thinking"}
            BY <1>2, <3>7, <4>1, <4>5, <4>7 DEF Kinds
        <5>2. Ready("responses", st, ev)
            BY <5>1 DEF Ready, EventKinds
        <5>3. QED
            BY <1>9, <3>2, <3>3, <3>7, <4>4, <5>1, <5>2
      <4>8. QED
          BY <4>6, <4>7
    <3>8. QED
        BY <1>2, <1>13, <3>4, <3>5, <3>6, <3>7
  <2>4. QED
      BY <2>1, <2>2, <2>3 DEF Telling
<1>14. QED
    BY <1>10, <1>11, <1>12, <1>13

\* Which tools the reader has counted after a frame.
LEMMA ToolsCounted ==
    ASSUME NEW rd, IsReader(rd), NEW f,
           f.type \in {"response.created", "response.output_item.added", "response.delta",
                       "response.output_item.done", "response.failed", "error"},
           NEW r, r = FeedResponses(rd, f).machine
    PROVE  r.seqTool = IF f.type = "response.output_item.added" /\ f.kind = "tool_use" THEN rd.seqTool + 1
                       ELSE rd.seqTool
<1>1. \A m, out : Step(m, out).machine = m
    BY DEF Step
<1>2. ASSUME NEW x, \/ r = [rd EXCEPT !.started = x]
                    \/ r = [rd EXCEPT !.argsSeen = x]
                    \/ r = [rd EXCEPT !.failed = TRUE]
                    \/ r = rd
      PROVE  r.seqTool = rd.seqTool
  <2>1. r = [rd EXCEPT !.failed = TRUE] => r.seqTool = rd.seqTool
      BY ReaderFailed
  <2>2. r = [rd EXCEPT !.started = x] \/ r = [rd EXCEPT !.argsSeen = x] => r.seqTool = rd.seqTool
      BY ToolsKept
  <2>3. QED
      BY <1>2, <2>1, <2>2
<1>3. CASE f.type = "response.output_item.added" /\ f.kind = "tool_use"
  <2>1. PICK n : n = rd.seqTool + 1
      OBVIOUS
  <2>2. PICK idx : idx = With(rd.outIdx, f.index, rd.seqTool)
      OBVIOUS
  <2>3. r = ToolTold(rd, n, idx)
      BY <1>1, <1>3, <2>1, <2>2 DEF FeedResponses, ToolTold
  <2>4. QED
      BY <1>3, <2>1, <2>3, ToolAdded
<1>4. CASE f.type = "response.output_item.added" /\ f.kind # "tool_use"
  <2>1. r = rd
      BY <1>1, <1>4 DEF FeedResponses
  <2>2. QED
      BY <1>4, <2>1
<1>5. CASE f.type = "response.created"
  <2>1. r = [rd EXCEPT !.started = TRUE]
      BY <1>1, <1>5 DEF FeedResponses
  <2>2. QED
      BY <1>2, <1>5, <2>1
<1>6. CASE f.type = "response.delta"
  <2>1. PICK x : x = rd.argsSeen \cup {rd.outIdx[f.index]}
      OBVIOUS
  <2>2. r = rd \/ r = [rd EXCEPT !.argsSeen = x]
      BY <1>1, <1>6, <2>1 DEF FeedResponses
  <2>3. QED
      BY <1>2, <1>6, <2>2
<1>7. CASE f.type = "response.output_item.done"
  <2>1. r = rd
      BY <1>1, <1>7 DEF FeedResponses
  <2>2. QED
      BY <1>7, <2>1
<1>8. CASE f.type \in {"response.failed", "error"}
  <2>1. r = [rd EXCEPT !.failed = TRUE]
      BY <1>1, <1>8 DEF FeedResponses
  <2>2. QED
      BY <1>2, <1>8, <2>1
<1>9. QED
    BY <1>3, <1>4, <1>5, <1>6, <1>7, <1>8

\* What an upstream sends in its own words.
LEMMA ResponsesWords ==
    ASSUME NEW v, NEW f, ResponsesSends(v, f)
    PROVE  /\ f.type = "response.completed" => f.stop = "completed"
           /\ f.type = "response.incomplete" => f.stop = "incomplete"
           /\ f.type = "response.output_item.added" => f.index = Count(v)
<1>1. ASSUME NEW type, f = Frame(type), type \in {"response.created", "response.failed", "error"}
      PROVE  f.type = type
    BY <1>1, FrameForm DEF Wire
<1>2. ASSUME NEW type, NEW index, NEW kind, NEW id, NEW ps, f = Part(type, index, kind, id, ps)
      PROVE  f.type = type /\ f.index = index
    BY <1>2, PartForm DEF Wire
<1>3. ASSUME NEW type, NEW stop, NEW cost, f = Closing(type, stop, cost)
      PROVE  f.type = type /\ f.stop = stop
    BY <1>3, ClosingForm DEF Wire
<1>4. \/ f \in {Frame("response.created"), Frame("response.failed"), Frame("error")}
      \/ \E kind, id, ps : f = Part("response.output_item.added", Count(v), kind, id, ps)
      \/ \E type, index, kind, id, ps : /\ type \in {"response.delta", "response.output_item.done"}
                                        /\ f = Part(type, index, kind, id, ps)
      \/ \E cost : f \in {Closing("response.completed", "completed", cost),
                          Closing("response.incomplete", "incomplete", cost)}
    BY DEF ResponsesSends
<1>5. QED
    BY <1>1, <1>2, <1>3, <1>4

\* What a line of a Responses upstream tells.
LEMMA ResponsesTells ==
    ASSUME NEW p \in {"openai", "anthropic"}, NEW v, SaidUsage("responses", v), SaidForm("responses", v),
           NEW f \in Sends("responses", v), NEW w, w = Read("responses", v, f),
           NEW rd, ReaderInv("responses", v, rd),
           NEW rn, NEW s, NEW st, st = [rn |-> rn, seen |-> s], Telling("responses", p, v, rd, s),
           p = "openai" => FromResponsesUp(p, v, rd, st),
           NEW step, step = FeedResponses(rd, f), NEW to, to = Shown(p, st, step.out)
    PROVE  Telling("responses", p, w, step.machine, to.seen)
<1>1. /\ v.ends = 0 /\ FrameKind(f) /\ ResponsesSays(v, f, w) /\ ResponsesSends(v, f)
      /\ IsView(v) /\ BlocksOK(v)
    BY SaidKept, ResponsesForms DEF Protocols, SaidUsage
<1>2. /\ ~v.error /\ (p = "openai" \/ p = "anthropic") /\ p \in Protocols /\ p # "responses"
      /\ st.rn = rn /\ st.seen = s
    BY <1>1 DEF ResponsesSends, Protocols
<1>3. Untold(s) /\ rd.seqTool \in Nat /\ (Called(v) <=> rd.seqTool > 0)
    BY <1>1, <1>2 DEF Telling
<1>4. p # "anthropic" => rn.finished = FALSE
    BY <1>1, <1>2 DEF FromResponsesUp, Going
<1>5. CallsKept(v, f, w)
    BY <1>1, BlocksGrow, CallRead DEF Protocols
<1>6. IsReader(rd)
    BY DEF ReaderInv, IsReader
<1>7. \A m, out : Step(m, out).machine = m /\ Step(m, out).out = out
    BY DEF Step
<1>8. CASE f.type \in {"response.completed", "response.incomplete"}
  <2>1. SameVerdict(v, v) /\ (Called(w) <=> Called(v))
      BY <1>1, <1>5, <1>8 DEF SameVerdict, CallsKept, Calling, Starts
  <2>2. f.usage \in WireUsages("responses") /\ w.usage = f.usage /\ w.ends = 0 + 1 /\ ~w.error
      BY <1>1, <1>2, <1>8 DEF ResponsesSays
  <2>3. w.stop = f.stop
    <3>1. PICK bad : bad = (v.bad \/ Open(v) # {})
        OBVIOUS
    <3>2. PICK n : n = v.ends + 1
        OBVIOUS
    <3>3. w = [v EXCEPT !.stop = f.stop, !.usage = f.usage, !.ends = n, !.bad = bad]
        BY <1>1, <1>8, <3>1, <3>2 DEF Read, ReadResponses, Ended
    <3>4. Fields(v, f.stop, f.usage, v.error, n, w)
        BY <1>1, <3>3, FieldsSet
    <3>5. QED
        BY <3>4 DEF Fields
  <2>4. PICK stop : stop = IF f.type = "response.completed" THEN CompletedStop(rd) ELSE StopFrom("responses", f.stop)
      OBVIOUS
  <2>5. PICK cost : cost = ToIR("responses", f.usage)
      OBVIOUS
  <2>6. cost \in Costs
    <3>1. PICK u \in Usages : f.usage = ToWire("responses", u)
        BY <2>2 DEF WireUsages
    <3>2. u \in Costs /\ cost = Sayable("responses", u)
        BY <2>5, <3>1, UsageSurvives DEF Protocols
    <3>3. QED
        BY <3>2 DEF Sayable, Costs
  <2>7. PICK ev : ev = FinishEvent(stop, cost)
      OBVIOUS
  <2>8. ev.kind = "finish" /\ ev.stop = stop /\ ev.usage = cost
      BY <2>7 DEF FinishEvent, Event
  <2>9. step.out = <<ev>> /\ step.machine.seqTool = rd.seqTool
    <3>1. rd.finished = FALSE
        BY <1>1 DEF ReaderInv
    <3>2. step = LatchFinish(rd, stop, cost)
        BY <1>8, <2>4, <2>5 DEF FeedResponses
    <3>3. step = Step([rd EXCEPT !.finished = TRUE], <<ev>>)
        BY <2>7, <3>1, <3>2 DEF LatchFinish
    <3>4. step.out = <<ev>> /\ step.machine = [rd EXCEPT !.finished = TRUE]
        BY <1>7, <3>3
    <3>5. QED
        BY <1>6, <3>4, ToolsKept
  <2>10. Told(p, to.seen, stop, cost)
      BY <1>2, <1>3, <1>4, <2>6, <2>8, <2>9, EndTold
  <2>11. Why("responses", w) = stop
    <3>1. CASE f.type = "response.completed"
      <4>1. w.stop = "completed"
          BY <1>1, <2>3, <3>1, ResponsesWords
      <4>2. QED
          BY <1>3, <2>1, <2>4, <3>1, <4>1 DEF Why, CompletedStop
    <3>2. CASE f.type = "response.incomplete"
      <4>1. w.stop = "incomplete" /\ f.stop = "incomplete"
          BY <1>1, <2>3, <3>2, ResponsesWords
      <4>2. QED
          BY <2>4, <3>2, <4>1 DEF Why
    <3>3. QED
        BY <1>8, <3>1, <3>2
  <2>12. QED
      BY <1>2, <1>3, <2>1, <2>2, <2>5, <2>9, <2>10, <2>11 DEF Telling
<1>9. CASE f.type \in {"response.failed", "error"}
  <2>1. PICK ev : ev = Event("error", 0, 0, <<>>)
      OBVIOUS
  <2>2. step.out = <<ev>> /\ ev.kind = "error"
      BY <1>7, <1>9, <2>1 DEF FeedResponses, Event
  <2>3. Broken(to.seen)
      BY <1>2, <1>3, <1>4, <2>2, EndTold
  <2>4. step.machine.seqTool = rd.seqTool
      BY <1>6, <1>9, ToolsCounted
  <2>5. Called(w) <=> Called(v)
      BY <1>5, <1>9 DEF CallsKept, Calling, Starts
  <2>6. w.error
      BY <1>1, <1>9 DEF ResponsesSays
  <2>7. QED
      BY <1>2, <1>3, <2>3, <2>4, <2>5, <2>6 DEF Telling
<1>10. CASE f.type \in {"response.created", "response.output_item.added", "response.delta",
                        "response.output_item.done"}
  <2>1. w.ends = 0 /\ ~w.error
      BY <1>1, <1>2, <1>10 DEF ResponsesSays
  <2>2. Untold(to.seen)
    <3>1. f.type = "response.delta" => f.kind \in Kinds
        BY <1>1, ResponsesTypes
    <3>2. Murmurs(step.out)
        BY <1>1, <1>10, <3>1, ItemMurmurs
    <3>3. QED
        BY <1>2, <1>3, <3>2, NothingTold
  <2>3. step.machine.seqTool \in Nat /\ (Called(w) <=> step.machine.seqTool > 0)
    <3>1. CASE f.type = "response.output_item.added" /\ f.kind = "tool_use"
      <4>1. step.machine.seqTool = rd.seqTool + 1
          BY <1>6, <1>10, <3>1, ToolsCounted
      <4>2. f.index = Count(v)
          BY <1>1, <3>1, ResponsesWords
      <4>3. w = Begun(v, f)
          BY <1>1, <3>1 DEF Read, ReadResponses
      <4>4. PICK n \in Nat : DOMAIN v.blocks = 0..(n - 1)
          BY DEF SaidForm
      <4>5. Called(w)
          BY <1>1, <3>1, <4>2, <4>3, <4>4, CallBegun
      <4>6. QED
          BY <1>3, <4>1, <4>5
    <3>2. CASE ~(f.type = "response.output_item.added" /\ f.kind = "tool_use")
      <4>1. step.machine.seqTool = rd.seqTool
          BY <1>6, <1>10, <3>2, ToolsCounted
      <4>2. Called(w) <=> Called(v)
          BY <1>5, <1>10, <3>2 DEF CallsKept, Calling, Starts
      <4>3. QED
          BY <1>3, <4>1, <4>2
    <3>3. QED
        BY <3>1, <3>2
  <2>4. QED
      BY <1>2, <2>1, <2>2, <2>3 DEF Telling
<1>11. QED
    BY <1>1, <1>8, <1>9, <1>10 DEF ResponsesSays
-----------------------------------------------------------------------------
\* What a line tells, from any upstream to any client.
LEMMA LineTells ==
    ASSUME NEW up \in Protocols, NEW p \in Protocols, p # up, NEW v, SaidUsage(up, v), SaidForm(up, v),
           NEW f \in Sends(up, v), NEW w, w = Read(up, v, f),
           NEW rd, ReaderInv(up, v, rd),
           NEW rn, NEW s, NEW st, st = [rn |-> rn, seen |-> s], Telling(up, p, v, rd, s),
           p # "anthropic" => FromUp(up, p, v, rd, st),
           NEW step, step = IF f.type = "[DONE]" THEN Step(rd, <<>>) ELSE Feed(up, rd, f),
           NEW to, to = Shown(p, st, step.out)
    PROVE  Telling(up, p, w, step.machine, to.seen)
<1>1. CASE up = "openai"
  <2>1. step = IF f.type = "[DONE]" THEN Step(rd, <<>>) ELSE FeedOpenAI(rd, f)
      BY <1>1 DEF Feed
  <2>2. p \in {"anthropic", "responses"} /\ (p = "responses" => FromOpenAIUp(p, v, rd, st))
      BY <1>1 DEF Protocols, FromUp
  <2>3. /\ SaidUsage("openai", v) /\ SaidForm("openai", v) /\ f \in Sends("openai", v)
        /\ w = Read("openai", v, f) /\ Telling("openai", p, v, rd, s)
      BY <1>1
  <2>4. Telling("openai", p, w, step.machine, to.seen)
      BY <2>1, <2>2, <2>3, OpenAITells
  <2>5. QED
      BY <1>1, <2>4
<1>2. CASE up = "anthropic"
  <2>1. AnthropicSays(v, f, w)
      BY <1>2, SaidKept
  <2>2. step = FeedAnthropic(rd, f)
      BY <1>2, <2>1 DEF Feed, AnthropicSays
  <2>3. p \in {"openai", "responses"} /\ FromAnthropicUp(p, v, rd, st)
      BY <1>2 DEF Protocols, FromUp
  <2>4. /\ SaidUsage("anthropic", v) /\ SaidForm("anthropic", v) /\ f \in Sends("anthropic", v)
        /\ w = Read("anthropic", v, f) /\ ReaderInv("anthropic", v, rd) /\ Telling("anthropic", p, v, rd, s)
      BY <1>2
  <2>5. Telling("anthropic", p, w, step.machine, to.seen)
      BY <2>2, <2>3, <2>4, AnthropicTells
  <2>6. QED
      BY <1>2, <2>5
<1>3. CASE up = "responses"
  <2>1. ResponsesSays(v, f, w)
      BY <1>3, SaidKept
  <2>2. step = FeedResponses(rd, f)
      BY <1>3, <2>1 DEF Feed, ResponsesSays
  <2>3. p \in {"openai", "anthropic"} /\ (p = "openai" => FromResponsesUp(p, v, rd, st))
      BY <1>3 DEF Protocols, FromUp
  <2>4. /\ SaidUsage("responses", v) /\ SaidForm("responses", v) /\ f \in Sends("responses", v)
        /\ w = Read("responses", v, f) /\ ReaderInv("responses", v, rd) /\ Telling("responses", p, v, rd, s)
      BY <1>3
  <2>5. Telling("responses", p, w, step.machine, to.seen)
      BY <2>2, <2>3, <2>4, ResponsesTells
  <2>6. QED
      BY <1>3, <2>5
<1>4. QED
    BY <1>1, <1>2, <1>3 DEF Protocols

\* The preamble tells nothing.
LEMMA PreambleTells ==
    ASSUME NEW up \in Protocols, NEW p \in Protocols, NEW s,
           s = ReadAll(p, View, IF p = "anthropic" THEN <<Frame("message_start")>> ELSE <<>>)
    PROVE  Telling(up, p, View, Reader[up], s)
<1>1. IsView(View) /\ Untold(View) /\ View.blocks = <<>>
    BY DEF View, IsView, Untold
<1>2. Untold(s) /\ s.blocks = <<>>
  <2>1. CASE p # "anthropic"
    <3>1. s = View
        BY <2>1, ReadOne
    <3>2. QED
        BY <1>1, <3>1
  <2>2. CASE p = "anthropic"
    <3>1. PICK f : f = Frame("message_start")
        OBVIOUS
    <3>2. f.type = "message_start" /\ f.usage = NoUsage
        BY <3>1, FrameForm DEF Wire
    <3>3. s = Read("anthropic", View, f)
        BY <2>2, <3>1, ReadOne
    <3>4. s = [View EXCEPT !.started = TRUE, !.usage = f.usage, !.bad = @ \/ View.started]
        BY <1>1, <3>2, <3>3 DEF Read, ReadAnthropic, Untold
    <3>5. IsView(s)
        BY <1>1, <3>4 DEF IsView
    <3>6. s.blocks = View.blocks /\ s.ends = View.ends /\ s.stop = View.stop /\ s.error = View.error
        BY <1>1, <3>4 DEF IsView
    <3>7. s.usage = f.usage
        BY <1>1, <3>4 DEF IsView
    <3>8. QED
        BY <1>1, <3>2, <3>5, <3>6, <3>7 DEF Untold
  <2>3. QED
      BY <2>1, <2>2
<1>3. ~Called(View) /\ ~Called(s)
  <2>1. DOMAIN View.blocks = {} /\ DOMAIN s.blocks = {}
      BY <1>1, <1>2
  <2>2. QED
      BY <2>1 DEF Called
<1>4. PICK rd : rd = Reader[up]
    OBVIOUS
<1>5. up = "openai" => rd.finish = StopFrom("openai", View.stop) /\ rd.usage = ToIR("openai", View.usage)
  <2>1. ToIR("openai", NoUsage) = NoUsage /\ StopFrom("openai", "none") = "end_turn"
      BY DEF ToIR, NoUsage, StopFrom
  <2>2. up = "openai" => rd = [started |-> FALSE, chunkIdx |-> <<>>, finish |-> "end_turn", usage |-> NoUsage]
      BY <1>4 DEF Reader
  <2>3. QED
      BY <1>1, <2>1, <2>2 DEF Untold
<1>6. up = "responses" => rd.seqTool = 0
    BY <1>4 DEF Reader
<1>7. Telling(up, p, View, rd, s)
    BY <1>1, <1>2, <1>3, <1>5, <1>6 DEF Telling, Untold
<1>8. QED
    BY <1>4, <1>7

\* A reader owes one event or none.
LEMMA OwedIsFew ==
    ASSUME NEW up \in Protocols, NEW rd, NEW out, out = FinishRead(up, rd).out
    PROVE  /\ up = "openai" => out = <<FinishEvent(rd.finish, rd.usage)>>
           /\ out = <<>> \/ \E ev : out = <<ev>>
<1>1. up = "openai" => out = <<FinishEvent(rd.finish, rd.usage)>>
    BY DEF FinishRead, FinishOpenAI, Step
<1>2. CASE up = "anthropic"
    BY <1>2 DEF FinishRead, Step
<1>3. CASE up = "responses"
  <2>1. FinishRead(up, rd) = FinishResponses(rd)
      BY <1>3 DEF FinishRead
  <2>2. \A m, few : Step(m, few).out = few
      BY DEF Step
  <2>3. CASE rd.failed \/ rd.finished
    <3>1. FinishRead(up, rd) = Step(rd, <<>>)
        BY <2>1, <2>3 DEF FinishResponses, LatchFinish
    <3>2. out = <<>>
        BY <2>2, <3>1
    <3>3. QED
        BY <1>3, <3>2
  <2>4. CASE ~(rd.failed \/ rd.finished)
    <3>1. PICK ev : ev = FinishEvent(CompletedStop(rd), NoUsage)
        OBVIOUS
    <3>2. FinishRead(up, rd) = Step([rd EXCEPT !.finished = TRUE], <<ev>>)
        BY <2>1, <2>4, <3>1 DEF FinishResponses, LatchFinish
    <3>3. PICK r : r = [rd EXCEPT !.finished = TRUE]
        OBVIOUS
    <3>4. FinishRead(up, rd) = Step(r, <<ev>>)
        BY <3>2, <3>3
    <3>5. out = <<ev>>
        BY <2>2, <3>4
    <3>6. QED
        BY <1>3, <3>5
  <2>5. QED
      BY <2>3, <2>4
<1>4. QED
    BY <1>1, <1>2, <1>3 DEF Protocols

\* A whole answer has been told the client of, as far as v was said.
Whole(up, p, v, w) ==
    /\ v.error => w.error
    /\ ~v.error => /\ Told(p, w, Why(up, v), ToIR(up, v.usage))
                   /\ p = "responses" => (Called(w) <=> Called(v))

\* What was whole stays whole, whatever comes.
LEMMA WholeLasts ==
    ASSUME NEW up, NEW p \in Protocols, NEW v, NEW s, v.error => Broken(s),
           ~v.error => Whole(up, p, v, s),
           NEW out, Row(out), NEW w, w = ReadAll(p, s, out)
    PROVE  Whole(up, p, v, w) /\ (v.error => Broken(w))
<1>1. CASE v.error
  <2>1. Lasts(s, w)
      BY <1>1, RowLasts DEF Broken
  <2>2. QED
      BY <1>1, <2>1 DEF Lasts, Whole, Broken
<1>2. CASE ~v.error
  <2>1. Told(p, s, Why(up, v), ToIR(up, v.usage)) /\ (p = "responses" => (Called(s) <=> Called(v)))
      BY <1>2 DEF Whole
  <2>2. Lasts(s, w)
      BY <2>1, RowLasts DEF Told
  <2>3. Fields(s, s.stop, s.usage, s.error, w.ends, w) /\ w.ends \in Nat \ {0}
      BY <2>1, <2>2 DEF Lasts, Told
  <2>4. Told(p, w, Why(up, v), ToIR(up, v.usage))
      BY <2>1, <2>3 DEF Fields, Told
  <2>5. Called(w) <=> Called(s)
      BY <2>3 DEF Fields, Called
  <2>6. QED
      BY <1>2, <2>1, <2>4, <2>5 DEF Whole
<1>3. QED
    BY <1>1, <1>2

\* The cost of a whole answer is one.
LEMMA WholeCost ==
    ASSUME NEW p \in Protocols, NEW v, SaidUsage(p, v), v.ends > 0, ~v.error
    PROVE  \E u \in Usages : /\ v.usage = ToWire(p, u)
                             /\ ToIR(p, v.usage) = Sayable(p, u)
                             /\ Sayable(p, u) \in Costs
                             /\ Sayable(p, u).input >= Sayable(p, u).cacheRead + Sayable(p, u).cacheWrite
<1>1. PICK u \in Usages : v.usage = ToWire(p, u)
    BY EndIsReported DEF WireUsages
<1>2. ToIR(p, v.usage) = Sayable(p, u)
    BY <1>1, UsageSurvives
<1>3. u \in Costs /\ u.input >= u.cacheRead + u.cacheWrite
    BY UsagesAssumption DEF Costs
<1>4. Sayable(p, u) \in Costs /\ Sayable(p, u).input = u.input /\ Sayable(p, u).cacheRead = u.cacheRead
      /\ Sayable(p, u).cacheWrite \in {0, u.cacheWrite}
    BY <1>3 DEF Sayable, Costs
<1>5. Sayable(p, u).input >= Sayable(p, u).cacheRead + Sayable(p, u).cacheWrite
    BY <1>3, <1>4 DEF Costs
<1>6. QED
    BY <1>1, <1>2, <1>4, <1>5

\* When the stream is over, the client has been told of the whole answer.
LEMMA EndTells ==
    ASSUME NEW up \in Protocols, NEW p \in Protocols, p # up, NEW v, SaidUsage(up, v), SaidForm(up, v),
           Finished(v), NEW rd, NEW rn, NEW s, NEW st, st = [rn |-> rn, seen |-> s], Telling(up, p, v, rd, s),
           p # "anthropic" => FromUp(up, p, v, rd, st),
           NEW out, out = FinishRead(up, rd).out, NEW all, all = RenderAll(p, rn, out),
           NEW w, w = ReadAll(p, s, all.out \o Done(p, all.machine).out)
    PROVE  Whole(up, p, v, w)
<1>1. PICK to : to = Shown(p, st, out)
    OBVIOUS
<1>2. to.rn = all.machine /\ to.seen = ReadAll(p, s, all.out)
    BY <1>1 DEF Shown
<1>3. \A e : ShownInTurn(p, st, e, e)
    BY ShownFew
<1>4. Row(all.out)
  <2>1. CASE out = <<>>
      BY <1>3, <2>1 DEF ShownInTurn
  <2>2. ASSUME NEW ev, out = <<ev>>
        PROVE  Row(all.out)
    <3>1. ShownInTurn(p, st, ev, ev)
        BY <1>3
    <3>2. QED
        BY <2>2, <3>1 DEF ShownInTurn
  <2>3. QED
      BY <2>1, <2>2, OwedIsFew
<1>5. PICK more : more = Done(p, all.machine).out
    OBVIOUS
<1>6. Row(more)
    BY <1>5, RenderRow
<1>7. w = ReadAll(p, to.seen, more)
  <2>1. PICK first : first = all.out
      OBVIOUS
  <2>2. ReadAll(p, s, first \o more) = ReadAll(p, ReadAll(p, s, first), more)
      BY <1>4, <1>6, <2>1, RowsRead
  <2>3. w = ReadAll(p, s, first \o more) /\ to.seen = ReadAll(p, s, first)
      BY <1>2, <1>5, <2>1, Zenon
  <2>4. QED
      BY <2>2, <2>3
<1>8. v.error \in BOOLEAN /\ (~v.error => v.ends > 0 /\ v.stop # "none" /\ v.ends # 0)
  <2>1. v.ends \in Nat
      BY DEF SaidUsage
  <2>2. QED
      BY <2>1 DEF SaidForm, Finished
<1>9. CASE v.error \/ up # "openai"
  <2>1. (v.error => Broken(s)) /\ (~v.error => Whole(up, p, v, s))
      BY <1>8, <1>9 DEF Telling, Whole, Protocols
  <2>2. PICK mid : mid = to.seen
      OBVIOUS
  <2>3. mid = ReadAll(p, s, all.out)
      BY <1>2, <2>2
  <2>4. Whole(up, p, v, mid) /\ (v.error => Broken(mid))
      BY <1>4, <2>1, <2>3, WholeLasts
  <2>5. w = ReadAll(p, mid, more)
      BY <1>7, <2>2
  <2>6. QED
      BY <1>6, <2>4, <2>5, WholeLasts
<1>10. CASE ~v.error /\ up = "openai"
  <2>1. PICK ev : ev = FinishEvent(rd.finish, rd.usage)
      OBVIOUS
  <2>2. out = <<ev>>
      BY <1>10, <2>1, OwedIsFew
  <2>3. ev.kind = "finish" /\ ev.stop = rd.finish /\ ev.usage = rd.usage
      BY <2>1 DEF FinishEvent, Event
  <2>4. /\ Untold(s) /\ ev.stop = Why(up, v) /\ ev.usage = ToIR(up, v.usage)
        /\ p = "responses" => (Called(s) <=> Called(v))
      BY <1>10, <2>3 DEF Telling, Why
  <2>5. ev.usage \in Costs
      BY <1>8, <1>10, <2>4, WholeCost
  <2>6. p # "anthropic" => p = "responses" /\ Going("responses", st)
      BY <1>10 DEF Protocols, FromUp, FromOpenAIUp
  <2>7. p # "anthropic" => rn.finished = FALSE
      BY <2>6 DEF Going
  <2>8. to = Shown(p, st, <<ev>>)
      BY <1>1, <2>2
  <2>9. Told(p, to.seen, ev.stop, ev.usage)
      BY <2>3, <2>4, <2>5, <2>7, <2>8, EndTold
  <2>10. p = "responses" => (Called(to.seen) <=> Called(s))
    <3>1. Ready("responses", st, ev)
        BY <2>3 DEF Ready, EventKinds
    <3>2. QED
        BY <2>3, <2>6, <2>8, <3>1, CallsStay
  <2>11. PICK mid : mid = to.seen
      OBVIOUS
  <2>12. Whole(up, p, v, mid)
      BY <1>10, <2>4, <2>9, <2>10, <2>11 DEF Whole
  <2>13. w = ReadAll(p, mid, more)
      BY <1>7, <2>11
  <2>14. QED
      BY <1>6, <1>10, <2>12, <2>13, WholeLasts
<1>11. QED
    BY <1>9, <1>10
-----------------------------------------------------------------------------
\* A chat completion has calls if a tool was called.
LEMMA ChatCalled ==
    ASSUME NEW v, ChatView(v)
    PROVE  Called(v) <=> Calls(v) # {}
<1>1. \A k \in DOMAIN v.blocks : v.blocks[k].kind = "tool_use" <=> k >= 0
    BY DEF ChatView
<1>2. QED
    BY <1>1 DEF Called, Calls

\* Two of the things a verdict says.
IsCut(v) == v.stop \in {"length", "max_tokens", "incomplete"}
DoesAsk(v) ==
    \/ v.stop \in {"tool_calls", "tool_use"}
    \/ v.stop = "completed" /\ Called(v)

\* What a whole answer's stop says: cut short, or waiting for tool results.
StopSays(up, v, why) ==
    /\ why \in {"max_tokens", "tool_use", "end_turn"}
    /\ IsCut(v) <=> why = "max_tokens"
    /\ DoesAsk(v) <=> why = "tool_use"
    /\ why # "max_tokens" => (Called(v) <=> why = "tool_use")

\* The reason that a reader finds says so.
LEMMA WhySays ==
    ASSUME NEW up \in Protocols, NEW v, SaidForm(up, v), v.stop # "none"
    PROVE  StopSays(up, v, Why(up, v))
<1>1. CASE up = "openai"
  <2>1. Called(v) <=> Calls(v) # {}
      BY <1>1, ChatCalled DEF SaidForm
  <2>2. v.stop = "length" \/ (v.stop = "stop" /\ ~Called(v)) \/ (v.stop = "tool_calls" /\ Called(v))
      BY <1>1, <2>1 DEF SaidForm, ChatStops
  <2>3. QED
      BY <1>1, <2>2 DEF StopSays, Why, StopFrom, IsCut, DoesAsk
<1>2. CASE up = "anthropic"
  <2>1. v.stop = "max_tokens" \/ (v.stop = "end_turn" /\ ~Called(v)) \/ (v.stop = "tool_use" /\ Called(v))
      BY <1>2 DEF SaidForm, MessageStops
  <2>2. QED
      BY <1>2, <2>1 DEF StopSays, Why, StopFrom, IsCut, DoesAsk
<1>3. CASE up = "responses"
  <2>1. v.stop \in {"completed", "incomplete"}
      BY <1>3 DEF SaidForm
  <2>2. QED
      BY <1>3, <2>1 DEF StopSays, Why, StopFrom, IsCut, DoesAsk
<1>4. QED
    BY <1>1, <1>2, <1>3 DEF Protocols

\* A client that has been told all of it has the same verdict.
LEMMA SameAsSaid ==
    ASSUME NEW up \in Protocols, NEW p \in Protocols, NEW v, SaidUsage(up, v), SaidForm(up, v),
           v.ends > 0, ~v.error, NEW w, Whole(up, p, v, w)
    PROVE  Verdict(p, w) = Verdict(up, v)
<1>1. v.error = FALSE /\ w.error = FALSE /\ v.stop # "none"
    BY DEF SaidForm, Whole, Told
<1>2. PICK why : why = Why(up, v)
    OBVIOUS
<1>3. StopSays(up, v, why)
    BY <1>1, <1>2, WhySays
<1>4. w.stop = StopTo(p, why) /\ (p = "responses" => (Called(w) <=> Called(v)))
    BY <1>2 DEF Whole, Told
<1>5. IsCut(w) <=> IsCut(v)
    BY <1>3, <1>4 DEF StopSays, StopTo, Protocols, IsCut
<1>6. DoesAsk(w) <=> DoesAsk(v)
    BY <1>3, <1>4 DEF StopSays, StopTo, Protocols, DoesAsk, IsCut
<1>7. PICK u \in Usages : /\ v.usage = ToWire(up, u)
                          /\ ToIR(up, v.usage) = Sayable(up, u)
                          /\ Sayable(up, u) \in Costs
                          /\ Sayable(up, u).input >= Sayable(up, u).cacheRead + Sayable(up, u).cacheWrite
    BY WholeCost
<1>8. PICK c : c = ToIR(up, v.usage)
    OBVIOUS
<1>9. w.usage = ToWire(p, c) /\ c \in Costs /\ c.input >= c.cacheRead + c.cacheWrite
    BY <1>7, <1>8 DEF Whole, Told
<1>10. ToIR(p, w.usage).input = c.input /\ w.usage.output = c.output /\ w.usage.cacheRead = c.cacheRead
    BY <1>9, WireCost
<1>11. v.usage.output = c.output /\ v.usage.cacheRead = c.cacheRead
  <2>1. u \in Costs
      BY UsageSurvives
  <2>2. v.usage.output = u.output /\ v.usage.cacheRead = u.cacheRead
      BY <1>7, <2>1, WireCost
  <2>3. c.output = u.output /\ c.cacheRead = u.cacheRead
      BY <1>7, <1>8, <2>1 DEF Sayable, Costs
  <2>4. QED
      BY <2>2, <2>3
<1>12. ToIR(p, w.usage).input = ToIR(up, v.usage).input
    BY <1>8, <1>10
<1>13. IsCut(w) = IsCut(v) /\ DoesAsk(w) = DoesAsk(v)
    BY <1>5, <1>6 DEF IsCut, DoesAsk
<1>14. \A q, x : Verdict(q, x) = [error |-> x.error, cut |-> IsCut(x), asks |-> DoesAsk(x),
                                 input |-> ToIR(q, x.usage).input, output |-> x.usage.output,
                                 cacheRead |-> x.usage.cacheRead]
    BY Zenon DEF Verdict, IsCut, DoesAsk
<1>15. QED
    BY <1>1, <1>10, <1>11, <1>12, <1>13, <1>14, Zenon
-----------------------------------------------------------------------------
(***************************************************************************)
(* An answer that is not streamed: its blocks are decoded in the order of  *)
(* their keys, and put together as items.                                  *)
(***************************************************************************)
\* Finite sets of numbers have a largest.
LEMMA LargestOf ==
    ASSUME NEW D, IsFiniteSet(D), D \in SUBSET Int, D # {}
    PROVE  \E m \in D : \A x \in D : m >= x
<1> DEFINE Q(E) == E # {} => \E m \in E : \A x \in E : m >= x
           T == {n \in Nat : \A E \in SUBSET Int : IsFiniteSet(E) /\ Cardinality(E) = n => Q(E)}
<1>1. 0 \in T
    BY FS_EmptySet
<1>2. ASSUME NEW n \in Nat, n \in T
      PROVE  n + 1 \in T
  <2>1. ASSUME NEW E \in SUBSET Int, IsFiniteSet(E), Cardinality(E) = n + 1, E # {}
        PROVE  \E m \in E : \A x \in E : m >= x
    <3>1. PICK e : e \in E
        BY <2>1
    <3>2. IsFiniteSet(E \ {e}) /\ Cardinality(E \ {e}) = n
      <4>1. IsFiniteSet(E \ {e}) /\ Cardinality(E \ {e}) = Cardinality(E) - 1
          BY <2>1, <3>1, FS_RemoveElement
      <4>2. QED
          BY <2>1, <4>1
    <3>3. Q(E \ {e})
        BY <1>2, <3>2
    <3>4. CASE E \ {e} = {}
        BY <3>1, <3>4
    <3>5. CASE E \ {e} # {}
      <4>1. PICK m \in E \ {e} : \A x \in E \ {e} : m >= x
          BY <3>3, <3>5
      <4>2. CASE m >= e
          BY <4>1, <4>2
      <4>3. CASE ~(m >= e)
        <5>1. \A x \in E : e >= x
            BY <3>1, <4>1, <4>3
        <5>2. QED
            BY <3>1, <5>1
      <4>4. QED
          BY <4>2, <4>3
    <3>6. QED
        BY <3>4, <3>5
  <2>2. QED
      BY <2>1
<1>3. Cardinality(D) \in Nat
    BY FS_CardinalityType
<1> HIDE DEF Q
<1>4. T \subseteq Nat
    OBVIOUS
<1>5. Cardinality(D) \in T
  <2> HIDE DEF T
  <2>1. QED
      BY <1>1, <1>2, <1>3, <1>4, FirstOut
<1>6. Q(D)
    BY <1>5
<1>7. QED
    BY <1>6 DEF Q

\* The elements of a set of numbers, from the least to the largest.
Enumerates(f, D) ==
    /\ f \in [1..Cardinality(D) -> D]
    /\ \A i, k \in DOMAIN f : i < k => f[i] < f[k]

\* They can be put in that order.
LEMMA Enumerable ==
    ASSUME NEW D, IsFiniteSet(D), D \in SUBSET Int
    PROVE  \E f : Enumerates(f, D)
<1> DEFINE T == {n \in Nat : \A E \in SUBSET Int : IsFiniteSet(E) /\ Cardinality(E) = n => \E f : Enumerates(f, E)}
<1>1. 0 \in T
  <2>1. ASSUME NEW E \in SUBSET Int, IsFiniteSet(E), Cardinality(E) = 0
        PROVE  \E f : Enumerates(f, E)
    <3>1. E = {} /\ 1..Cardinality(E) = {}
        BY <2>1, FS_EmptySet
    <3>2. PICK f : f = [i \in {} |-> i]
        OBVIOUS
    <3>3. Enumerates(f, E)
        BY <3>1, <3>2 DEF Enumerates
    <3>4. QED
        BY <3>3
  <2>2. QED
      BY <2>1
<1>2. ASSUME NEW n \in Nat, n \in T
      PROVE  n + 1 \in T
  <2>1. ASSUME NEW E \in SUBSET Int, IsFiniteSet(E), Cardinality(E) = n + 1
        PROVE  \E f : Enumerates(f, E)
    <3>1. E # {}
        BY <2>1, FS_EmptySet
    <3>2. PICK m \in E : \A x \in E : m >= x
        BY <2>1, <3>1, LargestOf
    <3>3. PICK F : F = E \ {m}
        OBVIOUS
    <3>4. IsFiniteSet(F) /\ Cardinality(F) = n /\ F \in SUBSET Int
      <4>1. IsFiniteSet(E \ {m}) /\ Cardinality(E \ {m}) = Cardinality(E) - 1
          BY <2>1, <3>2, FS_RemoveElement
      <4>2. QED
          BY <2>1, <3>3, <4>1
    <3>5. PICK g : Enumerates(g, F)
        BY <1>2, <3>4
    <3>6. g \in [1..n -> F] /\ \A i, k \in 1..n : i < k => g[i] < g[k]
        BY <3>4, <3>5 DEF Enumerates
    <3>7. PICK f : f = [i \in 1..(n + 1) |-> IF i = n + 1 THEN m ELSE g[i]]
        OBVIOUS
    <3>8. \A i \in 1..(n + 1) : i = n + 1 \/ i \in 1..n
        OBVIOUS
    <3>9. f \in [1..(n + 1) -> E]
        BY <3>2, <3>3, <3>6, <3>7, <3>8
    <3>10. ASSUME NEW i \in 1..(n + 1), NEW k \in 1..(n + 1), i < k
           PROVE  f[i] < f[k]
      <4>1. i \in 1..n /\ f[i] = g[i] /\ g[i] \in F
          BY <3>6, <3>7, <3>10
      <4>2. CASE k = n + 1
        <5>1. f[k] = m /\ g[i] # m /\ m >= g[i] /\ m \in Int /\ g[i] \in Int
            BY <3>2, <3>3, <3>4, <3>7, <4>1, <4>2
        <5>2. QED
            BY <4>1, <5>1
      <4>3. CASE k \in 1..n
        <5>1. f[k] = g[k] /\ g[i] < g[k]
            BY <3>6, <3>7, <3>10, <4>1, <4>3
        <5>2. QED
            BY <4>1, <5>1
      <4>4. QED
          BY <3>8, <4>2, <4>3
    <3>11. Enumerates(f, E)
        BY <2>1, <3>9, <3>10 DEF Enumerates
    <3>12. QED
        BY <3>11
  <2>2. QED
      BY <2>1
<1>3. Cardinality(D) \in Nat
    BY FS_CardinalityType
<1>4. T \subseteq Nat
    OBVIOUS
<1>5. Cardinality(D) \in T
  <2> HIDE DEF T
  <2>1. QED
      BY <1>1, <1>2, <1>3, <1>4, FirstOut
<1>6. QED
    BY <1>5

\* The keys of an answer's blocks are all of them.
ListsAll(D, keys) ==
    /\ keys \in Seq(D) /\ Len(keys) \in Nat
    /\ \A i \in 1..Len(keys) : keys[i] \in D
    /\ \A key \in D : \E i \in 1..Len(keys) : keys[i] = key

\* So they are.
LEMMA KeysOfAll ==
    ASSUME NEW v, NEW D, D = DOMAIN v.blocks, IsFiniteSet(D), D \in SUBSET Int
    PROVE  ListsAll(D, Keys(v))
<1> DEFINE keys == Keys(v)
<1>1. PICK n : n = Cardinality(D)
    OBVIOUS
<1>2. n \in Nat
    BY <1>1, FS_CardinalityType
<1>3. keys \in [1..n -> D] /\ \A i, k \in DOMAIN keys : i < k => keys[i] < keys[k]
  <2>1. keys = CHOOSE f \in [1..n -> D] : \A i, k \in DOMAIN f : i < k => f[i] < f[k]
      BY <1>1, Zenon DEF Keys
  <2>2. \E f \in [1..n -> D] : \A i, k \in DOMAIN f : i < k => f[i] < f[k]
      BY <1>1, Enumerable DEF Enumerates
  <2> HIDE DEF keys
  <2>3. QED
      BY <2>1, <2>2
<1> HIDE DEF keys
<1>4. keys \in Injection(1..n, D)
  <2>1. ASSUME NEW i \in 1..n, NEW k \in 1..n, keys[i] = keys[k]
        PROVE  i = k
    <3>1. keys[i] \in Int /\ keys[k] \in Int /\ i \in Int /\ k \in Int /\ ~(keys[i] < keys[k]) /\ ~(keys[k] < keys[i])
        BY <1>2, <1>3, <2>1
    <3>2. ~(i < k) /\ ~(k < i)
        BY <1>3, <3>1
    <3>3. QED
        BY <3>1, <3>2
  <2>2. QED
      BY <1>3, <2>1 DEF Injection, IsInjective
<1>5. Cardinality(1..n) = n
    BY <1>2, FS_Interval
<1>6. keys \in Surjection(1..n, D)
    BY <1>1, <1>4, <1>5, FS_Injection
<1>7. keys \in Seq(D) /\ Len(keys) = n
    BY <1>2, <1>3
<1>8. ListsAll(D, keys)
    BY <1>2, <1>3, <1>6, <1>7 DEF Surjection, ListsAll
<1>9. QED
    BY <1>8 DEF keys

\* Blocks in a row, and whether one of them is a call.
BlockRow(x) == Row(x) /\ \A i \in 1..Len(x) : IsBlock(x[i])
HasCall(x) == \E i \in 1..Len(x) : x[i].kind = "tool_use"

\* x with one more block, which may have joined another.
OneMore(x, b, y) == BlockRow(y) /\ (HasCall(y) <=> HasCall(x) \/ b.kind = "tool_use")

\* A block that is appended is one more ...
LEMMA BlockAppended ==
    ASSUME NEW x, BlockRow(x), NEW b, IsBlock(b), NEW y, y = Append(x, b)
    PROVE  OneMore(x, b, y)
<1>1. PICK S : x \in Seq(S)
    BY DEF BlockRow, Row
<1>2. y \in Seq(S \cup {b}) /\ Len(y) = Len(x) + 1 /\ Len(x) \in Nat
    BY <1>1
<1>3. \A i \in 1..Len(y) : i = Len(x) + 1 \/ i \in 1..Len(x)
    BY <1>2
<1>4. y[Len(x) + 1] = b /\ \A i \in 1..Len(x) : y[i] = x[i]
    BY <1>1
<1>5. Len(x) + 1 \in 1..Len(y) /\ \A i \in 1..Len(x) : i \in 1..Len(y)
    BY <1>2
<1>6. BlockRow(y)
    BY <1>2, <1>3, <1>4 DEF BlockRow, Row
<1>7. HasCall(y) <=> HasCall(x) \/ b.kind = "tool_use"
    BY <1>3, <1>4, <1>5 DEF HasCall
<1>8. QED
    BY <1>6, <1>7 DEF OneMore

\* ... and so is one that joins the last.
LEMMA BlockJoined ==
    ASSUME NEW x, BlockRow(x), NEW b, IsBlock(b), NEW y, y = Itemed(x, b)
    PROVE  OneMore(x, b, y)
<1>1. CASE ~(x # <<>> /\ b.kind # "tool_use" /\ x[Len(x)].kind = b.kind)
  <2>1. y = Append(x, b)
      BY <1>1 DEF Itemed
  <2>2. QED
      BY <2>1, BlockAppended
<1>2. CASE x # <<>> /\ b.kind # "tool_use" /\ x[Len(x)].kind = b.kind
  <2>1. PICK n : n = Len(x)
      OBVIOUS
  <2>2. PICK S : x \in Seq(S)
      BY DEF BlockRow, Row
  <2>3. n \in 1..Len(x) /\ DOMAIN x = 1..n /\ n \in Nat
      BY <1>2, <2>1, <2>2
  <2>4. PICK ps : ps = x[n].pieces \o b.pieces
      OBVIOUS
  <2>5. PICK c : c = [x[n] EXCEPT !.pieces = ps]
      OBVIOUS
  <2>6. y = [x EXCEPT ![n] = c]
    <3>1. y = [x EXCEPT ![n].pieces = x[n].pieces \o b.pieces]
        BY <1>2, <2>1 DEF Itemed
    <3>2. QED
        BY <2>4, <2>5, <3>1
  <2>7. IsBlock(c) /\ c.kind = x[n].kind
    <3>1. IsBlock(x[n])
        BY <2>1, <2>3 DEF BlockRow
    <3>2. PICK a : a = x[n]
        OBVIOUS
    <3>3. a = [kind |-> a.kind, id |-> a.id, pieces |-> a.pieces, open |-> a.open]
          /\ a.kind \in Kinds /\ a.open \in BOOLEAN
        BY <3>1, <3>2 DEF IsBlock
    <3>4. c = [kind |-> a.kind, id |-> a.id, pieces |-> ps, open |-> a.open]
        BY <2>5, <3>2, <3>3
    <3>5. c.kind = a.kind /\ c.id = a.id /\ c.pieces = ps /\ c.open = a.open
        BY <3>4
    <3>6. QED
        BY <3>2, <3>3, <3>4, <3>5 DEF IsBlock
  <2>8. y \in Seq(S \cup {c}) /\ Len(y) = n /\ y[n] = c /\ \A i \in 1..n : i # n => y[i] = x[i]
      BY <2>1, <2>2, <2>3, <2>6
  <2>9. BlockRow(y)
      BY <2>1, <2>7, <2>8 DEF BlockRow, Row
  <2>10. \A i \in 1..n : y[i].kind = x[i].kind
      BY <2>7, <2>8
  <2>11. HasCall(y) <=> HasCall(x)
      BY <2>1, <2>8, <2>10 DEF HasCall
  <2>12. QED
      BY <1>2, <2>9, <2>11 DEF OneMore
<1>3. QED
    BY <1>1, <1>2

\* A fold that adds the blocks of a row, one by one, has a call if they have.
LEMMA FoldedCalls ==
    ASSUME NEW n \in Nat, NEW c, c[0] = <<>>, NEW b,
           \A k \in 1..n : IsBlock(b[k]),
           \A k \in 1..n : BlockRow(c[k - 1]) => OneMore(c[k - 1], b[k], c[k])
    PROVE  BlockRow(c[n]) /\ (HasCall(c[n]) <=> \E k \in 1..n : b[k].kind = "tool_use")
<1> DEFINE P(m) == BlockRow(c[m]) /\ (HasCall(c[m]) <=> \E k \in 1..m : b[k].kind = "tool_use")
           T == {m \in Nat : m <= n => P(m)}
<1>1. 0 \in T
  <2>1. Row(<<>>) /\ 1..Len(<<>>) = {} /\ 1..0 = {}
      BY RowOfFew
  <2>2. P(0)
      BY <2>1 DEF BlockRow, HasCall
  <2>3. QED
      BY <2>2
<1>2. ASSUME NEW m \in Nat, m \in T
      PROVE  m + 1 \in T
  <2>1. ASSUME m + 1 <= n
        PROVE  P(m + 1)
    <3>1. P(m) /\ m + 1 \in 1..n /\ (m + 1) - 1 = m
        BY <1>2, <2>1
    <3>2. OneMore(c[m], b[m + 1], c[m + 1])
        BY <3>1
    <3>3. \A k : k \in 1..(m + 1) <=> k \in 1..m \/ k = m + 1
        OBVIOUS
    <3>4. QED
        BY <3>1, <3>2, <3>3 DEF OneMore
  <2>2. QED
      BY <2>1
<1> HIDE DEF P
<1>3. T \subseteq Nat
    OBVIOUS
<1>4. n \in T
  <2> HIDE DEF T
  <2>1. QED
      BY <1>1, <1>2, <1>3, FirstOut
<1>5. P(n)
    BY <1>4
<1>6. QED
    BY <1>5 DEF P

\* Every block of an answer is decoded.
LEMMA BlocksDecoded ==
    ASSUME NEW p, p # "responses", NEW v, BlocksOK(v), IsFiniteSet(DOMAIN v.blocks), DOMAIN v.blocks \in SUBSET Int,
           NEW x, x = DecodeBlocks(p, v)
    PROVE  BlockRow(x) /\ (HasCall(x) <=> Called(v))
<1>1. PICK D : D = DOMAIN v.blocks
    OBVIOUS
<1>2. PICK fs : fs = Keys(v)
    OBVIOUS
<1>3. /\ fs \in Seq(D) /\ Len(fs) \in Nat
      /\ \A i \in 1..Len(fs) : fs[i] \in D
      /\ \A key \in D : \E i \in 1..Len(fs) : fs[i] = key
  <2>1. IsFiniteSet(D) /\ D \in SUBSET Int
      BY <1>1
  <2>2. ListsAll(D, Keys(v))
      BY <1>1, <2>1, KeysOfAll
  <2>3. QED
      BY <1>2, <2>2 DEF ListsAll
<1> DEFINE n == Len(fs)
           F(g) == [s \in SUBSET (1..n) |->
                       IF s = {} THEN <<>>
                       ELSE IF p = "responses" /\ v.blocks[fs[Max(s)]].kind # "tool_use"
                                               /\ v.blocks[fs[Max(s)]].pieces = <<>>
                            THEN g[s \ {Max(s)}]
                            ELSE Append(g[s \ {Max(s)}], v.blocks[fs[Max(s)]])]
           it == CHOOSE g : g = F(g)
<1>4. n \in Nat /\ DOMAIN fs = 1..n
    BY <1>3
<1>5. x = it[1..n]
  <2>1. x = (CHOOSE g : g = [s \in SUBSET DOMAIN fs |->
                       IF s = {} THEN <<>>
                       ELSE IF p = "responses" /\ v.blocks[fs[Max(s)]].kind # "tool_use"
                                               /\ v.blocks[fs[Max(s)]].pieces = <<>>
                            THEN g[s \ {Max(s)}]
                            ELSE Append(g[s \ {Max(s)}], v.blocks[fs[Max(s)]])])[DOMAIN fs]
      BY <1>2 DEF DecodeBlocks, FoldLeft, MapThenFoldSet
  <2>2. QED
      BY <1>4, <2>1
<1>6. it = F(it)
  <2>1. PICK g : Accumulates("decode", v, <<>>, fs, n, g)
      BY <1>4, AccumulatorExists
  <2>2. g = F(g)
      BY <2>1 DEF Accumulates, Applied
  <2> HIDE DEF F
  <2>3. QED
      BY <2>2
<1>7. Accumulates("decode", v, <<>>, fs, n, it)
  <2> HIDE DEF it
  <2>1. QED
      BY <1>6 DEF Accumulates, Applied
<1> HIDE DEF it, F
<1>8. PICK c : Folded("decode", v, <<>>, fs, c) /\ c[n] = it[1..n]
    BY <1>3, <1>7, FoldStep
<1>9. PICK b : b = [k \in 1..n |-> v.blocks[fs[k]]]
    OBVIOUS
<1>10. \A k \in 1..n : IsBlock(b[k]) /\ b[k] = v.blocks[fs[k]]
    BY <1>1, <1>3, <1>9 DEF BlocksOK
<1>11. c[0] = <<>> /\ \A k \in 1..n : c[k] = Append(c[k - 1], b[k])
    BY <1>8, <1>10 DEF Folded, Applied
<1>12. \A k \in 1..n : BlockRow(c[k - 1]) => OneMore(c[k - 1], b[k], c[k])
    BY <1>10, <1>11, BlockAppended
<1>13. \A k \in 1..n : IsBlock(b[k])
    BY <1>10
<1>14. BlockRow(c[n]) /\ (HasCall(c[n]) <=> \E k \in 1..n : b[k].kind = "tool_use")
    BY <1>4, <1>11, <1>12, <1>13, FoldedCalls
<1>15. (\E k \in 1..n : b[k].kind = "tool_use") <=> Called(v)
  <2>1. ASSUME NEW k \in 1..n, b[k].kind = "tool_use"
        PROVE  Called(v)
    <3>1. fs[k] \in DOMAIN v.blocks /\ v.blocks[fs[k]].kind = "tool_use"
        BY <1>1, <1>3, <1>10, <2>1
    <3>2. QED
        BY <3>1 DEF Called
  <2>2. ASSUME Called(v)
        PROVE  \E k \in 1..n : b[k].kind = "tool_use"
    <3>1. PICK key \in D : v.blocks[key].kind = "tool_use"
        BY <1>1, <2>2 DEF Called
    <3>2. PICK k \in 1..n : fs[k] = key
        BY <1>3, <3>1
    <3>3. QED
        BY <1>10, <3>1, <3>2
  <2>3. QED
      BY <2>1, <2>2
<1>16. QED
    BY <1>5, <1>8, <1>14, <1>15

\* Items keep the calls of the blocks they are made of.
LEMMA ItemsMade ==
    ASSUME NEW fs, BlockRow(fs), NEW x, x = OutputItems(fs)
    PROVE  BlockRow(x) /\ (HasCall(x) <=> HasCall(fs))
<1>1. PICK S : fs \in Seq(S)
    BY DEF BlockRow, Row
<1> DEFINE n == Len(fs)
           F(g) == [s \in SUBSET (1..n) |-> IF s = {} THEN <<>> ELSE Itemed(g[s \ {Max(s)}], fs[Max(s)])]
           it == CHOOSE g : g = F(g)
<1>2. n \in Nat /\ DOMAIN fs = 1..n
    BY <1>1
<1>3. x = it[1..n]
  <2>1. x = (CHOOSE g : g = [s \in SUBSET DOMAIN fs |->
                       IF s = {} THEN <<>> ELSE Itemed(g[s \ {Max(s)}], fs[Max(s)])])[DOMAIN fs]
      BY DEF OutputItems, FoldLeft, MapThenFoldSet, Itemed
  <2>2. QED
      BY <1>2, <2>1
<1>4. it = F(it)
  <2>1. PICK g : Accumulates("items", 0, <<>>, fs, n, g)
      BY <1>2, AccumulatorExists
  <2>2. g = F(g)
      BY <2>1 DEF Accumulates, Applied
  <2> HIDE DEF F
  <2>3. QED
      BY <2>2
<1>5. Accumulates("items", 0, <<>>, fs, n, it)
  <2> HIDE DEF it
  <2>1. QED
      BY <1>4 DEF Accumulates, Applied
<1> HIDE DEF it, F
<1>6. PICK c : Folded("items", 0, <<>>, fs, c) /\ c[n] = it[1..n]
    BY <1>1, <1>5, FoldStep
<1>7. c[0] = <<>> /\ \A k \in 1..n : c[k] = Itemed(c[k - 1], fs[k])
    BY <1>6 DEF Folded, Applied
<1>8. \A k \in 1..n : IsBlock(fs[k])
    BY DEF BlockRow
<1>9. \A k \in 1..n : BlockRow(c[k - 1]) => OneMore(c[k - 1], fs[k], c[k])
    BY <1>7, <1>8, BlockJoined
<1>10. BlockRow(c[n]) /\ (HasCall(c[n]) <=> \E k \in 1..n : fs[k].kind = "tool_use")
    BY <1>2, <1>7, <1>8, <1>9, FoldedCalls
<1>11. QED
    BY <1>3, <1>6, <1>10 DEF HasCall

\* The keys of what was said are finitely many numbers.
LEMMA SaidKeys ==
    ASSUME NEW p \in Protocols, NEW v, SaidForm(p, v)
    PROVE  IsFiniteSet(DOMAIN v.blocks) /\ DOMAIN v.blocks \in SUBSET Int
<1>1. CASE p = "openai"
  <2>1. IsFiniteSet(DOMAIN v.blocks) /\ ChatView(v)
      BY <1>1 DEF SaidForm
  <2>2. \A k \in DOMAIN v.blocks : k \in Int
      BY <2>1 DEF ChatView
  <2>3. QED
      BY <2>1, <2>2
<1>2. CASE p # "openai"
  <2>1. PICK n \in Nat : DOMAIN v.blocks = 0..(n - 1)
      BY <1>2 DEF SaidForm
  <2>2. IsFiniteSet(0..(n - 1))
      BY FS_Interval
  <2>3. QED
      BY <2>1, <2>2
<1>3. QED
    BY <1>1, <1>2

\* The items of a body, each under its number.
LEMMA BodyCalls ==
    ASSUME NEW x, BlockRow(x), NEW w, w.blocks = [key \in {i - 1 : i \in DOMAIN x} |-> x[key + 1]]
    PROVE  Called(w) <=> HasCall(x)
<1>1. PICK S : x \in Seq(S)
    BY DEF BlockRow, Row
<1>2. DOMAIN x = 1..Len(x) /\ Len(x) \in Nat
    BY <1>1
<1>3. ASSUME NEW i \in 1..Len(x)
      PROVE  i - 1 \in DOMAIN w.blocks /\ w.blocks[i - 1] = x[i]
  <2>1. i - 1 \in {k - 1 : k \in DOMAIN x} /\ (i - 1) + 1 = i
      BY <1>2
  <2>2. QED
      BY <2>1
<1>4. ASSUME NEW key \in DOMAIN w.blocks
      PROVE  \E i \in 1..Len(x) : w.blocks[key] = x[i]
  <2>1. PICK i \in DOMAIN x : key = i - 1
      OBVIOUS
  <2>2. QED
      BY <1>2, <1>3, <2>1
<1>5. ASSUME HasCall(x)
      PROVE  Called(w)
  <2>1. PICK i \in 1..Len(x) : x[i].kind = "tool_use"
      BY <1>5 DEF HasCall
  <2>2. i - 1 \in DOMAIN w.blocks /\ w.blocks[i - 1] = x[i]
      BY <1>3
  <2>3. QED
      BY <2>1, <2>2 DEF Called
<1>6. ASSUME Called(w)
      PROVE  HasCall(x)
  <2>1. PICK key \in DOMAIN w.blocks : w.blocks[key].kind = "tool_use"
      BY <1>6 DEF Called
  <2>2. PICK i \in 1..Len(x) : w.blocks[key] = x[i]
      BY <1>4
  <2>3. QED
      BY <2>1, <2>2 DEF HasCall
<1>7. QED
    BY <1>5, <1>6

\* What a body tells, but for the calls that are forgotten.
LEMMA BodyTells ==
    ASSUME NEW up \in Protocols, NEW p \in Protocols, p # up, NEW v, SaidUsage(up, v), SaidForm(up, v),
           Finished(v), v.error \/ ~(up = "responses" /\ Called(v)),
           NEW w, w = EncodeResponse(p, DecodeResponse(up, v))
    PROVE  Whole(up, p, v, w)
<1>1. PICK resp : resp = DecodeResponse(up, v)
    OBVIOUS
<1>2. w = EncodeResponse(p, resp)
    BY <1>1
<1>3. v.error \in BOOLEAN /\ (~v.error => v.ends > 0 /\ v.stop # "none")
    BY DEF SaidForm, Finished
<1>4. IsView(View) /\ View.error = FALSE
    BY DEF View, IsView
<1>5. CASE v.error
  <2>1. resp.error = TRUE
      BY <1>1, <1>5 DEF DecodeResponse
  <2>2. w = [View EXCEPT !.error = TRUE, !.ends = 1]
      BY <1>2, <2>1 DEF EncodeResponse
  <2>3. w.error = TRUE
      BY <1>4, <2>2 DEF IsView
  <2>4. QED
      BY <1>5, <2>3 DEF Whole
<1>6. CASE ~v.error
  <2>1. PICK x : x = DecodeBlocks(up, v)
      OBVIOUS
  <2>2. PICK why : why = Why(up, v)
      OBVIOUS
  <2>3. why = StopFrom(up, v.stop)
    <3>1. up = "responses" => StopFrom(up, "completed") = "end_turn"
        BY DEF StopFrom
    <3>2. QED
        BY <1>6, <2>2, <3>1 DEF Why
  <2>4. PICK cost : cost = ToIR(up, v.usage)
      OBVIOUS
  <2>5. resp = [blocks |-> x, stop |-> why, usage |-> cost, error |-> FALSE]
      BY <1>1, <1>6, <2>1, <2>3, <2>4 DEF DecodeResponse
  <2>6. PICK items : items = IF p = "responses" THEN OutputItems(x) ELSE x
      OBVIOUS
  <2>7. PICK bs : bs = IF p = "openai" THEN EncodeMessage(x) ELSE [key \in {i - 1 : i \in DOMAIN items} |-> items[key + 1]]
      OBVIOUS
  <2>8. PICK stop : stop = StopTo(p, why)
      OBVIOUS
  <2>9. PICK wire : wire = ToWire(p, cost)
      OBVIOUS
  <2>10. w = [View EXCEPT !.blocks = bs, !.stop = stop, !.usage = wire, !.ends = 1]
    <3>1. resp.blocks = x /\ resp.stop = why /\ resp.usage = cost /\ resp.error = FALSE
        BY <2>5
    <3>2. w = [View EXCEPT !.blocks = IF p = "openai" THEN EncodeMessage(resp.blocks)
                                     ELSE [key \in {i - 1 : i \in DOMAIN (IF p = "responses" THEN OutputItems(resp.blocks)
                                                                         ELSE resp.blocks)} |->
                                              (IF p = "responses" THEN OutputItems(resp.blocks)
                                               ELSE resp.blocks)[key + 1]],
                           !.stop = StopTo(p, resp.stop), !.usage = ToWire(p, resp.usage), !.ends = 1]
      <4>1. ~resp.error
          BY <3>1
      <4>2. QED
          BY <1>2, <4>1, Zenon DEF EncodeResponse
    <3>3. bs = IF p = "openai" THEN EncodeMessage(x)
               ELSE [key \in {i - 1 : i \in DOMAIN (IF p = "responses" THEN OutputItems(x) ELSE x)} |->
                        (IF p = "responses" THEN OutputItems(x) ELSE x)[key + 1]]
        BY <2>6, <2>7
    <3>4. QED
        BY <2>8, <2>9, <3>1, <3>2, <3>3
  <2>11. w = [blocks |-> bs, at |-> 0, crossed |-> FALSE, started |-> FALSE, stop |-> stop,
              usage |-> wire, error |-> FALSE, ends |-> 1, bad |-> FALSE]
      BY <2>10 DEF View
  <2>12. w.blocks = bs /\ w.stop = stop /\ w.usage = wire /\ w.error = FALSE /\ w.ends = 1 /\ IsView(w)
      BY <2>11 DEF IsView
  <2>13. Told(p, w, why, cost)
      BY <2>8, <2>9, <2>12 DEF Told
  <2>14. ASSUME p = "responses"
         PROVE  Called(w) <=> Called(v)
    <3>1. BlocksOK(v) /\ IsFiniteSet(DOMAIN v.blocks) /\ DOMAIN v.blocks \in SUBSET Int
        BY SaidKeys DEF SaidUsage
    <3>2. BlockRow(x) /\ (HasCall(x) <=> Called(v))
        BY <1>6, <2>1, <2>14, <3>1, BlocksDecoded
    <3>3. items = OutputItems(x) /\ bs = [key \in {i - 1 : i \in DOMAIN items} |-> items[key + 1]]
        BY <2>6, <2>7, <2>14
    <3>4. BlockRow(items) /\ (HasCall(items) <=> HasCall(x))
        BY <3>2, <3>3, ItemsMade
    <3>5. Called(w) <=> HasCall(items)
        BY <2>12, <3>3, <3>4, BodyCalls
    <3>6. QED
        BY <3>2, <3>4, <3>5
  <2>15. QED
      BY <1>6, <2>2, <2>4, <2>13, <2>14 DEF Whole
<1>7. QED
    BY <1>5, <1>6

\* The inductive invariant: a client whose stream is passed through has seen
\* what was said, and one whose stream is converted was told what there is to
\* tell of it.
VerdictInv ==
    /\ FormInv
    /\ SaidForm(Up, said)
    /\ route.stream /\ Native /\ result \in {"waiting", "refused", "none", "complete"} => seen = said
    /\ route.stream /\ ~Native /\ result = "none" => Telling(Up, Client, said, reader, seen)
    /\ VerdictIsTold
-----------------------------------------------------------------------------
\* Before an answer, nothing is said or told.
LEMMA VerdictAnew ==
    ASSUME FormInv', result' \in {"waiting", "refused"}, said' = View, seen' = View
    PROVE  VerdictInv'
<1>1. Up' \in Protocols
    BY ProtocolsAssumption DEF FormInv, UsageInv, Up
<1>2. SaidForm(Up', said')
    BY <1>1, FormOfNothing
<1>3. VerdictIsTold'
    BY DEF VerdictIsTold
<1>4. QED
    BY <1>2, <1>3 DEF VerdictInv

\* A conversation begins so.
LEMMA VerdictInit == ConversationInit => VerdictInv
<1> SUFFICES ASSUME ConversationInit
             PROVE  VerdictInv
    OBVIOUS
<1>1. FormInv /\ result = "waiting" /\ said = View /\ seen = View
    BY FormInit DEF ConversationInit
<1>2. Up \in Protocols
    BY <1>1, ProtocolsAssumption DEF FormInv, UsageInv, Up
<1>3. SaidForm(Up, said)
    BY <1>1, <1>2, FormOfNothing
<1>4. VerdictIsTold
    BY <1>1 DEF VerdictIsTold
<1>5. QED
    BY <1>1, <1>3, <1>4 DEF VerdictInv

\* A step after which the same has been said and shown, and nothing completed.
LEMMA VerdictSame ==
    ASSUME VerdictInv, FormInv', UNCHANGED <<route, said, reader, seen>>,
           result' = result \/ result' = "unread"
    PROVE  VerdictInv'
<1>1. Up' = Up /\ Client' = Client /\ Native' = Native
    BY DEF Up, Client, Native
<1>2. CASE result' = result
    BY <1>1, <1>2 DEF VerdictInv, VerdictIsTold, CallsForgotten
<1>3. CASE result' = "unread"
    BY <1>1, <1>3 DEF VerdictInv, VerdictIsTold
<1>4. QED
    BY <1>2, <1>3

\* The relay begins with its preamble, which tells nothing.
LEMMA VerdictAccepted ==
    ASSUME VerdictInv, FormInv', Accepted
    PROVE  VerdictInv'
<1>1. /\ result = "waiting" /\ result' = "none" /\ seen' = Preamble
      /\ route' = route /\ said' = said /\ reader' = reader
    BY DEF Accepted
<1>2. /\ said = View /\ reader = Reader[Up]
      /\ route \in [up : Upstreams, client : Clients, stream : BOOLEAN]
    BY <1>1 DEF VerdictInv, FormInv, UsageInv
<1>3. Up \in Protocols /\ Client \in Protocols /\ Up' = Up /\ Client' = Client /\ Native' = Native
    BY <1>1, <1>2, ProtocolsAssumption DEF Up, Client, Native
<1>4. SaidForm(Up', said') /\ VerdictIsTold'
    BY <1>1, <1>3 DEF VerdictInv, VerdictIsTold
<1>5. CASE route.stream /\ ~Native
  <2>1. PICK s : s = seen'
      OBVIOUS
  <2>2. StartFrames(Client) = IF Client = "anthropic" THEN <<Frame("message_start")>> ELSE <<>>
      BY DEF StartFrames
  <2>3. s = ReadAll(Client, View, IF Client = "anthropic" THEN <<Frame("message_start")>> ELSE <<>>)
      BY <1>1, <1>5, <2>1, <2>2, Zenon DEF Preamble
  <2>4. Telling(Up, Client, View, Reader[Up], s)
      BY <1>3, <2>3, PreambleTells
  <2>5. Telling(Up', Client', said', reader', seen')
      BY <1>1, <1>2, <1>3, <2>1, <2>4
  <2>6. QED
      BY <1>3, <1>4, <1>5, <2>5 DEF VerdictInv
<1>6. CASE ~(route.stream /\ ~Native)
  <2>1. seen' = View
      BY <1>1, <1>6, ReadOne DEF Preamble
  <2>2. QED
      BY <1>1, <1>2, <1>3, <1>4, <1>6, <2>1 DEF VerdictInv
<1>7. QED
    BY <1>5, <1>6

\* A line is told, passed through or converted.
LEMMA VerdictOfLine ==
    ASSUME VerdictInv, FormInv', NEW lost \in BOOLEAN, NEW f \in Sends(Up, said), Line(f, lost)
    PROVE  VerdictInv'
<1>1. /\ route.stream /\ result = "none" /\ route' = route
      /\ said' = Read(Up, said, f) /\ result' \in {"none", "unwritten"}
      /\ Native => PassLine(f, lost)
      /\ ~Native => ConvertLine(f, lost)
    BY DEF Line, PassLine, ConvertLine
<1>2. Up \in Protocols /\ Client \in Protocols /\ Up' = Up /\ Client' = Client /\ Native' = Native
    BY <1>1, ProtocolsAssumption DEF VerdictInv, FormInv, UsageInv, Up, Client, Native
<1>3. SaidUsage(Up, said) /\ SaidForm(Up, said)
    BY DEF VerdictInv, FormInv, UsageInv
<1>4. SaidForm(Up', said')
    BY <1>1, <1>2, <1>3, FormKeptBySaid
<1>5. VerdictIsTold'
    BY <1>1 DEF VerdictIsTold
<1>6. CASE result' = "unwritten"
    BY <1>4, <1>5, <1>6 DEF VerdictInv
<1>7. CASE result' = "none" /\ Native
  <2>1. seen = said /\ Client = Up
      BY <1>1, <1>7 DEF VerdictInv, Native
  <2>2. seen' = said'
      BY <1>1, <1>7, <2>1 DEF PassLine
  <2>3. QED
      BY <1>2, <1>4, <1>5, <1>7, <2>2 DEF VerdictInv
<1>8. CASE result' = "none" /\ ~Native
  <2>1. PICK st : st = [rn |-> renderer, seen |-> seen]
      OBVIOUS
  <2>2. Telling(Up, Client, said, reader, seen) /\ ReaderInv(Up, said, reader) /\ Client # Up
      BY <1>1, <1>8 DEF VerdictInv, FormInv, UsageInv, Native
  <2>3. Client # "anthropic" => FromUp(Up, Client, said, reader, st)
      BY <1>1, <1>8, <2>1 DEF VerdictInv, FormInv, Excused
  <2>4. PICK step : step = Fed(f)
      OBVIOUS
  <2>5. step = IF f.type = "[DONE]" THEN Step(reader, <<>>) ELSE Feed(Up, reader, f)
      BY <2>4 DEF Fed
  <2>6. PICK all : all = RenderAll(Client, renderer, step.out)
      OBVIOUS
  <2>7. PICK to : to = Shown(Client, st, step.out)
      OBVIOUS
  <2>8. to = [rn |-> all.machine, seen |-> ReadAll(Client, seen, all.out)]
      BY <2>1, <2>6, <2>7 DEF Shown
  <2>9. PICK w : w = said'
      OBVIOUS
  <2>10. w = Read(Up, said, f)
      BY <1>1, <2>9
  <2>11. Telling(Up, Client, w, step.machine, to.seen)
      BY <1>2, <1>3, <2>1, <2>2, <2>3, <2>5, <2>7, <2>10, LineTells
  <2>12. reader' = step.machine /\ seen' = ReadAll(Client, seen, all.out)
      BY <1>1, <1>8, <2>4, <2>6 DEF ConvertLine
  <2>13. Telling(Up', Client', said', reader', seen')
      BY <1>2, <2>8, <2>9, <2>11, <2>12
  <2>14. QED
      BY <1>2, <1>4, <1>5, <1>8, <2>13 DEF VerdictInv
<1>9. QED
    BY <1>1, <1>6, <1>7, <1>8

\* The stream is over, and the client was told all of it.
LEMMA VerdictOfEnd ==
    ASSUME VerdictInv, FormInv', NEW end \in {"eof", "broken"}, StreamEnds(end)
    PROVE  VerdictInv'
<1>1. /\ route.stream /\ result = "none" /\ route' = route /\ said' = said
      /\ result' \in {"unwritten", "idle", "complete", "unread"}
      /\ cancelled => result' = "unwritten"
    BY DEF StreamEnds, Classified
<1>2. Up \in Protocols /\ Client \in Protocols /\ Up' = Up /\ Client' = Client /\ Native' = Native
    BY <1>1, ProtocolsAssumption DEF VerdictInv, FormInv, UsageInv, Up, Client, Native
<1>3. SaidUsage(Up', said') /\ SaidForm(Up', said')
    BY <1>1, <1>2 DEF VerdictInv, FormInv, UsageInv
<1>4. CASE Native
  <2>1. Client' = Up' /\ seen' = said'
      BY <1>1, <1>2, <1>4 DEF VerdictInv, Native, StreamEnds
  <2>2. VerdictIsTold'
      BY <2>1 DEF VerdictIsTold
  <2>3. QED
      BY <1>1, <1>2, <1>3, <1>4, <2>1, <2>2 DEF VerdictInv
<1>5. CASE ~Native
  <2>1. ASSUME result' = "complete", Finished(said)
        PROVE  VerdictIsTold'
    <3>1. PICK st : st = [rn |-> renderer, seen |-> seen]
        OBVIOUS
    <3>2. Telling(Up, Client, said, reader, seen) /\ Client # Up
        BY <1>1, <1>5 DEF VerdictInv, Native
    <3>3. Client # "anthropic" => FromUp(Up, Client, said, reader, st)
        BY <1>1, <1>5, <3>1 DEF VerdictInv, FormInv, Excused
    <3>4. PICK out : out = FinishRead(Up, reader).out
        OBVIOUS
    <3>5. PICK all : all = RenderAll(Client, renderer, out)
        OBVIOUS
    <3>6. PICK w : w = ReadAll(Client, seen, all.out \o Done(Client, all.machine).out)
        OBVIOUS
    <3>7. seen' = w
        BY <1>1, <1>5, <2>1, <3>4, <3>5, <3>6, Zenon DEF StreamEnds
    <3>8. PICK v : v = said
        OBVIOUS
    <3>9. Whole(Up, Client, v, w)
        BY <1>1, <1>2, <1>3, <2>1, <3>1, <3>2, <3>3, <3>4, <3>5, <3>6, <3>8, EndTells
    <3>10. Whole(Up', Client', said', seen')
        BY <1>1, <1>2, <3>7, <3>8, <3>9
    <3>11. CASE v.error
        BY <1>1, <3>7, <3>8, <3>9, <3>11 DEF Whole, VerdictIsTold
    <3>12. CASE ~v.error
      <4>1. v.ends > 0
          BY <2>1, <3>8, <3>12 DEF Finished
      <4>2. Verdict(Client, w) = Verdict(Up, v)
          BY <1>1, <1>2, <1>3, <3>8, <3>9, <3>12, <4>1, SameAsSaid
      <4>3. QED
          BY <1>1, <1>2, <3>7, <3>8, <3>12, <4>2 DEF VerdictIsTold
    <3>13. QED
        BY <3>11, <3>12
  <2>2. VerdictIsTold'
      BY <1>1, <2>1 DEF VerdictIsTold
  <2>3. QED
      BY <1>1, <1>2, <1>3, <1>5, <2>2 DEF VerdictInv
<1>6. QED
    BY <1>4, <1>5

\* A body tells all of it, but for the calls that are forgotten.
LEMMA VerdictOfBody ==
    ASSUME VerdictInv, FormInv', NEW lost \in BOOLEAN, BodyRelayed(lost)
    PROVE  VerdictInv'
<1>1. /\ ~route.stream /\ route' = route /\ said' = said /\ Finished(said)
      /\ result' \in {"unwritten", "complete"}
      /\ result' = "complete" => seen' = IF Native THEN said ELSE EncodeResponse(Client, DecodeResponse(Up, said))
    BY DEF BodyRelayed
<1>2. Up \in Protocols /\ Client \in Protocols /\ Up' = Up /\ Client' = Client /\ Native' = Native
    BY <1>1, ProtocolsAssumption DEF VerdictInv, FormInv, UsageInv, Up, Client, Native
<1>3. SaidUsage(Up, said) /\ SaidForm(Up, said)
    BY DEF VerdictInv, FormInv, UsageInv
<1>4. CASE result' = "unwritten"
    BY <1>1, <1>2, <1>3, <1>4 DEF VerdictInv, VerdictIsTold
<1>5. CASE result' = "complete" /\ Native
    BY <1>1, <1>2, <1>3, <1>5 DEF VerdictInv, VerdictIsTold, Native
<1>6. CASE result' = "complete" /\ ~Native
  <2>1. PICK v, w : v = said /\ w = seen'
      OBVIOUS
  <2>2. w = EncodeResponse(Client, DecodeResponse(Up, v)) /\ Client # Up
      BY <1>1, <1>6, <2>1 DEF Native
  <2>3. CASE ~v.error /\ Up = "responses" /\ Called(v)
    <3>1. CallsForgotten'
        BY <1>1, <1>2, <1>6, <2>1, <2>3 DEF CallsForgotten
    <3>2. VerdictIsTold'
        BY <1>1, <2>1, <2>3, <3>1 DEF VerdictIsTold
    <3>3. QED
        BY <1>1, <1>2, <1>3, <3>2 DEF VerdictInv
  <2>4. CASE v.error \/ ~(Up = "responses" /\ Called(v))
    <3>1. Whole(Up, Client, v, w)
        BY <1>1, <1>2, <1>3, <2>1, <2>2, <2>4, BodyTells
    <3>2. ~v.error => Verdict(Client, w) = Verdict(Up, v)
        BY <1>1, <1>2, <1>3, <2>1, <3>1, SameAsSaid DEF Finished
    <3>3. v.error => w.error
        BY <3>1 DEF Whole
    <3>4. VerdictIsTold'
        BY <1>1, <1>2, <2>1, <3>2, <3>3 DEF VerdictIsTold
    <3>5. QED
        BY <1>1, <1>2, <1>3, <3>4 DEF VerdictInv
  <2>5. QED
      BY <2>3, <2>4
<1>7. QED
    BY <1>1, <1>4, <1>5, <1>6

\* Every step keeps the invariant.
LEMMA VerdictNext == VerdictInv /\ [ConversationNext]_conversationVars => VerdictInv'
<1> SUFFICES ASSUME VerdictInv, [ConversationNext]_conversationVars
             PROVE  VerdictInv'
    OBVIOUS
<1>1. FormInv'
    BY FormNext DEF VerdictInv
<1>2. ASSUME NEW up \in Upstreams, Attempt(up)
      PROVE  VerdictInv'
  <2>1. result = "waiting" /\ result' \in {"waiting", "refused"} /\ seen' = seen /\ said' = said
      BY <1>2 DEF Attempt
  <2>2. seen = View /\ said = View
      BY <2>1 DEF VerdictInv, FormInv, UsageInv
  <2>3. QED
      BY <1>1, <2>1, <2>2, VerdictAnew
<1>3. CASE Accepted
    BY <1>1, <1>3, VerdictAccepted
<1>4. ASSUME NEW lost \in BOOLEAN, BodyRelayed(lost)
      PROVE  VerdictInv'
    BY <1>1, <1>4, VerdictOfBody
<1>5. ASSUME NEW lost \in BOOLEAN, NEW f \in Sends(Up, said), Line(f, lost)
      PROVE  VerdictInv'
    BY <1>1, <1>5, VerdictOfLine
<1>6. ASSUME NEW f \in Sends(Up, said), Prepares(f)
      PROVE  VerdictInv'
  <2>1. ~route.stream /\ route' = route /\ said' = Read(Up, said, f) /\ result' = "none"
      BY <1>6 DEF Prepares
  <2>2. Up \in Protocols /\ Up' = Up
      BY <2>1, ProtocolsAssumption DEF VerdictInv, FormInv, UsageInv, Up
  <2>3. SaidForm(Up', said')
      BY <2>1, <2>2, FormKeptBySaid DEF VerdictInv, FormInv, UsageInv
  <2>4. QED
      BY <1>1, <2>1, <2>3 DEF VerdictInv, VerdictIsTold
<1>7. ASSUME NEW end \in {"eof", "broken"}, StreamEnds(end)
      PROVE  VerdictInv'
    BY <1>1, <1>7, VerdictOfEnd
<1>8. CASE BodyUnread \/ HangUp \/ IdleTimeout \/ UNCHANGED conversationVars
    BY <1>1, <1>8, VerdictSame DEF BodyUnread, HangUp, IdleTimeout, conversationVars
<1>9. ASSUME NEW rest, NEW image, NEW format, NEW order, Replies(order, rest, image, format)
      PROVE  VerdictInv'
  <2>1. seen' = View /\ said' = View /\ result' = "waiting"
      BY <1>9 DEF Replies
  <2>2. QED
      BY <1>1, <2>1, VerdictAnew
<1>10. QED
    BY <1>2, <1>3, <1>4, <1>5, <1>6, <1>7, <1>8, <1>9 DEF ConversationNext, Relays, Next

\* For every set of protocols and usages, and conversations of any length: a
\* client that got the whole answer is told of an error as an error, and
\* otherwise whether it was cut short, whether the model waits for the results
\* of its calls, and what it cost, as the upstream said it, but where a body's
\* calls are forgotten (Feed, Finish and Done of sse.go, the codecs'
\* DecodeResponse and EncodeResponse).
THEOREM VerdictIsToldAlways == ConversationSpec => []VerdictIsTold
<1>1. ConversationInit => VerdictInv
    BY VerdictInit
<1>2. VerdictInv /\ [ConversationNext]_conversationVars => VerdictInv'
    BY VerdictNext
<1>3. VerdictInv => VerdictIsTold
    BY DEF VerdictInv
<1>4. QED
    BY <1>1, <1>2, <1>3, PTL DEF ConversationSpec
=============================================================================
