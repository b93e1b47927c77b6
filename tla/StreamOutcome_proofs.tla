-------------------------- MODULE StreamOutcome_proofs -------------------------
(***************************************************************************)
(* Theorems about SseStream, what the client is told of the outcome: the   *)
(* tool calls that are sent, the error that ends the stream, the answer    *)
(* that is kept and the attempt that is thrown away, for any menu of       *)
(* upstream events, bounds and number of retries.                          *)
(***************************************************************************)
EXTENDS SseStream_proofs

-----------------------------------------------------------------------------
(* The tool calls in what has been sent.                                     *)

\* Events k, k + 1 and k + 2 are all there is of block i: a tool call.
CallAt(out, k, i) ==
    /\ k \in DOMAIN out /\ k + 1 \in DOMAIN out /\ k + 2 \in DOMAIN out
    /\ Of(out, i) = {k, k + 1, k + 2}
    /\ out[k].ev = "content_block_start"
    /\ out[k + 1].ev = "content_block_delta"
    /\ out[k + 2].ev = "content_block_stop"

StartsCall(e) == e.ev = "content_block_start" /\ e.type = "tool_use"

\* Every block of a tool call has stopped and is whole, and what starts as a
\* tool call is one.
Calls(blocks, out) ==
    /\ \A i \in DOMAIN blocks : blocks[i].type = "tool_use"
          => ~ blocks[i].open /\ \E k \in DOMAIN out : CallAt(out, k, i)
    /\ \A k \in DOMAIN out : StartsCall(out[k])
          => out[k].index \in DOMAIN blocks /\ blocks[out[k].index].type = "tool_use"
    /\ \A k \in DOMAIN out : IsBlockEvent(out[k]) => out[k].index \in 0 .. Len(blocks)

\* The thinking's index is that of a block of thinking, and the buffer and the
\* flag are used with thinking only.
Tagged(c) ==
    /\ c.thinking # 0 => /\ c.thinking \in DOMAIN c.blocks
                         /\ c.blocks[c.thinking].type = "thinking" /\ Thinking
    /\ c.inThinking => c.thinking # 0
    /\ c.buffer # <<>> => Thinking

Sane(c) ==
    /\ Typed(c) /\ Calls(c.blocks, c.out) /\ Tagged(c) /\ Tools(c)
    /\ "invoke" \notin DOMAIN c.toolIndex

-----------------------------------------------------------------------------
(* A response that has said something.                                       *)

Content(e) ==
    \/ e.ev = "content_block_delta" /\ e.kind # "signature" /\ e.data # <<>>
    \/ e.ev = "content_block_start" /\ e.type = "redacted_thinking"

Shown(out) == \E k \in DOMAIN out : Content(out[k])

Spoken(c) == c.hasTool \/ Shown(c.out)

\* One that has not: the guard has seen nothing, and with thinking there are
\* no other blocks.
Hush(c) ==
    Spoken(c) \/ /\ c.guard.run = 0 /\ c.guard.tripped = FALSE
                 /\ Thinking => \A i \in DOMAIN c.blocks : c.blocks[i].type = "thinking"

\* Something has been said, or is going to be.
Told(c) == Spoken(c) \/ c.sniff # <<>> \/ c.buffer # <<>> \/ c.thinking # 0

-----------------------------------------------------------------------------
(* The events of the service.                                                *)

IsOf(rec, id, k)   == rec[k].kind = "tool" /\ rec[k].id = id
StopsOf(rec, id)   == {k \in DOMAIN rec : IsOf(rec, id, k) /\ rec[k].stop}
PiecesOf(rec, id, j) ==
    LET last == Latest({k \in 1..(j - 1) : IsOf(rec, id, k) /\ rec[k].stop})
    IN  FoldLeft(LAMBDA t, k : IF k > last /\ IsOf(rec, id, k) THEN t \o rec[k].input ELSE t,
                 <<>>, [k \in 1..j |-> k])
Wholes(rec, id)    == {k \in StopsOf(rec, id) : IsJson(PiecesOf(rec, id, k))}
HeldOf(rec, id)    == IF Len(rec) \in StopsOf(rec, id) THEN <<>> ELSE PiecesOf(rec, id, Len(rec))
Fails(e)           == e.kind = "error" \/ (e.kind = "exception" /\ ~ e.tooLong)
Broken(rec)        == \E k \in DOMAIN rec : Fails(rec[k])
Unparsed(rec)      == \E id \in ToolIds : StopsOf(rec, id) # Wholes(rec, id)
Cut(rec)           == Unparsed(rec) \/ \E id \in ToolIds : HeldOf(rec, id) # <<>>

StartersOf(out, id) == {k \in DOMAIN out : StartsCall(out[k]) /\ out[k].id = id}

\* Call id has been sent if it has come whole, once, as it came first.
AnsweredTo(toolIndex, out, rec, id) ==
    /\ id \in DOMAIN toolIndex <=> Wholes(rec, id) # {}
    /\ id \notin DOMAIN toolIndex => StartersOf(out, id) = {}
    /\ id \in DOMAIN toolIndex =>
          \E k \in DOMAIN out : /\ StartersOf(out, id) = {k}
                               /\ out[k + 1].data = PiecesOf(rec, id, Min(Wholes(rec, id)))

Answered(toolIndex, out, rec) == \A id \in ToolIds : AnsweredTo(toolIndex, out, rec, id)

FragmentOf(fragments, id) == IF id \in DOMAIN fragments THEN fragments[id] ELSE <<>>
HeldIs(fragments, rec) ==
    /\ DOMAIN fragments \subseteq ToolIds
    /\ \A id \in ToolIds : FragmentOf(fragments, id) = HeldOf(rec, id)

Reasons == {"none", "max_tokens", "error", "model_context_window_exceeded"}

Untouched(c) == c.out = NewContext(Thinking).out /\ c.buffer = <<>> /\ c.sniff = <<>>

Reading(c, rec) ==
    /\ Sane(c) /\ Hush(c) /\ (c.output => Told(c))
    /\ Unended(c.out)
    /\ c.output \/ c.hasTool \/ Untouched(c)
    /\ Answered(c.toolIndex, c.out, rec)
    /\ \A k \in DOMAIN c.out : StartsCall(c.out[k]) => c.hasTool
    /\ HeldIs(c.fragments, rec)
    /\ c.toolError \in BOOLEAN /\ c.upstreamError \in BOOLEAN
    /\ c.toolError <=> Unparsed(rec)
    /\ c.upstreamError <=> Broken(rec)
    /\ c.stopReason \in Reasons

-----------------------------------------------------------------------------
(* What text and thinking leave alone of the context, and what they add.     *)

Adds(out, new) ==
    /\ IsSeq(new) /\ Len(out) \in Nat /\ Len(new) \in Nat /\ Len(out) <= Len(new)
    /\ DOMAIN out = 1 .. Len(out) /\ DOMAIN new = 1 .. Len(new)
    /\ \A k \in DOMAIN out : new[k] = out[k]

\* The fields the handlers of events set themselves.
Rest(c, d) ==
    /\ DOMAIN d = Fields
    /\ d.stopReason = c.stopReason /\ d.toolIndex = c.toolIndex /\ d.fragments = c.fragments
    /\ d.toolError = c.toolError /\ d.upstreamError = c.upstreamError

\* The only calls are those found in the text.
Spares(c, d) ==
    /\ Rest(c, d) /\ (c.hasTool => d.hasTool)
    /\ (c.output => d.output) /\ (d.output => c.output \/ d.hasTool)
    /\ Adds(c.out, d.out)
    /\ \A k \in DOMAIN d.out : k \notin DOMAIN c.out
          => IsBlockEvent(d.out[k]) /\ (StartsCall(d.out[k]) => d.out[k].id = "invoke" /\ d.hasTool)

Keeps(c, d) == Sane(d) /\ Spares(c, d) /\ (Hush(c) => Hush(d))

LEMMA AddsThen ==
    ASSUME NEW s, NEW t, NEW u, Adds(s, t), Adds(t, u)
    PROVE  Adds(s, u) /\ DOMAIN s \subseteq DOMAIN t /\ DOMAIN t \subseteq DOMAIN u
  <1>1. DOMAIN s \subseteq DOMAIN t /\ DOMAIN t \subseteq DOMAIN u
    BY DEF Adds
  <1>2. \A k \in DOMAIN s : u[k] = s[k]
    BY <1>1 DEF Adds
  <1>3. Len(s) <= Len(u)
    BY DEF Adds
  <1> QED
    BY <1>1, <1>2, <1>3 DEF Adds

LEMMA AddsSelf ==
    ASSUME NEW s, IsSeq(s)
    PROVE  Adds(s, s)
  <1>1. Len(s) \in Nat /\ DOMAIN s = 1 .. Len(s)
    BY IsSeqFacts
  <1> QED
    BY <1>1 DEF Adds

LEMMA AddsOne ==
    ASSUME NEW s, IsSeq(s), NEW e
    PROVE  /\ Adds(s, Append(s, e))
           /\ \A k \in DOMAIN Append(s, e) : k \notin DOMAIN s
                 => k = Len(s) + 1 /\ Append(s, e)[k] = e
  <1>1. Appended(s, e, Append(s, e))
    BY AppendSeq
  <1> DEFINE t == Append(s, e)
  <1> HIDE DEF t
  <1>2. Adds(s, t) /\ \A k \in DOMAIN t : k \notin DOMAIN s => k = Len(s) + 1 /\ t[k] = e
    BY <1>1 DEF Appended, Adds, t
  <1> QED
    BY <1>2 DEF t

LEMMA SpokenStays ==
    ASSUME NEW c, NEW d, Spares(c, d), Spoken(c)
    PROVE  Spoken(d)
  <1>1. DOMAIN c.out \subseteq DOMAIN d.out
    BY DEF Spares, Adds
  <1> QED
    BY <1>1 DEF Spares, Adds, Spoken, Shown

LEMMA SparesThen ==
    ASSUME NEW c, NEW d, NEW e, Spares(c, d), Spares(d, e)
    PROVE  Spares(c, e)
  <1>1. /\ Adds(c.out, e.out)
        /\ DOMAIN c.out \subseteq DOMAIN d.out /\ DOMAIN d.out \subseteq DOMAIN e.out
    BY AddsThen DEF Spares
  <1>2. /\ Rest(c, e) /\ (c.hasTool => e.hasTool)
        /\ (c.output => e.output) /\ (e.output => c.output \/ e.hasTool)
    BY DEF Spares, Rest
  <1>3. ASSUME NEW k \in DOMAIN e.out, k \notin DOMAIN c.out
        PROVE  /\ IsBlockEvent(e.out[k])
               /\ StartsCall(e.out[k]) => e.out[k].id = "invoke" /\ e.hasTool
    <2>1. CASE k \in DOMAIN d.out
      <3>1. e.out[k] = d.out[k]
        BY <2>1 DEF Spares, Adds
      <3>2. /\ IsBlockEvent(d.out[k])
            /\ StartsCall(d.out[k]) => d.out[k].id = "invoke" /\ d.hasTool
        BY <1>3, <2>1 DEF Spares
      <3> QED
        BY <3>1, <3>2 DEF Spares
    <2>2. CASE k \notin DOMAIN d.out
      BY <1>3, <2>2 DEF Spares
    <2> QED
      BY <2>1, <2>2
  <1> QED
    BY <1>1, <1>2, <1>3 DEF Spares

LEMMA KeepsThen ==
    ASSUME NEW c, NEW d, NEW e, Keeps(c, d), Keeps(d, e)
    PROVE  Keeps(c, e)
  BY SparesThen DEF Keeps

LEMMA SparesSelf ==
    ASSUME NEW c, Typed(c)
    PROVE  Spares(c, c)
  <1>1. Adds(c.out, c.out)
    BY AddsSelf DEF Typed
  <1> QED
    BY <1>1 DEF Spares, Rest, Typed

LEMMA KeepsSelf ==
    ASSUME NEW c, Sane(c)
    PROVE  Keeps(c, c)
  BY SparesSelf DEF Sane, Keeps

\* An event that is no part of a call.
Plain(blocks, e) ==
    /\ IsBlockEvent(e) => /\ e.index \in 0 .. Len(blocks)
                          /\ e.index \in DOMAIN blocks => blocks[e.index].type # "tool_use"
    /\ ~ StartsCall(e)

\* bs are the blocks and some more, none of them a call's.
More(blocks, bs) ==
    /\ bs \in Seq(Block)
    /\ \A i \in DOMAIN bs : bs[i].type = "tool_use"
          => i \in DOMAIN blocks /\ blocks[i].type = "tool_use" /\ (~ blocks[i].open => ~ bs[i].open)
    /\ \A i \in DOMAIN blocks : i \in DOMAIN bs /\ bs[i].type = blocks[i].type

LEMMA PlainOf ==
    ASSUME NEW out, NEW new, Adds(out, new), NEW bs,
           \A k \in DOMAIN new : k \notin DOMAIN out => Plain(bs, new[k]),
           NEW i \in DOMAIN bs, bs[i].type = "tool_use"
    PROVE  Of(new, i) = Of(out, i)
  <1>1. DOMAIN out \subseteq DOMAIN new
    BY DEF Adds
  <1>2. \A k \in Of(out, i) : k \in Of(new, i)
    BY <1>1 DEF Of, Adds
  <1>3. ASSUME NEW k \in Of(new, i)
        PROVE  k \in Of(out, i)
    <2>1. k \in DOMAIN new /\ IsBlockEvent(new[k]) /\ new[k].index = i
      BY DEF Of
    <2>2. k \in DOMAIN out
      BY <2>1 DEF Plain
    <2>3. new[k] = out[k]
      BY <2>2 DEF Adds
    <2> QED
      BY <2>1, <2>2, <2>3 DEF Of
  <1> QED
    BY <1>2, <1>3

LEMMA PlainCalls ==
    ASSUME NEW blocks \in Seq(Block), NEW out, Calls(blocks, out), NEW bs, More(blocks, bs),
           NEW new, Adds(out, new),
           \A k \in DOMAIN new : k \notin DOMAIN out => Plain(bs, new[k])
    PROVE  Calls(bs, new)
  <1>1. DOMAIN out \subseteq DOMAIN new /\ \A k \in DOMAIN out : new[k] = out[k]
    BY DEF Adds
  <1>2. /\ Len(blocks) \in Nat /\ DOMAIN blocks = 1 .. Len(blocks)
        /\ Len(bs) \in Nat /\ DOMAIN bs = 1 .. Len(bs)
    BY BlocksAre DEF More
  <1>3. Len(blocks) <= Len(bs)
    <2>1. Len(blocks) = 0 \/ Len(blocks) \in DOMAIN blocks
      BY <1>2
    <2>2. Len(blocks) = 0 \/ Len(blocks) \in DOMAIN bs
      BY <2>1 DEF More
    <2> QED
      BY <1>2, <2>2
  <1>4. ASSUME NEW i \in DOMAIN bs, bs[i].type = "tool_use"
        PROVE  ~ bs[i].open /\ \E k \in DOMAIN new : CallAt(new, k, i)
    <2>1. i \in DOMAIN blocks /\ blocks[i].type = "tool_use" /\ (~ blocks[i].open => ~ bs[i].open)
      BY <1>4 DEF More
    <2>2. PICK k \in DOMAIN out : CallAt(out, k, i)
      BY <2>1 DEF Calls
    <2>3. Of(new, i) = Of(out, i)
      BY <1>4, PlainOf
    <2>4. CallAt(new, k, i)
      BY <1>1, <2>2, <2>3 DEF CallAt
    <2> QED
      BY <1>1, <2>1, <2>2, <2>4 DEF Calls
  <1>5. ASSUME NEW k \in DOMAIN new
        PROVE  /\ StartsCall(new[k])
                     => new[k].index \in DOMAIN bs /\ bs[new[k].index].type = "tool_use"
               /\ IsBlockEvent(new[k]) => new[k].index \in 0 .. Len(bs)
    <2>1. CASE k \in DOMAIN out
      <3>1. new[k] = out[k]
        BY <1>1, <2>1
      <3>2. StartsCall(new[k])
               => new[k].index \in DOMAIN bs /\ bs[new[k].index].type = "tool_use"
        BY <2>1, <3>1 DEF Calls, More
      <3>3. IsBlockEvent(new[k]) => new[k].index \in 0 .. Len(blocks)
        BY <2>1, <3>1 DEF Calls
      <3> QED
        BY <1>2, <1>3, <3>2, <3>3
    <2>2. CASE k \notin DOMAIN out
      BY <2>2 DEF Plain
    <2> QED
      BY <2>1, <2>2
  <1> QED
    BY <1>4, <1>5, Zenon DEF Calls

LEMMA MoreSelf ==
    ASSUME NEW blocks \in Seq(Block)
    PROVE  More(blocks, blocks)
  BY DEF More

\* The steps that neither start nor touch a call.
LEMMA KeepsBy ==
    ASSUME NEW c, Sane(c), NEW d, Typed(d), Tagged(d), Rest(c, d),
           c.hasTool => d.hasTool, c.output => d.output, d.output => c.output \/ d.hasTool,
           More(c.blocks, d.blocks), Adds(c.out, d.out),
           \A k \in DOMAIN d.out : k \notin DOMAIN c.out
              => Plain(d.blocks, d.out[k]) /\ IsBlockEvent(d.out[k]),
           Hush(c) => Hush(d)
    PROVE  Keeps(c, d)
  <1>1. Calls(d.blocks, d.out)
    BY PlainCalls DEF Sane, Typed
  <1>2. Tools(d) /\ "invoke" \notin DOMAIN d.toolIndex
    BY DEF Sane, Tools, Rest, More
  <1>3. Spares(c, d)
    BY DEF Spares, Plain
  <1> QED
    BY <1>1, <1>2, <1>3 DEF Keeps, Sane

\* What is held, and the thinking, are as they were.
Leaves(c, d) == Frame(c, d) /\ d.sniff = c.sniff

\* A step of text and thinking that leaves them.
Acts(c, d) == Keeps(c, d) /\ Leaves(c, d)

LEMMA ActsThen ==
    ASSUME NEW c, NEW d, NEW e, Acts(c, d), Acts(d, e)
    PROVE  Acts(c, e)
  <1>1. Keeps(c, e)
    BY KeepsThen DEF Acts
  <1> QED
    BY <1>1 DEF Acts, Leaves, Frame

LEMMA ActsSelf ==
    ASSUME NEW c, Sane(c)
    PROVE  Acts(c, c)
  <1>1. Keeps(c, c)
    BY KeepsSelf
  <1>2. DOMAIN c = Fields
    BY DEF Sane, Typed
  <1> QED
    BY <1>1, <1>2 DEF Acts, Leaves, Frame

LEMMA HushBy ==
    ASSUME NEW c, NEW d, Adds(c.out, d.out), c.hasTool => d.hasTool, d.guard = c.guard,
           \A i \in DOMAIN d.blocks : \/ d.blocks[i].type = "thinking"
                                      \/ i \in DOMAIN c.blocks /\ d.blocks[i].type = c.blocks[i].type,
           Hush(c)
    PROVE  Hush(d)
  <1>1. CASE Spoken(c)
    <2>1. DOMAIN c.out \subseteq DOMAIN d.out /\ \A k \in DOMAIN c.out : d.out[k] = c.out[k]
      BY DEF Adds
    <2>2. Spoken(d)
      BY <1>1, <2>1 DEF Spoken, Shown
    <2> QED
      BY <2>2 DEF Hush
  <1>2. CASE ~ Spoken(c)
    <2>1. d.guard.run = 0 /\ d.guard.tripped = FALSE
      BY <1>2 DEF Hush
    <2>2. Thinking => \A i \in DOMAIN d.blocks : d.blocks[i].type = "thinking"
      BY <1>2 DEF Hush
    <2> QED
      BY <2>1, <2>2 DEF Hush
  <1> QED
    BY <1>1, <1>2

\* A context with other blocks and other events.
LEMMA ReshapedRest ==
    ASSUME NEW c, DOMAIN c = Fields, NEW bs, NEW new
    PROVE  LET d == Reshaped(c, bs, new) IN
           /\ Rest(c, d) /\ d.hasTool = c.hasTool /\ d.output = c.output /\ d.guard = c.guard
           /\ Leaves(c, d) /\ d.blocks = bs /\ d.out = new
  BY DEF Reshaped, Frame, Fields, Rest, Leaves

LEMMA ReshapedActs ==
    ASSUME NEW c, Sane(c), NEW bs, More(c.blocks, bs), NEW new, Adds(c.out, new),
           \A k \in DOMAIN new : k \notin DOMAIN c.out
              => Plain(bs, new[k]) /\ IsBlockEvent(new[k]),
           \/ Shown(new)
           \/ \A i \in DOMAIN bs : i \notin DOMAIN c.blocks => bs[i].type = "thinking"
    PROVE  Acts(c, Reshaped(c, bs, new))
  <1> DEFINE d == Reshaped(c, bs, new)
  <1>1. DOMAIN c = Fields
    BY DEF Sane, Typed
  <1>2. /\ Rest(c, d) /\ d.hasTool = c.hasTool /\ d.output = c.output /\ d.guard = c.guard
        /\ Leaves(c, d) /\ d.blocks = bs /\ d.out = new
    BY <1>1, ReshapedRest
  <1> HIDE DEF d
  <1>3. Typed(d)
    BY <1>2 DEF Sane, Typed, Leaves, Frame, More, Adds
  <1>4. Tagged(d)
    BY <1>2 DEF Sane, Tagged, Leaves, Frame, More
  <1>5. Hush(c) => Hush(d)
    <2>1. CASE Shown(new)
      BY <1>2, <2>1 DEF Hush, Spoken
    <2>2. CASE \A i \in DOMAIN bs : i \notin DOMAIN c.blocks => bs[i].type = "thinking"
      <3>1. \A i \in DOMAIN d.blocks : \/ d.blocks[i].type = "thinking"
                                       \/ i \in DOMAIN c.blocks /\ d.blocks[i].type = c.blocks[i].type
        BY <1>2, <2>2 DEF More
      <3> QED
        BY <1>2, <3>1, HushBy
    <2> QED
      BY <2>1, <2>2
  <1>6. Keeps(c, d)
    BY <1>2, <1>3, <1>4, <1>5, KeepsBy
  <1> QED
    BY <1>2, <1>6 DEF Acts, d

\* One event more.
LEMMA SendActs ==
    ASSUME NEW c, Sane(c), NEW e, Plain(c.blocks, e), IsBlockEvent(e)
    PROVE  /\ Acts(c, Send(c, e)) /\ Send(c, e).blocks = c.blocks
           /\ Send(c, e).out = Append(c.out, e)
  <1> DEFINE new == Append(c.out, e)
  <1>1. DOMAIN c = Fields /\ c.blocks \in Seq(Block) /\ IsSeq(c.out)
    BY DEF Sane, Typed
  <1>2. Send(c, e) = Reshaped(c, c.blocks, new)
    BY <1>1 DEF Send, Reshaped, Fields
  <1>3. Adds(c.out, new) /\ \A k \in DOMAIN new : k \notin DOMAIN c.out => new[k] = e
    BY <1>1, AddsOne
  <1> HIDE DEF new
  <1>4. Acts(c, Reshaped(c, c.blocks, new))
    BY <1>1, <1>3, MoreSelf, ReshapedActs
  <1>5. DOMAIN c = Fields
    BY <1>1
  <1> QED
    BY <1>2, <1>4, <1>5, SendIs DEF new

LEMMA SendDeltaActs ==
    ASSUME NEW c, Sane(c), NEW i, NEW kind, NEW data
    PROVE  Acts(c, SendDelta(c, i, kind, data))
  <1> DEFINE e == Delta(i, kind, data)
  <1>1. e.ev = "content_block_delta" /\ e.index = i
    BY DEF Delta
  <1>2. IsBlockEvent(e) /\ ~ StartsCall(e)
    BY <1>1 DEF IsBlockEvent, StartsCall
  <1> HIDE DEF e
  <1>3. CASE ~ (i \in DOMAIN c.blocks /\ c.blocks[i].open)
    BY <1>3, ActsSelf DEF SendDelta
  <1>4. CASE i \in DOMAIN c.blocks /\ c.blocks[i].open
    <2>1. c.blocks[i].type # "tool_use"
      BY <1>4 DEF Sane, Calls
    <2>2. i \in 0 .. Len(c.blocks)
      <3>1. Len(c.blocks) \in Nat /\ DOMAIN c.blocks = 1 .. Len(c.blocks)
        BY BlocksAre DEF Sane, Typed
      <3> QED
        BY <1>4, <3>1
    <2>3. Plain(c.blocks, e)
      BY <1>1, <1>2, <2>1, <2>2 DEF Plain
    <2>4. Acts(c, Send(c, e))
      BY <1>2, <2>3, SendActs
    <2> QED
      BY <1>4, <2>4 DEF SendDelta, e
  <1> QED
    BY <1>3, <1>4

LEMMA StopBlockActs ==
    ASSUME NEW c, Sane(c), NEW i
    PROVE  Acts(c, StopBlock(c, i))
  <1> DEFINE e == StopEvent(i)
             bs == Without(c.blocks, i)
             new == Append(c.out, e)
  <1>1. e.ev = "content_block_stop" /\ e.index = i
    BY DEF StopEvent
  <1>2. IsBlockEvent(e) /\ ~ StartsCall(e)
    BY <1>1 DEF IsBlockEvent, StartsCall
  <1> HIDE DEF e
  <1>3. CASE ~ (i \in DOMAIN c.blocks /\ c.blocks[i].open)
    BY <1>3, ActsSelf DEF StopBlock
  <1>4. CASE i \in DOMAIN c.blocks /\ c.blocks[i].open
    <2>1. DOMAIN c = Fields
      BY DEF Sane, Typed
    <2>2. c.blocks \in Seq(Block) /\ IsSeq(c.out)
      BY DEF Sane, Typed
    <2>3. c.blocks[i].type # "tool_use"
      BY <1>4 DEF Sane, Calls
    <2>4. /\ bs \in Seq(Block) /\ DOMAIN bs = DOMAIN c.blocks
          /\ \A j \in DOMAIN c.blocks :
                bs[j].type = c.blocks[j].type /\ (j # i => bs[j] = c.blocks[j])
      BY <1>4, <2>2, WithoutIs, Zenon
    <2>5. StopBlock(c, i) = Reshaped(c, bs, new)
      BY <1>4, <2>1, StopBlockIs DEF e
    <2> HIDE DEF bs
    <2>6. i \in 0 .. Len(bs)
      <3>1. Len(bs) \in Nat /\ DOMAIN bs = 1 .. Len(bs)
        BY <2>4, BlocksAre
      <3> QED
        BY <1>4, <2>4, <3>1
    <2>7. Plain(bs, e)
      BY <1>1, <1>2, <1>4, <2>3, <2>4, <2>6 DEF Plain
    <2>8. More(c.blocks, bs)
      BY <2>3, <2>4 DEF More
    <2>9. Adds(c.out, new) /\ \A k \in DOMAIN new : k \notin DOMAIN c.out => new[k] = e
      BY <2>2, AddsOne
    <2> HIDE DEF new
    <2>10. Acts(c, Reshaped(c, bs, new))
      BY <1>2, <2>4, <2>7, <2>8, <2>9, ReshapedActs
    <2> QED
      BY <2>5, <2>10
  <1> QED
    BY <1>3, <1>4

\* Blocks of some types are stopped.
LEMMA StopAllActs ==
    ASSUME NEW c, Sane(c), NEW types
    PROVE  /\ Acts(c, StopAll(c, types))
           /\ DOMAIN StopAll(c, types).blocks = DOMAIN c.blocks
  <1> DEFINE T  == OpenOf(c.blocks, types)
             q  == SetToSeq(T)
             bs == Closed(c.blocks, types)
             u  == [k \in DOMAIN q |-> StopEvent(q[k])]
             new == Ended(c.out, q)
  <1>1. DOMAIN c = Fields
    BY DEF Sane, Typed
  <1>2. c.blocks \in Seq(Block) /\ IsSeq(c.out)
    BY DEF Sane, Typed
  <1>3. StopAll(c, types) = Reshaped(c, bs, new)
    BY <1>1, StopAllIs
  <1>4. PICK n \in Nat : q \in [1 .. n -> T]
    <2>1. IsFiniteSet(T)
      <3>1. T \subseteq 1 .. Len(c.blocks) /\ Len(c.blocks) \in Nat
        BY <1>2, BlocksAre DEF OpenOf
      <3>2. IsFiniteSet(1 .. Len(c.blocks))
        BY <3>1, FS_Interval
      <3> QED
        BY <3>1, <3>2, FS_Subset
    <2>2. Cardinality(T) \in Nat /\ q \in [1 .. Cardinality(T) -> T]
      BY <2>1, SetToSeqIs
    <2> HIDE DEF T, q
    <2> QED
      BY <2>2
  <1>5. /\ bs \in Seq(Block) /\ DOMAIN bs = DOMAIN c.blocks
        /\ \A j \in DOMAIN c.blocks :
                 /\ bs[j].type = c.blocks[j].type
                 /\ j \in T => ~ bs[j].open
                 /\ j \notin T => bs[j] = c.blocks[j]
    BY <1>2, ClosedIs
  <1> HIDE DEF q, bs
  <1>6. IsSeq(u) /\ Len(u) = n /\ DOMAIN u = 1 .. n /\ \A k \in 1 .. n : u[k] = StopEvent(q[k])
    <2> DEFINE R == {StopEvent(q[k]) : k \in 1 .. n}
    <2>1. u \in [1 .. n -> R] /\ \A k \in 1 .. n : u[k] = StopEvent(q[k])
      BY <1>4
    <2> HIDE DEF u, R
    <2>2. u \in Seq(R) /\ Len(u) = n /\ DOMAIN u = 1 .. n
      BY <1>4, <2>1
    <2>3. IsSeq(u)
      BY <2>2, SeqIsSeq
    <2> QED
      BY <2>1, <2>2, <2>3
  <1>7. Concats(c.out, u, new)
    <2> HIDE DEF u
    <2>1. Concats(c.out, u, c.out \o u)
      BY <1>2, <1>6, ConcatSeq
    <2> QED
      BY <2>1 DEF Ended, u
  <1> HIDE DEF u, new
  <1>8. Adds(c.out, new)
    BY <1>6, <1>7 DEF Concats, Adds
  <1>9. ASSUME NEW k \in DOMAIN new, k \notin DOMAIN c.out
        PROVE  Plain(bs, new[k]) /\ IsBlockEvent(new[k])
    <2>1. k - Len(c.out) \in 1 .. n
      BY <1>6, <1>7, <1>9 DEF Concats
    <2>2. new[k] = u[k - Len(c.out)]
      <3>1. new[Len(c.out) + (k - Len(c.out))] = u[k - Len(c.out)]
        BY <1>6, <1>7, <2>1 DEF Concats
      <3>2. Len(c.out) + (k - Len(c.out)) = k
        BY <1>7, <1>9, <2>1 DEF Concats
      <3> QED
        BY <3>1, <3>2
    <2>3. PICK x \in T : new[k] = StopEvent(x)
      BY <1>4, <1>6, <2>1, <2>2
    <2>4. x \in DOMAIN c.blocks /\ c.blocks[x].open
      BY <2>3 DEF OpenOf
    <2>5. bs[x].type # "tool_use"
      BY <1>5, <2>4 DEF Sane, Calls
    <2>6. x \in 0 .. Len(bs)
      <3>1. Len(bs) \in Nat /\ DOMAIN bs = 1 .. Len(bs)
        BY <1>5, BlocksAre
      <3> QED
        BY <1>5, <2>4, <3>1
    <2>7. new[k].ev = "content_block_stop" /\ new[k].index = x
      BY <2>3 DEF StopEvent
    <2> QED
      BY <2>5, <2>6, <2>7 DEF Plain, IsBlockEvent, StartsCall
  <1>10. More(c.blocks, bs)
    <2>1. ASSUME NEW i \in DOMAIN bs
          PROVE  i \in DOMAIN c.blocks /\ bs[i].type = c.blocks[i].type
                 /\ (~ c.blocks[i].open => ~ bs[i].open)
      <3>1. i \in DOMAIN c.blocks /\ bs[i].type = c.blocks[i].type
        BY <1>5
      <3>2. ~ c.blocks[i].open => ~ bs[i].open
        BY <1>5, <3>1
      <3> QED
        BY <3>1, <3>2
    <2> QED
      BY <1>5, <2>1 DEF More
  <1>11. Acts(c, Reshaped(c, bs, new))
    BY <1>5, <1>8, <1>9, <1>10, ReshapedActs
  <1>12. Reshaped(c, bs, new).blocks = bs
    BY <1>1, ReshapedIs
  <1> QED
    BY <1>3, <1>5, <1>11, <1>12

-----------------------------------------------------------------------------
(* Folds over a sequence: what the library's recursion on the set of its     *)
(* places amounts to.                                                        *)

LEMMA MaxUpTo ==
    ASSUME NEW n \in Nat, NEW T \in SUBSET (1 .. n), T # {}
    PROVE  Max(T) \in T /\ \A y \in T : y <= Max(T)
  <1> DEFINE U == {n - y : y \in T}
  <1>1. U \in SUBSET Nat /\ U # {}
    <2>1. \A y \in T : n - y \in Nat
      OBVIOUS
    <2>2. PICK z \in T : TRUE
      OBVIOUS
    <2>3. n - z \in U
      BY <2>2
    <2>4. \A u \in U : u \in Nat
      BY <2>1
    <2> QED
      BY <2>3, <2>4, Zenon
  <1>2. PICK u \in U : \A y \in U : u <= y
    BY <1>1, LeastNumber
  <1>3. PICK x \in T : u = n - x
    BY <1>2
  <1>4. \A y \in T : x >= y
    <2> SUFFICES ASSUME NEW y \in T PROVE x >= y
      OBVIOUS
    <2>1. n - x <= n - y
      BY <1>2, <1>3
    <2> QED
      BY <2>1
  <1>5. Max(T) \in T /\ \A y \in T : Max(T) >= y
    BY <1>4 DEF Max
  <1> QED
    BY <1>5

LEMMA MaxIsTop ==
    ASSUME NEW n \in Nat, NEW T \in SUBSET (1 .. n), n \in T
    PROVE  Max(T) = n
  <1>1. Max(T) \in T /\ n <= Max(T)
    BY MaxUpTo
  <1>2. Max(T) \in 1 .. n
    BY <1>1
  <1> QED
    BY <1>1, <1>2

\* The recursion equation of a fold, over the first n places.
Folds(f, n, base, next) ==
    f = [s \in SUBSET (1 .. n) |-> IF s = {} THEN base ELSE next[<<f[s \ {Max(s)}], Max(s)>>]]

LEMMA FoldExists ==
    ASSUME NEW N \in Nat, NEW V, NEW base \in V, NEW next \in [V \X (1 .. N) -> V]
    PROVE  \E f \in [SUBSET (1 .. N) -> V] : Folds(f, N, base, next)
  <1> DEFINE Ok(n) == \E f \in [SUBSET (1 .. n) -> V] : Folds(f, n, base, next)
             Bad == {n \in Nat : n <= N /\ ~ Ok(n)}
  <1>1. SUFFICES ASSUME Bad # {} PROVE FALSE
    <2>1. Bad = {} => Ok(N)
      <3>1. N <= N
        OBVIOUS
      <3> HIDE DEF Ok
      <3> QED
        BY <3>1
    <2> QED
      BY <2>1
  <1>2. PICK n \in Bad : \A m \in Bad : n <= m
    <2>1. Bad \in SUBSET Nat
      OBVIOUS
    <2> HIDE DEF Bad
    <2> QED
      BY <1>1, <2>1, LeastNumber, Zenon
  <1>3. CASE n = 0
    <2> DEFINE f == [s \in SUBSET (1 .. n) |-> base]
    <2>1. \A s \in SUBSET (1 .. n) : s = {}
      BY <1>3
    <2>2. f \in [SUBSET (1 .. n) -> V] /\ Folds(f, n, base, next)
      BY <2>1 DEF Folds
    <2> HIDE DEF f
    <2> QED
      BY <1>2, <2>2
  <1>4. CASE n # 0
    <2>1. n \in Nat /\ n <= N
      BY <1>2
    <2>2. n - 1 \in Nat /\ n - 1 <= N /\ n - 1 \notin Bad /\ n \in Nat /\ n <= N /\ n \in 1 .. N
      <3>1. n - 1 \in Nat /\ n - 1 <= N /\ ~ (n <= n - 1) /\ n \in 1 .. N
        BY <1>4, <2>1
      <3> HIDE DEF Bad
      <3> QED
        BY <1>2, <2>1, <3>1
    <2>3. PICK g \in [SUBSET (1 .. n - 1) -> V] : Folds(g, n - 1, base, next)
      BY <2>2
    <2> DEFINE f == [s \in SUBSET (1 .. n) |-> IF n \in s THEN next[<<g[s \ {n}], n>>] ELSE g[s]]
    <2>4. ASSUME NEW s \in SUBSET (1 .. n)
          PROVE  /\ n \in s => s \ {n} \in SUBSET (1 .. n - 1)
                 /\ n \notin s => s \in SUBSET (1 .. n - 1)
      BY <2>2
    <2>5. f \in [SUBSET (1 .. n) -> V]
      <3>1. ASSUME NEW s \in SUBSET (1 .. n)
            PROVE  (IF n \in s THEN next[<<g[s \ {n}], n>>] ELSE g[s]) \in V
        <4>1. CASE n \in s
          <5>1. g[s \ {n}] \in V
            BY <2>3, <2>4, <4>1
          <5> QED
            BY <2>2, <4>1, <5>1
        <4>2. CASE n \notin s
          BY <2>3, <2>4, <4>2
        <4> QED
          BY <4>1, <4>2
      <3> QED
        BY <3>1
    <2>6. ASSUME NEW s \in SUBSET (1 .. n)
          PROVE  f[s] = IF s = {} THEN base ELSE next[<<f[s \ {Max(s)}], Max(s)>>]
      <3>1. CASE n \in s
        <4>1. Max(s) = n
          BY <2>2, <3>1, MaxIsTop
        <4>2. s \ {n} \in SUBSET (1 .. n)
          OBVIOUS
        <4>3. f[s \ {n}] = g[s \ {n}]
          BY <4>2
        <4> QED
          BY <3>1, <4>1, <4>3
      <3>2. CASE n \notin s /\ s = {}
        <4>1. s \in SUBSET (1 .. n - 1)
          BY <2>4, <3>2
        <4>2. g[s] = base
          BY <2>3, <3>2, <4>1 DEF Folds
        <4> QED
          BY <3>2, <4>2
      <3>3. CASE n \notin s /\ s # {}
        <4>1. s \in SUBSET (1 .. n - 1)
          BY <2>4, <3>3
        <4> DEFINE r == s \ {Max(s)}
        <4>2. g[s] = next[<<g[r], Max(s)>>]
          BY <2>3, <3>3, <4>1 DEF Folds
        <4>3. r \in SUBSET (1 .. n) /\ n \notin r
          BY <3>3
        <4>4. f[r] = g[r]
          BY <4>3
        <4> HIDE DEF r
        <4>5. f[s] = g[s]
          BY <3>3
        <4> QED
          BY <3>3, <4>2, <4>4, <4>5 DEF r
      <3> QED
        BY <3>1, <3>2, <3>3
    <2>7. Folds(f, n, base, next)
      <3>1. f = [s \in SUBSET (1 .. n) |-> f[s]]
        OBVIOUS
      <3> HIDE DEF f
      <3>2. [s \in SUBSET (1 .. n) |-> f[s]]
              = [s \in SUBSET (1 .. n) |-> IF s = {} THEN base ELSE next[<<f[s \ {Max(s)}], Max(s)>>]]
        BY <2>6
      <3> QED
        BY <3>1, <3>2 DEF Folds
    <2> HIDE DEF f
    <2>8. Ok(n)
      BY <2>5, <2>7
    <2> QED
      BY <1>2, <2>8
  <1> QED
    BY <1>3, <1>4

\* The first k places.
LEMMA FirstPlaces ==
    ASSUME NEW n \in Nat
    PROVE  /\ 1 .. 0 = {} /\ 1 .. 0 \in SUBSET (1 .. n)
           /\ \A k \in 1 .. n : /\ k - 1 \in 0 .. n /\ 1 .. k \in SUBSET (1 .. n) /\ 1 .. k # {}
                                /\ Max(1 .. k) = k /\ (1 .. k) \ {Max(1 .. k)} = 1 .. (k - 1)
  <1>1. 1 .. 0 = {} /\ 1 .. 0 \in SUBSET (1 .. n)
    OBVIOUS
  <1>2. ASSUME NEW k \in 1 .. n
        PROVE  /\ k - 1 \in 0 .. n /\ 1 .. k \in SUBSET (1 .. n) /\ 1 .. k # {}
               /\ Max(1 .. k) = k /\ (1 .. k) \ {Max(1 .. k)} = 1 .. (k - 1)
    <2>1. k \in Nat /\ 1 .. k \in SUBSET (1 .. n) /\ k \in 1 .. k /\ k - 1 \in 0 .. n
      OBVIOUS
    <2>2. Max(1 .. k) = k
      BY <2>1, MaxIsTop
    <2>3. (1 .. k) \ {k} = 1 .. (k - 1)
      OBVIOUS
    <2> QED
      BY <2>1, <2>2, <2>3
  <1> QED
    BY <1>1, <1>2

\* What every step keeps holds at every place.
LEMMA ChainIn ==
    ASSUME NEW n \in Nat, NEW V, NEW L, L[0] \in V,
           \A k \in 1 .. n : L[k - 1] \in V => L[k] \in V
    PROVE  \A k \in 0 .. n : L[k] \in V
  <1> DEFINE Bad == {k \in Nat : k <= n /\ L[k] \notin V}
  <1>1. SUFFICES ASSUME Bad # {} PROVE FALSE
    OBVIOUS
  <1>2. PICK k \in Bad : \A m \in Bad : k <= m
    <2>1. Bad \in SUBSET Nat
      OBVIOUS
    <2> HIDE DEF Bad
    <2> QED
      BY <1>1, <2>1, LeastNumber, Zenon
  <1>3. k \in Nat /\ k <= n /\ L[k] \notin V
    BY <1>2
  <1>4. k # 0
    BY <1>3
  <1>5. k - 1 \in Nat /\ k - 1 <= n /\ ~ (k <= k - 1) /\ k \in 1 .. n
    BY <1>3, <1>4
  <1>6. L[k - 1] \in V
    BY <1>2, <1>5
  <1> QED
    BY <1>3, <1>5, <1>6

-----------------------------------------------------------------------------
(* The repeat guard keeps the beginning of a text.                           *)

GuardState == [run : Nat, tripped : BOOLEAN, lineStart : BOOLEAN, kept : Text]

GuardCell(g, cell, trip) ==
    LET stray == cell = "call" /\ g.lineStart
        empty == cell \in {"n", " "} /\ g.lineStart
        run   == IF stray THEN g.run + 1 ELSE IF empty THEN g.run ELSE 0
    IN  IF g.tripped \/ (stray /\ run >= trip)
        THEN [g EXCEPT !.tripped = TRUE]
        ELSE [run |-> run, tripped |-> FALSE,
              lineStart |-> cell \in EndsLine \/ (empty /\ cell = " "),
              kept |-> Append(g.kept, cell)]

LEMMA GuardCellIs ==
    ASSUME NEW g \in GuardState, NEW cell \in Cell, NEW trip \in Nat \ {0, 1}
    PROVE  /\ GuardCell(g, cell, trip) \in GuardState
           /\ g.run = 0 /\ ~ g.tripped => GuardCell(g, cell, trip).kept # <<>>
           /\ g.kept # <<>> => GuardCell(g, cell, trip).kept # <<>>
  <1> DEFINE stray == cell = "call" /\ g.lineStart
             empty == cell \in {"n", " "} /\ g.lineStart
             run   == IF stray THEN g.run + 1 ELSE IF empty THEN g.run ELSE 0
             start == cell \in EndsLine \/ (empty /\ cell = " ")
             cut   == [g EXCEPT !.tripped = TRUE]
             on    == [run |-> run, tripped |-> FALSE, lineStart |-> start,
                       kept |-> Append(g.kept, cell)]
  <1>1. GuardCell(g, cell, trip) = IF g.tripped \/ (stray /\ run >= trip) THEN cut ELSE on
    BY DEF GuardCell
  <1>2. g.run \in Nat /\ g.tripped \in BOOLEAN /\ g.lineStart \in BOOLEAN /\ g.kept \in Text
    BY DEF GuardState
  <1>3. cut \in GuardState /\ cut.kept = g.kept
    BY DEF GuardState
  <1>4. run \in Nat /\ start \in BOOLEAN
    <2>1. g.run \in Nat /\ g.run + 1 \in Nat /\ 0 \in Nat
      BY <1>2
    <2>2. run \in Nat
      BY <2>1
    <2> QED
      BY <2>2
  <1>5. Append(g.kept, cell) \in Text /\ Append(g.kept, cell) # <<>>
    <2>1. g.kept \in Seq(Cell)
      BY <1>2 DEF Text
    <2>2. Append(g.kept, cell) \in Seq(Cell) /\ Len(Append(g.kept, cell)) = Len(g.kept) + 1
          /\ Len(g.kept) \in Nat
      BY <2>1
    <2> QED
      BY <2>2 DEF Text
  <1>6. on \in GuardState /\ on.kept # <<>>
    <2> HIDE DEF run, start
    <2> QED
      BY <1>4, <1>5 DEF GuardState
  <1>7. g.run = 0 /\ ~ g.tripped => ~ (g.tripped \/ (stray /\ run >= trip))
    <2>1. trip >= 2
      OBVIOUS
    <2> QED
      BY <2>1
  <1> HIDE DEF cut, on, stray, run
  <1> QED
    BY <1>1, <1>3, <1>6, <1>7

\* The guard cell by cell.
GuardSteps(L, guard, text, trip) ==
    /\ L[0] = [run |-> guard.run, tripped |-> guard.tripped, lineStart |-> TRUE, kept |-> <<>>]
    /\ L[Len(text)] = RepeatGuard(guard, text, trip)
    /\ \A k \in 1 .. Len(text) :
          k - 1 \in 0 .. Len(text) /\ L[k] = GuardCell(L[k - 1], text[k], trip)

LEMMA GuardFold ==
    ASSUME NEW guard, guard.run \in Nat, guard.tripped \in BOOLEAN,
           NEW text \in Text, NEW trip \in Nat \ {0, 1}
    PROVE  \E L \in [0 .. Len(text) -> GuardState] : GuardSteps(L, guard, text, trip)
  <1> DEFINE n    == Len(text)
             base == [run |-> guard.run, tripped |-> guard.tripped,
                      lineStart |-> TRUE, kept |-> <<>>]
             next == [p \in GuardState \X (1 .. n) |-> GuardCell(p[1], text[p[2]], trip)]
             iter[s \in SUBSET (DOMAIN text)] ==
                 IF s = {} THEN base ELSE GuardCell(iter[s \ {Max(s)}], text[Max(s)], trip)
  <1>1. RepeatGuard(guard, text, trip) = iter[DOMAIN text]
    BY DEF RepeatGuard, FoldLeft, MapThenFoldSet, GuardCell
  <1>2. n \in Nat /\ DOMAIN text = 1 .. n /\ \A k \in 1 .. n : text[k] \in Cell
    BY DEF Text
  <1>3. base \in GuardState
    BY Tags DEF GuardState
  <1>4. next \in [GuardState \X (1 .. n) -> GuardState]
    <2>1. \A p \in GuardState \X (1 .. n) : GuardCell(p[1], text[p[2]], trip) \in GuardState
      BY <1>2, GuardCellIs
    <2> QED
      BY <2>1
  <1>5. \A g \in GuardState, k \in 1 .. n : next[<<g, k>>] = GuardCell(g, text[k], trip)
    OBVIOUS
  <1> HIDE DEF next, base
  <1>6. PICK f \in [SUBSET (1 .. n) -> GuardState] : Folds(f, n, base, next)
    <2>1. n \in Nat
      BY <1>2
    <2> HIDE DEF n
    <2> QED
      BY <1>3, <1>4, <2>1, FoldExists
  <1>7. ASSUME NEW h \in [SUBSET (1 .. n) -> GuardState], NEW s \in SUBSET (1 .. n)
        PROVE  (IF s = {} THEN base ELSE next[<<h[s \ {Max(s)}], Max(s)>>])
                 = IF s = {} THEN base ELSE GuardCell(h[s \ {Max(s)}], text[Max(s)], trip)
    <2>1. CASE s = {}
      BY <2>1
    <2>2. CASE s # {}
      <3>1. Max(s) \in 1 .. n /\ s \ {Max(s)} \in SUBSET (1 .. n)
        BY <1>2, <2>2, MaxUpTo
      <3>2. h[s \ {Max(s)}] \in GuardState
        BY <3>1
      <3> QED
        BY <1>5, <2>2, <3>1, <3>2
    <2> QED
      BY <2>1, <2>2
  <1>8. iter = [s \in SUBSET (DOMAIN text) |->
                   IF s = {} THEN base ELSE GuardCell(iter[s \ {Max(s)}], text[Max(s)], trip)]
    <2>1. f = [s \in SUBSET (DOMAIN text) |->
                 IF s = {} THEN base ELSE GuardCell(f[s \ {Max(s)}], text[Max(s)], trip)]
      BY <1>2, <1>6, <1>7 DEF Folds
    <2> QED
      BY <2>1
  <1> HIDE DEF iter
  <1> DEFINE L == [k \in 0 .. n |-> iter[1 .. k]]
  <1>9. L[0] = base /\ L[n] = RepeatGuard(guard, text, trip)
    <2>1. iter[1 .. 0] = base
      BY <1>2, <1>8, FirstPlaces
    <2>2. L[0] = iter[1 .. 0] /\ L[n] = iter[1 .. n]
      BY <1>2
    <2> QED
      BY <1>1, <1>2, <2>1, <2>2
  <1>10. ASSUME NEW k \in 1 .. n
         PROVE  k - 1 \in 0 .. n /\ L[k] = GuardCell(L[k - 1], text[k], trip)
    <2>1. /\ k - 1 \in 0 .. n /\ 1 .. k \in SUBSET (1 .. n) /\ 1 .. k # {}
          /\ Max(1 .. k) = k /\ (1 .. k) \ {Max(1 .. k)} = 1 .. (k - 1)
      BY <1>2, FirstPlaces
    <2>2. iter[1 .. k] = GuardCell(iter[1 .. (k - 1)], text[k], trip)
      BY <1>2, <1>8, <2>1
    <2>3. L[k] = iter[1 .. k] /\ L[k - 1] = iter[1 .. (k - 1)]
      BY <1>2, <2>1
    <2> QED
      BY <2>1, <2>2, <2>3
  <1>11. L = [k \in 0 .. n |-> L[k]]
    OBVIOUS
  <1> HIDE DEF L
  <1>12. \A k \in 0 .. n : L[k] \in GuardState
    <2>1. \A k \in 1 .. n : L[k - 1] \in GuardState => L[k] \in GuardState
      BY <1>2, <1>10, GuardCellIs
    <2>2. L[0] \in GuardState /\ n \in Nat
      BY <1>2, <1>3, <1>9
    <2> HIDE DEF n
    <2> QED
      BY <2>1, <2>2, ChainIn
  <1>13. L \in [0 .. n -> GuardState]
    BY <1>11, <1>12
  <1> QED
    BY <1>9, <1>10, <1>13 DEF base, GuardSteps

LEMMA GuardKeeps ==
    ASSUME NEW guard, guard.run = 0, guard.tripped = FALSE, NEW text \in Text,
           NEW trip \in Nat \ {0, 1}
    PROVE  LET g == RepeatGuard(guard, text, trip) IN
           /\ text # <<>> => g.kept # <<>>
           /\ text = <<>> => g.run = 0 /\ g.tripped = FALSE
  <1> DEFINE n == Len(text)
  <1>1. guard.run \in Nat /\ guard.tripped \in BOOLEAN
    <2>1. 0 \in Nat /\ FALSE \in BOOLEAN
      OBVIOUS
    <2>2. guard.run \in Nat
      BY <2>1, Zenon
    <2>3. guard.tripped \in BOOLEAN
      BY <2>1, Zenon
    <2> QED
      BY <2>2, <2>3
  <1>2. PICK L \in [0 .. Len(text) -> GuardState] : GuardSteps(L, guard, text, trip)
    BY <1>1, GuardFold, Zenon
  <1>3. /\ L[0] = [run |-> guard.run, tripped |-> guard.tripped,
                   lineStart |-> TRUE, kept |-> <<>>]
        /\ L[Len(text)] = RepeatGuard(guard, text, trip)
        /\ \A k \in 1 .. Len(text) :
              k - 1 \in 0 .. Len(text) /\ L[k] = GuardCell(L[k - 1], text[k], trip)
    BY <1>2, Zenon DEF GuardSteps
  <1>4. n \in Nat /\ \A k \in 1 .. n : text[k] \in Cell
    BY DEF Text
  <1>5. L[0].run = 0 /\ L[0].tripped = FALSE
    BY <1>3
  <1>6. text = <<>> => n = 0
    OBVIOUS
  <1>7. text # <<>> => n # 0
    BY DEF Text
  <1>8. CASE n = 0
    BY <1>3, <1>5, <1>7, <1>8
  <1> HIDE DEF n
  <1>9. CASE n # 0
    <2> DEFINE V == {g \in GuardState : g.kept # <<>>}
               M == [k \in 0 .. n - 1 |-> L[k + 1]]
    <2>1. n - 1 \in Nat /\ 1 \in 1 .. n /\ 0 \in 0 .. n
      BY <1>4, <1>9
    <2>2. \A k \in 1 .. n : k - 1 \in 0 .. n /\ L[k] = GuardCell(L[k - 1], text[k], trip)
      BY <1>3 DEF n
    <2> HIDE DEF V, M
    <2>3. M[0] \in V
      <3>1. L[1] = GuardCell(L[1 - 1], text[1], trip)
        BY <2>2, <2>1, Zenon
      <3>2. L[1] = GuardCell(L[0], text[1], trip)
        <4>1. 1 - 1 = 0
          OBVIOUS
        <4> QED
          BY <3>1, <4>1
      <3>3. L[0] \in GuardState /\ text[1] \in Cell
        BY <1>3, <1>4, <2>1
      <3>4. L[1] \in GuardState /\ L[1].kept # <<>>
        BY <1>5, <3>2, <3>3, GuardCellIs
      <3>5. M[0] = L[1]
        BY <2>1 DEF M
      <3> QED
        BY <3>4, <3>5 DEF V
    <2>4. ASSUME NEW k \in 1 .. (n - 1), M[k - 1] \in V
          PROVE  M[k] \in V
      <3>1. M[k - 1] = L[k] /\ M[k] = L[k + 1] /\ k + 1 \in 1 .. n /\ (k + 1) - 1 = k
        BY <1>4 DEF M
      <3>2. L[k + 1] = GuardCell(L[k], text[k + 1], trip)
        <4>1. L[k + 1] = GuardCell(L[(k + 1) - 1], text[k + 1], trip)
          BY <2>2, <3>1, Zenon
        <4> QED
          BY <3>1, <4>1
      <3> HIDE DEF M
      <3>3. L[k] \in GuardState /\ L[k].kept # <<>>
        BY <2>4, <3>1 DEF V
      <3>4. L[k + 1] \in GuardState /\ L[k + 1].kept # <<>>
        BY <1>4, <3>1, <3>2, <3>3, GuardCellIs
      <3> QED
        BY <3>1, <3>4 DEF V
    <2>5. M[n - 1] = L[n] /\ n - 1 \in 0 .. n - 1
      BY <1>4, <2>1 DEF M
    <2> HIDE DEF M, V
    <2>6. M[n - 1] \in V
      BY <2>1, <2>3, <2>4, <2>5, ChainIn
    <2>7. RepeatGuard(guard, text, trip).kept # <<>>
      BY <1>3, <2>5, <2>6 DEF V, n
    <2> QED
      BY <1>6, <1>9, <2>7
  <1> QED
    BY <1>8, <1>9

-----------------------------------------------------------------------------
(* Plain text.                                                               *)

Alike(c, d) ==
    /\ Rest(c, d) /\ Frame(c, d) /\ d.blocks = c.blocks /\ d.out = c.out
    /\ d.hasTool = c.hasTool /\ d.output = c.output

LEMMA AlikeSane ==
    ASSUME NEW c, Sane(c), NEW d, Alike(c, d), d.sniff \in Text
    PROVE  /\ Sane(d) /\ Spares(c, d)
           /\ d.guard = c.guard => Keeps(c, d)
  <1>1. Typed(d)
    BY DEF Sane, Typed, Alike, Frame
  <1>2. Tagged(d)
    BY DEF Sane, Tagged, Alike, Frame
  <1>3. Tools(d) /\ Calls(d.blocks, d.out) /\ "invoke" \notin DOMAIN d.toolIndex
    BY DEF Sane, Tools, Alike, Rest
  <1>4. Adds(c.out, d.out)
    BY AddsSelf DEF Alike, Sane, Typed
  <1>5. Spares(c, d)
    BY <1>4 DEF Spares, Alike
  <1>6. d.guard = c.guard => (Hush(c) => Hush(d))
    BY DEF Alike, Hush, Spoken
  <1> QED
    BY <1>1, <1>2, <1>3, <1>5, <1>6 DEF Sane, Keeps

\* A block that is no call's.
LEMMA MoreFresh ==
    ASSUME NEW blocks \in Seq(Block), NEW type \in BlockTypes, type # "tool_use"
    PROVE  LET bs == Append(blocks, Fresh(type)) IN
           /\ More(blocks, bs) /\ Len(blocks) \in Nat /\ Len(bs) = Len(blocks) + 1
           /\ DOMAIN blocks = 1 .. Len(blocks) /\ DOMAIN bs = 1 .. (Len(blocks) + 1)
           /\ bs[Len(blocks) + 1] = Fresh(type)
           /\ \A i \in DOMAIN blocks : bs[i] = blocks[i]
           /\ \A i \in DOMAIN bs : i \notin DOMAIN blocks => bs[i].type = type
  <1> DEFINE bs == Append(blocks, Fresh(type))
  <1>1. Fresh(type) \in Block /\ Fresh(type).type = type
    BY DEF Fresh, Block
  <1>2. /\ bs \in Seq(Block) /\ Len(blocks) \in Nat /\ Len(bs) = Len(blocks) + 1
        /\ DOMAIN blocks = 1 .. Len(blocks) /\ DOMAIN bs = 1 .. (Len(blocks) + 1)
        /\ bs[Len(blocks) + 1] = Fresh(type)
        /\ \A i \in DOMAIN blocks : bs[i] = blocks[i]
    BY <1>1, AppendProperties
  <1> HIDE DEF bs
  <1>3. \A i \in DOMAIN bs : i \notin DOMAIN blocks => i = Len(blocks) + 1
    BY <1>2
  <1>4. More(blocks, bs)
    BY <1>1, <1>2, <1>3 DEF More
  <1> QED
    BY <1>1, <1>2, <1>3, <1>4 DEF bs

\* The event that starts it.
LEMMA StartPlain ==
    ASSUME NEW blocks, NEW bs, NEW n \in Nat, Len(bs) = n, n \in DOMAIN bs,
           NEW type, bs[n].type = type, type # "tool_use", NEW id
    PROVE  Plain(bs, StartEvent(n, type, id)) /\ IsBlockEvent(StartEvent(n, type, id))
  <1> DEFINE e == StartEvent(n, type, id)
  <1>1. e.ev = "content_block_start" /\ e.index = n /\ e.type = type
    BY DEF StartEvent
  <1>2. n \in 0 .. Len(bs)
    OBVIOUS
  <1> HIDE DEF e
  <1>3. Plain(bs, e) /\ IsBlockEvent(e)
    BY <1>1, <1>2 DEF Plain, IsBlockEvent, StartsCall
  <1> QED
    BY <1>3 DEF e

LEMMA StartBlockShape ==
    ASSUME NEW c, DOMAIN c = Fields, NEW type, type # "tool_use", NEW id
    PROVE  StartBlock(c, type, id)
             = Reshaped(c, Append(c.blocks, Fresh(type)),
                        Append(c.out, StartEvent(Len(c.blocks) + 1, type, id)))
  BY DEF StartBlock, Send, Reshaped, Fresh, StartEvent, Fields

\* A block of text is started only to say something.
LEMMA NewTextActs ==
    ASSUME NEW c, Sane(c), NEW text, text # <<>>
    PROVE  LET d == SendDelta(StartBlock(c, "text", "-"), Len(c.blocks) + 1, "text", text) IN
           Acts(c, d) /\ Shown(d.out)
  <1> DEFINE n  == Len(c.blocks) + 1
             bs == Append(c.blocks, Fresh("text"))
             s  == StartEvent(n, "text", "-")
             t  == Delta(n, "text", text)
             e  == StartBlock(c, "text", "-")
             d  == SendDelta(e, n, "text", text)
             mid == Append(c.out, s)
             new == Append(mid, t)
  <1>1. DOMAIN c = Fields
    BY DEF Sane, Typed
  <1>2. c.blocks \in Seq(Block) /\ IsSeq(c.out)
    BY DEF Sane, Typed
  <1>3. e = Reshaped(c, bs, mid)
    BY <1>1, StartBlockShape
  <1>4. /\ More(c.blocks, bs) /\ Len(c.blocks) \in Nat /\ Len(bs) = n
        /\ DOMAIN bs = 1 .. n /\ bs[n] = Fresh("text") /\ n \in Nat
    BY <1>2, MoreFresh DEF BlockTypes
  <1>5. Plain(bs, s) /\ IsBlockEvent(s)
    <2>1. n \in DOMAIN bs /\ bs[n].type = "text"
      BY <1>4 DEF Fresh
    <2> HIDE DEF n, bs
    <2> QED
      BY <1>4, <2>1, StartPlain
  <1>6. t.ev = "content_block_delta" /\ t.index = n /\ t.kind = "text" /\ t.data = text
    BY DEF Delta
  <1>7. Plain(bs, t) /\ IsBlockEvent(t)
    <2>1. n \in 0 .. Len(bs)
      BY <1>4
    <2>2. bs[n].type = "text"
      BY <1>4 DEF Fresh
    <2> HIDE DEF t, bs, n
    <2> QED
      BY <1>6, <2>1, <2>2 DEF Plain, IsBlockEvent, StartsCall
  <1>8. d = Reshaped(c, bs, new)
    <2>1. e.blocks = bs /\ e.out = mid
      <3> HIDE DEF e, bs, mid
      <3> QED
        BY <1>1, <1>3, ReshapedIs
    <2>2. n \in DOMAIN e.blocks /\ e.blocks[n].open
      BY <1>4, <2>1 DEF Fresh
    <2>3. d = Send(e, t)
      BY <2>2 DEF SendDelta
    <2> HIDE DEF e, bs, mid, t
    <2>4. Send(e, t) = [e EXCEPT !.out = Append(mid, t)]
      BY <2>1 DEF Send
    <2> QED
      BY <1>1, <1>3, <2>3, <2>4 DEF Reshaped, Fields
  <1> HIDE DEF d, e, bs, s, t, mid
  <1>9. Adds(c.out, mid) /\ \A k \in DOMAIN mid : k \notin DOMAIN c.out => mid[k] = s
    BY <1>2, AddsOne DEF mid
  <1>10. /\ Adds(mid, new) /\ \A k \in DOMAIN new : k \notin DOMAIN mid => new[k] = t
        /\ Len(mid) + 1 \in DOMAIN new /\ new[Len(mid) + 1] = t
    <2>1. IsSeq(mid)
      BY <1>9 DEF Adds
    <2>2. Appended(mid, t, new)
      BY <2>1, AppendSeq
    <2>3. Adds(mid, new) /\ \A k \in DOMAIN new : k \notin DOMAIN mid => new[k] = t
      BY <2>1, AddsOne
    <2> HIDE DEF new
    <2> QED
      BY <2>2, <2>3 DEF Appended
  <1> HIDE DEF new
  <1>11. Adds(c.out, new)
    BY <1>9, <1>10, AddsThen
  <1>12. \A k \in DOMAIN new : k \notin DOMAIN c.out => new[k] = s \/ new[k] = t
    BY <1>9, <1>10 DEF Adds
  <1>13. Shown(new)
    BY <1>6, <1>10 DEF Shown, Content
  <1>14. Acts(c, Reshaped(c, bs, new))
    BY <1>4, <1>5, <1>7, <1>11, <1>12, <1>13, ReshapedActs
  <1>15. Reshaped(c, bs, new).out = new
    BY <1>1, ReshapedIs
  <1> QED
    BY <1>8, <1>13, <1>14, <1>15 DEF d, e, n

LEMMA SendTextActs ==
    ASSUME NEW c, Sane(c), NEW text
    PROVE  Acts(c, SendText(c, text)) /\ (text # <<>> => Shown(SendText(c, text).out))
  <1> DEFINE n == Len(c.blocks) + 1
             b == [c EXCEPT !.text = n]
             f == SendDelta(StartBlock(b, "text", "-"), n, "text", text)
  <1>1. DOMAIN c = Fields
    BY DEF Sane, Typed
  <1>2. Alike(c, b) /\ b.sniff = c.sniff /\ b.guard = c.guard
    BY <1>1 DEF Alike, Rest, Frame, Fields
  <1> HIDE DEF b
  <1>3. Acts(c, b) /\ Len(b.blocks) + 1 = n
    <2>1. c.sniff \in Text
      BY DEF Sane, Typed
    <2>2. Keeps(c, b)
      BY <1>2, <2>1, AlikeSane
    <2> QED
      BY <1>2, <2>2 DEF Acts, Leaves, Alike
  <1>4. text # <<>> => Acts(b, f) /\ Shown(f.out)
    BY <1>3, NewTextActs DEF Acts, Keeps
  <1> HIDE DEF f
  <1>5. CASE text = <<>>
    BY <1>5, ActsSelf DEF SendText
  <1>6. CASE text # <<>> /\ IsOpen(c, c.text, "text")
    <2> DEFINE d == SendDelta(c, c.text, "text", text)
               t == Delta(c.text, "text", text)
    <2>1. SendText(c, text) = d
      BY <1>6 DEF SendText
    <2>2. Acts(c, d)
      BY SendDeltaActs
    <2>3. c.text \in DOMAIN c.blocks /\ c.blocks[c.text].open
      BY <1>6 DEF IsOpen
    <2>4. d = Send(c, t)
      BY <2>3 DEF SendDelta
    <2>5. d.out = Append(c.out, t)
      BY <1>1, <2>4, SendIs
    <2>6. t.ev = "content_block_delta" /\ t.kind = "text" /\ t.data = text
      BY DEF Delta
    <2>7. IsSeq(c.out)
      BY DEF Sane, Typed
    <2> HIDE DEF d, t
    <2>8. Shown(d.out)
      BY <1>6, <2>5, <2>6, <2>7, AppendSeq DEF Appended, Shown, Content
    <2> QED
      BY <2>1, <2>2, <2>8
  <1>7. CASE text # <<>> /\ ~ IsOpen(c, c.text, "text")
    <2>1. SendText(c, text) = f
      BY <1>7, Zenon DEF SendText, f, b
    <2>2. Acts(c, f) /\ Shown(f.out)
      BY <1>3, <1>4, <1>7, ActsThen
    <2> QED
      BY <2>1, <2>2
  <1> QED
    BY <1>5, <1>6, <1>7

\* What is said through the guard: something, if nothing has been said.
LEMMA EmitTextSays ==
    ASSUME NEW c, Sane(c), NEW text
    PROVE  LET d == EmitText(c, text) IN
           /\ Sane(d) /\ Spares(c, d) /\ Leaves(c, d)
           /\ text \in Text /\ Hush(c) => Hush(d) /\ (text # <<>> => Spoken(d))
  <1> DEFINE g == RepeatGuard(c.guard, text, RepeatTrip)
             b == [c EXCEPT !.guard = [run |-> g.run, tripped |-> g.tripped],
                            !.fence = AdvanceFence(@, g.kept)]
             d == EmitText(c, text)
  <1>1. DOMAIN c = Fields
    BY DEF Sane, Typed
  <1>2. d = SendText(b, g.kept)
    BY Zenon DEF EmitText, SendKept
  <1>3. RepeatTrip \in Nat \ {0, 1}
    BY StreamAssumption
  <1> HIDE DEF g
  <1>4. Alike(c, b) /\ b.sniff = c.sniff /\ b.guard = [run |-> g.run, tripped |-> g.tripped]
    BY <1>1 DEF Alike, Rest, Frame, Fields
  <1> HIDE DEF b
  <1>5. Sane(b) /\ Spares(c, b)
    <2>1. c.sniff \in Text
      BY DEF Sane, Typed
    <2> QED
      BY <1>4, <2>1, AlikeSane
  <1>6. Acts(b, d) /\ (g.kept # <<>> => Shown(d.out))
    BY <1>2, <1>5, SendTextActs
  <1> HIDE DEF d
  <1>7. Sane(d) /\ Spares(c, d) /\ Leaves(c, d)
    <2>1. Spares(c, d)
      BY <1>5, <1>6, SparesThen DEF Acts, Keeps
    <2> QED
      BY <1>4, <1>6, <2>1 DEF Acts, Keeps, Leaves, Frame, Alike
  <1>8. ASSUME text \in Text, Hush(c)
        PROVE  Hush(d) /\ (text # <<>> => Spoken(d))
    <2>1. CASE Spoken(c)
      <3>1. Spoken(d)
        BY <1>7, <2>1, SpokenStays
      <3> QED
        BY <3>1 DEF Hush
    <2>2. CASE ~ Spoken(c)
      <3>1. c.guard.run = 0 /\ c.guard.tripped = FALSE
        BY <1>8, <2>2 DEF Hush
      <3>2. /\ text # <<>> => g.kept # <<>>
            /\ text = <<>> => g.run = 0 /\ g.tripped = FALSE
        BY <1>3, <1>8, <3>1, GuardKeeps DEF g
      <3>3. CASE text # <<>>
        BY <1>6, <3>2, <3>3 DEF Spoken, Hush
      <3>4. CASE text = <<>>
        <4>1. b.guard.run = 0 /\ b.guard.tripped = FALSE
          BY <1>4, <3>2, <3>4
        <4>2. Hush(b)
          BY <1>4, <1>8, <2>2, <4>1 DEF Hush, Alike
        <4> QED
          BY <1>6, <3>4, <4>2 DEF Acts, Keeps
      <3> QED
        BY <3>3, <3>4
    <2> QED
      BY <2>1, <2>2
  <1> QED
    BY <1>7, <1>8 DEF d

-----------------------------------------------------------------------------
(* A tool call is sent.                                                      *)

LEMMA ThreeMore ==
    ASSUME NEW out, IsSeq(out), NEW a, NEW b, NEW c
    PROVE  LET new == Append(Append(Append(out, a), b), c)
               m   == Len(out) IN
           /\ Adds(out, new) /\ m \in Nat /\ Len(new) = m + 3
           /\ DOMAIN out = 1 .. m /\ DOMAIN new = 1 .. (m + 3)
           /\ new[m + 1] = a /\ new[m + 2] = b /\ new[m + 3] = c
  <1> DEFINE s == Append(out, a)
             t == Append(s, b)
             u == Append(t, c)
  <1>1. Appended(out, a, s) /\ Adds(out, s)
    BY AppendSeq, AddsOne
  <1> HIDE DEF s
  <1>2. IsSeq(s)
    BY <1>1 DEF Adds
  <1>3. Appended(s, b, t) /\ Adds(s, t)
    BY <1>2, AppendSeq, AddsOne
  <1> HIDE DEF t
  <1>4. IsSeq(t)
    BY <1>3 DEF Adds
  <1>5. Appended(t, c, u) /\ Adds(t, u)
    BY <1>4, AppendSeq, AddsOne
  <1> HIDE DEF u
  <1>6. Adds(out, t)
    BY <1>1, <1>3, AddsThen
  <1>7. Adds(out, u)
    BY <1>5, <1>6, AddsThen
  <1>8. /\ Len(out) \in Nat /\ Len(s) = Len(out) + 1 /\ Len(t) = Len(out) + 2
        /\ Len(u) = Len(out) + 3
    BY <1>1, <1>3, <1>5 DEF Appended, Adds
  <1>9. DOMAIN out = 1 .. Len(out) /\ DOMAIN u = 1 .. (Len(out) + 3)
    BY <1>7, <1>8 DEF Adds
  <1>10. s[Len(out) + 1] = a /\ t[Len(out) + 2] = b /\ u[Len(out) + 3] = c
    <2>1. s[Len(out) + 1] = a /\ t[Len(s) + 1] = b /\ u[Len(t) + 1] = c
      BY <1>1, <1>3, <1>5 DEF Appended
    <2>2. Len(s) + 1 = Len(out) + 2 /\ Len(t) + 1 = Len(out) + 3
      BY <1>8
    <2> QED
      BY <2>1, <2>2
  <1>11. u[Len(out) + 1] = a /\ u[Len(out) + 2] = b
    <2>1. Len(out) + 1 \in DOMAIN s /\ Len(out) + 1 \in DOMAIN t /\ Len(out) + 2 \in DOMAIN t
      BY <1>1, <1>3, <1>8 DEF Adds
    <2>2. t[Len(out) + 1] = s[Len(out) + 1] /\ u[Len(out) + 1] = t[Len(out) + 1]
          /\ u[Len(out) + 2] = t[Len(out) + 2]
      BY <1>3, <1>5, <2>1 DEF Adds
    <2> QED
      BY <1>10, <2>2
  <1> QED
    BY <1>7, <1>8, <1>9, <1>10, <1>11 DEF u, t, s

\* A context in which a call has been sent.
Called(c, index, bs, new) ==
    [c EXCEPT !.hasTool = TRUE, !.output = TRUE, !.toolIndex = index,
              !.blocks = bs, !.out = new]

LEMMA CalledIs ==
    ASSUME NEW c, DOMAIN c = Fields, NEW index, NEW bs, NEW new
    PROVE  LET g == Called(c, index, bs, new) IN
           /\ Frame(c, g) /\ g.sniff = c.sniff /\ g.guard = c.guard /\ g.fragments = c.fragments
           /\ g.stopReason = c.stopReason /\ g.toolError = c.toolError
           /\ g.upstreamError = c.upstreamError /\ g.hasTool /\ g.output
           /\ g.toolIndex = index /\ g.blocks = bs /\ g.out = new
  BY DEF Called, Frame, Fields

\* With its text stopped.
TextClosed(c) == Closed(c.blocks, {"text"})
TextEnded(c)  == Ended(c.out, SetToSeq(OpenOf(c.blocks, {"text"})))

LEMMA TextStops ==
    ASSUME NEW c, Sane(c)
    PROVE  /\ TextClosed(c) \in Seq(Block) /\ Calls(TextClosed(c), TextEnded(c))
           /\ DOMAIN TextClosed(c) = DOMAIN c.blocks /\ Len(TextClosed(c)) = Len(c.blocks)
           /\ Adds(c.out, TextEnded(c))
           /\ \A i \in DOMAIN c.blocks : TextClosed(c)[i].type = c.blocks[i].type
           /\ \A k \in DOMAIN TextEnded(c) : k \notin DOMAIN c.out
                 => IsBlockEvent(TextEnded(c)[k]) /\ ~ StartsCall(TextEnded(c)[k])
  <1> DEFINE d == StopAll(c, {"text"})
  <1>1. DOMAIN c = Fields /\ c.blocks \in Seq(Block)
    BY DEF Sane, Typed
  <1>2. d = Reshaped(c, TextClosed(c), TextEnded(c))
    BY <1>1, StopAllIs, Zenon DEF TextClosed, TextEnded
  <1>3. Acts(c, d) /\ DOMAIN d.blocks = DOMAIN c.blocks
    BY StopAllActs
  <1>4. d.blocks = TextClosed(c) /\ d.out = TextEnded(c)
    BY <1>1, <1>2, ReshapedIs
  <1> HIDE DEF d
  <1>5. d.blocks \in Seq(Block) /\ Calls(d.blocks, d.out) /\ Adds(c.out, d.out)
    BY <1>3 DEF Acts, Keeps, Sane, Typed, Spares
  <1>6. \A i \in DOMAIN c.blocks : TextClosed(c)[i].type = c.blocks[i].type
    BY <1>1, ClosedIs DEF TextClosed
  <1>7. Len(d.blocks) = Len(c.blocks)
    <2>1. /\ Len(d.blocks) \in Nat /\ DOMAIN d.blocks = 1 .. Len(d.blocks)
          /\ Len(c.blocks) \in Nat /\ DOMAIN c.blocks = 1 .. Len(c.blocks)
      BY <1>1, <1>5, BlocksAre
    <2> QED
      BY <1>3, <2>1, SameLength
  <1>8. ASSUME NEW k \in DOMAIN d.out, k \notin DOMAIN c.out
        PROVE  IsBlockEvent(d.out[k]) /\ ~ StartsCall(d.out[k])
    <2>1. IsBlockEvent(d.out[k])
      BY <1>3, <1>8 DEF Acts, Keeps, Spares
    <2>2. ASSUME StartsCall(d.out[k]) PROVE FALSE
      <3>1. d.out[k].index \in DOMAIN d.blocks /\ d.blocks[d.out[k].index].type = "tool_use"
        BY <1>5, <2>2 DEF Calls
      <3>2. PICK j \in DOMAIN c.out : CallAt(c.out, j, d.out[k].index)
        BY <1>3, <1>4, <1>6, <3>1 DEF Sane, Calls
      <3>3. PICK m \in DOMAIN d.out : CallAt(d.out, m, d.out[k].index)
        BY <1>5, <3>1 DEF Calls
      <3>4. k \in Of(d.out, d.out[k].index)
        BY <2>1 DEF Of
      <3>5. j \in Of(d.out, d.out[k].index)
        <4>1. j \in Of(c.out, d.out[k].index)
          BY <3>2 DEF CallAt
        <4> QED
          BY <1>5, <4>1 DEF Of, Adds
      <3>6. d.out[j].ev = "content_block_start" /\ d.out[k].ev = "content_block_start"
        BY <1>5, <2>2, <3>2 DEF StartsCall, CallAt, Adds
      <3>7. j = m /\ k = m
        BY <3>3, <3>4, <3>5, <3>6 DEF CallAt
      <3> QED
        BY <1>8, <3>7
    <2> QED
      BY <2>1, <2>2
  <1> QED
    BY <1>3, <1>4, <1>5, <1>6, <1>7, <1>8

\* The blocks and the events when it has been sent.
ToolBlocks(c)            == Without(Append(TextClosed(c), Fresh("tool_use")), Len(c.blocks) + 1)
ToolEvents(c, id, input) ==
    LET n == Len(c.blocks) + 1 IN
    Append(Append(Append(TextEnded(c), StartEvent(n, "tool_use", id)),
                  Delta(n, "json", input)),
           StopEvent(n))

ToolIndex(c, id) ==
    LET i == IF id \in DOMAIN c.toolIndex THEN c.toolIndex[id] ELSE Len(c.blocks) + 1 IN
    IF id = "invoke" THEN c.toolIndex
    ELSE [x \in DOMAIN c.toolIndex \cup {id} |-> IF x = id THEN i ELSE c.toolIndex[x]]

LEMMA EmitToolUseShape ==
    ASSUME NEW c, Sane(c), NEW id, NEW input
    PROVE  EmitToolUse(c, id, input)
             = IF id \in DOMAIN c.toolIndex
               THEN Called(c, ToolIndex(c, id), TextClosed(c), TextEnded(c))
               ELSE Called(c, ToolIndex(c, id), ToolBlocks(c), ToolEvents(c, id, input))
  <1> DEFINE known == id \in DOMAIN c.toolIndex
             n == Len(c.blocks) + 1
             i == IF known THEN c.toolIndex[id] ELSE n
             index == ToolIndex(c, id)
             d == [c EXCEPT !.hasTool = TRUE, !.output = TRUE, !.toolIndex = index]
             e == IF known THEN StopAll(d, {"text"}) ELSE StartBlock(d, "tool_use", id)
             f == SendDelta(e, i, "json", input)
             g == StopBlock(f, i)
             bs == TextClosed(c)
             new == TextEnded(c)
  <1>1. DOMAIN c = Fields /\ c.blocks \in Seq(Block)
    BY DEF Sane, Typed
  <1>2. EmitToolUse(c, id, input) = g
    BY DEF EmitToolUse, ToolIndex
  <1>3. /\ bs \in Seq(Block) /\ Calls(bs, new) /\ DOMAIN bs = DOMAIN c.blocks /\ Len(bs) = Len(c.blocks)
        /\ \A x \in DOMAIN c.blocks : bs[x].type = c.blocks[x].type
    BY TextStops
  <1> HIDE DEF index
  <1>4. DOMAIN d = Fields /\ d.blocks = c.blocks /\ d.out = c.out /\ d.hasTool = TRUE
    BY <1>1 DEF Fields
  <1>5. StopAll(d, {"text"}) = Reshaped(d, bs, new)
    <2> HIDE DEF d
    <2> QED
      BY <1>4, StopAllIs, Zenon DEF TextClosed, TextEnded
  <1> HIDE DEF bs, new
  <1>6. ASSUME NEW bs2, NEW new2
        PROVE  Reshaped(d, bs2, new2) = Called(c, index, bs2, new2)
    BY <1>1 DEF Reshaped, Called, Fields
  <1>7. CASE known
    <2>1. e = Called(c, index, bs, new) /\ i = c.toolIndex[id]
      BY <1>5, <1>6, <1>7
    <2> HIDE DEF e, i
    <2>2. e.blocks = bs
      BY <1>1, <2>1, CalledIs
    <2>3. c.toolIndex[id] \in DOMAIN c.blocks /\ c.blocks[c.toolIndex[id]].type = "tool_use"
      BY <1>7 DEF Sane, Tools
    <2>4. i \in DOMAIN bs /\ ~ bs[i].open
      BY <1>3, <2>1, <2>3 DEF Calls
    <2>5. f = e
      BY <2>2, <2>4 DEF SendDelta
    <2> HIDE DEF f
    <2>6. g = e
      BY <2>2, <2>4, <2>5 DEF StopBlock
    <2> QED
      BY <1>2, <1>7, <2>1, <2>6 DEF bs, new, index
  <1>8. CASE ~ known
    <2> DEFINE ds == [d EXCEPT !.hasTool = TRUE]
               bs1 == Append(bs, Fresh("tool_use"))
               s1 == StartEvent(n, "tool_use", id)
               t1 == Delta(n, "json", input)
               new1 == Append(new, s1)
               new2 == Append(new1, t1)
               new3 == Append(new2, StopEvent(n))
               bs2 == Without(bs1, n)
    <2>1. ds = d
      BY <1>4 DEF Fields
    <2>2. e = Send([Reshaped(d, bs, new) EXCEPT !.blocks = Append(@, Fresh("tool_use"))],
                   StartEvent(Len(d.blocks) + 1, "tool_use", id)) /\ i = n
      BY <1>5, <1>8, <2>1, Zenon DEF StartBlock, Fresh, StartEvent
    <2> HIDE DEF e, i, d, ds
    <2>3. e = Reshaped(d, bs1, new1)
      <3> HIDE DEF n, bs1
      <3>1. Reshaped(d, bs, new).blocks = bs /\ Reshaped(d, bs, new).out = new
        BY <1>4, ReshapedIs
      <3>2. n = Len(d.blocks) + 1
        BY <1>4 DEF n
      <3> DEFINE r == [Reshaped(d, bs, new) EXCEPT !.blocks = Append(@, Fresh("tool_use"))]
      <3>3. r = [Reshaped(d, bs, new) EXCEPT !.blocks = bs1]
        BY <3>1, Zenon DEF bs1
      <3>4. r = Reshaped(d, bs1, new)
        <4>1. [Reshaped(d, bs, new) EXCEPT !.blocks = bs1] = Reshaped(d, bs1, new)
          BY <1>4 DEF Reshaped, Fields
        <4> HIDE DEF r
        <4> QED
          BY <3>3, <4>1
      <3>5. e = Send(r, s1)
        BY <2>2, <3>2
      <3> HIDE DEF r, s1
      <3>6. r.out = new
        BY <1>4, <3>4, ReshapedIs
      <3>7. Send(r, s1) = [r EXCEPT !.out = new1]
        BY <3>6 DEF Send
      <3> HIDE DEF new1
      <3> QED
        BY <1>4, <3>4, <3>5, <3>7 DEF Reshaped, Fields
    <2>4. Len(bs) \in Nat /\ DOMAIN bs1 = 1 .. n /\ bs1[n] = Fresh("tool_use") /\ n \in Nat /\ n > 0
      <3>1. Fresh("tool_use") \in Block
        BY DEF Fresh, Block, BlockTypes
      <3>2. Len(c.blocks) \in Nat
        BY <1>1, BlocksAre
      <3> QED
        BY <1>3, <3>1, <3>2, AppendProperties DEF bs
    <2> HIDE DEF bs1, new1, s1
    <2>5. e.blocks = bs1 /\ e.out = new1
      BY <1>4, <2>3, ReshapedIs
    <2>6. n \in DOMAIN bs1 /\ bs1[n].open
      BY <2>4 DEF Fresh
    <2> HIDE DEF n
    <2>7. f = Reshaped(d, bs1, new2)
      <3>1. f = Send(e, t1)
        BY <2>2, <2>5, <2>6 DEF SendDelta
      <3> HIDE DEF t1
      <3>2. Send(e, t1) = [e EXCEPT !.out = new2]
        BY <2>5 DEF Send
      <3> HIDE DEF f, new2
      <3> QED
        BY <1>4, <2>3, <3>1, <3>2 DEF Reshaped, Fields
    <2> HIDE DEF f, new2
    <2>8. f.blocks = bs1 /\ f.out = new2 /\ DOMAIN f = Fields
      BY <1>4, <2>7, ReshapedIs DEF Frame
    <2>9. g = Reshaped(d, bs2, new3)
      <3>1. g = Reshaped(f, Without(f.blocks, n), Append(f.out, StopEvent(n)))
        BY <2>2, <2>6, <2>8, StopBlockIs
      <3>2. g = Reshaped(f, bs2, new3)
        BY <2>8, <3>1
      <3> HIDE DEF g, bs2, new3
      <3> QED
        BY <1>4, <2>7, <3>2 DEF Reshaped, Fields
    <2> HIDE DEF g
    <2>10. g = Called(c, index, bs2, new3)
      BY <1>6, <2>9 DEF d
    <2> QED
      BY <1>2, <1>8, <2>10 DEF ToolBlocks, ToolEvents, n, new2, t1, new1, s1, bs1, bs, new, index
  <1> QED
    BY <1>7, <1>8

\* The new call's block is its own.
LEMMA ToolCalls ==
    ASSUME NEW c, Sane(c), NEW id, NEW input
    PROVE  /\ ToolBlocks(c) \in Seq(Block) /\ Calls(ToolBlocks(c), ToolEvents(c, id, input))
           /\ Len(c.blocks) + 1 \in DOMAIN ToolBlocks(c)
           /\ ToolBlocks(c)[Len(c.blocks) + 1].type = "tool_use"
           /\ \A i \in DOMAIN c.blocks :
                 i \in DOMAIN ToolBlocks(c) /\ ToolBlocks(c)[i].type = c.blocks[i].type
           /\ \A i \in DOMAIN ToolBlocks(c) : i \notin DOMAIN c.blocks => ToolBlocks(c)[i].type = "tool_use"
  <1> DEFINE n   == Len(c.blocks) + 1
             bs  == TextClosed(c)
             bs1 == Append(bs, Fresh("tool_use"))
             B   == Without(bs1, n)
             out == TextEnded(c)
             s1  == StartEvent(n, "tool_use", id)
             t1  == Delta(n, "json", input)
             u1  == StopEvent(n)
             new == Append(Append(Append(out, s1), t1), u1)
             m   == Len(out)
  <1>1. /\ bs \in Seq(Block) /\ Calls(bs, out) /\ DOMAIN bs = DOMAIN c.blocks
        /\ Len(bs) = Len(c.blocks) /\ Adds(c.out, out)
        /\ \A x \in DOMAIN c.blocks : bs[x].type = c.blocks[x].type
    BY TextStops
  <1>2. B = ToolBlocks(c) /\ new = ToolEvents(c, id, input)
    BY DEF ToolBlocks, ToolEvents
  <1> HIDE DEF bs, out
  <1>3. /\ bs1 \in Seq(Block) /\ DOMAIN bs1 = 1 .. n /\ bs1[n] = Fresh("tool_use")
        /\ DOMAIN bs = 1 .. (n - 1) /\ n \in Nat /\ n > 0
        /\ \A i \in DOMAIN bs : bs1[i] = bs[i]
    <2>1. Fresh("tool_use") \in Block
      BY DEF Fresh, Block, BlockTypes
    <2>2. Len(bs) \in Nat /\ DOMAIN bs = 1 .. Len(bs)
      BY <1>1, BlocksAre
    <2>3. n - 1 = Len(bs)
      BY <1>1, <2>2
    <2> QED
      BY <1>1, <2>1, <2>2, <2>3, AppendProperties
  <1>4. IsSeq(out)
    BY <1>1 DEF Adds
  <1>5. /\ Adds(out, new) /\ m \in Nat /\ DOMAIN out = 1 .. m /\ DOMAIN new = 1 .. (m + 3)
        /\ new[m + 1] = s1 /\ new[m + 2] = t1 /\ new[m + 3] = u1
    BY <1>4, ThreeMore
  <1>6. /\ s1.ev = "content_block_start" /\ s1.index = n /\ s1.type = "tool_use"
        /\ t1.ev = "content_block_delta" /\ t1.index = n
        /\ u1.ev = "content_block_stop" /\ u1.index = n
    BY DEF StartEvent, Delta, StopEvent
  <1> HIDE DEF bs1, s1, t1, u1, new, m, n
  <1>7. /\ B \in Seq(Block) /\ DOMAIN B = 1 .. n /\ Len(B) = n /\ B[n].type = "tool_use" /\ ~ B[n].open
        /\ \A i \in DOMAIN bs : i # n /\ B[i] = bs[i]
    <2>1. n \in DOMAIN bs1
      BY <1>3
    <2>2. /\ B \in Seq(Block) /\ DOMAIN B = DOMAIN bs1 /\ B[n].open = FALSE
          /\ \A j \in DOMAIN bs1 : B[j].type = bs1[j].type /\ (j # n => B[j] = bs1[j])
      BY <1>3, <2>1, WithoutIs, Zenon
    <2> HIDE DEF B
    <2>3. Len(B) \in Nat /\ DOMAIN B = 1 .. Len(B)
      BY <2>2, BlocksAre
    <2>4. Len(B) = n
      BY <1>3, <2>2, <2>3, SameLength
    <2>5. B[n].type = "tool_use"
      BY <1>3, <2>1, <2>2 DEF Fresh
    <2>6. \A i \in DOMAIN bs : i # n /\ i \in DOMAIN bs1
      BY <1>3
    <2> QED
      BY <1>3, <2>2, <2>4, <2>5, <2>6
  <1> HIDE DEF B
  <1>8. \A k \in DOMAIN new : k \in DOMAIN out \/ k = m + 1 \/ k = m + 2 \/ k = m + 3
    BY <1>5
  <1>9. \A k \in DOMAIN out : IsBlockEvent(out[k]) => out[k].index # n
    <2>1. \A k \in DOMAIN out : IsBlockEvent(out[k]) => out[k].index \in 0 .. Len(bs)
      BY <1>1 DEF Calls
    <2>2. n = Len(bs) + 1 /\ Len(bs) \in Nat
      <3>1. Len(bs) \in Nat
        BY <1>1, BlocksAre
      <3> QED
        BY <1>1, <3>1 DEF n
    <2>3. \A x \in 0 .. Len(bs) : x # n
      BY <2>2
    <2> QED
      BY <2>1, <2>3
  <1>10. \A k \in DOMAIN out : k \in DOMAIN new /\ new[k] = out[k]
    BY <1>5 DEF Adds
  <1>11. Of(new, n) = {m + 1, m + 2, m + 3}
    <2>1. ASSUME NEW k \in Of(new, n) PROVE k \in {m + 1, m + 2, m + 3}
      BY <1>8, <1>9, <1>10 DEF Of
    <2>2. m + 1 \in DOMAIN new /\ m + 2 \in DOMAIN new /\ m + 3 \in DOMAIN new
      BY <1>5
    <2>3. m + 1 \in Of(new, n) /\ m + 2 \in Of(new, n) /\ m + 3 \in Of(new, n)
      BY <1>5, <1>6, <2>2 DEF Of, IsBlockEvent
    <2> QED
      BY <2>1, <2>3
  <1>12. \A i \in DOMAIN bs : Of(new, i) = Of(out, i)
    <2> SUFFICES ASSUME NEW i \in DOMAIN bs
                 PROVE  Of(new, i) = Of(out, i)
      OBVIOUS
    <2>1. i # n
      BY <1>7
    <2>2. ASSUME NEW k \in Of(new, i) PROVE k \in Of(out, i)
      BY <1>5, <1>6, <1>8, <1>10, <2>1 DEF Of
    <2>3. ASSUME NEW k \in Of(out, i) PROVE k \in Of(new, i)
      BY <1>10 DEF Of
    <2> QED
      BY <2>2, <2>3
  <1>13. \A i \in DOMAIN B : i = n \/ i \in DOMAIN bs
    BY <1>3, <1>7
  <1>14. ASSUME NEW i \in DOMAIN B, B[i].type = "tool_use"
         PROVE  ~ B[i].open /\ \E k \in DOMAIN new : CallAt(new, k, i)
    <2>1. CASE i = n
      <3>1. m + 1 \in DOMAIN new /\ m + 2 \in DOMAIN new /\ m + 3 \in DOMAIN new
            /\ (m + 1) + 1 = m + 2 /\ (m + 1) + 2 = m + 3
        BY <1>5
      <3>2. CallAt(new, m + 1, n)
        BY <1>5, <1>6, <1>11, <3>1 DEF CallAt
      <3> QED
        BY <1>7, <2>1, <3>1, <3>2
    <2>2. CASE i \in DOMAIN bs
      <3>1. B[i] = bs[i]
        BY <1>7, <2>2
      <3>2. PICK k \in DOMAIN out : CallAt(out, k, i)
        BY <1>1, <1>14, <2>2, <3>1 DEF Calls
      <3>3. CallAt(new, k, i)
        BY <1>10, <1>12, <2>2, <3>2 DEF CallAt
      <3>4. ~ bs[i].open
        BY <1>1, <1>14, <2>2, <3>1 DEF Calls
      <3> QED
        BY <1>10, <3>1, <3>3, <3>4
    <2> QED
      BY <1>13, <2>1, <2>2
  <1>15. ASSUME NEW k \in DOMAIN new
         PROVE  /\ StartsCall(new[k]) => new[k].index \in DOMAIN B /\ B[new[k].index].type = "tool_use"
                /\ IsBlockEvent(new[k]) => new[k].index \in 0 .. Len(B)
    <2>1. CASE k \in DOMAIN out
      <3>1. new[k] = out[k]
        BY <1>10, <2>1
      <3>2. StartsCall(out[k]) => out[k].index \in DOMAIN bs /\ bs[out[k].index].type = "tool_use"
        BY <1>1, <2>1 DEF Calls
      <3>3. StartsCall(out[k]) => out[k].index \in DOMAIN B /\ B[out[k].index].type = "tool_use"
        BY <1>3, <1>7, <3>2
      <3>4. IsBlockEvent(out[k]) => out[k].index \in 0 .. Len(bs)
        BY <1>1, <2>1 DEF Calls
      <3>5. 0 .. Len(bs) \subseteq 0 .. Len(B)
        BY <1>1, <1>7, BlocksAre DEF n
      <3> QED
        BY <3>1, <3>3, <3>4, <3>5
    <2>2. CASE k \notin DOMAIN out
      <3>1. new[k].index = n
        BY <1>5, <1>6, <1>8, <2>2
      <3>2. n \in DOMAIN B /\ n \in 0 .. Len(B)
        BY <1>3, <1>7
      <3> QED
        BY <1>7, <3>1, <3>2
    <2> QED
      BY <2>1, <2>2
  <1>16. Calls(B, new)
    BY <1>14, <1>15, Zenon DEF Calls
  <1>17. n \in DOMAIN B /\ \A i \in DOMAIN c.blocks : i \in DOMAIN B /\ B[i].type = c.blocks[i].type
    <2>1. \A i \in DOMAIN c.blocks : i \in DOMAIN bs /\ i \in DOMAIN B
      BY <1>1, <1>3, <1>7
    <2> QED
      BY <1>1, <1>3, <1>7, <2>1
  <1>18. \A i \in DOMAIN B : i \notin DOMAIN c.blocks => B[i].type = "tool_use"
    BY <1>1, <1>7, <1>13
  <1> QED
    BY <1>2, <1>7, <1>16, <1>17, <1>18 DEF n

\* What it adds.
LEMMA ToolSays ==
    ASSUME NEW c, Sane(c), NEW id, NEW input
    PROVE  LET new == ToolEvents(c, id, input) IN
           /\ Adds(c.out, new)
           /\ \A k \in DOMAIN new : k \notin DOMAIN c.out => IsBlockEvent(new[k])
           /\ \E k \in DOMAIN new :
                 /\ k \notin DOMAIN c.out /\ StartsCall(new[k]) /\ new[k].id = id
                 /\ new[k + 1].data = input
                 /\ \A j \in DOMAIN new : j \notin DOMAIN c.out /\ StartsCall(new[j]) => j = k
  <1> DEFINE n   == Len(c.blocks) + 1
             out == TextEnded(c)
             s1  == StartEvent(n, "tool_use", id)
             t1  == Delta(n, "json", input)
             u1  == StopEvent(n)
             new == Append(Append(Append(out, s1), t1), u1)
             m   == Len(out)
  <1>1. /\ Adds(c.out, out)
        /\ \A k \in DOMAIN out : k \notin DOMAIN c.out => IsBlockEvent(out[k]) /\ ~ StartsCall(out[k])
    BY TextStops
  <1>2. new = ToolEvents(c, id, input)
    BY DEF ToolEvents
  <1> HIDE DEF out
  <1>3. IsSeq(out)
    BY <1>1 DEF Adds
  <1>4. /\ Adds(out, new) /\ m \in Nat /\ DOMAIN out = 1 .. m /\ DOMAIN new = 1 .. (m + 3)
        /\ new[m + 1] = s1 /\ new[m + 2] = t1 /\ new[m + 3] = u1
    BY <1>3, ThreeMore
  <1>5. /\ IsBlockEvent(s1) /\ StartsCall(s1) /\ s1.id = id
        /\ IsBlockEvent(t1) /\ ~ StartsCall(t1) /\ t1.data = input
        /\ IsBlockEvent(u1) /\ ~ StartsCall(u1)
    BY DEF StartEvent, Delta, StopEvent, IsBlockEvent, StartsCall
  <1> HIDE DEF s1, t1, u1, new, m, n
  <1>6. Adds(c.out, new)
    BY <1>1, <1>4, AddsThen
  <1>7. \A k \in DOMAIN new : k \in DOMAIN out \/ k = m + 1 \/ k = m + 2 \/ k = m + 3
    BY <1>4
  <1>8. ASSUME NEW k \in DOMAIN new, k \notin DOMAIN c.out
        PROVE  IsBlockEvent(new[k]) /\ (StartsCall(new[k]) => k = m + 1)
    <2>1. CASE k \in DOMAIN out
      <3>1. new[k] = out[k]
        BY <1>4, <2>1 DEF Adds
      <3> QED
        BY <1>1, <1>8, <2>1, <3>1
    <2>2. CASE k \notin DOMAIN out
      BY <1>4, <1>5, <1>7, <2>2
    <2> QED
      BY <2>1, <2>2
  <1>9. m + 1 \in DOMAIN new /\ m + 1 \notin DOMAIN c.out /\ (m + 1) + 1 = m + 2
    <2>1. m + 1 \in DOMAIN new /\ m + 1 \notin DOMAIN out /\ (m + 1) + 1 = m + 2
      BY <1>4
    <2>2. DOMAIN c.out \subseteq DOMAIN out
      BY <1>1, <1>4 DEF Adds
    <2> QED
      BY <2>1, <2>2
  <1> QED
    BY <1>2, <1>4, <1>5, <1>6, <1>8, <1>9

\* d is c after call id has been sent with this input.
SendsCall(c, d, id, input) ==
    /\ Sane(d) /\ Frame(c, d) /\ d.sniff = c.sniff /\ d.hasTool /\ d.output
    /\ d.stopReason = c.stopReason /\ d.fragments = c.fragments
    /\ d.toolError = c.toolError /\ d.upstreamError = c.upstreamError
    /\ Adds(c.out, d.out)
    /\ \A k \in DOMAIN d.out : k \notin DOMAIN c.out => IsBlockEvent(d.out[k])
    /\ \A x : x \in DOMAIN d.toolIndex
                 <=> x \in DOMAIN c.toolIndex \/ (x = id /\ id # "invoke")
    /\ id = "invoke" => d.toolIndex = c.toolIndex
    /\ IF id \in DOMAIN c.toolIndex
       THEN \A k \in DOMAIN d.out : k \notin DOMAIN c.out => ~ StartsCall(d.out[k])
       ELSE \E k \in DOMAIN d.out :
               /\ k \notin DOMAIN c.out /\ StartsCall(d.out[k]) /\ d.out[k].id = id
               /\ d.out[k + 1].data = input
               /\ \A j \in DOMAIN d.out : j \notin DOMAIN c.out /\ StartsCall(d.out[j]) => j = k

LEMMA EmitToolUseSends ==
    ASSUME NEW c, Sane(c), NEW id, NEW input
    PROVE  SendsCall(c, EmitToolUse(c, id, input), id, input)
  <1> DEFINE known == id \in DOMAIN c.toolIndex
             index == ToolIndex(c, id)
             bs    == IF known THEN TextClosed(c) ELSE ToolBlocks(c)
             new   == IF known THEN TextEnded(c) ELSE ToolEvents(c, id, input)
             g     == Called(c, index, bs, new)
  <1>1. EmitToolUse(c, id, input) = g
    BY EmitToolUseShape
  <1>2. DOMAIN c = Fields /\ "invoke" \notin DOMAIN c.toolIndex
    BY DEF Sane, Typed
  <1>3. /\ bs \in Seq(Block) /\ Calls(bs, new) /\ Adds(c.out, new)
        /\ \A k \in DOMAIN new : k \notin DOMAIN c.out => IsBlockEvent(new[k])
        /\ \A i \in DOMAIN c.blocks : i \in DOMAIN bs /\ bs[i].type = c.blocks[i].type
    <2>1. CASE known
      BY <2>1, TextStops
    <2>2. CASE ~ known
      BY <2>2, ToolCalls, ToolSays
    <2> QED
      BY <2>1, <2>2
  <1>4. IF known
        THEN \A k \in DOMAIN new : k \notin DOMAIN c.out => ~ StartsCall(new[k])
        ELSE \E k \in DOMAIN new :
               /\ k \notin DOMAIN c.out /\ StartsCall(new[k]) /\ new[k].id = id
               /\ new[k + 1].data = input
               /\ \A j \in DOMAIN new : j \notin DOMAIN c.out /\ StartsCall(new[j]) => j = k
    <2>1. CASE known
      BY <2>1, TextStops
    <2>2. CASE ~ known
      BY <2>2, ToolSays
    <2> QED
      BY <2>1, <2>2
  <1>5. /\ \A x : x \in DOMAIN index <=> x \in DOMAIN c.toolIndex \/ (x = id /\ id # "invoke")
        /\ \A x \in DOMAIN index : index[x] \in DOMAIN bs /\ bs[index[x]].type = "tool_use"
        /\ id = "invoke" => index = c.toolIndex
    <2> DEFINE i == IF known THEN c.toolIndex[id] ELSE Len(c.blocks) + 1
    <2>1. i \in DOMAIN bs /\ bs[i].type = "tool_use"
      <3>1. CASE known
        BY <1>3, <3>1 DEF Sane, Tools
      <3>2. CASE ~ known
        BY <3>2, ToolCalls
      <3> QED
        BY <3>1, <3>2
    <2>2. \A x \in DOMAIN c.toolIndex :
             c.toolIndex[x] \in DOMAIN bs /\ bs[c.toolIndex[x]].type = "tool_use"
      BY <1>3 DEF Sane, Tools
    <2> HIDE DEF i, bs
    <2>3. CASE id = "invoke"
      BY <2>2, <2>3 DEF ToolIndex
    <2>4. CASE id # "invoke"
      <3>1. index = [x \in DOMAIN c.toolIndex \cup {id} |-> IF x = id THEN i ELSE c.toolIndex[x]]
        BY <2>4, Zenon DEF ToolIndex, i
      <3> HIDE DEF index
      <3> QED
        BY <2>1, <2>2, <2>4, <3>1
    <2> QED
      BY <2>3, <2>4
  <1> HIDE DEF index, bs, new
  <1>6. /\ Frame(c, g) /\ g.sniff = c.sniff /\ g.fragments = c.fragments
        /\ g.stopReason = c.stopReason /\ g.toolError = c.toolError
        /\ g.upstreamError = c.upstreamError /\ g.hasTool /\ g.output
        /\ g.toolIndex = index /\ g.blocks = bs /\ g.out = new
    BY <1>2, CalledIs
  <1> HIDE DEF g
  <1>7. Typed(g)
    BY <1>3, <1>6 DEF Sane, Typed, Frame, Adds
  <1>8. Tagged(g)
    BY <1>3, <1>6 DEF Sane, Tagged, Frame
  <1>9. Tools(g) /\ "invoke" \notin DOMAIN g.toolIndex
    BY <1>2, <1>5, <1>6 DEF Tools
  <1>10. Sane(g)
    BY <1>3, <1>6, <1>7, <1>8, <1>9 DEF Sane
  <1>11. SendsCall(c, g, id, input)
    BY <1>3, <1>4, <1>5, <1>6, <1>10, Zenon DEF SendsCall
  <1> QED
    BY <1>1, <1>11

\* A call found in the text.
LEMMA InvokeActs ==
    ASSUME NEW c, Sane(c), NEW input
    PROVE  Acts(c, EmitToolUse(c, "invoke", input)) /\ Spoken(EmitToolUse(c, "invoke", input))
  <1> DEFINE d == EmitToolUse(c, "invoke", input)
  <1>1. SendsCall(c, d, "invoke", input) /\ "invoke" \notin DOMAIN c.toolIndex
    BY EmitToolUseSends DEF Sane
  <1> HIDE DEF d
  <1>2. d.toolIndex = c.toolIndex
    BY <1>1 DEF SendsCall
  <1>3. \A k \in DOMAIN d.out : k \notin DOMAIN c.out
           => IsBlockEvent(d.out[k]) /\ (StartsCall(d.out[k]) => d.out[k].id = "invoke")
    BY <1>1 DEF SendsCall
  <1>4. Spares(c, d)
    BY <1>1, <1>2, <1>3 DEF SendsCall, Spares, Rest, Frame
  <1>5. Spoken(d) /\ Hush(d)
    BY <1>1 DEF SendsCall, Spoken, Hush
  <1>6. Acts(c, d)
    BY <1>1, <1>4, <1>5 DEF SendsCall, Acts, Keeps, Leaves
  <1> QED
    BY <1>5, <1>6 DEF d

-----------------------------------------------------------------------------
(* The sniff buffer is drained: what was in it is said, or held.             *)

LEMMA MinUpTo ==
    ASSUME NEW T \in SUBSET Nat, T # {}
    PROVE  Min(T) \in T
  <1>1. PICK x \in T : \A y \in T : x <= y
    BY LeastNumber
  <1> QED
    BY <1>1 DEF Min

LEMMA StripText ==
    ASSUME NEW s \in Text
    PROVE  StripTrailingStray(s) \in Text
  <1> DEFINE T == {k \in 0 .. Len(s) :
                     \/ k = Len(s)
                     \/ /\ \A j \in (k + 1) .. Len(s) : s[j] \in {"call", "n"}
                        /\ s[k + 1] = "call"
                        /\ k = 0 \/ s[k] \in EndsLine}
  <1>1. Len(s) \in Nat
    BY DEF Text
  <1>2. T \in SUBSET Nat /\ T \in SUBSET (0 .. Len(s)) /\ T # {}
    <2>1. Len(s) \in T
      BY <1>1
    <2>2. T \in SUBSET (0 .. Len(s)) /\ 0 .. Len(s) \in SUBSET Nat
      BY <1>1
    <2> HIDE DEF T
    <2> QED
      BY <2>1, <2>2
  <1>3. StripTrailingStray(s) = SubSeq(s, 1, Min(T))
    BY Zenon DEF StripTrailingStray
  <1> HIDE DEF T
  <1>4. Min(T) \in 0 .. Len(s)
    BY <1>2, MinUpTo
  <1> HIDE DEF StripTrailingStray
  <1> DEFINE m == Min(T)
  <1>5. m \in Int /\ m <= Len(s)
    BY <1>1, <1>4
  <1> HIDE DEF m
  <1>6. SubSeq(s, 1, m) \in Text
    BY <1>5, StartText
  <1> QED
    BY <1>3, <1>6 DEF m

LEMMA InvokeEndInside ==
    ASSUME NEW s \in Text, NEW start
    PROVE  FindInvokeBlockEnd(s, start) \in 0 .. Len(s)
  <1> DEFINE N     == {k \in InvokeOpens(s) : k > start}
             next  == First(N)
             bound == IF next = 0 THEN Len(s) + 1 ELSE next
             T     == {k \in Places(s, InvokeClose) : k > start /\ k + Len(InvokeClose) <= bound}
             close == Latest(T)
  <1>1. FindInvokeBlockEnd(s, start) = IF close = 0 THEN 0 ELSE close + Len(InvokeClose) - 1
    BY Zenon DEF FindInvokeBlockEnd
  <1>2. Len(s) \in Nat /\ Places(s, InvokeClose) \in SUBSET (1 .. Len(s))
        /\ N \in SUBSET (1 .. Len(s)) /\ N \in SUBSET Nat
    BY DEF Text, Places, InvokeOpens
  <1>3. bound \in Nat /\ bound <= Len(s) + 1
    <2>1. N = {} => next = 0
      BY DEF First
    <2> HIDE DEF N
    <2>2. next \in Nat /\ (N # {} => next \in N)
      BY <1>2, FirstIsIn
    <2>3. N # {} => next \in 1 .. Len(s)
      BY <1>2, <2>2
    <2> HIDE DEF next
    <2> QED
      BY <1>2, <2>1, <2>3
  <1> HIDE DEF bound, next, N
  <1>4. T \in SUBSET (1 .. Len(s))
    BY <1>2
  <1>5. \A k \in T : k + 3 <= Len(s) + 1
    BY <1>2, <1>3, Tags
  <1>6. T = {} => close = 0
    BY DEF Latest
  <1> HIDE DEF T
  <1>7. close \in 0 .. Len(s) /\ (T # {} => close \in T)
    BY <1>2, <1>4, LatestIsIn
  <1> HIDE DEF close
  <1>8. close # 0 => close + 3 <= Len(s) + 1
    BY <1>5, <1>6, <1>7
  <1>9. close + 3 - 1 = close + 2 /\ close + 2 \in Nat
    BY <1>2, <1>7
  <1> QED
    BY <1>1, <1>2, <1>7, <1>8, Tags

LEMMA PartialInvokeInside ==
    ASSUME NEW s \in Text
    PROVE  PartialInvokeTag(s) \in Text /\ Len(PartialInvokeTag(s)) <= Len(s)
  <1> DEFINE T  == {k \in DOMAIN s : s[k] = "<"}
             lt == Latest(T)
  <1>1. Len(s) \in Nat /\ T \in SUBSET (1 .. Len(s)) /\ <<>> \in Text /\ Len(<<>>) = 0
    BY Tags DEF Text
  <1>2. \/ PartialInvokeTag(s) = <<>>
        \/ lt # 0 /\ PartialInvokeTag(s) = From(s, lt)
    BY DEF PartialInvokeTag
  <1> HIDE DEF T
  <1>3. lt \in 0 .. Len(s)
    BY <1>1, LatestIsIn
  <1> HIDE DEF lt
  <1>4. CASE PartialInvokeTag(s) = <<>>
    BY <1>1, <1>4
  <1>5. CASE lt # 0 /\ PartialInvokeTag(s) = From(s, lt)
    <2>1. lt \in Nat /\ lt > 0 /\ lt <= Len(s)
      BY <1>1, <1>3, <1>5
    <2>2. From(s, lt) \in Text /\ Len(From(s, lt)) = Len(s) - lt + 1
      BY <2>1, FromText
    <2>3. Len(s) - lt + 1 <= Len(s)
      BY <1>1, <2>1
    <2> QED
      BY <1>5, <2>2, <2>3
  <1> QED
    BY <1>2, <1>4, <1>5

\* d is c after it has said something of a text; with it, everything.
Speaks(c, d) == Sane(d) /\ Spares(c, d) /\ Frame(c, d) /\ Hush(d)

LEMMA SpeaksThen ==
    ASSUME NEW c, NEW d, NEW e, Speaks(c, d), Speaks(d, e)
    PROVE  Speaks(c, e)
  <1>1. Spares(c, e)
    BY SparesThen DEF Speaks
  <1> QED
    BY <1>1 DEF Speaks, Frame

LEMMA EmitSays ==
    ASSUME NEW c, Sane(c), Hush(c), NEW text \in Text
    PROVE  /\ Speaks(c, EmitText(c, text)) /\ EmitText(c, text).sniff = c.sniff
           /\ text # <<>> => Spoken(EmitText(c, text))
  BY EmitTextSays DEF Speaks, Leaves

LEMMA TakeInvokeSays ==
    ASSUME NEW c, Sane(c), Hush(c), NEW buf \in Text, NEW before \in Text,
           NEW start, NEW end \in 1 .. Len(buf), NEW leak
    PROVE  LET d == TakeInvoke(c, buf, before, start, end, leak) IN Speaks(c, d) /\ Spoken(d)
  <1> DEFINE d == EmitText(c, before)
             e == EmitToolUse(d, "invoke", SubSeq(buf, start, end))
             t == SubSeq(buf, 1, end)
  <1>1. Speaks(c, d)
    BY EmitSays
  <1> HIDE DEF d
  <1>2. Acts(d, e) /\ Spoken(e)
    BY <1>1, InvokeActs DEF Speaks
  <1> HIDE DEF e
  <1>3. Speaks(d, e)
    BY <1>1, <1>2 DEF Speaks, Acts, Keeps, Leaves
  <1>4. Speaks(c, e)
    BY <1>1, <1>3, SpeaksThen
  <1>5. t \in Text /\ t # <<>>
    <2>1. Len(buf) \in Nat
      BY DEF Text
    <2>2. end \in Int /\ end <= Len(buf) /\ 1 <= end
      BY <2>1
    <2>3. t \in Text /\ Len(t) = end
      BY <2>2, StartText
    <2>4. Len(t) # 0
      BY <2>2, <2>3
    <2> HIDE DEF t
    <2> QED
      BY <2>3, <2>4
  <1> HIDE DEF t
  <1>6. Speaks(c, EmitText(c, t)) /\ Spoken(EmitText(c, t))
    BY <1>5, EmitSays
  <1> QED
    BY <1>2, <1>4, <1>6 DEF TakeInvoke, d, e, t

\* A state of the loop that drains the sniff buffer of c.
DrainingSo(c, s) == Speaks(c, s.c) /\ s.buf \in Text /\ s.done \in BOOLEAN

\* Something has been said, or is held.
SaidSo(s, flush) == Spoken(s.c) \/ (s.done /\ ~ flush /\ s.c.sniff # <<>>)

LEMMA DrainedSays ==
    ASSUME NEW c, NEW d, Speaks(c, d), NEW sniff \in Text
    PROVE  /\ DrainingSo(c, Drained(d, sniff)) /\ Drained(d, sniff).done
           /\ Drained(d, sniff).c.sniff = sniff
           /\ Spoken(d) => Spoken(Drained(d, sniff).c)
  <1> DEFINE e == [d EXCEPT !.sniff = sniff]
  <1>1. DOMAIN d = Fields
    BY DEF Speaks, Frame
  <1>2. Alike(d, e) /\ e.sniff = sniff /\ e.guard = d.guard
    BY <1>1 DEF Alike, Rest, Frame, Fields
  <1>3. /\ Drained(d, sniff).c = e /\ Drained(d, sniff).buf = <<>>
        /\ Drained(d, sniff).done = TRUE
    BY DEF Drained
  <1> HIDE DEF e
  <1>4. Keeps(d, e)
    BY <1>2, AlikeSane DEF Speaks
  <1>5. Speaks(d, e)
    BY <1>2, <1>4 DEF Keeps, Speaks, Alike
  <1>6. Speaks(c, e)
    BY <1>5, SpeaksThen
  <1>7. Spoken(d) => Spoken(e)
    BY <1>4, SpokenStays DEF Keeps
  <1> QED
    BY <1>2, <1>3, <1>6, <1>7, Tags DEF DrainingSo

LEMMA DrainPassSays ==
    ASSUME NEW c, NEW s, DrainingSo(c, s), NEW flush
    PROVE  LET t == DrainPass(s, flush) IN
           /\ DrainingSo(c, t)
           /\ SaidSo(s, flush) \/ (~ s.done /\ s.buf # <<>>) => SaidSo(t, flush)
  <1> DEFINE d      == s.c
             buf    == s.buf
             start  == FindInvokeStart(buf)
             end    == FindInvokeBlockEnd(buf, start)
             before == StripTrailingStray(SubSeq(buf, 1, start - 1))
             leak   == LooksLikeRealLeak(before) /\ ~ AdvanceFence(d.fence, before).open
             open   == From(buf, start)
             held   == IF flush THEN <<>>
                       ELSE IF start = 0 THEN PartialInvokeTag(buf)
                       ELSE IF leak /\ Len(open) <= MaxInvokeHold THEN open ELSE <<>>
             taken  == [c    |-> TakeInvoke(d, buf, before, start, end, leak),
                        buf  |-> From(buf, end + 1),
                        done |-> FALSE]
             a      == SubSeq(buf, 1, start - 1)
             r      == SubSeq(buf, 1, Len(buf) - Len(held))
             b      == From(r, start)
             f      == EmitText(d, a)
             g      == EmitText(f, b)
             h      == EmitText(d, r)
             t      == DrainPass(s, flush)
  <1> SUFFICES /\ DrainingSo(c, t)
               /\ SaidSo(s, flush) \/ (~ s.done /\ s.buf # <<>>) => SaidSo(t, flush)
    OBVIOUS
  <1>1. t = IF s.done THEN s
            ELSE IF start > 0 /\ end > 0 THEN taken
            ELSE IF start > 0 /\ leak THEN Drained(g, held) ELSE Drained(h, held)
    BY Zenon DEF DrainPass
  <1>2. buf \in Text /\ Speaks(c, d) /\ Sane(d) /\ Hush(d)
    BY DEF DrainingSo, Speaks
  <1> HIDE DEF d, buf, t
  <1>3. start \in 0 .. Len(buf) /\ end \in 0 .. Len(buf) /\ Len(buf) \in Nat
    <2>1. start \in Nat /\ (start = 0 \/ start <= Len(buf))
      BY <1>2, InvokeStartIs
    <2>2. end \in 0 .. Len(buf)
      BY <1>2, InvokeEndInside
    <2>3. Len(buf) \in Nat
      BY <1>2 DEF Text
    <2> HIDE DEF start, end
    <2> QED
      BY <2>1, <2>2, <2>3
  <1> HIDE DEF start
  <1>4. a \in Text /\ before \in Text
    <2>1. start - 1 \in Int /\ start - 1 <= Len(buf)
      BY <1>3
    <2>2. a \in Text
      BY <1>2, <2>1, StartText
    <2> HIDE DEF a
    <2>3. StripTrailingStray(a) \in Text
      BY <2>2, StripText
    <2> QED
      BY <2>2, <2>3 DEF a
  <1> HIDE DEF end, before, leak, a
  <1>5. /\ held \in Text /\ Len(held) \in Nat /\ Len(held) <= Len(buf)
        /\ start > 0 => start <= Len(buf) - Len(held) + 1
        /\ flush => held = <<>>
    <2>1. Len(<<>>) = 0
      OBVIOUS
    <2>2. <<>> \in Text /\ PartialInvokeTag(buf) \in Text
          /\ Len(PartialInvokeTag(buf)) <= Len(buf)
      BY <1>2, Tags, PartialInvokeInside
    <2>3. start > 0 => open \in Text /\ Len(open) = Len(buf) - start + 1
      BY <1>2, <1>3, FromText
    <2> HIDE DEF open
    <2>4. CASE held = <<>>
      BY <1>3, <2>1, <2>2, <2>4
    <2>5. CASE start = 0 /\ held = PartialInvokeTag(buf) /\ ~ flush
      <3> HIDE DEF held
      <3>1. Len(held) \in Nat
        BY <2>2, <2>5 DEF Text
      <3> QED
        BY <2>2, <2>5, <3>1
    <2>6. CASE start # 0 /\ held = open /\ ~ flush
      <3> HIDE DEF held
      <3> QED
        BY <1>3, <2>3, <2>6
    <2> QED
      BY <2>4, <2>5, <2>6
  <1> HIDE DEF held
  <1>6. r \in Text /\ Len(r) = Len(buf) - Len(held) /\ (held = <<>> /\ buf # <<>> => r # <<>>)
    <2>1. Len(buf) - Len(held) \in Nat
      BY <1>3, <1>5
    <2>2. Len(buf) - Len(held) \in Int /\ Len(buf) - Len(held) <= Len(buf)
      BY <1>3, <1>5
    <2>3. r \in Text /\ Len(r) = Len(buf) - Len(held)
      <3>1. r \in Text /\ Len(r) = IF 1 <= Len(buf) - Len(held) THEN Len(buf) - Len(held) ELSE 0
        BY <1>2, <2>2, StartText
      <3> HIDE DEF r
      <3> QED
        BY <2>1, <3>1
    <2> HIDE DEF r
    <2>4. held = <<>> => Len(r) = Len(buf)
      <3>1. Len(<<>>) = 0
        OBVIOUS
      <3> QED
        BY <1>3, <2>3, <3>1
    <2>5. buf # <<>> => Len(buf) # 0
      BY <1>2 DEF Text
    <2> QED
      BY <2>3, <2>4, <2>5
  <1> HIDE DEF r
  <1>7. start > 0 => b \in Text /\ (held = <<>> => b # <<>>)
    <2> SUFFICES ASSUME start > 0 PROVE b \in Text /\ (held = <<>> => b # <<>>)
      OBVIOUS
    <2>1. start \in Nat
      BY <1>3
    <2>2. b \in Text /\ Len(b) = IF start <= Len(r) THEN Len(r) - start + 1 ELSE 0
      BY <1>6, <2>1, FromText
    <2> HIDE DEF b
    <2>3. held = <<>> => Len(b) # 0
      <3>1. Len(<<>>) = 0
        OBVIOUS
      <3>2. held = <<>> => Len(r) = Len(buf)
        BY <1>3, <1>6, <3>1
      <3> QED
        BY <1>3, <2>2, <3>2
    <2> QED
      BY <2>2, <2>3
  <1> HIDE DEF b
  <1>8. CASE s.done
    BY <1>1, <1>8
  <1>9. CASE ~ s.done /\ start > 0 /\ end > 0
    <2>1. t = taken
      BY <1>1, <1>9
    <2>2. Speaks(d, taken.c) /\ Spoken(taken.c)
      <3>1. end \in 1 .. Len(buf)
        BY <1>3, <1>9
      <3> QED
        BY <1>2, <1>4, <3>1, TakeInvokeSays
    <2>3. taken.buf \in Text /\ taken.done \in BOOLEAN
      <3>1. end + 1 \in Nat /\ end + 1 > 0
        BY <1>3
      <3>2. From(buf, end + 1) \in Text
        BY <1>2, <3>1, FromText
      <3> QED
        BY <3>2
    <2> HIDE DEF taken
    <2>4. DrainingSo(c, taken)
      BY <1>2, <2>2, <2>3, SpeaksThen DEF DrainingSo
    <2> QED
      BY <2>1, <2>2, <2>4 DEF SaidSo
  <1>10. CASE ~ s.done /\ ~ (start > 0 /\ end > 0) /\ start > 0 /\ leak
    <2>1. t = Drained(g, held)
      BY <1>1, <1>10
    <2>2. Speaks(d, f)
      BY <1>2, <1>4, EmitSays
    <2> HIDE DEF f
    <2>3. Speaks(f, g) /\ (b # <<>> => Spoken(g))
      BY <1>7, <1>10, <2>2, EmitSays DEF Speaks
    <2> HIDE DEF g
    <2>4. Speaks(c, g)
      BY <1>2, <2>2, <2>3, SpeaksThen
    <2>5. /\ DrainingSo(c, t) /\ t.done /\ t.c.sniff = held
          /\ Spoken(g) => Spoken(t.c)
      BY <1>5, <2>1, <2>4, DrainedSays
    <2>6. held = <<>> => Spoken(g)
      BY <1>7, <1>10, <2>3
    <2> QED
      BY <1>5, <2>5, <2>6 DEF SaidSo, buf
  <1>11. CASE ~ s.done /\ ~ (start > 0 /\ end > 0) /\ ~ (start > 0 /\ leak)
    <2>1. t = Drained(h, held)
      BY <1>1, <1>11
    <2>2. Speaks(d, h) /\ (r # <<>> => Spoken(h))
      BY <1>2, <1>6, EmitSays
    <2>3. Spoken(d) => Spoken(h)
      BY <2>2, SpokenStays DEF Speaks
    <2> HIDE DEF h
    <2>4. Speaks(c, h)
      BY <1>2, <2>2, SpeaksThen
    <2>5. /\ DrainingSo(c, t) /\ t.done /\ t.c.sniff = held
          /\ Spoken(h) => Spoken(t.c)
      BY <1>5, <2>1, <2>4, DrainedSays
    <2>6. held = <<>> /\ buf # <<>> => Spoken(h)
      BY <1>6, <2>2
    <2>7. SaidSo(s, flush) => Spoken(d)
      BY <1>11 DEF SaidSo, d
    <2> QED
      BY <1>5, <2>3, <2>5, <2>6, <2>7 DEF SaidSo, buf
  <1> QED
    BY <1>8, <1>9, <1>10, <1>11

LEMMA DrainSniffSays ==
    ASSUME NEW c, Sane(c), Hush(c), NEW flush
    PROVE  LET d == DrainSniff(c, flush) IN
           /\ Speaks(c, d)
           /\ c.sniff # <<>> => Spoken(d) \/ (~ flush /\ d.sniff # <<>>)
  <1> DEFINE b     == [c EXCEPT !.sniff = <<>>]
             start == [c |-> b, buf |-> c.sniff, done |-> FALSE]
             Loop[n \in Nat] == IF n = 0 THEN start ELSE DrainPass(Loop[n - 1], flush)
             N     == Len(c.sniff) + 1
  <1>1. DrainSniff(c, flush) = Loop[N].c
    BY Zenon DEF DrainSniff
  <1>2. DrainingSo(c, start) /\ N \in Nat /\ N # 0 /\ ~ start.done /\ start.buf = c.sniff
    <2>1. DOMAIN c = Fields /\ c.sniff \in Text /\ <<>> \in Text
      BY Tags DEF Sane, Typed
    <2>2. Alike(c, b) /\ b.sniff = <<>> /\ b.guard = c.guard
      BY <2>1 DEF Alike, Rest, Frame, Fields
    <2>3. start.c = b /\ start.buf = c.sniff /\ start.done = FALSE
      OBVIOUS
    <2> HIDE DEF b, start
    <2>4. Keeps(c, b)
      BY <2>1, <2>2, AlikeSane
    <2>5. Speaks(c, b)
      BY <2>2, <2>4 DEF Keeps, Speaks, Alike
    <2>6. DrainingSo(c, start)
      BY <2>1, <2>3, <2>5 DEF DrainingSo
    <2>7. N \in Nat /\ N # 0
      BY <2>1 DEF Text
    <2> QED
      BY <2>3, <2>6, <2>7
  <1> HIDE DEF start, N
  <1>3. Loop = [n \in Nat |-> IF n = 0 THEN start ELSE DrainPass(Loop[n - 1], flush)]
    BY DrainLoop
  <1> HIDE DEF Loop
  <1> DEFINE Fine(n) == /\ DrainingSo(c, Loop[n])
                        /\ n # 0 /\ c.sniff # <<>> => SaidSo(Loop[n], flush)
             Bad == {n \in Nat : ~ Fine(n)}
  <1>4. Bad = {}
    <2>1. SUFFICES ASSUME Bad # {} PROVE FALSE
      OBVIOUS
    <2>2. PICK n \in Bad : \A m \in Bad : n <= m
      <3>1. Bad \in SUBSET Nat
        OBVIOUS
      <3> HIDE DEF Bad
      <3> QED
        BY <2>1, <3>1, LeastNumber, Zenon
    <2>3. Loop[0] = start
      BY <1>3
    <2>4. n # 0
      BY <1>2, <2>2, <2>3
    <2>5. n - 1 \in Nat /\ n - 1 \notin Bad /\ n \in Nat
      BY <2>2, <2>4
    <2>6. Loop[n] = DrainPass(Loop[n - 1], flush)
      BY <1>3, <2>2, <2>4
    <2>7. Fine(n - 1)
      BY <2>5
    <2>8. c.sniff # <<>>
             => \/ SaidSo(Loop[n - 1], flush)
                \/ ~ Loop[n - 1].done /\ Loop[n - 1].buf # <<>>
      <3>1. CASE n - 1 = 0
        BY <1>2, <2>3, <3>1
      <3>2. CASE n - 1 # 0
        BY <2>7, <3>2
      <3> QED
        BY <3>1, <3>2
    <2>9. Fine(n)
      BY <2>6, <2>7, <2>8, DrainPassSays
    <2> QED
      BY <2>2, <2>9
  <1>5. Fine(N)
    <2> HIDE DEF Fine
    <2> QED
      BY <1>2, <1>4
  <1> QED
    BY <1>1, <1>2, <1>5 DEF DrainingSo, SaidSo

\* It has been said, or is held to be said.
Due(c) == Spoken(c) \/ c.sniff # <<>>

LEMMA EmitSniffedSays ==
    ASSUME NEW c, Sane(c), Hush(c), NEW text \in Text
    PROVE  LET d == EmitSniffed(c, text) IN
           Speaks(c, d) /\ (text # <<>> \/ Due(c) => Due(d))
  <1> DEFINE b == [c EXCEPT !.sniff = @ \o text]
             d == DrainSniff(b, FALSE)
  <1>1. DOMAIN c = Fields /\ c.sniff \in Text
    BY DEF Sane, Typed
  <1>2. Alike(c, b) /\ b.sniff = c.sniff \o text /\ b.guard = c.guard
    BY <1>1 DEF Alike, Rest, Frame, Fields
  <1>3. EmitSniffed(c, text) = IF text = <<>> THEN c ELSE d
    BY Zenon DEF EmitSniffed
  <1> HIDE DEF b
  <1>4. b.sniff \in Text /\ (text # <<>> => b.sniff # <<>>)
    <2>1. b.sniff \in Text /\ Len(b.sniff) = Len(c.sniff) + Len(text)
      BY <1>1, <1>2, JoinText
    <2>2. Len(c.sniff) \in Nat /\ Len(text) \in Nat /\ (text # <<>> => Len(text) # 0)
      BY <1>1 DEF Text
    <2>3. text # <<>> => Len(b.sniff) # 0
      BY <2>1, <2>2
    <2>4. Len(<<>>) = 0
      OBVIOUS
    <2> QED
      BY <2>1, <2>3, <2>4
  <1>5. Keeps(c, b)
    BY <1>2, <1>4, AlikeSane
  <1>6. Speaks(c, b)
    BY <1>2, <1>5 DEF Keeps, Speaks, Alike
  <1>7. Speaks(b, d) /\ (b.sniff # <<>> => Spoken(d) \/ d.sniff # <<>>)
    BY <1>6, DrainSniffSays DEF Speaks
  <1> HIDE DEF d
  <1>8. CASE text = <<>>
    <2>1. Speaks(c, c)
      BY <1>1, SparesSelf DEF Speaks, Frame, Sane
    <2> QED
      BY <1>3, <1>8, <2>1
  <1>9. CASE text # <<>>
    BY <1>3, <1>4, <1>6, <1>7, <1>9, SpeaksThen DEF Due
  <1> QED
    BY <1>8, <1>9

-----------------------------------------------------------------------------
(* The handlers of text and thinking, one after the other.                   *)

Fair(c) == Sane(c) /\ Hush(c)

\* d is c after any of them.
Goes(c, d) == Fair(d) /\ Spares(c, d) /\ (Told(c) => Told(d))

LEMMA GoesThen ==
    ASSUME NEW c, NEW d, NEW e, Goes(c, d), Goes(d, e)
    PROVE  Goes(c, e)
  BY SparesThen DEF Goes

LEMMA GoesSelf ==
    ASSUME NEW c, Fair(c)
    PROVE  Goes(c, c)
  BY SparesSelf DEF Goes, Fair, Sane

LEMMA ActsGoes ==
    ASSUME NEW c, Fair(c), NEW d, Acts(c, d)
    PROVE  Goes(c, d)
  <1>1. Spoken(c) => Spoken(d)
    BY SpokenStays DEF Acts, Keeps
  <1>2. Told(c) => Told(d)
    BY <1>1 DEF Told, Acts, Leaves, Frame
  <1> QED
    BY <1>2 DEF Goes, Fair, Acts, Keeps

LEMMA EmitSniffedGoes ==
    ASSUME NEW c, Fair(c), NEW text \in Text
    PROVE  LET d == EmitSniffed(c, text) IN
           Goes(c, d) /\ Frame(c, d) /\ (text # <<>> => Due(d))
  <1> DEFINE d == EmitSniffed(c, text)
  <1>1. Speaks(c, d) /\ (text # <<>> \/ Due(c) => Due(d))
    BY EmitSniffedSays DEF Fair
  <1> HIDE DEF d
  <1>2. Told(c) => Told(d)
    BY <1>1 DEF Told, Due, Speaks, Frame
  <1>3. Goes(c, d) /\ Frame(c, d) /\ (text # <<>> => Due(d))
    BY <1>1, <1>2 DEF Goes, Fair, Speaks
  <1> QED
    BY <1>3 DEF d

\* Only the thinking, its buffer and the like are others.
Retagged(c, e) ==
    /\ Rest(c, e) /\ Typed(e) /\ e.blocks = c.blocks /\ e.out = c.out /\ e.sniff = c.sniff
    /\ e.hasTool = c.hasTool /\ e.output = c.output /\ e.guard = c.guard

LEMMA RetagFair ==
    ASSUME NEW c, Fair(c), NEW e, Retagged(c, e), Tagged(e)
    PROVE  Fair(e) /\ Spares(c, e) /\ (Spoken(c) => Spoken(e))
  <1>1. Tools(e) /\ Calls(e.blocks, e.out) /\ "invoke" \notin DOMAIN e.toolIndex
    BY DEF Fair, Sane, Tools, Retagged, Rest
  <1>2. Adds(c.out, e.out)
    BY AddsSelf DEF Retagged, Fair, Sane, Typed
  <1>3. Spares(c, e)
    BY <1>2 DEF Spares, Retagged
  <1>4. Hush(e) /\ (Spoken(c) => Spoken(e))
    BY DEF Retagged, Fair, Hush, Spoken
  <1> QED
    BY <1>1, <1>3, <1>4 DEF Fair, Sane, Retagged

LEMMA AlikeActs ==
    ASSUME NEW c, Sane(c), NEW d, Alike(c, d), d.sniff = c.sniff, d.guard = c.guard
    PROVE  Acts(c, d)
  <1>1. c.sniff \in Text
    BY DEF Sane, Typed
  <1>2. Keeps(c, d)
    BY <1>1, AlikeSane
  <1> QED
    BY <1>2 DEF Acts, Leaves, Alike

LEMMA ThinkingPlain ==
    ASSUME NEW c, Sane(c), NEW kind, NEW data
    PROVE  LET e == Delta(c.thinking, kind, data) IN
           /\ Plain(c.blocks, e) /\ IsBlockEvent(e)
           /\ kind # "signature" /\ data # <<>> => Content(e)
  <1> DEFINE e == Delta(c.thinking, kind, data)
  <1>1. e.ev = "content_block_delta" /\ e.index = c.thinking /\ e.kind = kind /\ e.data = data
    BY DEF Delta
  <1> HIDE DEF e
  <1>2. Len(c.blocks) \in Nat /\ DOMAIN c.blocks = 1 .. Len(c.blocks) /\ c.thinking \in Nat
    BY BlocksAre DEF Sane, Typed
  <1>3. /\ c.thinking \in 0 .. Len(c.blocks)
        /\ c.thinking \in DOMAIN c.blocks => c.blocks[c.thinking].type # "tool_use"
    BY <1>2 DEF Sane, Tagged
  <1>4. /\ Plain(c.blocks, e) /\ IsBlockEvent(e)
        /\ kind # "signature" /\ data # <<>> => Content(e)
    BY <1>1, <1>3 DEF Plain, IsBlockEvent, StartsCall, Content
  <1> QED
    BY <1>4 DEF e

LEMMA SendThinkingActs ==
    ASSUME NEW c, Sane(c), NEW text
    PROVE  /\ Acts(c, SendThinking(c, text)) /\ Acts(c, SendThinkingNonEmpty(c, text))
           /\ text # <<>> => Shown(SendThinking(c, text).out)
  <1> DEFINE e == Delta(c.thinking, "thinking", text)
             d == Send(c, e)
  <1>1. Plain(c.blocks, e) /\ IsBlockEvent(e) /\ (text # <<>> => Content(e))
    BY ThinkingPlain
  <1> HIDE DEF e
  <1>2. Acts(c, d) /\ d.out = Append(c.out, e)
    BY <1>1, SendActs
  <1>3. IsSeq(c.out)
    BY DEF Sane, Typed
  <1> HIDE DEF d
  <1>4. text # <<>> => Shown(d.out)
    BY <1>1, <1>2, <1>3, AppendSeq DEF Appended, Shown
  <1> QED
    BY <1>2, <1>4, ActsSelf DEF SendThinking, SendThinkingNonEmpty, d, e

LEMMA FinishThinkingActs ==
    ASSUME NEW c, Sane(c), NEW signature
    PROVE  Acts(c, FinishThinking(c, signature))
  <1> DEFINE t == SendThinking(c, <<>>)
             e == Delta(c.thinking, "signature", signature)
             g == Send(t, e)
  <1>1. Acts(c, t)
    BY SendThinkingActs
  <1> HIDE DEF t
  <1>2. t.thinking = c.thinking /\ Sane(t)
    BY <1>1 DEF Acts, Keeps, Leaves, Frame
  <1>3. Plain(t.blocks, e) /\ IsBlockEvent(e)
    BY <1>2, ThinkingPlain
  <1> HIDE DEF e
  <1>4. Acts(t, g)
    BY <1>2, <1>3, SendActs
  <1> HIDE DEF g
  <1>5. Acts(g, StopBlock(g, c.thinking))
    BY <1>4, StopBlockActs DEF Acts, Keeps
  <1>6. Acts(c, StopBlock(g, c.thinking))
    BY <1>1, <1>4, <1>5, ActsThen
  <1> QED
    BY <1>6 DEF FinishThinking, t, e, g

LEMMA CloseThinkingActs ==
    ASSUME NEW c, Sane(c)
    PROVE  Acts(c, CloseThinking(c))
  <1> DEFINE b == [c EXCEPT !.signature = <<>>]
             s == IF c.signature = <<>> THEN Placeholder ELSE c.signature
  <1>1. DOMAIN c = Fields
    BY DEF Sane, Typed
  <1>2. Alike(c, b) /\ b.sniff = c.sniff /\ b.guard = c.guard
    BY <1>1 DEF Alike, Rest, Frame, Fields
  <1>3. CloseThinking(c) = IF ThinkingOpen(c) THEN FinishThinking(b, s) ELSE c
    BY Zenon DEF CloseThinking
  <1> HIDE DEF b, s
  <1>4. Acts(c, b)
    BY <1>2, AlikeActs
  <1>5. Acts(b, FinishThinking(b, s))
    BY <1>4, FinishThinkingActs DEF Acts, Keeps
  <1> QED
    BY <1>3, <1>4, <1>5, ActsThen, ActsSelf

LEMMA CloseTextActs ==
    ASSUME NEW c, Sane(c)
    PROVE  Acts(c, CloseText(c))
  <1> DEFINE b == [c EXCEPT !.text = 0]
             i == IF IsOpen(c, c.text, "text") THEN c.text ELSE 0
  <1>1. DOMAIN c = Fields
    BY DEF Sane, Typed
  <1>2. Alike(c, b) /\ b.sniff = c.sniff /\ b.guard = c.guard
    BY <1>1 DEF Alike, Rest, Frame, Fields
  <1>3. CloseText(c) = StopBlock(b, i)
    BY Zenon DEF CloseText
  <1> HIDE DEF b, i
  <1>4. Acts(c, b)
    BY <1>2, AlikeActs
  <1>5. Acts(b, StopBlock(b, i))
    BY <1>4, StopBlockActs DEF Acts, Keeps
  <1> QED
    BY <1>3, <1>4, <1>5, ActsThen

LEMMA StartThinkingGoes ==
    ASSUME NEW c, Fair(c), NEW e, Retagged(c, e), Thinking
    PROVE  LET d == StartThinking(e) IN
           /\ Fair(d) /\ Spares(c, d) /\ d.thinking # 0
           /\ d.inThinking = e.inThinking /\ d.buffer = e.buffer
  <1> DEFINE n   == Len(e.blocks) + 1
             b   == [e EXCEPT !.thinking = n]
             bs  == Append(e.blocks, Fresh("thinking"))
             s   == StartEvent(n, "thinking", "-")
             new == Append(e.out, s)
             d   == Reshaped(b, bs, new)
  <1>1. Typed(e) /\ DOMAIN e = Fields /\ e.blocks \in Seq(Block) /\ IsSeq(e.out)
        /\ e.blocks = c.blocks /\ e.out = c.out /\ Sane(c)
    BY DEF Retagged, Typed, Fair
  <1>2. /\ DOMAIN b = Fields /\ b.blocks = e.blocks /\ b.out = e.out
    BY <1>1 DEF Fields
  <1>3. StartThinking(e) = d
    <2>1. StartThinking(e) = StartBlock(b, "thinking", "-")
      BY DEF StartThinking
    <2> HIDE DEF b
    <2> QED
      BY <1>2, <2>1, StartBlockShape
  <1>4. /\ More(e.blocks, bs) /\ Len(e.blocks) \in Nat /\ Len(bs) = n
        /\ DOMAIN bs = 1 .. n /\ bs[n] = Fresh("thinking") /\ n \in Nat /\ n # 0
        /\ \A i \in DOMAIN bs : i \notin DOMAIN c.blocks => bs[i].type = "thinking"
    BY <1>1, MoreFresh DEF BlockTypes
  <1>5. n \in DOMAIN bs /\ bs[n].type = "thinking"
    BY <1>4 DEF Fresh
  <1>6. Plain(bs, s) /\ IsBlockEvent(s)
    <2> HIDE DEF n, bs
    <2> QED
      BY <1>4, <1>5, StartPlain
  <1> HIDE DEF s
  <1>7. Adds(c.out, new) /\ \A k \in DOMAIN new : k \notin DOMAIN c.out => new[k] = s
    BY <1>1, AddsOne
  <1>8. bs \in Seq(Block)
    BY <1>4 DEF More
  <1> HIDE DEF bs, new
  <1>9. /\ DOMAIN d = Fields /\ d.blocks = bs /\ d.out = new /\ d.thinking = n
        /\ d.inThinking = e.inThinking /\ d.buffer = e.buffer /\ d.extracted = e.extracted
        /\ d.stripNewline = e.stripNewline /\ d.sniff = e.sniff /\ d.xml = e.xml
        /\ d.stopReason = e.stopReason /\ d.toolIndex = e.toolIndex
        /\ d.fragments = e.fragments /\ d.toolError = e.toolError
        /\ d.upstreamError = e.upstreamError /\ d.hasTool = e.hasTool /\ d.output = e.output
        /\ d.guard = e.guard
    <2> HIDE DEF n
    <2> QED
      BY <1>1 DEF Reshaped, Fields
  <1> HIDE DEF d, n
  <1>10. Typed(d)
    BY <1>1, <1>4, <1>7, <1>8, <1>9 DEF Typed, Adds
  <1>11. Tagged(d)
    BY <1>4, <1>5, <1>9 DEF Tagged
  <1>12. Rest(c, d)
    BY <1>9 DEF Rest, Retagged
  <1>13. Hush(d)
    <2>1. \A i \in DOMAIN d.blocks : \/ d.blocks[i].type = "thinking"
                                     \/ i \in DOMAIN c.blocks /\ d.blocks[i].type = c.blocks[i].type
      BY <1>1, <1>4, <1>9 DEF More
    <2> QED
      BY <1>1, <1>7, <1>9, <2>1, HushBy DEF Retagged, Fair
  <1>14. Keeps(c, d)
    <2>1. \A k \in DOMAIN d.out : k \notin DOMAIN c.out
             => Plain(d.blocks, d.out[k]) /\ IsBlockEvent(d.out[k])
      BY <1>6, <1>7, <1>9
    <2>2. More(c.blocks, d.blocks) /\ Adds(c.out, d.out)
      BY <1>1, <1>4, <1>7, <1>9
    <2>3. (c.hasTool => d.hasTool) /\ d.output = c.output
      BY <1>9 DEF Retagged
    <2> QED
      BY <1>1, <1>10, <1>11, <1>12, <1>13, <2>1, <2>2, <2>3, KeepsBy
  <1> QED
    BY <1>3, <1>4, <1>9, <1>13, <1>14 DEF Keeps, Fair

LEMMA LeaveThinkingGoes ==
    ASSUME NEW c, Fair(c), NEW k
    PROVE  LET d == LeaveThinking(c, k) IN
           /\ Goes(c, d) /\ d.thinking = c.thinking /\ ~ d.inThinking
           /\ d.buffer = c.buffer
  <1> DEFINE b == [c EXCEPT !.inThinking = FALSE, !.extracted = TRUE]
             t == SubSeq(c.buffer, 1, k - 1)
             e == SendThinkingNonEmpty(b, t)
             d == FinishThinking(e, Placeholder)
  <1>1. LeaveThinking(c, k) = d
    BY Zenon DEF LeaveThinking
  <1>2. Typed(c) /\ DOMAIN c = Fields /\ Tagged(c)
    BY DEF Fair, Sane, Typed
  <1>3. /\ DOMAIN b = Fields /\ b.thinking = c.thinking /\ b.inThinking = FALSE
        /\ b.extracted = TRUE /\ b.buffer = c.buffer /\ b.blocks = c.blocks
        /\ b.stripNewline = c.stripNewline /\ b.xml = c.xml /\ b.sniff = c.sniff
        /\ b.out = c.out /\ b.guard = c.guard /\ b.hasTool = c.hasTool /\ b.output = c.output
        /\ Rest(c, b)
    BY <1>2 DEF Fields, Rest
  <1> HIDE DEF b, t
  <1>4. Typed(b)
    BY <1>2, <1>3 DEF Typed
  <1>5. Retagged(c, b) /\ Tagged(b)
    BY <1>2, <1>3, <1>4 DEF Retagged, Tagged
  <1>6. Fair(b) /\ Spares(c, b) /\ (Spoken(c) => Spoken(b))
    BY <1>5, RetagFair
  <1>7. Goes(c, b)
    BY <1>3, <1>6 DEF Goes, Told
  <1>8. Acts(b, e)
    BY <1>6, SendThinkingActs DEF Fair
  <1> HIDE DEF e
  <1>9. Acts(e, d)
    BY <1>8, FinishThinkingActs DEF Acts, Keeps
  <1> HIDE DEF d
  <1>10. Acts(b, d)
    BY <1>8, <1>9, ActsThen
  <1>11. Goes(c, d)
    BY <1>6, <1>7, <1>10, ActsGoes, GoesThen
  <1> QED
    BY <1>1, <1>3, <1>10, <1>11 DEF Acts, Leaves, Frame

LEMMA Rebuffer ==
    ASSUME NEW c, Fair(c), NEW t \in Text, t # <<>> => Thinking
    PROVE  LET d == [c EXCEPT !.buffer = t] IN
           /\ Fair(d) /\ Spares(c, d) /\ d.buffer = t
           /\ d.sniff = c.sniff /\ d.thinking = c.thinking /\ d.inThinking = c.inThinking
           /\ d.extracted = c.extracted /\ d.stripNewline = c.stripNewline /\ d.xml = c.xml
           /\ c.thinking # 0 \/ Due(c) \/ t # <<>> => Told(d)
  <1> DEFINE d == [c EXCEPT !.buffer = t]
  <1>1. Typed(c) /\ DOMAIN c = Fields /\ Tagged(c)
    BY DEF Fair, Sane, Typed
  <1>2. /\ DOMAIN d = Fields /\ d.thinking = c.thinking /\ d.inThinking = c.inThinking
        /\ d.extracted = c.extracted /\ d.buffer = t /\ d.blocks = c.blocks
        /\ d.stripNewline = c.stripNewline /\ d.xml = c.xml /\ d.sniff = c.sniff
        /\ d.out = c.out /\ d.guard = c.guard /\ d.hasTool = c.hasTool /\ d.output = c.output
        /\ Rest(c, d)
    BY <1>1 DEF Fields, Rest
  <1> HIDE DEF d
  <1>3. Typed(d)
    BY <1>1, <1>2 DEF Typed
  <1>4. Retagged(c, d) /\ Tagged(d)
    BY <1>1, <1>2, <1>3 DEF Retagged, Tagged
  <1>5. Fair(d) /\ Spares(c, d) /\ (Spoken(c) => Spoken(d))
    BY <1>4, RetagFair
  <1>6. c.thinking # 0 \/ Due(c) \/ t # <<>> => Told(d)
    BY <1>2, <1>5 DEF Told, Due
  <1> QED
    BY <1>2, <1>5, <1>6 DEF d

LEMMA LookForThinkingGoes ==
    ASSUME NEW c, Fair(c), Thinking
    PROVE  Goes(c, LookForThinking(c))
  <1> DEFINE k      == FindStartTag(c.buffer)
             before == SubSeq(c.buffer, 1, k - 1)
             n      == IF Len(c.buffer) < Len(OpenTag) THEN 0 ELSE Len(c.buffer) - Len(OpenTag)
             safe   == SubSeq(c.buffer, 1, n)
             said   == IF Blank(before) THEN <<>> ELSE before
             d      == EmitSniffed(c, said)
             b      == [d EXCEPT !.inThinking = TRUE, !.stripNewline = TRUE,
                                 !.buffer = From(@, k + Len(OpenTag))]
             e      == EmitSniffed(c, safe)
             f      == [e EXCEPT !.buffer = From(@, n + 1)]
  <1>1. LookForThinking(c) =
          IF c.inThinking \/ c.extracted THEN c
          ELSE IF k > 0 THEN StartThinking(b) ELSE IF Blank(safe) THEN c ELSE f
    BY Zenon DEF LookForThinking
  <1>2. Typed(c) /\ c.buffer \in Text /\ Len(c.buffer) \in Nat
    BY DEF Fair, Sane, Typed, Text
  <1>3. k \in Nat /\ k <= Len(c.buffer) /\ n \in Nat /\ n <= Len(c.buffer)
    BY <1>2, TagsAre, Tags
  <1> HIDE DEF k, n
  <1>4. CASE c.inThinking \/ c.extracted
    BY <1>1, <1>4, GoesSelf
  <1>5. CASE ~ (c.inThinking \/ c.extracted) /\ k > 0
    <2>1. before \in Text /\ <<>> \in Text
      <3>1. k - 1 \in Int /\ k - 1 <= Len(c.buffer)
        BY <1>2, <1>3
      <3> QED
        BY <1>2, <3>1, StartText, Tags
    <2>2. said \in Text
      BY <2>1
    <2> HIDE DEF before, said
    <2>3. Goes(c, d)
      BY <2>2, EmitSniffedGoes
    <2> HIDE DEF d
    <2>4. Typed(d) /\ Fair(d)
      BY <2>3 DEF Goes, Fair, Sane
    <2>5. From(d.buffer, k + Len(OpenTag)) \in Text
      <3>1. d.buffer \in Text /\ k + Len(OpenTag) \in Nat /\ k + Len(OpenTag) > 0
        BY <1>3, <2>4, Tags DEF Typed
      <3> QED
        BY <3>1, FromText
    <2>6. /\ DOMAIN b = Fields /\ b.thinking = d.thinking /\ b.inThinking = TRUE
          /\ b.extracted = d.extracted /\ b.buffer = From(d.buffer, k + Len(OpenTag))
          /\ b.stripNewline = TRUE /\ b.sniff = d.sniff /\ b.xml = d.xml
          /\ b.blocks = d.blocks /\ b.out = d.out /\ b.guard = d.guard
          /\ b.hasTool = d.hasTool /\ b.output = d.output /\ Rest(d, b)
      <3>1. DOMAIN d = Fields
        BY <2>4 DEF Typed
      <3> QED
        BY <3>1 DEF Fields, Rest
    <2> HIDE DEF b
    <2>7. Typed(b)
      BY <2>4, <2>5, <2>6 DEF Typed
    <2>8. Retagged(d, b)
      BY <2>6, <2>7 DEF Retagged
    <2>9. /\ Fair(StartThinking(b)) /\ Spares(d, StartThinking(b))
          /\ StartThinking(b).thinking # 0
      BY <2>4, <2>8, StartThinkingGoes
    <2>10. Goes(c, StartThinking(b))
      BY <2>3, <2>9, SparesThen DEF Goes, Told
    <2> QED
      BY <1>1, <1>5, <2>10
  <1>6. CASE ~ (c.inThinking \/ c.extracted) /\ ~ k > 0 /\ Blank(safe)
    BY <1>1, <1>6, GoesSelf
  <1>7. CASE ~ (c.inThinking \/ c.extracted) /\ ~ k > 0 /\ ~ Blank(safe)
    <2>1. LookForThinking(c) = f
      BY <1>1, <1>7
    <2>2. safe \in Text
      BY <1>2, <1>3, StartText
    <2>3. safe # <<>>
      <3>1. SUFFICES ASSUME safe = <<>> PROVE Blank(safe)
        BY <1>7
      <3>2. \A j : j \notin DOMAIN <<>>
        OBVIOUS
      <3>3. \A j \in DOMAIN safe : FALSE
        BY <3>1, <3>2
      <3> QED
        BY <3>3 DEF Blank
    <2> HIDE DEF safe
    <2>4. Goes(c, e) /\ Due(e)
      BY <2>2, <2>3, EmitSniffedGoes
    <2> HIDE DEF e
    <2>5. Fair(e) /\ From(e.buffer, n + 1) \in Text
      <3>1. e.buffer \in Text /\ n + 1 \in Nat /\ n + 1 > 0
        BY <1>3, <2>4 DEF Goes, Fair, Sane, Typed
      <3> QED
        BY <2>4, <3>1, FromText DEF Goes
    <2>6. Fair(f) /\ Spares(e, f) /\ Told(f)
      BY <2>4, <2>5, Rebuffer
    <2> HIDE DEF f
    <2> QED
      BY <2>1, <2>4, <2>6, SparesThen DEF Goes
  <1> QED
    BY <1>4, <1>5, <1>6, <1>7

LEMMA InsideThinkingGoes ==
    ASSUME NEW c, Fair(c), Thinking
    PROVE  Goes(c, InsideThinking(c))
  <1> DEFINE strip == c.stripNewline /\ c.buffer # <<>> /\ c.buffer[1] = "n"
             first == IF strip THEN Tail(c.buffer) ELSE c.buffer
             d     == [c EXCEPT !.buffer = IF strip THEN Tail(@) ELSE @,
                                !.stripNewline = @ /\ c.buffer = <<>>]
             k     == FindEndTag(d.buffer)
             kept  == Len(CloseTag \o Break)
             n     == IF Len(d.buffer) < kept THEN 0 ELSE Len(d.buffer) - kept
             e     == LeaveThinking(d, k)
             f     == [e EXCEPT !.buffer = From(@, k + kept)]
             g     == SendThinkingNonEmpty(d, SubSeq(d.buffer, 1, n))
             h     == [g EXCEPT !.buffer = From(@, n + 1)]
  <1>1. InsideThinking(c) = IF ~ c.inThinking THEN c ELSE IF k > 0 THEN f ELSE h
    BY Zenon DEF InsideThinking
  <1>2. Typed(c) /\ DOMAIN c = Fields /\ Tagged(c)
    BY DEF Fair, Sane, Typed
  <1>3. CASE ~ c.inThinking
    BY <1>1, <1>3, GoesSelf
  <1>4. CASE c.inThinking
    <2>1. c.thinking # 0
      BY <1>2, <1>4 DEF Tagged
    <2>2. first \in Text
      <3>1. c.buffer \in Text
        BY <1>2 DEF Typed
      <3>2. strip => Tail(c.buffer) \in Text
        BY <3>1, TailText
      <3> QED
        BY <3>1, <3>2
    <2>3. /\ DOMAIN d = Fields /\ d.thinking = c.thinking /\ d.inThinking = c.inThinking
          /\ d.extracted = c.extracted /\ d.buffer = first /\ d.stripNewline \in BOOLEAN
          /\ d.sniff = c.sniff /\ d.xml = c.xml
          /\ d.blocks = c.blocks /\ d.out = c.out /\ d.guard = c.guard
          /\ d.hasTool = c.hasTool /\ d.output = c.output /\ Rest(c, d)
      <3>1. c.stripNewline \in BOOLEAN
        BY <1>2 DEF Typed
      <3> HIDE DEF strip
      <3> QED
        BY <1>2, <3>1 DEF Fields, Rest
    <2> HIDE DEF d, first
    <2>4. Typed(d)
      BY <1>2, <2>2, <2>3 DEF Typed
    <2>5. Retagged(c, d) /\ Tagged(d)
      BY <1>2, <2>1, <2>3, <2>4 DEF Retagged, Tagged
    <2>6. Fair(d) /\ Spares(c, d)
      BY <2>5, RetagFair
    <2>7. k \in Nat /\ kept = 5 /\ n \in Nat
      <3>1. d.buffer \in Text /\ Len(d.buffer) \in Nat
        BY <2>4 DEF Typed, Text
      <3>2. k \in Nat
        BY <3>1, TagsAre
      <3>3. kept = 5
        BY Tags
      <3> HIDE DEF k, kept
      <3> QED
        BY <3>1, <3>2, <3>3
    <2> HIDE DEF k, kept, n
    <2>8. Goes(d, e) /\ e.thinking = c.thinking
      BY <2>3, <2>6, LeaveThinkingGoes
    <2> HIDE DEF e
    <2>9. Fair(f) /\ Spares(c, f) /\ Told(f)
      <3>1. Fair(e) /\ From(e.buffer, k + kept) \in Text
        <4>1. e.buffer \in Text /\ k + kept \in Nat /\ k + kept > 0
          BY <2>7, <2>8 DEF Goes, Fair, Sane, Typed
        <4> QED
          BY <2>8, <4>1, FromText DEF Goes
      <3>2. Fair(f) /\ Spares(e, f) /\ Told(f)
        BY <2>1, <2>8, <3>1, Rebuffer
      <3> HIDE DEF f
      <3>3. Spares(d, f)
        BY <2>8, <3>2, SparesThen DEF Goes
      <3> QED
        BY <2>6, <3>2, <3>3, SparesThen
    <2>10. Acts(d, g)
      BY <2>6, SendThinkingActs DEF Fair
    <2> HIDE DEF g
    <2>11. Fair(h) /\ Spares(c, h) /\ Told(h)
      <3>1. Goes(d, g) /\ g.thinking = c.thinking
        BY <2>3, <2>6, <2>10, ActsGoes DEF Acts, Leaves, Frame
      <3>2. Fair(g) /\ From(g.buffer, n + 1) \in Text
        <4>1. g.buffer \in Text /\ n + 1 \in Nat /\ n + 1 > 0
          BY <2>7, <3>1 DEF Goes, Fair, Sane, Typed
        <4> QED
          BY <3>1, <4>1, FromText DEF Goes
      <3>3. Fair(h) /\ Spares(g, h) /\ Told(h)
        BY <2>1, <3>1, <3>2, Rebuffer
      <3> HIDE DEF h
      <3>4. Spares(d, h)
        BY <3>1, <3>3, SparesThen DEF Goes
      <3> QED
        BY <2>6, <3>3, <3>4, SparesThen
    <2> HIDE DEF f, h
    <2> QED
      BY <1>1, <1>4, <2>9, <2>11 DEF Goes
  <1> QED
    BY <1>3, <1>4

\* The buffer as text.
LEMMA SpillGoes ==
    ASSUME NEW c, Fair(c)
    PROVE  LET d == EmitSniffed([c EXCEPT !.buffer = <<>>], c.buffer) IN
           Goes(c, d) /\ d.buffer = <<>>
  <1> DEFINE b == [c EXCEPT !.buffer = <<>>]
             d == EmitSniffed(b, c.buffer)
  <1>1. c.buffer \in Text /\ <<>> \in Text
    BY Tags DEF Fair, Sane, Typed
  <1>2. /\ Fair(b) /\ Spares(c, b) /\ b.buffer = <<>> /\ b.thinking = c.thinking
        /\ c.thinking # 0 \/ Due(c) => Told(b)
    BY <1>1, Rebuffer
  <1> HIDE DEF b
  <1>3. Goes(b, d) /\ Frame(b, d) /\ (c.buffer # <<>> => Due(d))
    BY <1>1, <1>2, EmitSniffedGoes
  <1> HIDE DEF d
  <1>4. Told(c) => Told(d)
    BY <1>2, <1>3 DEF Told, Due, Goes
  <1>5. Goes(c, d) /\ d.buffer = <<>>
    BY <1>2, <1>3, <1>4, SparesThen DEF Goes, Frame
  <1> QED
    BY <1>5 DEF d, b

LEMMA AfterThinkingGoes ==
    ASSUME NEW c, Fair(c)
    PROVE  Goes(c, AfterThinking(c))
  BY SpillGoes, GoesSelf DEF AfterThinking

LEMMA ProcessTextGoes ==
    ASSUME NEW c, Fair(c), NEW text \in Text
    PROVE  LET d == ProcessText(c, text) IN Goes(c, d) /\ (text # <<>> => Told(d))
  <1> DEFINE t == c.buffer \o text
             b == [c EXCEPT !.buffer = @ \o text]
             e == LookForThinking(b)
             f == InsideThinking(e)
             g == AfterThinking(f)
  <1>1. c.buffer \in Text
    BY DEF Fair, Sane, Typed
  <1>2. t \in Text /\ (text # <<>> \/ c.buffer # <<>> => t # <<>>)
    <2>1. t \in Text /\ Len(t) = Len(c.buffer) + Len(text)
      BY <1>1, JoinText
    <2>2. Len(c.buffer) \in Nat /\ Len(text) \in Nat /\ (text # <<>> => Len(text) # 0)
          /\ (c.buffer # <<>> => Len(c.buffer) # 0)
      BY <1>1 DEF Text
    <2> HIDE DEF t
    <2>3. text # <<>> \/ c.buffer # <<>> => Len(t) # 0
      BY <2>1, <2>2
    <2>4. Len(<<>>) = 0
      OBVIOUS
    <2> QED
      BY <2>1, <2>3, <2>4
  <1>3. CASE Thinking
    <2>1. b = [c EXCEPT !.buffer = t]
      BY Zenon
    <2> HIDE DEF b, t
    <2>2. /\ Fair(b) /\ Spares(c, b)
          /\ c.thinking # 0 \/ Due(c) \/ t # <<>> => Told(b)
      BY <1>2, <1>3, <2>1, Rebuffer
    <2>3. Goes(c, b) /\ (text # <<>> => Told(b))
      BY <1>2, <2>2 DEF Goes, Told, Due
    <2>4. Goes(b, e)
      BY <1>3, <2>2, LookForThinkingGoes
    <2> HIDE DEF e
    <2>5. Goes(e, f)
      BY <1>3, <2>4, InsideThinkingGoes DEF Goes
    <2> HIDE DEF f
    <2>6. Goes(f, g)
      BY <2>5, AfterThinkingGoes DEF Goes
    <2> HIDE DEF g
    <2>7. Goes(b, g)
      BY <2>4, <2>5, <2>6, GoesThen
    <2>8. Goes(c, g) /\ (text # <<>> => Told(g))
      BY <2>3, <2>7, GoesThen DEF Goes
    <2> QED
      BY <1>3, <2>8 DEF ProcessText, ProcessWithThinking, g, f, e, b
  <1>4. CASE ~ Thinking
    <2>1. ProcessText(c, text) = EmitSniffed(c, text)
      BY <1>4 DEF ProcessText
    <2> QED
      BY <2>1, EmitSniffedGoes DEF Told, Due
  <1> QED
    BY <1>3, <1>4

LEMMA LeaveAtEndGoes ==
    ASSUME NEW c, Fair(c), c.inThinking, NEW k \in Nat
    PROVE  LET d == LeaveThinkingAtEnd(c, k) IN Goes(c, d) /\ d.buffer = <<>>
  <1> DEFINE e == LeaveThinking(c, k)
             b == [e EXCEPT !.buffer = <<>>]
             t == TrimStart(From(c.buffer, k + Len(CloseTag)))
             d == EmitSniffed(b, t)
  <1>1. LeaveThinkingAtEnd(c, k) = d
    BY Zenon DEF LeaveThinkingAtEnd
  <1>2. c.buffer \in Text /\ <<>> \in Text /\ c.thinking # 0
    BY Tags DEF Fair, Sane, Typed, Tagged
  <1>3. Goes(c, e) /\ e.thinking = c.thinking
    BY LeaveThinkingGoes
  <1> HIDE DEF e
  <1>4. Fair(b) /\ Spares(e, b) /\ b.buffer = <<>> /\ b.thinking = e.thinking
    BY <1>2, <1>3, Rebuffer DEF Goes
  <1> HIDE DEF b
  <1>5. t \in Text
    <2>1. k + Len(CloseTag) \in Nat /\ k + Len(CloseTag) > 0
      BY Tags
    <2> QED
      BY <1>2, <2>1, FromText, TrimStartText
  <1> HIDE DEF t
  <1>6. Goes(b, d) /\ Frame(b, d)
    BY <1>4, <1>5, EmitSniffedGoes
  <1> HIDE DEF d
  <1>7. d.buffer = <<>> /\ d.thinking # 0
    BY <1>2, <1>3, <1>4, <1>6 DEF Frame
  <1>8. Spares(c, d)
    BY <1>3, <1>4, <1>6, SparesThen DEF Goes
  <1> QED
    BY <1>1, <1>6, <1>7, <1>8 DEF Goes, Told

-----------------------------------------------------------------------------
(* The handlers of the events, as far as text and thinking go.               *)

\* What has been said, apart from the tokens that are counted.
Grows(c, d) ==
    /\ Fair(d) /\ Rest(c, d) /\ (c.hasTool => d.hasTool) /\ Adds(c.out, d.out)
    /\ \A k \in DOMAIN d.out : k \notin DOMAIN c.out
          => IsBlockEvent(d.out[k]) /\ (StartsCall(d.out[k]) => d.out[k].id = "invoke" /\ d.hasTool)

\* What has been counted has been said, or will be; and if nothing has been
\* counted nothing has happened.
Heard(c) ==
    /\ Fair(c) /\ (c.output => Told(c))
    /\ c.output \/ c.hasTool \/ Untouched(c)

LEMMA GrowsThen ==
    ASSUME NEW c, NEW d, NEW e, Grows(c, d), Grows(d, e)
    PROVE  Grows(c, e)
  <1>1. /\ Adds(c.out, e.out)
        /\ DOMAIN c.out \subseteq DOMAIN d.out /\ DOMAIN d.out \subseteq DOMAIN e.out
    BY AddsThen DEF Grows
  <1>2. Rest(c, e) /\ (c.hasTool => e.hasTool) /\ Fair(e)
    BY DEF Grows, Rest
  <1>3. ASSUME NEW k \in DOMAIN e.out, k \notin DOMAIN c.out
        PROVE  /\ IsBlockEvent(e.out[k])
               /\ StartsCall(e.out[k]) => e.out[k].id = "invoke" /\ e.hasTool
    <2>1. CASE k \in DOMAIN d.out
      <3>1. e.out[k] = d.out[k]
        BY <2>1 DEF Grows, Adds
      <3>2. /\ IsBlockEvent(d.out[k])
            /\ StartsCall(d.out[k]) => d.out[k].id = "invoke" /\ d.hasTool
        BY <1>3, <2>1 DEF Grows
      <3> QED
        BY <3>1, <3>2 DEF Grows
    <2>2. CASE k \notin DOMAIN d.out
      BY <2>2 DEF Grows
    <2> QED
      BY <2>1, <2>2
  <1> QED
    BY <1>1, <1>2, <1>3 DEF Grows

LEMMA GoesGrows ==
    ASSUME NEW c, NEW d, Fair(d), Spares(c, d)
    PROVE  Grows(c, d)
  BY DEF Grows, Spares

LEMMA GrowsSelf ==
    ASSUME NEW c, Fair(c)
    PROVE  Grows(c, c)
  BY GoesSelf, GoesGrows DEF Goes

\* Changes of other fields than those of text and of thinking.
Likewise(c, d) ==
    /\ Rest(c, d) /\ Frame(c, d) /\ d.blocks = c.blocks /\ d.out = c.out
    /\ d.sniff = c.sniff /\ d.guard = c.guard

LEMMA LikewiseGrows ==
    ASSUME NEW c, Fair(c), NEW d, Likewise(c, d), c.hasTool => d.hasTool
    PROVE  Grows(c, d) /\ (Told(c) => Told(d)) /\ (Untouched(c) => Untouched(d))
  <1>1. Typed(d)
    BY DEF Likewise, Frame, Fair, Sane, Typed
  <1>2. Sane(d)
    BY <1>1 DEF Likewise, Frame, Fair, Sane, Tagged, Tools, Rest
  <1>3. Hush(d)
    BY DEF Likewise, Fair, Hush, Spoken
  <1>4. Adds(c.out, d.out)
    BY <1>1, AddsSelf DEF Likewise, Typed
  <1>5. Grows(c, d)
    BY <1>2, <1>3, <1>4 DEF Grows, Fair, Likewise
  <1>6. Told(c) => Told(d)
    BY DEF Likewise, Frame, Told, Spoken
  <1>7. Untouched(c) => Untouched(d)
    BY DEF Likewise, Frame, Untouched
  <1> QED
    BY <1>5, <1>6, <1>7

LEMMA OtherFieldsGrow ==
    ASSUME NEW c, Fair(c), NEW x
    PROVE  /\ Grows(c, [c EXCEPT !.output = TRUE]) /\ [c EXCEPT !.output = TRUE].output
           /\ Grows(c, [c EXCEPT !.hasTool = TRUE]) /\ [c EXCEPT !.hasTool = TRUE].hasTool
           /\ Likewise(c, [c EXCEPT !.signature = x]) /\ Grows(c, [c EXCEPT !.signature = x])
           /\ [c EXCEPT !.signature = x].output = c.output
           /\ [c EXCEPT !.signature = x].hasTool = c.hasTool
  <1>1. DOMAIN c = Fields
    BY DEF Fair, Sane, Typed
  <1>2. /\ Likewise(c, [c EXCEPT !.output = TRUE]) /\ [c EXCEPT !.output = TRUE].output
        /\ [c EXCEPT !.output = TRUE].hasTool = c.hasTool
    BY <1>1 DEF Likewise, Rest, Frame, Fields
  <1>3. Likewise(c, [c EXCEPT !.hasTool = TRUE]) /\ [c EXCEPT !.hasTool = TRUE].hasTool
    BY <1>1 DEF Likewise, Rest, Frame, Fields
  <1>4. /\ Likewise(c, [c EXCEPT !.signature = x])
        /\ [c EXCEPT !.signature = x].output = c.output
        /\ [c EXCEPT !.signature = x].hasTool = c.hasTool
    BY <1>1 DEF Likewise, Rest, Frame, Fields
  <1> QED
    BY <1>2, <1>3, <1>4, LikewiseGrows

LEMMA LeaveNativeActs ==
    ASSUME NEW c, Sane(c)
    PROVE  Acts(c, LeaveNative(c))
  BY CloseThinkingActs, ActsSelf DEF LeaveNative

LEMMA XmlGoes ==
    ASSUME NEW c, Fair(c), NEW xml, xml.held \in Text, xml.stripping \in BOOLEAN
    PROVE  LET d == [c EXCEPT !.xml = xml] IN
           Goes(c, d) /\ d.output = c.output /\ d.hasTool = c.hasTool
           /\ (Untouched(c) => Untouched(d))
  <1> DEFINE d == [c EXCEPT !.xml = xml]
  <1>1. DOMAIN c = Fields /\ Typed(c)
    BY DEF Fair, Sane, Typed
  <1>2. /\ DOMAIN d = Fields /\ d.blocks = c.blocks /\ d.out = c.out /\ d.thinking = c.thinking
        /\ d.inThinking = c.inThinking /\ d.buffer = c.buffer /\ d.extracted = c.extracted
        /\ d.stripNewline = c.stripNewline /\ d.sniff = c.sniff /\ d.xml = xml
        /\ d.hasTool = c.hasTool /\ d.output = c.output /\ d.guard = c.guard /\ Rest(c, d)
    BY <1>1 DEF Fields, Rest
  <1> HIDE DEF d
  <1>3. Typed(d)
    BY <1>1, <1>2 DEF Typed
  <1>4. Retagged(c, d) /\ Tagged(d)
    BY <1>2, <1>3 DEF Retagged, Tagged, Fair, Sane
  <1>5. Goes(c, d)
    BY <1>2, <1>4, RetagFair DEF Goes, Told
  <1>6. Untouched(c) => Untouched(d)
    BY <1>2 DEF Untouched
  <1> QED
    BY <1>2, <1>5, <1>6 DEF d

LEMMA AssistantReads ==
    ASSUME NEW c, Heard(c), NEW content \in Text
    PROVE  LET d == ProcessAssistantResponse(c, content) IN Heard(d) /\ Grows(c, d)
  <1> DEFINE f   == XmlFilter(c.xml, content)
             xml == [held |-> f.held, stripping |-> f.stripping]
             d   == [c EXCEPT !.xml = xml]
             e   == LeaveNative(d)
             b   == [e EXCEPT !.output = TRUE]
             g   == ProcessText(b, f.out)
  <1>1. f.out \in Text /\ xml.held \in Text /\ xml.stripping \in BOOLEAN
    BY XmlFilterText DEF Heard, Fair, Sane, Typed
  <1>2. ProcessAssistantResponse(c, content) = IF f.out = <<>> THEN d ELSE g
    BY DEF ProcessAssistantResponse
  <1> HIDE DEF f, xml
  <1>3. /\ Goes(c, d) /\ d.output = c.output /\ d.hasTool = c.hasTool
        /\ Untouched(c) => Untouched(d)
    BY <1>1, XmlGoes DEF Heard
  <1> HIDE DEF d
  <1>4. CASE f.out = <<>>
    <2>1. Heard(d)
      BY <1>3 DEF Heard, Goes
    <2>2. Grows(c, d)
      BY <1>3, GoesGrows DEF Goes
    <2> QED
      BY <1>2, <1>4, <2>1, <2>2
  <1>5. CASE f.out # <<>>
    <2>1. Goes(d, e)
      BY <1>3, LeaveNativeActs, ActsGoes DEF Goes, Fair
    <2> HIDE DEF e
    <2>2. Grows(e, b) /\ b.output
      BY <2>1, OtherFieldsGrow DEF Goes
    <2> HIDE DEF b
    <2>3. Goes(b, g) /\ Told(g)
      BY <1>1, <1>5, <2>2, ProcessTextGoes DEF Grows
    <2> HIDE DEF g
    <2>4. Grows(c, d) /\ Grows(d, e) /\ Grows(b, g)
      BY <1>3, <2>1, <2>3, GoesGrows DEF Goes
    <2>5. Grows(c, g)
      BY <2>2, <2>4, GrowsThen
    <2>6. g.output
      BY <2>2, <2>3 DEF Goes, Spares
    <2> QED
      BY <1>2, <1>5, <2>3, <2>5, <2>6 DEF Heard, Goes
  <1> QED
    BY <1>4, <1>5

LEMMA EnsureThinkingReads ==
    ASSUME NEW c, Fair(c), Thinking
    PROVE  LET d == EnsureThinking(c) IN Fair(d) /\ Spares(c, d)
  <1> DEFINE d == [c EXCEPT !.buffer = <<>>]
             s == IF Blank(c.buffer) THEN d ELSE EmitSniffed(d, c.buffer)
             f == CloseText(s)
             e == [f EXCEPT !.extracted = TRUE]
             g == StartThinking(e)
  <1>1. EnsureThinking(c) = IF ThinkingOpen(c) THEN c ELSE g
    BY DEF EnsureThinking
  <1>2. c.buffer \in Text /\ <<>> \in Text
    BY Tags DEF Fair, Sane, Typed
  <1>3. Fair(d) /\ Spares(c, d)
    BY <1>2, Rebuffer
  <1> HIDE DEF d
  <1>4. Fair(s) /\ Spares(d, s)
    BY <1>2, <1>3, EmitSniffedGoes, GoesSelf DEF Goes
  <1> HIDE DEF s
  <1>5. Goes(s, f)
    BY <1>4, CloseTextActs, ActsGoes DEF Fair
  <1> HIDE DEF f
  <1>6. Retagged(f, e)
    <2>1. Typed(f)
      BY <1>5 DEF Goes, Fair, Sane
    <2>2. DOMAIN f = Fields
      BY <2>1 DEF Typed
    <2>3. /\ DOMAIN e = Fields /\ e.blocks = f.blocks /\ e.out = f.out /\ e.thinking = f.thinking
          /\ e.inThinking = f.inThinking /\ e.buffer = f.buffer /\ e.extracted = TRUE
          /\ e.stripNewline = f.stripNewline /\ e.sniff = f.sniff /\ e.xml = f.xml
          /\ e.hasTool = f.hasTool /\ e.output = f.output /\ e.guard = f.guard /\ Rest(f, e)
      BY <2>2 DEF Fields, Rest
    <2> HIDE DEF e
    <2>4. Typed(e)
      BY <2>1, <2>3 DEF Typed
    <2> QED
      BY <2>3, <2>4 DEF Retagged
  <1> HIDE DEF e
  <1>7. Fair(g) /\ Spares(f, g)
    BY <1>5, <1>6, StartThinkingGoes DEF Goes
  <1> HIDE DEF g
  <1>8. Spares(c, g)
    <2>1. Spares(c, s)
      BY <1>3, <1>4, SparesThen
    <2>2. Spares(c, f)
      BY <1>5, <2>1, SparesThen DEF Goes
    <2> QED
      BY <1>7, <2>2, SparesThen
  <1> QED
    BY <1>1, <1>7, <1>8, GoesSelf DEF Goes

LEMMA SendReasoningReads ==
    ASSUME NEW c, Heard(c), NEW text \in Text, Thinking
    PROVE  LET d == SendReasoning(c, text) IN Heard(d) /\ Grows(c, d)
  <1> DEFINE b == [c EXCEPT !.output = TRUE]
             e == EnsureThinking(b)
             g == SendThinking(e, text)
  <1>1. SendReasoning(c, text) = IF text = <<>> THEN c ELSE g
    BY DEF SendReasoning
  <1>2. CASE text = <<>>
    BY <1>1, <1>2, GrowsSelf DEF Heard
  <1>3. CASE text # <<>>
    <2>1. Grows(c, b) /\ b.output
      BY OtherFieldsGrow DEF Heard
    <2> HIDE DEF b
    <2>2. Fair(e) /\ Spares(b, e)
      BY <2>1, EnsureThinkingReads DEF Grows
    <2> HIDE DEF e
    <2>3. Acts(e, g) /\ Shown(g.out)
      BY <1>3, <2>2, SendThinkingActs DEF Fair
    <2> HIDE DEF g
    <2>4. Goes(e, g)
      BY <2>2, <2>3, ActsGoes
    <2>5. Grows(b, e) /\ Grows(e, g)
      BY <2>2, <2>4, GoesGrows DEF Goes
    <2>6. Grows(c, g)
      BY <2>1, <2>5, GrowsThen
    <2>7. g.output
      BY <2>1, <2>2, <2>4 DEF Goes, Spares
    <2> QED
      BY <1>1, <1>3, <2>3, <2>6, <2>7 DEF Heard, Grows, Told, Spoken
  <1> QED
    BY <1>2, <1>3

\* A block of redacted thinking says something.
LEMMA StartRedactedActs ==
    ASSUME NEW c, Sane(c)
    PROVE  LET d == StartBlock(c, "redacted_thinking", "-") IN Acts(c, d) /\ Shown(d.out)
  <1> DEFINE n   == Len(c.blocks) + 1
             bs  == Append(c.blocks, Fresh("redacted_thinking"))
             s   == StartEvent(n, "redacted_thinking", "-")
             new == Append(c.out, s)
  <1>1. DOMAIN c = Fields /\ c.blocks \in Seq(Block) /\ IsSeq(c.out)
    BY DEF Sane, Typed
  <1>2. StartBlock(c, "redacted_thinking", "-") = Reshaped(c, bs, new)
    BY <1>1, StartBlockShape
  <1>3. /\ More(c.blocks, bs) /\ Len(c.blocks) \in Nat /\ Len(bs) = n
        /\ DOMAIN bs = 1 .. n /\ bs[n] = Fresh("redacted_thinking") /\ n \in Nat /\ n # 0
    BY <1>1, MoreFresh DEF BlockTypes
  <1>4. n \in DOMAIN bs /\ bs[n].type = "redacted_thinking"
    BY <1>3 DEF Fresh
  <1>5. Plain(bs, s) /\ IsBlockEvent(s) /\ Content(s)
    <2>1. Content(s)
      BY DEF Content, StartEvent
    <2> HIDE DEF n, bs
    <2>2. Plain(bs, s) /\ IsBlockEvent(s)
      BY <1>3, <1>4, StartPlain
    <2> QED
      BY <2>1, <2>2 DEF n, bs
  <1> HIDE DEF s
  <1>6. Adds(c.out, new) /\ \A k \in DOMAIN new : k \notin DOMAIN c.out => new[k] = s
    BY <1>1, AddsOne
  <1>7. Shown(new)
    <2>1. Appended(c.out, s, new)
      BY <1>1, AppendSeq
    <2> HIDE DEF new
    <2>2. Len(c.out) + 1 \in DOMAIN new /\ new[Len(c.out) + 1] = s
      BY <2>1 DEF Appended
    <2> QED
      BY <1>5, <2>2 DEF Shown
  <1> HIDE DEF bs, new
  <1>8. Acts(c, Reshaped(c, bs, new))
    BY <1>3, <1>5, <1>6, <1>7, ReshapedActs
  <1>9. Reshaped(c, bs, new).out = new
    BY <1>1, ReshapedIs
  <1> QED
    BY <1>2, <1>7, <1>8, <1>9

LEMMA SendRedactedReads ==
    ASSUME NEW c, Heard(c)
    PROVE  LET d == SendRedacted(c) IN Heard(d) /\ Grows(c, d)
  <1> DEFINE b == [c EXCEPT !.output = TRUE]
             t == CloseThinking(b)
             u == CloseText(t)
             v == StartBlock(u, "redacted_thinking", "-")
             w == StopBlock(v, Len(c.blocks) + 1)
  <1>1. SendRedacted(c) = w
    BY Zenon DEF SendRedacted
  <1>2. Grows(c, b) /\ b.output
    BY OtherFieldsGrow DEF Heard
  <1> HIDE DEF b
  <1>3. Acts(b, t) /\ Sane(t)
    BY <1>2, CloseThinkingActs DEF Grows, Fair, Acts, Keeps
  <1> HIDE DEF t
  <1>4. Acts(t, u) /\ Sane(u)
    BY <1>3, CloseTextActs DEF Acts, Keeps
  <1> HIDE DEF u
  <1>5. Acts(u, v) /\ Sane(v) /\ Shown(v.out)
    BY <1>4, StartRedactedActs DEF Acts, Keeps
  <1> HIDE DEF v
  <1>6. Acts(v, w) /\ Sane(w)
    BY <1>5, StopBlockActs DEF Acts, Keeps
  <1> HIDE DEF w
  <1>7. Acts(b, w)
    BY <1>3, <1>4, <1>5, <1>6, ActsThen
  <1>8. Goes(b, w)
    BY <1>2, <1>7, ActsGoes DEF Grows
  <1>9. Spoken(w)
    BY <1>5, <1>6, SpokenStays DEF Acts, Keeps, Spoken
  <1>10. Grows(c, w)
    BY <1>2, <1>8, GoesGrows, GrowsThen DEF Goes
  <1>11. w.output
    BY <1>2, <1>8 DEF Goes, Spares
  <1> QED
    BY <1>1, <1>9, <1>10, <1>11 DEF Heard, Grows, Told

LEMMA ReasoningReads ==
    ASSUME NEW c, Heard(c), NEW e, e.text \in Text
    PROVE  LET d == ProcessReasoning(c, e) IN Heard(d) /\ Grows(c, d)
  <1>1. CASE ~ Thinking
    <2> DEFINE b == [c EXCEPT !.output = TRUE]
               d == EmitSniffed(b, e.text)
    <2>1. ProcessReasoning(c, e) = IF e.text = <<>> THEN c ELSE d
      BY <1>1 DEF ProcessReasoning
    <2>2. CASE e.text = <<>>
      BY <2>1, <2>2, GrowsSelf DEF Heard
    <2>3. CASE e.text # <<>>
      <3>1. Grows(c, b) /\ b.output
        BY OtherFieldsGrow DEF Heard
      <3> HIDE DEF b
      <3>2. Goes(b, d) /\ Due(d)
        BY <2>3, <3>1, EmitSniffedGoes DEF Grows
      <3> HIDE DEF d
      <3>3. Grows(c, d)
        BY <3>1, <3>2, GoesGrows, GrowsThen DEF Goes
      <3>4. d.output
        BY <3>1, <3>2 DEF Goes, Spares
      <3> QED
        BY <2>1, <2>3, <3>2, <3>3, <3>4 DEF Heard, Grows, Told, Due
    <2> QED
      BY <2>2, <2>3
  <1>2. CASE Thinking
    <2> DEFINE s == [c EXCEPT !.signature = <<"native">>]
               b == IF e.signature THEN s ELSE c
               d == SendReasoning(b, e.text)
               f == NativeReasoning(d, e)
    <2>1. ProcessReasoning(c, e) = f
      BY <1>2, Zenon DEF ProcessReasoning
    <2>2. Heard(s) /\ Grows(c, s)
      <3>1. /\ Likewise(c, s) /\ Grows(c, s) /\ s.output = c.output /\ s.hasTool = c.hasTool
        BY OtherFieldsGrow DEF Heard
      <3> HIDE DEF s
      <3>2. (Told(c) => Told(s)) /\ (Untouched(c) => Untouched(s))
        BY <3>1, LikewiseGrows DEF Heard
      <3> QED
        BY <3>1, <3>2 DEF Heard, Grows
    <2> HIDE DEF s
    <2>3. Heard(b) /\ Grows(c, b)
      BY <2>2, GrowsSelf DEF Heard
    <2> HIDE DEF b
    <2>4. Heard(d) /\ Grows(b, d)
      BY <1>2, <2>3, SendReasoningReads
    <2> HIDE DEF d
    <2>5. Heard(f) /\ Grows(d, f)
      BY <2>4, SendRedactedReads, GrowsSelf DEF NativeReasoning, Heard
    <2> HIDE DEF f
    <2> QED
      BY <2>1, <2>3, <2>4, <2>5, GrowsThen
  <1> QED
    BY <1>1, <1>2

LEMMA LeaveTaggedGoes ==
    ASSUME NEW c, Fair(c)
    PROVE  Goes(c, LeaveTagged(c))
  <1>1. FindEndTagAtEnd(c.buffer) \in Nat
    BY TagsAre DEF Fair, Sane, Typed
  <1> QED
    BY <1>1, LeaveAtEndGoes, GoesSelf DEF LeaveTagged

LEMMA FlushBufferGoes ==
    ASSUME NEW c, Fair(c)
    PROVE  Goes(c, FlushBuffer(c))
  BY SpillGoes, GoesSelf DEF FlushBuffer

\* A tool call's first steps.
BeforeTool(c) == FlushBuffer(LeaveTagged(LeaveNative([c EXCEPT !.hasTool = TRUE])))

LEMMA BeforeToolGrows ==
    ASSUME NEW c, Fair(c)
    PROVE  Grows(c, BeforeTool(c)) /\ BeforeTool(c).hasTool
  <1> DEFINE h == [c EXCEPT !.hasTool = TRUE]
             n == LeaveNative(h)
             t == LeaveTagged(n)
             d == FlushBuffer(t)
  <1>1. Grows(c, h) /\ h.hasTool
    BY OtherFieldsGrow
  <1> HIDE DEF h
  <1>2. Goes(h, n)
    BY <1>1, LeaveNativeActs, ActsGoes DEF Grows, Fair
  <1> HIDE DEF n
  <1>3. Goes(n, t)
    BY <1>2, LeaveTaggedGoes DEF Goes
  <1> HIDE DEF t
  <1>4. Goes(t, d)
    BY <1>3, FlushBufferGoes DEF Goes
  <1> HIDE DEF d
  <1>5. Goes(h, d)
    BY <1>2, <1>3, <1>4, GoesThen
  <1>6. Grows(c, d) /\ d.hasTool
    BY <1>1, <1>5, GoesGrows, GrowsThen DEF Goes, Spares
  <1> QED
    BY <1>6 DEF BeforeTool, d, t, n, h

-----------------------------------------------------------------------------
(* The end of the stream: everything held is said.                           *)

LEMMA FlushFilterGoes ==
    ASSUME NEW c, Fair(c)
    PROVE  Goes(c, FlushFilter(c))
  <1> DEFINE d == [c EXCEPT !.xml = XmlFilterInit]
  <1>1. XmlFilterInit.held \in Text /\ XmlFilterInit.stripping \in BOOLEAN /\ c.xml.held \in Text
    BY Tags DEF XmlFilterInit, Fair, Sane, Typed
  <1>2. Goes(c, d)
    BY <1>1, XmlGoes
  <1>3. FlushFilter(c) = IF c.xml.held = <<>> THEN d ELSE ProcessText(d, c.xml.held)
    BY DEF FlushFilter
  <1> HIDE DEF d
  <1>4. Goes(d, ProcessText(d, c.xml.held))
    BY <1>1, <1>2, ProcessTextGoes DEF Goes
  <1> QED
    BY <1>2, <1>3, <1>4, GoesThen

LEMMA FlushThinkingGoes ==
    ASSUME NEW c, Fair(c)
    PROVE  Goes(c, FlushThinking(c)) /\ FlushThinking(c).buffer = <<>>
  <1> DEFINE k == FindEndTagAtEnd(c.buffer)
             e == EmitSniffed(c, c.buffer)
             d == [e EXCEPT !.buffer = <<>>]
             s == SendThinking(c, c.buffer)
             f == FinishThinking(s, Placeholder)
             g == [f EXCEPT !.buffer = <<>>]
  <1>1. c.buffer \in Text /\ <<>> \in Text /\ k \in Nat
    BY Tags, TagsAre DEF Fair, Sane, Typed
  <1>2. CASE ~ Thinking \/ c.buffer = <<>>
    BY <1>2, GoesSelf DEF FlushThinking, Fair, Sane, Tagged
  <1>3. CASE Thinking /\ c.buffer # <<>> /\ ~ c.inThinking
    <2>1. FlushThinking(c) = d
      BY <1>3 DEF FlushThinking
    <2>2. Goes(c, e) /\ Due(e)
      BY <1>1, <1>3, EmitSniffedGoes
    <2> HIDE DEF e
    <2>3. Fair(d) /\ Spares(e, d) /\ d.buffer = <<>> /\ Told(d)
      BY <1>1, <2>2, Rebuffer DEF Goes
    <2> HIDE DEF d
    <2> QED
      BY <2>1, <2>2, <2>3, SparesThen DEF Goes
  <1>4. CASE Thinking /\ c.buffer # <<>> /\ c.inThinking /\ k > 0
    BY <1>1, <1>4, LeaveAtEndGoes DEF FlushThinking
  <1>5. CASE Thinking /\ c.buffer # <<>> /\ c.inThinking /\ ~ k > 0
    <2>1. FlushThinking(c) = g
      BY <1>5 DEF FlushThinking
    <2>2. Acts(c, s) /\ Sane(s)
      BY SendThinkingActs DEF Fair, Acts, Keeps
    <2> HIDE DEF s
    <2>3. Acts(s, f)
      BY <2>2, FinishThinkingActs
    <2> HIDE DEF f
    <2>4. Goes(c, f) /\ f.thinking # 0
      <3>1. Acts(c, f)
        BY <2>2, <2>3, ActsThen
      <3>2. c.thinking # 0
        BY <1>5 DEF Fair, Sane, Tagged
      <3> QED
        BY <3>1, <3>2, ActsGoes DEF Acts, Leaves, Frame
    <2>5. Fair(g) /\ Spares(f, g) /\ g.buffer = <<>> /\ Told(g)
      BY <1>1, <2>4, Rebuffer DEF Goes
    <2> HIDE DEF g
    <2> QED
      BY <2>1, <2>4, <2>5, SparesThen DEF Goes
  <1> QED
    BY <1>2, <1>3, <1>4, <1>5

\* d is c at its end: the stop reason may say that the text was cut.
Closes(c, d) ==
    /\ Fair(d) /\ d.stopReason \in {c.stopReason, "max_tokens"}
    /\ d.toolIndex = c.toolIndex /\ d.fragments = c.fragments
    /\ d.toolError = c.toolError /\ d.upstreamError = c.upstreamError
    /\ (c.hasTool => d.hasTool)
    /\ (c.output => d.output) /\ (d.output => c.output \/ d.hasTool)
    /\ Adds(c.out, d.out)
    /\ \A k \in DOMAIN d.out : k \notin DOMAIN c.out
          => IsBlockEvent(d.out[k]) /\ (StartsCall(d.out[k]) => d.out[k].id = "invoke" /\ d.hasTool)

LEMMA SparesCloses ==
    ASSUME NEW c, NEW d, Fair(d), Spares(c, d)
    PROVE  Closes(c, d)
  BY DEF Closes, Spares, Rest

LEMMA ClosesThen ==
    ASSUME NEW c, NEW d, NEW e, Closes(c, d), Closes(d, e)
    PROVE  Closes(c, e)
  <1>1. /\ Adds(c.out, e.out)
        /\ DOMAIN c.out \subseteq DOMAIN d.out /\ DOMAIN d.out \subseteq DOMAIN e.out
    BY AddsThen DEF Closes
  <1>2. ASSUME NEW k \in DOMAIN e.out, k \notin DOMAIN c.out
        PROVE  /\ IsBlockEvent(e.out[k])
               /\ StartsCall(e.out[k]) => e.out[k].id = "invoke" /\ e.hasTool
    <2>1. CASE k \in DOMAIN d.out
      <3>1. e.out[k] = d.out[k]
        BY <2>1 DEF Closes, Adds
      <3>2. /\ IsBlockEvent(d.out[k])
            /\ StartsCall(d.out[k]) => d.out[k].id = "invoke" /\ d.hasTool
        BY <1>2, <2>1 DEF Closes
      <3> QED
        BY <3>1, <3>2 DEF Closes
    <2>2. CASE k \notin DOMAIN d.out
      BY <1>2, <2>2 DEF Closes
    <2> QED
      BY <2>1, <2>2
  <1> QED
    BY <1>1, <1>2 DEF Closes

\* A response of nothing but thinking is given a blank, and a reason.
LEMMA AddTextCloses ==
    ASSUME NEW c, Fair(c), c.buffer = <<>>
    PROVE  LET d == AddText(c) IN
           Closes(c, d) /\ (d.stopReason = "none" /\ Told(c) => Due(d))
  <1> DEFINE bare == /\ Thinking /\ c.thinking # 0
                     /\ \A i \in DOMAIN c.blocks : c.blocks[i].type = "thinking"
             s == SetStopReason(c, "max_tokens")
             d == EmitSniffed(s, <<" ">>)
  <1>1. AddText(c) = IF bare THEN d ELSE c
    BY DEF AddText
  <1>2. CASE bare
    <2>1. DOMAIN c = Fields
      BY DEF Fair, Sane, Typed
    <2>2. /\ DOMAIN s = Fields /\ Frame(c, s) /\ s.blocks = c.blocks /\ s.out = c.out
          /\ s.sniff = c.sniff /\ s.guard = c.guard /\ s.hasTool = c.hasTool
          /\ s.output = c.output /\ s.toolIndex = c.toolIndex /\ s.fragments = c.fragments
          /\ s.toolError = c.toolError /\ s.upstreamError = c.upstreamError
          /\ s.stopReason = "max_tokens"
      BY <2>1 DEF SetStopReason, Fields, Frame
    <2> HIDE DEF s
    <2>3. Typed(s)
      BY <2>2 DEF Frame, Fair, Sane, Typed
    <2>4. Sane(s)
      BY <2>2, <2>3 DEF Frame, Fair, Sane, Tagged, Tools
    <2>5. Fair(s)
      BY <2>2, <2>4 DEF Fair, Hush, Spoken
    <2>6. Closes(c, s)
      <3>1. Adds(c.out, s.out)
        BY <2>2, <2>3, AddsSelf DEF Typed
      <3> QED
        BY <2>2, <2>5, <3>1 DEF Closes
    <2>7. <<" ">> \in Text
      BY DEF Text, Cell, Words
    <2>8. Goes(s, d)
      BY <2>5, <2>7, EmitSniffedGoes
    <2> HIDE DEF d
    <2>9. Closes(s, d)
      BY <2>8, SparesCloses DEF Goes
    <2>10. d.stopReason = "max_tokens"
      BY <2>2, <2>8 DEF Goes, Spares, Rest
    <2>11. Closes(c, d)
      BY <2>6, <2>9, ClosesThen
    <2> QED
      BY <1>1, <1>2, <2>10, <2>11
  <1>3. CASE ~ bare
    <2>1. Closes(c, c)
      BY GoesSelf, SparesCloses DEF Goes
    <2>2. c.thinking # 0 => Spoken(c)
      BY <1>3 DEF Fair, Sane, Tagged, Hush
    <2>3. Told(c) => Due(c)
      BY <2>2 DEF Told, Due
    <2> QED
      BY <1>1, <1>3, <2>1, <2>3
  <1> QED
    BY <1>2, <1>3

LEMMA FlushSniffGoes ==
    ASSUME NEW c, Fair(c)
    PROVE  LET d == FlushSniff(c) IN Fair(d) /\ Spares(c, d) /\ (Due(c) => Spoken(d))
  <1>1. CASE c.sniff = <<>>
    BY <1>1, GoesSelf DEF FlushSniff, Goes, Due
  <1>2. CASE c.sniff # <<>>
    BY <1>2, DrainSniffSays DEF FlushSniff, Fair, Speaks
  <1> QED
    BY <1>1, <1>2

Emptied(c) == FlushSniff(AddText(FlushThinking(LeaveNative(FlushFilter(c)))))

\* At its end a response that ends of itself has said what it counted.
LEMMA EmptiedCloses ==
    ASSUME NEW c, Heard(c)
    PROVE  LET d == Emptied(c) IN
           Closes(c, d) /\ (d.stopReason = "none" /\ d.output => Spoken(d))
  <1> DEFINE f == FlushFilter(c)
             n == LeaveNative(f)
             t == FlushThinking(n)
             a == AddText(t)
             d == FlushSniff(a)
  <1>1. Goes(c, f)
    BY FlushFilterGoes DEF Heard
  <1> HIDE DEF f
  <1>2. Goes(f, n)
    BY <1>1, LeaveNativeActs, ActsGoes DEF Goes, Fair
  <1> HIDE DEF n
  <1>3. Goes(n, t) /\ t.buffer = <<>>
    BY <1>2, FlushThinkingGoes DEF Goes
  <1> HIDE DEF t
  <1>4. Goes(c, t)
    BY <1>1, <1>2, <1>3, GoesThen
  <1>5. Closes(t, a) /\ (a.stopReason = "none" /\ Told(t) => Due(a))
    BY <1>3, AddTextCloses DEF Goes
  <1> HIDE DEF a
  <1>6. Fair(d) /\ Spares(a, d) /\ (Due(a) => Spoken(d))
    BY <1>5, FlushSniffGoes DEF Closes
  <1> HIDE DEF d
  <1>7. Closes(c, t) /\ Closes(a, d)
    BY <1>4, <1>6, SparesCloses DEF Goes
  <1>8. Closes(c, d)
    BY <1>5, <1>7, ClosesThen
  <1>9. ASSUME d.stopReason = "none", d.output
        PROVE  Spoken(d)
    <2>1. CASE d.hasTool
      BY <2>1 DEF Spoken
    <2>2. CASE ~ d.hasTool
      <3>1. c.output
        BY <1>8, <1>9, <2>2 DEF Closes
      <3>2. Told(t)
        BY <1>4, <3>1 DEF Heard, Goes
      <3>3. a.stopReason = "none"
        BY <1>6, <1>9 DEF Spares, Rest
      <3> QED
        BY <1>5, <1>6, <3>2, <3>3
    <2> QED
      BY <2>1, <2>2
  <1>10. Closes(c, d) /\ (d.stopReason = "none" /\ d.output => Spoken(d))
    BY <1>8, <1>9
  <1> QED
    BY <1>10 DEF Emptied, d, a, t, n, f

-----------------------------------------------------------------------------
(* The pieces of a call, event by event.                                     *)

Braces   == {"{", "}"}
JsonText == Seq(Braces)

\* The events the service may send.
IsEvent(e) ==
    /\ e.kind \in {"assistant", "reasoning", "tool", "contextUsage", "exception", "error"}
    /\ e.kind = "exception" => e.tooLong \in BOOLEAN
    /\ e.kind = "assistant" => e.content \in Text
    /\ e.kind = "reasoning" => e.text \in Text
    /\ e.kind = "tool" => e.id \in ToolIds /\ e.input \in JsonText /\ e.stop \in BOOLEAN

Events(rec) == IsSeq(rec) /\ \A k \in DOMAIN rec : IsEvent(rec[k])

LastStop(rec, id, j) == Latest({k \in 1..(j - 1) : IsOf(rec, id, k) /\ rec[k].stop})

PieceCell(rec, id, last, t, k) ==
    IF k > last /\ IsOf(rec, id, k) THEN t \o rec[k].input ELSE t

PieceSteps(L, rec, id, j) ==
    /\ L[0] = <<>> /\ L[j] = PiecesOf(rec, id, j)
    /\ \A k \in 1 .. j :
          k - 1 \in 0 .. j /\ L[k] = PieceCell(rec, id, LastStop(rec, id, j), L[k - 1], k)

LEMMA JsonJoin ==
    ASSUME NEW s \in JsonText, NEW t \in JsonText
    PROVE  s \o t \in JsonText
  BY DEF JsonText

LEMMA PieceCellIs ==
    ASSUME NEW rec, NEW id, NEW k, IsEvent(rec[k]), NEW last, NEW t \in JsonText
    PROVE  PieceCell(rec, id, last, t, k) \in JsonText
  <1>1. CASE IsOf(rec, id, k)
    <2>1. rec[k].input \in JsonText
      BY <1>1 DEF IsOf, IsEvent
    <2>2. t \o rec[k].input \in JsonText
      BY <2>1, JsonJoin
    <2> QED
      BY <2>2, Zenon DEF PieceCell
  <1> QED
    BY <1>1 DEF PieceCell

LEMMA PiecesFold ==
    ASSUME NEW rec, Events(rec), NEW id, NEW j \in Nat, j <= Len(rec)
    PROVE  \E L \in [0 .. j -> JsonText] : PieceSteps(L, rec, id, j)
  <1> DEFINE last == LastStop(rec, id, j)
             seq  == [k \in 1 .. j |-> k]
             next == [p \in JsonText \X (1 .. j) |-> PieceCell(rec, id, last, p[1], p[2])]
             iter[s \in SUBSET (DOMAIN seq)] ==
                 IF s = {} THEN <<>>
                 ELSE PieceCell(rec, id, last, iter[s \ {Max(s)}], seq[Max(s)])
  <1>1. PiecesOf(rec, id, j) = iter[DOMAIN seq]
    BY DEF PiecesOf, FoldLeft, MapThenFoldSet, PieceCell, LastStop
  <1>2. /\ DOMAIN seq = 1 .. j /\ \A k \in 1 .. j : seq[k] = k
        /\ \A k \in 1 .. j : k \in DOMAIN rec /\ IsEvent(rec[k])
    BY IsSeqFacts DEF Events
  <1>3. <<>> \in JsonText
    BY DEF JsonText
  <1> HIDE DEF last, seq
  <1>4. next \in [JsonText \X (1 .. j) -> JsonText]
    <2>1. \A p \in JsonText \X (1 .. j) : PieceCell(rec, id, last, p[1], p[2]) \in JsonText
      BY <1>2, PieceCellIs
    <2> QED
      BY <2>1
  <1>5. \A t \in JsonText, k \in 1 .. j : next[<<t, k>>] = PieceCell(rec, id, last, t, k)
    OBVIOUS
  <1> HIDE DEF next
  <1>6. PICK f \in [SUBSET (1 .. j) -> JsonText] : Folds(f, j, <<>>, next)
    BY <1>3, <1>4, FoldExists
  <1>7. ASSUME NEW h \in [SUBSET (1 .. j) -> JsonText], NEW s \in SUBSET (1 .. j)
        PROVE  (IF s = {} THEN <<>> ELSE next[<<h[s \ {Max(s)}], Max(s)>>])
                 = IF s = {} THEN <<>>
                   ELSE PieceCell(rec, id, last, h[s \ {Max(s)}], seq[Max(s)])
    <2>1. CASE s = {}
      BY <2>1
    <2>2. CASE s # {}
      <3>1. Max(s) \in 1 .. j /\ s \ {Max(s)} \in SUBSET (1 .. j)
        BY <2>2, MaxUpTo
      <3>2. h[s \ {Max(s)}] \in JsonText /\ seq[Max(s)] = Max(s)
        BY <1>2, <3>1
      <3> QED
        BY <1>5, <2>2, <3>1, <3>2
    <2> QED
      BY <2>1, <2>2
  <1>8. iter = [s \in SUBSET (DOMAIN seq) |->
                   IF s = {} THEN <<>>
                   ELSE PieceCell(rec, id, last, iter[s \ {Max(s)}], seq[Max(s)])]
    <2>1. f = [s \in SUBSET (DOMAIN seq) |->
                 IF s = {} THEN <<>>
                 ELSE PieceCell(rec, id, last, f[s \ {Max(s)}], seq[Max(s)])]
      BY <1>2, <1>6, <1>7 DEF Folds
    <2> QED
      BY <2>1
  <1> HIDE DEF iter
  <1> DEFINE L == [k \in 0 .. j |-> iter[1 .. k]]
  <1>9. L[0] = <<>> /\ L[j] = PiecesOf(rec, id, j)
    <2>1. iter[1 .. 0] = <<>>
      BY <1>2, <1>8, FirstPlaces
    <2>2. L[0] = iter[1 .. 0] /\ L[j] = iter[1 .. j]
      OBVIOUS
    <2> QED
      BY <1>1, <1>2, <2>1, <2>2
  <1>10. ASSUME NEW k \in 1 .. j
         PROVE  k - 1 \in 0 .. j /\ L[k] = PieceCell(rec, id, last, L[k - 1], k)
    <2>1. /\ k - 1 \in 0 .. j /\ 1 .. k \in SUBSET (1 .. j) /\ 1 .. k # {}
          /\ Max(1 .. k) = k /\ (1 .. k) \ {Max(1 .. k)} = 1 .. (k - 1)
      BY FirstPlaces
    <2>2. iter[1 .. k] = PieceCell(rec, id, last, iter[1 .. (k - 1)], seq[k])
      BY <1>2, <1>8, <2>1
    <2>3. L[k] = iter[1 .. k] /\ L[k - 1] = iter[1 .. (k - 1)]
      BY <2>1
    <2>4. seq[k] = k
      BY <1>2
    <2> QED
      BY <2>1, <2>2, <2>3, <2>4
  <1>11. L = [k \in 0 .. j |-> L[k]]
    OBVIOUS
  <1> HIDE DEF L
  <1>12. \A k \in 0 .. j : L[k] \in JsonText
    <2>1. \A k \in 1 .. j : L[k - 1] \in JsonText => L[k] \in JsonText
      BY <1>2, <1>10, PieceCellIs
    <2>2. L[0] \in JsonText
      BY <1>3, <1>9
    <2> QED
      BY <2>1, <2>2, ChainIn
  <1>13. L \in [0 .. j -> JsonText]
    BY <1>11, <1>12
  <1> QED
    BY <1>9, <1>10, <1>13 DEF last, PieceSteps

\* Two runs of the same steps.
SameRun(L, M, n) ==
    L[0] = M[0] /\ \A k \in 1 .. n : L[k - 1] = M[k - 1] => L[k] = M[k]

LEMMA SameSteps ==
    ASSUME NEW n \in Nat, NEW L, NEW M, SameRun(L, M, n)
    PROVE  \A k \in 0 .. n : L[k] = M[k]
  <1> DEFINE Bad == {k \in 0 .. n : L[k] # M[k]}
  <1>1. SUFFICES ASSUME Bad # {} PROVE FALSE
    OBVIOUS
  <1>2. PICK k \in Bad : \A m \in Bad : k <= m
    <2>1. Bad \in SUBSET Nat
      OBVIOUS
    <2> HIDE DEF Bad
    <2> QED
      BY <1>1, <2>1, LeastNumber, Zenon
  <1>3. k # 0 /\ k \in 0 .. n
    BY <1>2 DEF SameRun
  <1>4. k \in 1 .. n /\ k - 1 \in 0 .. n /\ ~ (k <= k - 1)
    BY <1>3
  <1>5. L[k - 1] = M[k - 1]
    BY <1>2, <1>4
  <1> QED
    BY <1>2, <1>4, <1>5 DEF SameRun

\* One more event.
LEMMA EventAppended ==
    ASSUME NEW rec, Events(rec), NEW e, IsEvent(e)
    PROVE  LET new == Append(rec, e) IN
           /\ Events(new) /\ Len(rec) \in Nat /\ Len(new) = Len(rec) + 1
           /\ DOMAIN rec = 1 .. Len(rec) /\ DOMAIN new = 1 .. (Len(rec) + 1)
           /\ \A k \in 1 .. Len(rec) : new[k] = rec[k]
           /\ new[Len(rec) + 1] = e
  <1>1. Appended(rec, e, Append(rec, e))
    BY AppendSeq DEF Events
  <1> DEFINE new == Append(rec, e)
  <1> HIDE DEF new
  <1>2. Appended(rec, e, new)
    BY <1>1 DEF new
  <1>3. Events(new)
    <2>1. \A k \in DOMAIN new : k \in 1 .. Len(rec) \/ k = Len(rec) + 1
      BY <1>2 DEF Appended
    <2> QED
      BY <1>2, <2>1 DEF Appended, Events
  <1> QED
    BY <1>2, <1>3 DEF Appended, new

LEMMA LastStopIs ==
    ASSUME NEW rec, NEW id, NEW j \in Nat
    PROVE  /\ LastStop(rec, id, j) \in Nat /\ (j > 0 => LastStop(rec, id, j) < j)
           /\ j > 1 /\ IsOf(rec, id, j - 1) /\ rec[j - 1].stop => LastStop(rec, id, j) = j - 1
           /\ j > 1 /\ ~ (IsOf(rec, id, j - 1) /\ rec[j - 1].stop)
                 => LastStop(rec, id, j) = LastStop(rec, id, j - 1)
  <1> DEFINE T == {k \in 1..(j - 1) : IsOf(rec, id, k) /\ rec[k].stop}
             U == {k \in 1..(j - 1 - 1) : IsOf(rec, id, k) /\ rec[k].stop}
  <1>1. LastStop(rec, id, j) = Latest(T) /\ LastStop(rec, id, j - 1) = Latest(U)
    BY Zenon DEF LastStop
  <1>2. CASE j = 0 \/ j = 1
    <2>1. T = {}
      BY <1>2
    <2> QED
      BY <1>1, <1>2, <2>1 DEF Latest
  <1>3. CASE j > 1
    <2>1. j - 1 \in Nat /\ T \in SUBSET (1 .. (j - 1))
      BY <1>3
    <2>2. Latest(T) \in Nat /\ Latest(T) < j
      <3> HIDE DEF T
      <3>1. Latest(T) \in 0 .. (j - 1)
        BY <2>1, LatestIsIn
      <3> QED
        BY <2>1, <3>1
    <2>3. ASSUME IsOf(rec, id, j - 1), rec[j - 1].stop
          PROVE  Latest(T) = j - 1
      <3>1. j - 1 \in T
        BY <1>3, <2>3
      <3> HIDE DEF T
      <3>2. Max(T) = j - 1
        BY <2>1, <3>1, MaxIsTop
      <3> QED
        BY <3>1, <3>2 DEF Latest
    <2>4. ASSUME ~ (IsOf(rec, id, j - 1) /\ rec[j - 1].stop)
          PROVE  T = U
      <3>1. \A k \in 1 .. (j - 1) : k \in 1 .. (j - 1 - 1) \/ k = j - 1
        BY <1>3
      <3>2. \A k \in 1 .. (j - 1 - 1) : k \in 1 .. (j - 1)
        BY <1>3
      <3>3. T \subseteq U
        BY <2>4, <3>1
      <3>4. U \subseteq T
        BY <3>2
      <3> QED
        BY <3>3, <3>4
    <2> QED
      BY <1>1, <2>2, <2>3, <2>4
  <1> QED
    BY <1>2, <1>3

LEMMA LastStopBefore ==
    ASSUME NEW rec, Events(rec), NEW e, IsEvent(e), NEW id,
           NEW j \in Nat, j <= Len(rec) + 1
    PROVE  LastStop(Append(rec, e), id, j) = LastStop(rec, id, j)
  <1> DEFINE new == Append(rec, e)
  <1>1. Len(rec) \in Nat /\ \A k \in 1 .. Len(rec) : new[k] = rec[k]
    BY EventAppended
  <1> HIDE DEF new
  <1>2. \A k \in 1 .. (j - 1) : new[k] = rec[k]
    BY <1>1
  <1>3. LastStop(new, id, j) = LastStop(rec, id, j)
    <2>1. {k \in 1..(j - 1) : IsOf(new, id, k) /\ new[k].stop}
            = {k \in 1..(j - 1) : IsOf(rec, id, k) /\ rec[k].stop}
      BY <1>2 DEF IsOf
    <2> QED
      BY <2>1, Zenon DEF LastStop
  <1> QED
    BY <1>3 DEF new

\* What came before it stays.
LEMMA PiecesBefore ==
    ASSUME NEW rec, Events(rec), NEW e, IsEvent(e), NEW id,
           NEW j \in Nat, j <= Len(rec)
    PROVE  PiecesOf(Append(rec, e), id, j) = PiecesOf(rec, id, j)
  <1> DEFINE new == Append(rec, e)
             last == LastStop(rec, id, j)
  <1>1. /\ Len(rec) \in Nat /\ \A k \in 1 .. Len(rec) : new[k] = rec[k]
        /\ Events(new) /\ j <= Len(new)
    BY EventAppended
  <1>2. LastStop(new, id, j) = last
    <2>1. j <= Len(rec) + 1
      BY <1>1
    <2> QED
      BY <2>1, LastStopBefore
  <1> HIDE DEF new, last
  <1>3. PICK L \in [0 .. j -> JsonText] : PieceSteps(L, rec, id, j)
    BY PiecesFold
  <1>4. PICK M \in [0 .. j -> JsonText] : PieceSteps(M, new, id, j)
    BY <1>1, PiecesFold
  <1>5. ASSUME NEW k \in 1 .. j, L[k - 1] = M[k - 1]
        PROVE  L[k] = M[k]
    <2>1. L[k] = PieceCell(rec, id, last, L[k - 1], k)
      BY <1>3 DEF PieceSteps, last
    <2>2. M[k] = PieceCell(new, id, last, M[k - 1], k)
      BY <1>2, <1>4 DEF PieceSteps
    <2>3. new[k] = rec[k]
      BY <1>1
    <2>4. PieceCell(new, id, last, L[k - 1], k) = PieceCell(rec, id, last, L[k - 1], k)
      BY <2>3, Zenon DEF PieceCell, IsOf
    <2> QED
      BY <1>5, <2>1, <2>2, <2>4
  <1>6. L[0] = M[0] /\ L[j] = PiecesOf(rec, id, j) /\ M[j] = PiecesOf(new, id, j)
    BY <1>3, <1>4 DEF PieceSteps
  <1>7. L[j] = M[j]
    <2>1. SameRun(L, M, j)
      BY <1>5, <1>6 DEF SameRun
    <2>2. \A k \in 0 .. j : L[k] = M[k]
      BY <2>1, SameSteps
    <2> QED
      BY <2>2
  <1> QED
    BY <1>6, <1>7 DEF new

\* What is held of a call, and the event's piece.
LEMMA PiecesAppended ==
    ASSUME NEW rec, Events(rec), NEW e, IsEvent(e), NEW id
    PROVE  /\ HeldOf(rec, id) \in JsonText
           /\ PiecesOf(Append(rec, e), id, Len(rec) + 1)
                = IF e.kind = "tool" /\ e.id = id THEN HeldOf(rec, id) \o e.input
                  ELSE HeldOf(rec, id)
  <1> DEFINE new == Append(rec, e)
             m == Len(rec)
             n == m + 1
             last == LastStop(rec, id, n)
  <1>1. /\ m \in Nat /\ \A k \in 1 .. m : new[k] = rec[k]
        /\ Events(new) /\ Len(new) = n /\ new[n] = e /\ DOMAIN rec = 1 .. m
    BY EventAppended
  <1>2. LastStop(new, id, n) = last
    <2>1. n \in Nat /\ n <= Len(rec) + 1
      BY <1>1
    <2> HIDE DEF n
    <2> QED
      BY <2>1, LastStopBefore DEF last
  <1>3. n \in Nat /\ n > 0 /\ n <= Len(new) /\ n \in 1 .. n /\ n - 1 = m
    BY <1>1
  <1> HIDE DEF new
  <1>4. PICK M \in [0 .. n -> JsonText] : PieceSteps(M, new, id, n)
    <2> HIDE DEF n
    <2> QED
      BY <1>1, <1>3, PiecesFold
  <1>5. /\ M[0] = <<>> /\ M[n] = PiecesOf(new, id, n)
        /\ \A k \in 1 .. n : M[k] = PieceCell(new, id, last, M[k - 1], k)
    BY <1>2, <1>4, Zenon DEF PieceSteps
  <1>6. last \in Nat /\ last < n
    BY <1>3, LastStopIs
  <1>7. /\ n > 1 /\ IsOf(rec, id, m) /\ rec[m].stop => last = m
        /\ n > 1 /\ ~ (IsOf(rec, id, m) /\ rec[m].stop) => last = LastStop(rec, id, m)
    <2> HIDE DEF n
    <2> QED
      BY <1>3, LastStopIs DEF last
  <1>8. M[m] \in JsonText
    BY <1>1, <1>4
  <1> HIDE DEF n, last
  <1>9. \A k \in 1 .. m : k \in 1 .. n /\ new[k] = rec[k]
    BY <1>1, <1>3
  <1>10. M[m] = HeldOf(rec, id)
    <2>1. CASE m = 0
      <3>1. m \notin StopsOf(rec, id)
        BY <1>1, <2>1 DEF StopsOf
      <3>2. PICK L \in [0 .. 0 -> JsonText] : PieceSteps(L, rec, id, 0)
        <4>1. 0 \in Nat /\ 0 <= Len(rec)
          BY <2>1
        <4> QED
          BY <4>1, PiecesFold
      <3>3. PiecesOf(rec, id, 0) = <<>>
        BY <3>2, Zenon DEF PieceSteps
      <3> QED
        BY <1>5, <2>1, <3>1, <3>3 DEF HeldOf
    <2>2. CASE m # 0 /\ IsOf(rec, id, m) /\ rec[m].stop
      <3>1. m \in StopsOf(rec, id) /\ last = m
        BY <1>1, <1>3, <1>7, <2>2 DEF StopsOf
      <3>2. ASSUME NEW k \in 1 .. m
            PROVE  M[k - 1] \in {<<>>} => M[k] \in {<<>>}
        <4>1. M[k] = PieceCell(new, id, last, M[k - 1], k)
          BY <1>5, <1>9
        <4>2. ~ (k > last)
          BY <1>1, <3>1
        <4> QED
          BY <4>1, <4>2 DEF PieceCell
      <3>3. M[0] \in {<<>>}
        BY <1>5
      <3>4. \A k \in 0 .. m : M[k] \in {<<>>}
        <4> DEFINE V == {<<>>}
        <4>1. M[0] \in V /\ \A k \in 1 .. m : M[k - 1] \in V => M[k] \in V
          BY <3>2, <3>3
        <4> HIDE DEF m, V
        <4>2. \A k \in 0 .. m : M[k] \in V
          BY <1>1, <4>1, ChainIn, Zenon
        <4> QED
          BY <4>2 DEF V
      <3>5. M[m] = <<>>
        BY <1>1, <3>4
      <3> QED
        BY <3>1, <3>5 DEF HeldOf
    <2>3. CASE m # 0 /\ ~ (IsOf(rec, id, m) /\ rec[m].stop)
      <3>1. m \notin StopsOf(rec, id) /\ last = LastStop(rec, id, m)
        BY <1>1, <1>3, <1>7, <2>3 DEF StopsOf
      <3>2. PICK L \in [0 .. m -> JsonText] : PieceSteps(L, rec, id, m)
        <4>1. m <= Len(rec)
          BY <1>1
        <4> HIDE DEF m
        <4> QED
          BY <1>1, <4>1, PiecesFold
      <3>3. /\ L[0] = <<>> /\ L[m] = PiecesOf(rec, id, m)
            /\ \A k \in 1 .. m : L[k] = PieceCell(rec, id, last, L[k - 1], k)
        BY <3>1, <3>2, Zenon DEF PieceSteps
      <3>4. ASSUME NEW k \in 1 .. m, L[k - 1] = M[k - 1]
            PROVE  L[k] = M[k]
        <4>1. L[k] = PieceCell(rec, id, last, L[k - 1], k)
          BY <3>3
        <4>2. M[k] = PieceCell(new, id, last, M[k - 1], k) /\ new[k] = rec[k]
          BY <1>5, <1>9
        <4>3. PieceCell(new, id, last, L[k - 1], k) = PieceCell(rec, id, last, L[k - 1], k)
          BY <4>2, Zenon DEF PieceCell, IsOf
        <4> QED
          BY <3>4, <4>1, <4>2, <4>3
      <3>5. \A k \in 0 .. m : L[k] = M[k]
        <4>1. SameRun(L, M, m)
          BY <1>5, <3>3, <3>4 DEF SameRun
        <4> HIDE DEF m
        <4> QED
          BY <1>1, <4>1, SameSteps
      <3>6. L[m] = M[m]
        BY <1>1, <3>5
      <3> QED
        BY <3>1, <3>3, <3>6 DEF HeldOf
    <2> QED
      BY <2>1, <2>2, <2>3
  <1>11. M[n] = IF e.kind = "tool" /\ e.id = id THEN M[m] \o e.input ELSE M[m]
    <2>1. M[n] = PieceCell(new, id, last, M[n - 1], n)
      BY <1>3, <1>5, Zenon
    <2>2. M[n] = PieceCell(new, id, last, M[m], n) /\ new[n] = e
      BY <1>1, <1>3, <2>1
    <2>3. n > last
      BY <1>3, <1>6
    <2> QED
      BY <2>2, <2>3, Zenon DEF PieceCell, IsOf
  <1>12. PiecesOf(new, id, n) = IF e.kind = "tool" /\ e.id = id THEN HeldOf(rec, id) \o e.input
                                ELSE HeldOf(rec, id)
    BY <1>5, <1>10, <1>11
  <1> QED
    BY <1>8, <1>10, <1>12 DEF new, n, m

LEMMA MinOf ==
    ASSUME NEW T \in SUBSET Nat, T # {}
    PROVE  Min(T) \in T /\ \A y \in T : Min(T) <= y
  <1>1. PICK x \in T : \A y \in T : x <= y
    BY LeastNumber
  <1> QED
    BY <1>1 DEF Min

\* U is T and a place n after all of T.
NextPlace(T, U, n) == \E m \in Nat : T \in SUBSET (1 .. m) /\ n = m + 1 /\ U = T \cup {n}

LEMMA MinWithMore ==
    ASSUME NEW T, NEW U, NEW n, NextPlace(T, U, n)
    PROVE  /\ T # {} => Min(U) = Min(T) /\ Min(T) \in T
           /\ T = {} => Min(U) = n
  <1>1. PICK m \in Nat : T \in SUBSET (1 .. m) /\ n = m + 1 /\ U = T \cup {n}
    BY DEF NextPlace
  <1>2. T \in SUBSET Nat /\ U \in SUBSET Nat /\ U # {} /\ n \in Nat
    BY <1>1
  <1>3. Min(U) \in U /\ \A y \in U : Min(U) <= y
    BY <1>2, MinOf
  <1>4. CASE T # {}
    <2>1. Min(T) \in T /\ \A y \in T : Min(T) <= y
      BY <1>2, <1>4, MinOf
    <2>2. Min(T) \in 1 .. m /\ Min(T) \in U /\ Min(U) \in Nat
      BY <1>1, <1>2, <1>3, <2>1
    <2>3. Min(U) <= Min(T)
      BY <1>3, <2>2
    <2>4. Min(T) \in 1 .. m /\ Min(T) < n /\ Min(U) <= Min(T) /\ Min(U) \in Nat
      BY <1>1, <2>2, <2>3
    <2>5. Min(U) \in T
      BY <1>1, <1>2, <1>3, <2>4
    <2>6. Min(T) <= Min(U)
      BY <2>1, <2>5
    <2> QED
      BY <1>4, <2>1, <2>4, <2>6
  <1>5. CASE T = {}
    BY <1>1, <1>3, <1>5
  <1> QED
    BY <1>4, <1>5

IsPiece(e, id) == e.kind = "tool" /\ e.id = id
EndsCall(e, id) == IsPiece(e, id) /\ e.stop

\* The books of the calls after one event.
LEMMA StopsAppended ==
    ASSUME NEW rec, Events(rec), NEW e, IsEvent(e), NEW id
    PROVE  LET new == Append(rec, e) IN
           /\ StopsOf(rec, id) \subseteq 1 .. Len(rec)
           /\ StopsOf(new, id) = IF EndsCall(e, id)
                                 THEN StopsOf(rec, id) \cup {Len(rec) + 1} ELSE StopsOf(rec, id)
  <1> DEFINE new == Append(rec, e)
             m == Len(rec)
             n == m + 1
  <1>1. /\ m \in Nat /\ \A k \in 1 .. m : new[k] = rec[k]
        /\ new[n] = e /\ DOMAIN rec = 1 .. m /\ DOMAIN new = 1 .. n
    BY EventAppended
  <1> HIDE DEF new
  <1>2. /\ StopsOf(rec, id) = {k \in DOMAIN rec : EndsCall(rec[k], id)}
        /\ StopsOf(new, id) = {k \in DOMAIN new : EndsCall(new[k], id)}
    BY Zenon DEF StopsOf, IsOf, EndsCall, IsPiece
  <1>3. StopsOf(rec, id) \subseteq 1 .. m
    BY <1>1, <1>2
  <1>4. CASE EndsCall(e, id)
    <2>1. \A k \in StopsOf(new, id) : k \in StopsOf(rec, id) \cup {n}
      BY <1>1, <1>2
    <2>2. \A k \in StopsOf(rec, id) \cup {n} : k \in StopsOf(new, id)
      BY <1>1, <1>2, <1>4
    <2>3. StopsOf(new, id) = StopsOf(rec, id) \cup {n}
      <3> HIDE DEF n
      <3> QED
        BY <2>1, <2>2
    <2> QED
      BY <1>3, <1>4, <2>3 DEF new
  <1>5. CASE ~ EndsCall(e, id)
    <2>1. \A k \in StopsOf(new, id) : k \in StopsOf(rec, id)
      BY <1>1, <1>2, <1>5
    <2>2. \A k \in StopsOf(rec, id) : k \in StopsOf(new, id)
      BY <1>1, <1>2
    <2>3. StopsOf(new, id) = StopsOf(rec, id)
      BY <2>1, <2>2, Zenon
    <2> QED
      BY <1>3, <1>5, <2>3 DEF new
  <1> QED
    BY <1>4, <1>5

LEMMA WholesAppended ==
    ASSUME NEW rec, Events(rec), NEW e, IsEvent(e), NEW id
    PROVE  LET new == Append(rec, e) IN
           /\ Wholes(rec, id) \subseteq 1 .. Len(rec)
           /\ \A k \in Wholes(rec, id) : PiecesOf(new, id, k) = PiecesOf(rec, id, k)
           /\ Wholes(new, id)
                = IF EndsCall(e, id) /\ IsJson(HeldOf(rec, id) \o e.input)
                  THEN Wholes(rec, id) \cup {Len(rec) + 1} ELSE Wholes(rec, id)
  <1> DEFINE new == Append(rec, e)
             m == Len(rec)
             n == m + 1
             whole == EndsCall(e, id) /\ IsJson(HeldOf(rec, id) \o e.input)
  <1>1. m \in Nat
    BY EventAppended
  <1>2. /\ StopsOf(rec, id) \subseteq 1 .. m
        /\ StopsOf(new, id) = IF EndsCall(e, id)
                              THEN StopsOf(rec, id) \cup {n} ELSE StopsOf(rec, id)
    BY StopsAppended
  <1>3. \A k \in 1 .. m : PiecesOf(new, id, k) = PiecesOf(rec, id, k)
    <2> SUFFICES ASSUME NEW k \in 1 .. m PROVE PiecesOf(new, id, k) = PiecesOf(rec, id, k)
      OBVIOUS
    <2>1. k \in Nat /\ k <= Len(rec)
      BY <1>1
    <2> QED
      BY <2>1, PiecesBefore
  <1>4. EndsCall(e, id) => PiecesOf(new, id, n) = HeldOf(rec, id) \o e.input
    BY PiecesAppended DEF IsPiece, EndsCall
  <1> HIDE DEF new
  <1>5. Wholes(rec, id) \subseteq 1 .. m
    BY <1>2 DEF Wholes
  <1>6. n \notin 1 .. m
    BY <1>1
  <1> HIDE DEF n, m
  <1>7. \A k : k \in Wholes(new, id) <=> k \in Wholes(rec, id) \/ (k = n /\ whole)
    <2> SUFFICES ASSUME NEW k
                 PROVE  k \in Wholes(new, id) <=> k \in Wholes(rec, id) \/ (k = n /\ whole)
      OBVIOUS
    <2>1. k \in Wholes(new, id) <=> k \in StopsOf(new, id) /\ IsJson(PiecesOf(new, id, k))
      BY DEF Wholes
    <2>2. k \in Wholes(rec, id) <=> k \in StopsOf(rec, id) /\ IsJson(PiecesOf(rec, id, k))
      BY DEF Wholes
    <2>3. k \in StopsOf(new, id) <=> k \in StopsOf(rec, id) \/ (k = n /\ EndsCall(e, id))
      BY <1>2
    <2>4. CASE k = n
      <3>1. k \notin StopsOf(rec, id)
        BY <1>2, <1>6, <2>4
      <3>2. k \in StopsOf(new, id) <=> EndsCall(e, id)
        BY <2>3, <2>4, <3>1
      <3> QED
        BY <1>4, <2>1, <2>2, <2>4, <3>1, <3>2
    <2>5. CASE k # n
      <3>1. k \in StopsOf(rec, id) => PiecesOf(new, id, k) = PiecesOf(rec, id, k)
        BY <1>2, <1>3
      <3> QED
        BY <2>1, <2>2, <2>3, <2>5, <3>1
    <2> QED
      BY <2>4, <2>5
  <1> HIDE DEF whole
  <1>8. Wholes(new, id) = IF whole THEN Wholes(rec, id) \cup {n} ELSE Wholes(rec, id)
    <2>1. CASE whole
      <3>1. Wholes(new, id) = Wholes(rec, id) \cup {n}
        BY <1>7, <2>1
      <3> QED
        BY <2>1, <3>1
    <2>2. CASE ~ whole
      <3>1. Wholes(new, id) = Wholes(rec, id)
        BY <1>7, <2>2
      <3> QED
        BY <2>2, <3>1
    <2> QED
      BY <2>1, <2>2
  <1>9. \A k \in Wholes(rec, id) : PiecesOf(new, id, k) = PiecesOf(rec, id, k)
    BY <1>3, <1>5
  <1> QED
    BY <1>5, <1>8, <1>9 DEF n, m, new, whole

LEMMA HeldAppended ==
    ASSUME NEW rec, Events(rec), NEW e, IsEvent(e), NEW id
    PROVE  HeldOf(Append(rec, e), id)
             = IF EndsCall(e, id) THEN <<>>
               ELSE IF IsPiece(e, id) THEN HeldOf(rec, id) \o e.input ELSE HeldOf(rec, id)
  <1> DEFINE new == Append(rec, e)
             n == Len(rec) + 1
  <1>1. Len(rec) \in Nat /\ Len(new) = n
    BY EventAppended
  <1>2. /\ StopsOf(rec, id) \subseteq 1 .. Len(rec)
        /\ StopsOf(new, id) = IF EndsCall(e, id)
                              THEN StopsOf(rec, id) \cup {n} ELSE StopsOf(rec, id)
    BY StopsAppended
  <1>3. PiecesOf(new, id, n) = IF IsPiece(e, id) THEN HeldOf(rec, id) \o e.input
                               ELSE HeldOf(rec, id)
    BY PiecesAppended DEF IsPiece
  <1>4. n \in StopsOf(new, id) <=> EndsCall(e, id)
    BY <1>1, <1>2
  <1> HIDE DEF new
  <1>5. HeldOf(new, id) = IF n \in StopsOf(new, id) THEN <<>> ELSE PiecesOf(new, id, n)
    BY <1>1 DEF HeldOf
  <1>6. HeldOf(new, id) = IF EndsCall(e, id) THEN <<>>
                          ELSE IF IsPiece(e, id) THEN HeldOf(rec, id) \o e.input
                          ELSE HeldOf(rec, id)
    BY <1>3, <1>4, <1>5
  <1> QED
    BY <1>6 DEF new

-----------------------------------------------------------------------------
(* The books of the calls.                                                   *)

Books(c, rec) ==
    /\ Answered(c.toolIndex, c.out, rec)
    /\ \A k \in DOMAIN c.out : StartsCall(c.out[k]) => c.hasTool
    /\ HeldIs(c.fragments, rec)
    /\ c.toolError \in BOOLEAN /\ c.upstreamError \in BOOLEAN
    /\ c.toolError <=> Unparsed(rec)
    /\ c.upstreamError <=> Broken(rec)
    /\ c.stopReason \in Reasons

LEMMA ReadingIs ==
    ASSUME NEW c, NEW rec
    PROVE  Reading(c, rec) <=> Heard(c) /\ Unended(c.out) /\ Books(c, rec)
  BY DEF Reading, Heard, Fair, Books

\* The start of a call is that of a whole one.
LEMMA StarterIs ==
    ASSUME NEW blocks, NEW out, Calls(blocks, out), NEW k \in DOMAIN out, StartsCall(out[k])
    PROVE  CallAt(out, k, out[k].index)
  <1> DEFINE i == out[k].index
  <1>1. i \in DOMAIN blocks /\ blocks[i].type = "tool_use"
    BY DEF Calls
  <1>2. PICK j \in DOMAIN out : CallAt(out, j, i)
    BY <1>1 DEF Calls
  <1>3. k \in Of(out, i)
    BY DEF Of, StartsCall, IsBlockEvent
  <1>4. k = j
    BY <1>2, <1>3 DEF CallAt, StartsCall
  <1> QED
    BY <1>2, <1>4

\* Text and thinking start no call of the service's.
LEMMA StartersStay ==
    ASSUME NEW out, NEW new, Adds(out, new),
           \A k \in DOMAIN new : k \notin DOMAIN out => (StartsCall(new[k]) => new[k].id = "invoke"),
           NEW id \in ToolIds
    PROVE  StartersOf(new, id) = StartersOf(out, id)
  <1>1. "invoke" \notin ToolIds
    BY StreamAssumption
  <1>2. DOMAIN out \subseteq DOMAIN new /\ \A k \in DOMAIN out : new[k] = out[k]
    BY DEF Adds
  <1>3. \A k \in StartersOf(new, id) : k \in StartersOf(out, id)
    <2> SUFFICES ASSUME NEW k \in DOMAIN new, StartsCall(new[k]), new[k].id = id
                 PROVE  k \in StartersOf(out, id)
      BY DEF StartersOf
    <2>1. k \in DOMAIN out
      BY <1>1
    <2> QED
      BY <1>2, <2>1 DEF StartersOf
  <1>4. \A k \in StartersOf(out, id) : k \in StartersOf(new, id)
    BY <1>2 DEF StartersOf
  <1> QED
    BY <1>3, <1>4, Zenon

LEMMA AnsweredStays ==
    ASSUME NEW blocks, NEW out, Calls(blocks, out), NEW new, Adds(out, new),
           \A k \in DOMAIN new : k \notin DOMAIN out => (StartsCall(new[k]) => new[k].id = "invoke"),
           NEW toolIndex, NEW rec, Answered(toolIndex, out, rec)
    PROVE  Answered(toolIndex, new, rec)
  <1> SUFFICES ASSUME NEW id \in ToolIds PROVE AnsweredTo(toolIndex, new, rec, id)
    BY DEF Answered
  <1>1. StartersOf(new, id) = StartersOf(out, id)
    BY StartersStay
  <1>2. /\ id \in DOMAIN toolIndex <=> Wholes(rec, id) # {}
        /\ id \notin DOMAIN toolIndex => StartersOf(out, id) = {}
    BY DEF Answered, AnsweredTo
  <1>3. ASSUME id \in DOMAIN toolIndex
        PROVE  \E k \in DOMAIN new :
                  /\ StartersOf(new, id) = {k}
                  /\ new[k + 1].data = PiecesOf(rec, id, Min(Wholes(rec, id)))
    <2>1. PICK k \in DOMAIN out : /\ StartersOf(out, id) = {k}
                                  /\ out[k + 1].data = PiecesOf(rec, id, Min(Wholes(rec, id)))
      BY <1>3, Zenon DEF Answered, AnsweredTo
    <2>2. StartsCall(out[k])
      BY <2>1 DEF StartersOf
    <2>3. CallAt(out, k, out[k].index)
      BY <2>2, StarterIs
    <2>4. k + 1 \in DOMAIN out
      BY <2>3 DEF CallAt
    <2>5. k \in DOMAIN new /\ new[k + 1] = out[k + 1]
      BY <2>4 DEF Adds
    <2> QED
      BY <1>1, <2>1, <2>5
  <1> QED
    BY <1>1, <1>2, <1>3 DEF AnsweredTo

LEMMA GrowsBooks ==
    ASSUME NEW c, Sane(c), NEW d, Grows(c, d), NEW rec, Books(c, rec)
    PROVE  Books(d, rec)
  <1>1. Answered(d.toolIndex, d.out, rec)
    <2>1. Answered(c.toolIndex, d.out, rec)
      BY AnsweredStays DEF Sane, Grows, Books
    <2> QED
      BY <2>1 DEF Grows, Rest
  <1>2. \A k \in DOMAIN d.out : StartsCall(d.out[k]) => d.hasTool
    <2> SUFFICES ASSUME NEW k \in DOMAIN d.out, StartsCall(d.out[k]) PROVE d.hasTool
      OBVIOUS
    <2>1. CASE k \in DOMAIN c.out
      <3>1. d.out[k] = c.out[k]
        BY <2>1 DEF Grows, Adds
      <3> QED
        BY <2>1, <3>1 DEF Books, Grows
    <2>2. CASE k \notin DOMAIN c.out
      BY <2>2 DEF Grows
    <2> QED
      BY <2>1, <2>2
  <1> QED
    BY <1>1, <1>2 DEF Books, Grows, Rest

LEMMA GrowsUnended ==
    ASSUME NEW out, NEW new, Unended(out), Adds(out, new),
           \A k \in DOMAIN new : k \notin DOMAIN out => IsBlockEvent(new[k])
    PROVE  Unended(new)
  BY DEF Unended, Adds, IsBlockEvent

LEMMA BrokenAppended ==
    ASSUME NEW rec, Events(rec), NEW e, IsEvent(e)
    PROVE  Broken(Append(rec, e)) <=> Broken(rec) \/ Fails(e)
  <1> DEFINE new == Append(rec, e)
             n == Len(rec) + 1
  <1>1. /\ Len(rec) \in Nat /\ DOMAIN rec = 1 .. Len(rec) /\ DOMAIN new = 1 .. n
        /\ \A k \in 1 .. Len(rec) : new[k] = rec[k]
        /\ new[n] = e
    BY EventAppended
  <1> HIDE DEF new
  <1>2. \A k \in 1 .. n : k \in 1 .. Len(rec) \/ k = n
    BY <1>1
  <1>3. (\A k \in 1 .. Len(rec) : k \in 1 .. n) /\ n \in 1 .. n
    BY <1>1
  <1> HIDE DEF n
  <1>4. ASSUME Broken(new) PROVE Broken(rec) \/ Fails(e)
    <2>1. PICK k \in DOMAIN new : Fails(new[k])
      BY <1>4, Zenon DEF Broken
    <2> QED
      BY <1>1, <1>2, <2>1 DEF Broken
  <1>5. ASSUME Broken(rec) PROVE Broken(new)
    <2>1. PICK k \in DOMAIN rec : Fails(rec[k])
      BY <1>5, Zenon DEF Broken
    <2>2. k \in DOMAIN new /\ new[k] = rec[k]
      BY <1>1, <1>3, <2>1
    <2>3. Fails(new[k])
      BY <2>1, <2>2
    <2> QED
      BY <2>2, <2>3, Zenon DEF Broken
  <1>6. ASSUME Fails(e) PROVE Broken(new)
    <2>1. n \in DOMAIN new /\ Fails(new[n])
      BY <1>1, <1>3, <1>6
    <2> QED
      BY <2>1, Zenon DEF Broken
  <1>7. Broken(new) <=> Broken(rec) \/ Fails(e)
    BY <1>4, <1>5, <1>6
  <1> QED
    BY <1>7 DEF new

\* An event that is no piece of a call changes nothing of a call.
LEMMA OtherCall ==
    ASSUME NEW rec, Events(rec), NEW e, IsEvent(e), NEW id, ~ IsPiece(e, id)
    PROVE  LET new == Append(rec, e) IN
           /\ StopsOf(new, id) = StopsOf(rec, id) /\ Wholes(new, id) = Wholes(rec, id)
           /\ HeldOf(new, id) = HeldOf(rec, id)
           /\ Wholes(rec, id) # {}
                => PiecesOf(new, id, Min(Wholes(rec, id))) = PiecesOf(rec, id, Min(Wholes(rec, id)))
  <1>1. ~ EndsCall(e, id)
    BY DEF EndsCall
  <1> DEFINE new == Append(rec, e)
  <1>2. Wholes(new, id) = Wholes(rec, id) /\ Wholes(rec, id) \subseteq 1 .. Len(rec)
        /\ \A k \in Wholes(rec, id) : PiecesOf(new, id, k) = PiecesOf(rec, id, k)
    BY <1>1, WholesAppended
  <1>3. StopsOf(new, id) = StopsOf(rec, id) /\ HeldOf(new, id) = HeldOf(rec, id)
    BY <1>1, StopsAppended, HeldAppended
  <1>4. Wholes(rec, id) # {} => Min(Wholes(rec, id)) \in Wholes(rec, id)
    <2>1. Wholes(rec, id) \in SUBSET Nat
      BY <1>2
    <2> QED
      BY <2>1, MinOf
  <1> QED
    BY <1>2, <1>3, <1>4

LEMMA SameAnswer ==
    ASSUME NEW toolIndex, NEW out, NEW rec, NEW id, AnsweredTo(toolIndex, out, rec, id),
           NEW new, Wholes(new, id) = Wholes(rec, id),
           Wholes(rec, id) # {}
             => PiecesOf(new, id, Min(Wholes(rec, id))) = PiecesOf(rec, id, Min(Wholes(rec, id)))
    PROVE  AnsweredTo(toolIndex, out, new, id)
  BY Zenon DEF AnsweredTo

\* One whose books are kept by the error flags and the reason alone.
LEMMA QuietBooks ==
    ASSUME NEW c, NEW rec, Events(rec), Books(c, rec), NEW e, IsEvent(e), e.kind # "tool",
           NEW d, d.toolIndex = c.toolIndex, d.out = c.out, d.hasTool = c.hasTool,
           d.fragments = c.fragments, d.toolError = c.toolError, d.upstreamError \in BOOLEAN,
           d.upstreamError <=> c.upstreamError \/ Fails(e), d.stopReason \in Reasons
    PROVE  Books(d, Append(rec, e))
  <1> DEFINE new == Append(rec, e)
  <1>1. \A id : ~ IsPiece(e, id)
    BY DEF IsPiece
  <1>2. \A id : /\ StopsOf(new, id) = StopsOf(rec, id) /\ Wholes(new, id) = Wholes(rec, id)
                /\ HeldOf(new, id) = HeldOf(rec, id)
                /\ Wholes(rec, id) # {}
                     => PiecesOf(new, id, Min(Wholes(rec, id)))
                          = PiecesOf(rec, id, Min(Wholes(rec, id)))
    BY <1>1, OtherCall
  <1>3. Broken(new) <=> Broken(rec) \/ Fails(e)
    BY BrokenAppended
  <1> HIDE DEF new
  <1>4. Answered(c.toolIndex, c.out, new)
    <2> SUFFICES ASSUME NEW id \in ToolIds PROVE AnsweredTo(c.toolIndex, c.out, new, id)
      BY DEF Answered
    <2>1. AnsweredTo(c.toolIndex, c.out, rec, id)
      BY DEF Answered, Books
    <2> QED
      BY <1>2, <2>1, SameAnswer
  <1>5. HeldIs(c.fragments, new)
    BY <1>2, Zenon DEF HeldIs, Books
  <1>6. Unparsed(new) <=> Unparsed(rec)
    BY <1>2, Zenon DEF Unparsed
  <1> QED
    BY <1>3, <1>4, <1>5, <1>6 DEF Books, new

\* A piece that does not end its call.
LEMMA PieceBooks ==
    ASSUME NEW c, NEW rec, Events(rec), Books(c, rec), NEW e, IsEvent(e), e.kind = "tool", ~ e.stop,
           NEW d, d.toolIndex = c.toolIndex, d.out = c.out, d.hasTool = c.hasTool,
           d.fragments = Kept(c, e), d.toolError = c.toolError,
           d.upstreamError = c.upstreamError, d.stopReason = c.stopReason
    PROVE  Books(d, Append(rec, e))
  <1> DEFINE new == Append(rec, e)
  <1>1. /\ e.id \in ToolIds /\ \A id : ~ EndsCall(e, id)
        /\ ~ Fails(e) /\ \A id : IsPiece(e, id) <=> id = e.id
    BY DEF IsEvent, EndsCall, Fails, IsPiece
  <1>2. \A id : /\ Wholes(new, id) = Wholes(rec, id) /\ Wholes(rec, id) \subseteq 1 .. Len(rec)
                /\ \A k \in Wholes(rec, id) : PiecesOf(new, id, k) = PiecesOf(rec, id, k)
    BY <1>1, WholesAppended
  <1>3. \A id : StopsOf(new, id) = StopsOf(rec, id)
    BY <1>1, StopsAppended
  <1>4. \A id : HeldOf(new, id) = IF id = e.id THEN HeldOf(rec, id) \o e.input ELSE HeldOf(rec, id)
    BY <1>1, HeldAppended
  <1>5. Broken(new) <=> Broken(rec)
    BY <1>1, BrokenAppended
  <1> HIDE DEF new
  <1>6. Answered(c.toolIndex, c.out, new)
    <2> SUFFICES ASSUME NEW id \in ToolIds PROVE AnsweredTo(c.toolIndex, c.out, new, id)
      BY DEF Answered
    <2>1. AnsweredTo(c.toolIndex, c.out, rec, id)
      BY DEF Answered, Books
    <2>2. /\ Wholes(new, id) = Wholes(rec, id)
          /\ Wholes(rec, id) # {}
               => PiecesOf(new, id, Min(Wholes(rec, id))) = PiecesOf(rec, id, Min(Wholes(rec, id)))
      <3>1. Wholes(rec, id) \in SUBSET Nat
        BY <1>2
      <3>2. Wholes(rec, id) # {} => Min(Wholes(rec, id)) \in Wholes(rec, id)
        BY <3>1, MinOf
      <3> QED
        BY <1>2, <3>2, Zenon
    <2> QED
      BY <2>1, <2>2, SameAnswer
  <1>7. HeldIs(d.fragments, new)
    <2>1. /\ DOMAIN c.fragments \subseteq ToolIds
          /\ \A id \in ToolIds : FragmentOf(c.fragments, id) = HeldOf(rec, id)
      BY DEF HeldIs, Books
    <2>2. Pushed(c, e) = FragmentOf(c.fragments, e.id) \o e.input
      BY Zenon DEF Pushed, FragmentOf
    <2>3. /\ DOMAIN d.fragments = DOMAIN c.fragments \cup {e.id}
          /\ \A id \in DOMAIN d.fragments :
                d.fragments[id] = IF id = e.id THEN Pushed(c, e) ELSE c.fragments[id]
      BY DEF Kept
    <2>4. \A id : FragmentOf(d.fragments, id)
                    = IF id = e.id THEN Pushed(c, e) ELSE FragmentOf(c.fragments, id)
      BY <2>3 DEF FragmentOf
    <2>5. DOMAIN d.fragments \subseteq ToolIds
      BY <1>1, <2>1, <2>3
    <2>6. \A id \in ToolIds : FragmentOf(d.fragments, id) = HeldOf(new, id)
      BY <1>1, <1>4, <2>1, <2>2, <2>4
    <2> QED
      BY <2>5, <2>6 DEF HeldIs
  <1>8. Unparsed(new) <=> Unparsed(rec)
    BY <1>2, <1>3, Zenon DEF Unparsed
  <1> QED
    BY <1>5, <1>6, <1>7, <1>8 DEF Books, new

\* A piece that ends its call: the other calls are as they were.
Dropped(fragments, id) == [x \in DOMAIN fragments \ {id} |-> fragments[x]]

LEMMA EndsIs ==
    ASSUME NEW e, IsEvent(e), e.kind = "tool", e.stop
    PROVE  /\ e.id \in ToolIds /\ EndsCall(e, e.id) /\ IsPiece(e, e.id) /\ ~ Fails(e)
           /\ \A id : id # e.id => ~ IsPiece(e, id)
  BY DEF IsEvent, EndsCall, Fails, IsPiece

LEMMA EndedHeld ==
    ASSUME NEW rec, Events(rec), NEW e, IsEvent(e), e.kind = "tool", e.stop,
           NEW fragments, HeldIs(fragments, rec)
    PROVE  HeldIs(Dropped(fragments, e.id), Append(rec, e))
  <1> DEFINE new == Append(rec, e)
             less == Dropped(fragments, e.id)
  <1>1. DOMAIN less = DOMAIN fragments \ {e.id} /\ \A x \in DOMAIN less : less[x] = fragments[x]
    BY DEF Dropped
  <1>2. HeldOf(new, e.id) = <<>>
    BY EndsIs, HeldAppended
  <1>3. \A id : id # e.id => HeldOf(new, id) = HeldOf(rec, id)
    BY EndsIs, OtherCall
  <1> HIDE DEF new, less
  <1>4. ASSUME NEW id \in ToolIds PROVE FragmentOf(less, id) = HeldOf(new, id)
    <2>1. FragmentOf(fragments, id) = HeldOf(rec, id)
      BY DEF HeldIs
    <2>2. CASE id = e.id
      BY <1>1, <1>2, <2>2 DEF FragmentOf
    <2>3. CASE id # e.id
      <3>1. FragmentOf(less, id) = FragmentOf(fragments, id)
        BY <1>1, <2>3 DEF FragmentOf
      <3> QED
        BY <1>3, <2>1, <2>3, <3>1
    <2> QED
      BY <2>2, <2>3
  <1>5. DOMAIN less \subseteq ToolIds
    BY <1>1 DEF HeldIs
  <1> QED
    BY <1>4, <1>5 DEF HeldIs, new, less

\* It has come whole, and is sent.
LEMMA CallAnswered ==
    ASSUME NEW c, Sane(c), NEW rec, Events(rec), Answered(c.toolIndex, c.out, rec),
           NEW e, IsEvent(e), e.kind = "tool", e.stop,
           NEW json, json = HeldOf(rec, e.id) \o e.input, IsJson(json),
           NEW d, SendsCall(c, d, e.id, json)
    PROVE  Answered(d.toolIndex, d.out, Append(rec, e))
  <1> DEFINE new == Append(rec, e)
             n == Len(rec) + 1
             x == e.id
  <1>1. /\ x \in ToolIds /\ EndsCall(e, x) /\ IsPiece(e, x) /\ x # "invoke"
        /\ \A id : id # x => ~ IsPiece(e, id)
    BY EndsIs, StreamAssumption
  <1>2. DOMAIN c.out \subseteq DOMAIN d.out /\ \A k \in DOMAIN c.out : d.out[k] = c.out[k]
    BY DEF SendsCall, Adds
  <1>3. \A id : id \in DOMAIN d.toolIndex <=> id \in DOMAIN c.toolIndex \/ id = x
    BY <1>1 DEF SendsCall
  <1>4. \A k \in DOMAIN d.out : k \notin DOMAIN c.out /\ StartsCall(d.out[k]) => d.out[k].id = x
    BY DEF SendsCall
  <1>5. \A k \in DOMAIN c.out : StartsCall(c.out[k]) => k + 1 \in DOMAIN c.out
    BY StarterIs DEF Sane, CallAt
  <1> SUFFICES ASSUME NEW id \in ToolIds PROVE AnsweredTo(d.toolIndex, d.out, new, id)
    BY DEF Answered
  <1>6. AnsweredTo(c.toolIndex, c.out, rec, id)
    BY DEF Answered
  <1>7. \A k \in StartersOf(c.out, id) : k \in StartersOf(d.out, id) /\ d.out[k + 1] = c.out[k + 1]
    BY <1>2, <1>5 DEF StartersOf
  <1>8. CASE id # x
    <2>1. AnsweredTo(c.toolIndex, c.out, new, id)
      BY <1>1, <1>6, <1>8, OtherCall, SameAnswer
    <2>2. StartersOf(d.out, id) = StartersOf(c.out, id)
      <3>1. \A k \in StartersOf(d.out, id) : k \in StartersOf(c.out, id)
        BY <1>2, <1>4, <1>8 DEF StartersOf
      <3> QED
        BY <1>7, <3>1, Zenon
    <2>3. id \in DOMAIN d.toolIndex <=> id \in DOMAIN c.toolIndex
      BY <1>3, <1>8
    <2> HIDE DEF new
    <2>4. ASSUME NEW k \in DOMAIN c.out, StartersOf(c.out, id) = {k}
          PROVE  k \in DOMAIN d.out /\ d.out[k + 1] = c.out[k + 1]
      BY <1>2, <1>7, <2>4
    <2> QED
      BY <2>1, <2>2, <2>3, <2>4 DEF AnsweredTo
  <1>9. CASE id = x
    <2>1. /\ Wholes(rec, x) \in SUBSET (1 .. Len(rec)) /\ Len(rec) \in Nat
          /\ \A k \in Wholes(rec, x) : PiecesOf(new, x, k) = PiecesOf(rec, x, k)
          /\ Wholes(new, x) = Wholes(rec, x) \cup {n}
      BY <1>1, WholesAppended, EventAppended
    <2>2. PiecesOf(new, x, n) = json
      BY <1>1, PiecesAppended DEF IsPiece
    <2>3. x \in DOMAIN d.toolIndex /\ Wholes(new, x) # {}
      BY <1>3, <2>1
    <2>4. n = Len(rec) + 1
      OBVIOUS
    <2> HIDE DEF new, n, x
    <2>5. /\ Wholes(rec, x) # {} => Min(Wholes(new, x)) = Min(Wholes(rec, x))
                                   /\ Min(Wholes(rec, x)) \in Wholes(rec, x)
          /\ Wholes(rec, x) = {} => Min(Wholes(new, x)) = n
      <3>1. NextPlace(Wholes(rec, x), Wholes(new, x), n)
        BY <2>1, <2>4 DEF NextPlace
      <3> QED
        BY <3>1, MinWithMore, Zenon
    <2>6. CASE x \in DOMAIN c.toolIndex
      <3>1. PICK k \in DOMAIN c.out :
               /\ StartersOf(c.out, x) = {k}
               /\ c.out[k + 1].data = PiecesOf(rec, x, Min(Wholes(rec, x)))
        BY <1>6, <1>9, <2>6 DEF AnsweredTo
      <3>2. Wholes(rec, x) # {}
        BY <1>6, <1>9, <2>6 DEF AnsweredTo
      <3>3. PiecesOf(new, x, Min(Wholes(new, x))) = PiecesOf(rec, x, Min(Wholes(rec, x)))
        BY <2>1, <2>5, <3>2
      <3>4. StartersOf(d.out, x) = {k}
        <4>1. \A j \in DOMAIN d.out : j \notin DOMAIN c.out => ~ StartsCall(d.out[j])
          BY <2>6 DEF SendsCall, x
        <4>2. \A j \in StartersOf(d.out, x) : j \in StartersOf(c.out, x)
          BY <1>2, <4>1 DEF StartersOf
        <4>3. StartersOf(d.out, x) = StartersOf(c.out, x)
          BY <1>7, <1>9, <4>2, Zenon
        <4> QED
          BY <3>1, <4>3
      <3>5. k \in DOMAIN d.out /\ d.out[k + 1] = c.out[k + 1]
        BY <1>2, <1>7, <1>9, <3>1
      <3> QED
        BY <1>9, <2>3, <3>1, <3>3, <3>4, <3>5 DEF AnsweredTo
    <2>7. CASE x \notin DOMAIN c.toolIndex
      <3>1. Wholes(rec, x) = {} /\ StartersOf(c.out, x) = {}
        BY <1>6, <1>9, <2>7 DEF AnsweredTo
      <3>2. PiecesOf(new, x, Min(Wholes(new, x))) = json
        BY <2>2, <2>5, <3>1
      <3>3. PICK k \in DOMAIN d.out :
               /\ k \notin DOMAIN c.out /\ StartsCall(d.out[k]) /\ d.out[k].id = x
               /\ d.out[k + 1].data = json
               /\ \A j \in DOMAIN d.out : j \notin DOMAIN c.out /\ StartsCall(d.out[j]) => j = k
        BY <2>7 DEF SendsCall, x
      <3>4. StartersOf(d.out, x) = {k}
        <4>1. \A j \in StartersOf(d.out, x) : j \notin DOMAIN c.out
          <5> SUFFICES ASSUME NEW j \in StartersOf(d.out, x), j \in DOMAIN c.out PROVE FALSE
            OBVIOUS
          <5>1. j \in StartersOf(c.out, x)
            BY <1>2 DEF StartersOf
          <5> QED
            BY <3>1, <5>1
        <4>2. \A j \in StartersOf(d.out, x) : j = k
          BY <3>3, <4>1 DEF StartersOf
        <4>3. k \in StartersOf(d.out, x)
          BY <3>3 DEF StartersOf
        <4> QED
          BY <4>2, <4>3
      <3> QED
        BY <1>9, <2>3, <3>2, <3>3, <3>4 DEF AnsweredTo
    <2> QED
      BY <2>6, <2>7
  <1> QED
    BY <1>8, <1>9

-----------------------------------------------------------------------------
(* The steps of the stream.                                                  *)

\* Changes of fields that text, thinking and blocks do without.
Apart(c, d) ==
    /\ Frame(c, d) /\ d.blocks = c.blocks /\ d.out = c.out /\ d.sniff = c.sniff
    /\ d.guard = c.guard /\ d.hasTool = c.hasTool /\ d.output = c.output
    /\ d.toolIndex = c.toolIndex

LEMMA ApartHeard ==
    ASSUME NEW c, NEW d, Apart(c, d)
    PROVE  /\ Sane(c) => Sane(d)
           /\ Heard(c) => Heard(d)
  <1>1. Sane(c) => Sane(d)
    <2>1. Sane(c) => Typed(d)
      BY DEF Apart, Frame, Sane, Typed
    <2> QED
      BY <2>1 DEF Apart, Frame, Sane, Tagged, Tools
  <1>2. Hush(c) => Hush(d)
    BY DEF Apart, Hush, Spoken
  <1>3. Told(c) => Told(d)
    BY DEF Apart, Frame, Told, Spoken
  <1>4. Untouched(c) => Untouched(d)
    BY DEF Apart, Frame, Untouched
  <1> QED
    BY <1>1, <1>2, <1>3, <1>4 DEF Heard, Fair, Apart

\* d is c but for these fields.
Marked(c, d, fragments, stopReason, toolError, upstreamError) ==
    /\ Apart(c, d) /\ d.fragments = fragments /\ d.stopReason = stopReason
    /\ d.toolError = toolError /\ d.upstreamError = upstreamError

LEMMA FragmentsApart ==
    ASSUME NEW c, DOMAIN c = Fields, NEW x
    PROVE  Marked(c, [c EXCEPT !.fragments = x], x, c.stopReason, c.toolError, c.upstreamError)
  BY DEF Marked, Apart, Frame, Fields

LEMMA ReasonApart ==
    ASSUME NEW c, DOMAIN c = Fields, NEW x
    PROVE  /\ Marked(c, SetStopReason(c, x), c.fragments, x, c.toolError, c.upstreamError)
           /\ Marked(c, ToolJsonError(c), c.fragments, "error", TRUE, c.upstreamError)
           /\ Marked(c, SetStopReason([c EXCEPT !.upstreamError = TRUE], "error"),
                     c.fragments, "error", c.toolError, TRUE)
  BY DEF Marked, Apart, Frame, Fields, SetStopReason, ToolJsonError

\* What is pushed for an event is what was held of its call and its own piece.
LEMMA PushedIs ==
    ASSUME NEW c, NEW rec, HeldIs(c.fragments, rec), NEW e, e.id \in ToolIds
    PROVE  Pushed(c, e) = HeldOf(rec, e.id) \o e.input
  <1>1. FragmentOf(c.fragments, e.id) = HeldOf(rec, e.id)
    BY DEF HeldIs
  <1>2. Pushed(c, e) = FragmentOf(c.fragments, e.id) \o e.input
    BY Zenon DEF Pushed, FragmentOf
  <1> QED
    BY <1>1, <1>2

\* The end of a call leaves the count of those that could not be parsed as it
\* was, or adds one.
LEMMA EndedUnparsed ==
    ASSUME NEW rec, Events(rec), NEW e, IsEvent(e), e.kind = "tool", e.stop
    PROVE  IF IsJson(HeldOf(rec, e.id) \o e.input)
           THEN Unparsed(Append(rec, e)) <=> Unparsed(rec)
           ELSE Unparsed(Append(rec, e))
  <1> DEFINE new == Append(rec, e)
             x == e.id
             n == Len(rec) + 1
  <1>1. /\ x \in ToolIds /\ EndsCall(e, x) /\ \A id : id # x => ~ IsPiece(e, id)
    BY EndsIs
  <1>2. \A id : id # x => /\ StopsOf(new, id) = StopsOf(rec, id)
                          /\ Wholes(new, id) = Wholes(rec, id)
    BY <1>1, OtherCall
  <1>3. /\ StopsOf(rec, x) \subseteq 1 .. Len(rec) /\ StopsOf(new, x) = StopsOf(rec, x) \cup {n}
        /\ Wholes(rec, x) \subseteq 1 .. Len(rec)
        /\ Wholes(new, x) = IF IsJson(HeldOf(rec, x) \o e.input)
                            THEN Wholes(rec, x) \cup {n} ELSE Wholes(rec, x)
    BY <1>1, StopsAppended, WholesAppended
  <1>4. n \notin 1 .. Len(rec)
    BY EventAppended
  <1> HIDE DEF new, n, x
  <1>5. CASE IsJson(HeldOf(rec, x) \o e.input)
    <2>1. StopsOf(new, x) = Wholes(new, x) <=> StopsOf(rec, x) = Wholes(rec, x)
      <3>1. n \notin StopsOf(rec, x) /\ n \notin Wholes(rec, x)
        BY <1>3, <1>4
      <3>2. StopsOf(new, x) = StopsOf(rec, x) \cup {n} /\ Wholes(new, x) = Wholes(rec, x) \cup {n}
        BY <1>3, <1>5
      <3> QED
        BY <3>1, <3>2
    <2>2. \A id \in ToolIds : StopsOf(new, id) = Wholes(new, id) <=> StopsOf(rec, id) = Wholes(rec, id)
      BY <1>2, <2>1
    <2>3. Unparsed(new) <=> Unparsed(rec)
      BY <2>2, Zenon DEF Unparsed
    <2> QED
      BY <1>5, <2>3 DEF new, x
  <1>6. CASE ~ IsJson(HeldOf(rec, x) \o e.input)
    <2>1. StopsOf(new, x) # Wholes(new, x)
      BY <1>3, <1>4, <1>6
    <2>2. Unparsed(new)
      BY <1>1, <2>1 DEF Unparsed
    <2> QED
      BY <1>6, <2>2 DEF new, x
  <1> QED
    BY <1>5, <1>6

\* A response being read, at a tool event.
LEMMA PushReads ==
    ASSUME NEW c, Heard(c), Unended(c.out), c.hasTool, NEW rec, Events(rec), Books(c, rec),
           NEW e, IsEvent(e), e.kind = "tool"
    PROVE  Reading(PushToolUse(c, e), Append(rec, e))
  <1> DEFINE new  == Append(rec, e)
             json == Pushed(c, e)
             less == Dropped(c.fragments, e.id)
             rest == [c EXCEPT !.fragments = less]
             d    == PushToolUse(c, e)
  <1>1. DOMAIN c = Fields /\ Sane(c) /\ e.id \in ToolIds /\ e.stop \in BOOLEAN
    BY DEF Heard, Fair, Sane, Typed, IsEvent
  <1>2. json = HeldOf(rec, e.id) \o e.input
    BY <1>1, PushedIs DEF Books
  <1>3. CASE ~ e.stop
    <2> DEFINE h == [c EXCEPT !.fragments = Kept(c, e)]
    <2>1. d = h
      BY <1>3, Zenon DEF PushToolUse
    <2>2. Marked(c, h, Kept(c, e), c.stopReason, c.toolError, c.upstreamError)
      BY <1>1, FragmentsApart, Zenon
    <2> HIDE DEF h
    <2>3. Books(h, new)
      BY <1>3, <2>2, PieceBooks DEF Marked, Apart
    <2>4. Heard(h) /\ Unended(h.out)
      BY <2>2, ApartHeard DEF Marked, Apart
    <2>5. Reading(h, new)
      BY <2>3, <2>4, ReadingIs
    <2> QED
      BY <2>1, <2>5
  <1>4. CASE e.stop
    <2>1. d = IF IsJson(json) THEN EmitToolUse(rest, e.id, json) ELSE ToolJsonError(rest)
      BY <1>4, Zenon DEF PushToolUse, Dropped
    <2>2. Marked(c, rest, less, c.stopReason, c.toolError, c.upstreamError)
      BY <1>1, FragmentsApart, Zenon
    <2>3. /\ Apart(c, rest) /\ rest.fragments = less /\ rest.stopReason = c.stopReason
          /\ rest.toolError = c.toolError /\ rest.upstreamError = c.upstreamError
      BY <2>2 DEF Marked
    <2>4. HeldIs(less, new)
      BY <1>4, EndedHeld DEF Books
    <2>5. Broken(new) <=> Broken(rec)
      BY <1>4, EndsIs, BrokenAppended
    <2>6. IF IsJson(json) THEN Unparsed(new) <=> Unparsed(rec) ELSE Unparsed(new)
      BY <1>2, <1>4, EndedUnparsed
    <2> HIDE DEF rest, less, json, d
    <2>7. Sane(rest) /\ Heard(rest) /\ rest.out = c.out /\ rest.toolIndex = c.toolIndex
      BY <1>1, <2>3, ApartHeard DEF Apart
    <2>8. CASE IsJson(json)
      <3> DEFINE s == EmitToolUse(rest, e.id, json)
      <3>1. SendsCall(rest, s, e.id, json)
        BY <2>7, EmitToolUseSends
      <3> HIDE DEF s
      <3>2. Answered(s.toolIndex, s.out, new)
        <4>1. Answered(rest.toolIndex, rest.out, rec)
          BY <2>7 DEF Books
        <4> QED
          BY <1>2, <1>4, <2>7, <2>8, <3>1, <4>1, CallAnswered DEF new
      <3>3. Heard(s)
        <4>1. Sane(s) /\ s.hasTool
          BY <3>1 DEF SendsCall
        <4> QED
          BY <4>1 DEF Heard, Fair, Hush, Told, Spoken
      <3>4. Unended(s.out)
        BY <2>7, <3>1, GrowsUnended DEF SendsCall
      <3>5. Books(s, new)
        BY <2>3, <2>4, <2>5, <2>6, <2>8, <3>1, <3>2 DEF Books, SendsCall
      <3>6. Reading(s, new)
        BY <3>3, <3>4, <3>5, ReadingIs
      <3> QED
        BY <2>1, <2>8, <3>6 DEF s, d
    <2>9. CASE ~ IsJson(json)
      <3> DEFINE s == ToolJsonError(rest)
      <3>1. DOMAIN rest = Fields
        BY <2>3 DEF Apart, Frame
      <3>2. /\ Apart(rest, s) /\ s.fragments = rest.fragments /\ s.stopReason = "error"
            /\ s.toolError = TRUE /\ s.upstreamError = rest.upstreamError
        BY <3>1, ReasonApart DEF Marked
      <3> HIDE DEF s
      <3>3. /\ Heard(s) /\ s.out = c.out /\ s.toolIndex = c.toolIndex /\ s.hasTool = c.hasTool
        BY <2>3, <2>7, <3>2, ApartHeard DEF Apart
      <3>4. \A id \in ToolIds :
               /\ Wholes(new, id) = Wholes(rec, id)
               /\ Wholes(rec, id) # {}
                    => PiecesOf(new, id, Min(Wholes(rec, id))) = PiecesOf(rec, id, Min(Wholes(rec, id)))
        <4> SUFFICES ASSUME NEW id \in ToolIds
                     PROVE  /\ Wholes(new, id) = Wholes(rec, id)
                            /\ Wholes(rec, id) # {}
                                 => PiecesOf(new, id, Min(Wholes(rec, id)))
                                      = PiecesOf(rec, id, Min(Wholes(rec, id)))
          OBVIOUS
        <4>1. CASE id # e.id
          BY <1>4, <4>1, EndsIs, OtherCall
        <4>2. CASE id = e.id
          <5>1. /\ Wholes(new, id) = Wholes(rec, id) /\ Wholes(rec, id) \subseteq 1 .. Len(rec)
                /\ \A k \in Wholes(rec, id) : PiecesOf(new, id, k) = PiecesOf(rec, id, k)
            BY <1>2, <2>9, <4>2, WholesAppended
          <5>2. Wholes(rec, id) \in SUBSET Nat
            BY <5>1
          <5> QED
            BY <5>1, <5>2, MinOf
        <4> QED
          BY <4>1, <4>2
      <3>5. Answered(s.toolIndex, s.out, new)
        <4> HIDE DEF new
        <4> SUFFICES ASSUME NEW id \in ToolIds PROVE AnsweredTo(c.toolIndex, c.out, new, id)
          BY <3>3 DEF Answered
        <4>1. AnsweredTo(c.toolIndex, c.out, rec, id)
          BY DEF Answered, Books
        <4> QED
          BY <3>4, <4>1, SameAnswer
      <3>6. Books(s, new)
        BY <2>3, <2>4, <2>5, <2>6, <2>9, <3>2, <3>3, <3>5 DEF Books, Reasons
      <3>7. Reading(s, new)
        BY <3>3, <3>6, ReadingIs
      <3> QED
        BY <2>1, <2>9, <3>7 DEF s, d
    <2> QED
      BY <2>8, <2>9 DEF d
  <1> QED
    BY <1>1, <1>3, <1>4

\* A response being read, at any other event.
LEMMA QuietReads ==
    ASSUME NEW c, NEW rec, Reading(c, rec), Events(rec),
           NEW e, IsEvent(e), e.kind # "tool", ~ Fails(e),
           NEW d, Heard(d), Grows(c, d)
    PROVE  Reading(d, Append(rec, e))
  <1>1. Heard(c) /\ Sane(c) /\ Unended(c.out) /\ Books(c, rec)
    BY ReadingIs DEF Heard, Fair
  <1>2. Books(d, rec)
    BY <1>1, GrowsBooks
  <1>3. Unended(d.out)
    BY <1>1, GrowsUnended DEF Grows
  <1>4. Books(d, Append(rec, e))
    <2>1. d.upstreamError \in BOOLEAN /\ d.stopReason \in Reasons
      BY <1>2 DEF Books
    <2> QED
      BY <1>2, <2>1, QuietBooks
  <1> QED
    BY <1>3, <1>4, ReadingIs

LEMMA MarkedReads ==
    ASSUME NEW c, NEW rec, Reading(c, rec), Events(rec),
           NEW e, IsEvent(e), e.kind # "tool",
           NEW reason \in Reasons, NEW failed \in BOOLEAN, failed <=> c.upstreamError \/ Fails(e),
           NEW d, Marked(c, d, c.fragments, reason, c.toolError, failed)
    PROVE  Reading(d, Append(rec, e))
  <1>1. Heard(c) /\ Unended(c.out) /\ Books(c, rec)
    BY ReadingIs
  <1>2. Heard(d) /\ Unended(d.out)
    BY <1>1, ApartHeard DEF Marked, Apart
  <1>3. Books(d, Append(rec, e))
    BY <1>1, QuietBooks DEF Marked, Apart
  <1> QED
    BY <1>2, <1>3, ReadingIs

LEMMA SetUpstreamErrorIs ==
    ASSUME NEW c, DOMAIN c = Fields, c.upstreamError \in BOOLEAN, c.stopReason \in Reasons
    PROVE  \E reason \in Reasons :
              Marked(c, SetUpstreamError(c), c.fragments, reason, c.toolError, TRUE)
  <1> DEFINE d == SetStopReason([c EXCEPT !.upstreamError = TRUE], "error")
  <1>1. CASE c.upstreamError
    <2>1. SetUpstreamError(c) = c
      BY <1>1 DEF SetUpstreamError
    <2>2. c.upstreamError = TRUE
      BY <1>1
    <2>3. Marked(c, c, c.fragments, c.stopReason, c.toolError, TRUE)
      BY <2>2 DEF Marked, Apart, Frame
    <2> QED
      BY <2>1, <2>3
  <1>2. CASE ~ c.upstreamError
    <2>1. SetUpstreamError(c) = d
      BY <1>2 DEF SetUpstreamError
    <2>2. Marked(c, d, c.fragments, "error", c.toolError, TRUE)
      BY ReasonApart, Zenon
    <2>3. "error" \in Reasons
      BY DEF Reasons
    <2> QED
      BY <2>1, <2>2, <2>3, Zenon
  <1> QED
    BY <1>1, <1>2

LEMMA EventReads ==
    ASSUME NEW c, NEW rec, Reading(c, rec), Events(rec), NEW e, IsEvent(e)
    PROVE  Reading(ProcessKiroEvent(c, e), Append(rec, e))
  <1> DEFINE new == Append(rec, e)
  <1>1. Heard(c) /\ Fair(c) /\ Sane(c) /\ DOMAIN c = Fields /\ Unended(c.out) /\ Books(c, rec)
    BY ReadingIs DEF Heard, Fair, Sane, Typed
  <1>2. c.upstreamError \in BOOLEAN /\ c.stopReason \in Reasons
    BY <1>1 DEF Books
  <1>3. CASE e.kind = "assistant"
    <2>1. ProcessKiroEvent(c, e) = ProcessAssistantResponse(c, e.content)
      BY <1>3 DEF ProcessKiroEvent
    <2>2. ~ Fails(e) /\ e.content \in Text
      BY <1>3 DEF Fails, IsEvent
    <2>3. Heard(ProcessAssistantResponse(c, e.content)) /\ Grows(c, ProcessAssistantResponse(c, e.content))
      BY <1>1, <2>2, AssistantReads
    <2> QED
      BY <1>3, <2>1, <2>2, <2>3, QuietReads
  <1>4. CASE e.kind = "reasoning"
    <2>1. ProcessKiroEvent(c, e) = ProcessReasoning(c, e)
      BY <1>4 DEF ProcessKiroEvent
    <2>2. ~ Fails(e) /\ e.text \in Text
      BY <1>4 DEF Fails, IsEvent
    <2>3. Heard(ProcessReasoning(c, e)) /\ Grows(c, ProcessReasoning(c, e))
      BY <1>1, <2>2, ReasoningReads
    <2> QED
      BY <1>4, <2>1, <2>2, <2>3, QuietReads
  <1>5. CASE e.kind = "tool"
    <2> DEFINE b == BeforeTool(c)
    <2>1. ProcessKiroEvent(c, e) = PushToolUse(b, e)
      BY <1>5 DEF ProcessKiroEvent, ProcessToolUse, BeforeTool
    <2>2. Grows(c, b) /\ b.hasTool
      BY <1>1, BeforeToolGrows
    <2> HIDE DEF b
    <2>3. Heard(b) /\ Unended(b.out) /\ Books(b, rec)
      <3>1. Heard(b)
        BY <2>2 DEF Heard, Grows, Told, Spoken
      <3>2. Unended(b.out)
        BY <1>1, <2>2, GrowsUnended DEF Grows
      <3> QED
        BY <1>1, <2>2, <3>1, <3>2, GrowsBooks
    <2> QED
      BY <1>5, <2>1, <2>2, <2>3, PushReads
  <1>6. CASE e.kind = "contextUsage"
    <2>1. ProcessKiroEvent(c, e)
            = IF e.full THEN SetStopReason(c, "model_context_window_exceeded") ELSE c
      BY <1>6 DEF ProcessKiroEvent
    <2>2. ~ Fails(e) /\ e.kind # "tool"
      BY <1>6 DEF Fails
    <2>3. CASE e.full
      <3>1. Marked(c, SetStopReason(c, "model_context_window_exceeded"), c.fragments,
                   "model_context_window_exceeded", c.toolError, c.upstreamError)
        BY <1>1, ReasonApart, Zenon
      <3>2. "model_context_window_exceeded" \in Reasons
        BY DEF Reasons
      <3> QED
        BY <1>2, <2>1, <2>2, <2>3, <3>1, <3>2, MarkedReads
    <2>4. CASE ~ e.full
      <3>1. Grows(c, c)
        BY <1>1, GrowsSelf
      <3> QED
        BY <1>1, <2>1, <2>2, <2>4, <3>1, QuietReads
    <2> QED
      BY <2>3, <2>4
  <1>7. CASE e.kind = "exception" /\ e.tooLong
    <2>1. ProcessKiroEvent(c, e) = SetStopReason(c, "max_tokens")
      BY <1>7 DEF ProcessKiroEvent
    <2>2. ~ Fails(e) /\ e.kind # "tool"
      BY <1>7 DEF Fails
    <2>3. Marked(c, SetStopReason(c, "max_tokens"), c.fragments, "max_tokens",
                 c.toolError, c.upstreamError)
      BY <1>1, ReasonApart, Zenon
    <2>4. "max_tokens" \in Reasons
      BY DEF Reasons
    <2> QED
      BY <1>2, <2>1, <2>2, <2>3, <2>4, MarkedReads
  <1>8. CASE Fails(e)
    <2>1. ProcessKiroEvent(c, e) = SetUpstreamError(c)
      BY <1>8 DEF ProcessKiroEvent, Fails
    <2>2. e.kind # "tool"
      BY <1>8 DEF Fails
    <2>3. PICK reason \in Reasons :
             Marked(c, SetUpstreamError(c), c.fragments, reason, c.toolError, TRUE)
      BY <1>1, <1>2, SetUpstreamErrorIs
    <2> QED
      BY <1>8, <2>1, <2>2, <2>3, MarkedReads
  <1>9. \/ e.kind \in {"assistant", "reasoning", "tool", "contextUsage"}
        \/ e.kind = "exception" /\ e.tooLong
        \/ Fails(e)
    BY DEF IsEvent, Fails
  <1> QED
    BY <1>3, <1>4, <1>5, <1>6, <1>7, <1>8, <1>9

-----------------------------------------------------------------------------
(* The beginning.                                                            *)

LEMMA NothingReceived ==
    /\ Events(<<>>) /\ ~ Unparsed(<<>>) /\ ~ Broken(<<>>)
    /\ \A id : StopsOf(<<>>, id) = {} /\ Wholes(<<>>, id) = {} /\ HeldOf(<<>>, id) = <<>>
  <1>1. Len(<<>>) = 0 /\ DOMAIN <<>> = {} /\ IsSeq(<<>>)
    BY DEF IsSeq
  <1>2. Events(<<>>) /\ ~ Broken(<<>>)
    BY <1>1 DEF Events, Broken
  <1>3. \A id : StopsOf(<<>>, id) = {} /\ Wholes(<<>>, id) = {}
    BY <1>1 DEF StopsOf, Wholes
  <1>4. ASSUME NEW id PROVE HeldOf(<<>>, id) = <<>>
    <2>1. ASSUME NEW rec, Events(rec), NEW j \in Nat, j <= Len(rec), j = 0
          PROVE  PiecesOf(rec, id, j) = <<>>
      <3>1. PICK L \in [0 .. j -> JsonText] : PieceSteps(L, rec, id, j)
        BY <2>1, PiecesFold, Zenon
      <3> QED
        BY <2>1, <3>1 DEF PieceSteps
    <2>2. PiecesOf(<<>>, id, 0) = <<>>
      BY <1>1, <1>2, <2>1
    <2> QED
      BY <1>1, <1>3, <2>2 DEF HeldOf
  <1>5. ~ Unparsed(<<>>)
    BY <1>3 DEF Unparsed
  <1> QED
    BY <1>2, <1>3, <1>4, <1>5

LEMMA NewContextReads ==
    Reading(NewContext(Thinking), <<>>)
  <1> DEFINE e == [ev |-> "message_start"]
             c == [blocks |-> <<>>, stopReason |-> "none", hasTool |-> FALSE, ended |-> FALSE,
                   out |-> <<e>>, output |-> FALSE,
                   text |-> 0, thinking |-> 0, inThinking |-> FALSE, extracted |-> FALSE,
                   stripNewline |-> FALSE, signature |-> <<>>, buffer |-> <<>>, sniff |-> <<>>,
                   xml |-> XmlFilterInit, guard |-> [run |-> 0, tripped |-> FALSE],
                   fence |-> [open |-> FALSE, partial |-> FALSE], toolIndex |-> <<>>,
                   fragments |-> <<>>, toolError |-> FALSE, upstreamError |-> FALSE]
             b == [c EXCEPT !.text = 1]
             d == StartBlock(b, "text", "-")
  <1>1. NewContext(Thinking) = IF Thinking THEN c ELSE d
    BY Zenon DEF NewContext
  <1>2. e.ev = "message_start"
    OBVIOUS
  <1> HIDE DEF e
  <1>3. /\ DOMAIN c = Fields
        /\ c.blocks = <<>> /\ c.out = <<e>> /\ c.thinking = 0 /\ c.inThinking = FALSE
        /\ c.extracted = FALSE /\ c.stripNewline = FALSE /\ c.buffer = <<>> /\ c.sniff = <<>>
        /\ c.xml = XmlFilterInit /\ c.toolIndex = <<>> /\ c.fragments = <<>>
        /\ c.hasTool = FALSE /\ c.output = FALSE /\ c.toolError = FALSE
        /\ c.upstreamError = FALSE /\ c.stopReason = "none"
        /\ c.guard.run = 0 /\ c.guard.tripped = FALSE
    BY DEF Fields
  <1> HIDE DEF c
  <1>4. Apart(c, b) /\ b.fragments = <<>> /\ b.stopReason = "none"
        /\ b.toolError = FALSE /\ b.upstreamError = FALSE
    BY <1>3 DEF Apart, Frame, Fields
  <1> HIDE DEF b
  <1>5. Sane(c) /\ Hush(c)
    <2>1. Typed(c)
      <3>1. Good(NewContext(TRUE)) /\ NewContext(TRUE) = c
        BY NewContextGood, Zenon DEF NewContext, c, e
      <3> QED
        BY <3>1 DEF Good
    <2>2. DOMAIN c.blocks = {} /\ DOMAIN c.toolIndex = {} /\ DOMAIN c.out = {1} /\ c.out[1] = e
      BY <1>3
    <2>3. Calls(c.blocks, c.out)
      BY <1>2, <2>2 DEF Calls, StartsCall, IsBlockEvent
    <2>4. Tagged(c) /\ Tools(c) /\ "invoke" \notin DOMAIN c.toolIndex
      BY <1>3, <2>2 DEF Tagged, Tools
    <2>5. Hush(c)
      BY <1>3, <2>2 DEF Hush
    <2> QED
      BY <2>1, <2>3, <2>4, <2>5 DEF Sane
  <1>6. Unended(c.out)
    BY <1>2, <1>3 DEF Unended
  <1>7. ASSUME NEW f, f.toolIndex = <<>>, f.out = c.out, f.fragments = <<>>,
               f.toolError = FALSE, f.upstreamError = FALSE, f.stopReason = "none"
        PROVE  Books(f, <<>>)
    <2>1. DOMAIN f.toolIndex = {} /\ DOMAIN f.fragments = {} /\ \A k \in DOMAIN f.out : f.out[k] = e
      BY <1>3, <1>7
    <2>2. \A k \in DOMAIN f.out : ~ StartsCall(f.out[k])
      BY <1>2, <2>1 DEF StartsCall
    <2>3. Answered(f.toolIndex, f.out, <<>>)
      BY <2>1, <2>2, NothingReceived DEF Answered, AnsweredTo, StartersOf
    <2>4. HeldIs(f.fragments, <<>>)
      BY <2>1, NothingReceived DEF HeldIs, FragmentOf
    <2> QED
      BY <1>7, <2>2, <2>3, <2>4, NothingReceived DEF Books, Reasons
  <1>8. CASE Thinking
    <2>1. NewContext(Thinking) = c
      BY <1>1, <1>8
    <2>2. Untouched(c)
      BY <1>3, <2>1 DEF Untouched
    <2>3. Heard(c)
      BY <1>3, <1>5, <2>2 DEF Heard, Fair
    <2>4. Books(c, <<>>)
      BY <1>3, <1>7
    <2>5. Reading(c, <<>>)
      BY <1>6, <2>3, <2>4, ReadingIs
    <2> QED
      BY <2>1, <2>5
  <1>9. CASE ~ Thinking
    <2>1. NewContext(Thinking) = d
      BY <1>1, <1>9
    <2>2. Sane(b) /\ Hush(b) /\ b.out = c.out /\ b.blocks = <<>> /\ b.buffer = <<>> /\ b.sniff = <<>>
          /\ b.output = FALSE /\ b.hasTool = FALSE /\ DOMAIN b = Fields
      <3>1. Hush(b)
        BY <1>4, <1>5 DEF Apart, Hush, Spoken
      <3> QED
        BY <1>3, <1>4, <1>5, <3>1, ApartHeard DEF Apart, Frame
    <2>3. Books(b, <<>>)
      BY <1>3, <1>4, <1>7 DEF Apart
    <2> DEFINE bs  == Append(b.blocks, Fresh("text"))
               new == Append(b.out, StartEvent(Len(b.blocks) + 1, "text", "-"))
    <2>4. d = Reshaped(b, bs, new)
      BY <2>2, StartBlockShape
    <2>5. b.blocks \in Seq(Block) /\ "text" \in BlockTypes /\ IsSeq(b.out)
      BY <2>2 DEF Sane, Typed, BlockTypes
    <2>6. /\ More(b.blocks, bs) /\ Len(b.blocks) + 1 \in DOMAIN bs
          /\ Plain(bs, StartEvent(Len(b.blocks) + 1, "text", "-"))
          /\ IsBlockEvent(StartEvent(Len(b.blocks) + 1, "text", "-"))
      <3>1. /\ More(b.blocks, bs) /\ Len(b.blocks) \in Nat /\ Len(bs) = Len(b.blocks) + 1
            /\ DOMAIN bs = 1 .. (Len(b.blocks) + 1)
            /\ bs[Len(b.blocks) + 1] = Fresh("text")
        BY <2>5, MoreFresh
      <3>2. Fresh("text").type = "text"
        BY DEF Fresh
      <3> HIDE DEF bs
      <3>3. /\ Len(b.blocks) + 1 \in Nat /\ Len(b.blocks) + 1 \in DOMAIN bs
            /\ bs[Len(b.blocks) + 1].type = "text"
        BY <3>1, <3>2
      <3>4. /\ Plain(bs, StartEvent(Len(b.blocks) + 1, "text", "-"))
            /\ IsBlockEvent(StartEvent(Len(b.blocks) + 1, "text", "-"))
        BY <3>1, <3>3, StartPlain
      <3> QED
        BY <3>1, <3>3, <3>4
    <2>7. Adds(b.out, new) /\ \A k \in DOMAIN new : k \notin DOMAIN b.out
             => new[k] = StartEvent(Len(b.blocks) + 1, "text", "-")
      BY <2>5, AddsOne
    <2> HIDE DEF bs, new, d
    <2>8. Rest(b, d) /\ d.hasTool = b.hasTool /\ d.output = b.output /\ d.guard = b.guard
          /\ Leaves(b, d) /\ d.blocks = bs /\ d.out = new
      BY <2>2, <2>4, ReshapedRest
    <2>9. Typed(d) /\ Tagged(d)
      <3>1. bs \in Seq(Block)
        BY <2>6 DEF More
      <3>2. Typed(d)
        BY <2>2, <2>8, <2>7, <3>1 DEF Sane, Typed, Leaves, Frame, Adds
      <3>3. Tagged(d)
        BY <2>2, <2>8, <2>6 DEF Sane, Tagged, Leaves, Frame, More
      <3> QED
        BY <3>2, <3>3
    <2>10. Hush(d)
      BY <1>3, <1>4, <1>9, <2>8 DEF Hush, Apart
    <2>11. Keeps(b, d)
      BY <2>2, <2>6, <2>8, <2>7, <2>9, <2>10, KeepsBy
    <2>12. Fair(d) /\ Grows(b, d)
      BY <2>10, <2>11, GoesGrows DEF Keeps, Fair
    <2>13. Books(d, <<>>)
      BY <2>2, <2>3, <2>12, GrowsBooks
    <2>14. Unended(d.out)
      BY <1>6, <2>2, <2>12, GrowsUnended DEF Grows
    <2>15. Untouched(d)
      BY <2>1, <2>2, <2>8 DEF Untouched, Leaves, Frame
    <2>16. Heard(d)
      BY <2>2, <2>8, <2>12, <2>15 DEF Heard
    <2>17. Reading(d, <<>>)
      BY <2>13, <2>14, <2>16, ReadingIs
    <2> QED
      BY <2>1, <2>17
  <1> QED
    BY <1>8, <1>9

-----------------------------------------------------------------------------
(* The end.                                                                  *)

\* The books but for the errors of the stream, which the end may add to.
Tallied(c, rec) ==
    /\ Answered(c.toolIndex, c.out, rec)
    /\ \A k \in DOMAIN c.out : StartsCall(c.out[k]) => c.hasTool
    /\ HeldIs(c.fragments, rec)
    /\ c.toolError \in BOOLEAN /\ c.upstreamError \in BOOLEAN
    /\ c.toolError <=> Unparsed(rec)
    /\ c.stopReason \in Reasons

\* The message is over.
Settled(c, rec) ==
    /\ c.blocks \in Seq(Block) /\ IsSeq(c.out) /\ Calls(c.blocks, c.out)
    /\ Answered(c.toolIndex, c.out, rec)
    /\ \A k \in DOMAIN c.out : StartsCall(c.out[k]) => c.hasTool
    /\ c.toolError \in BOOLEAN /\ c.upstreamError \in BOOLEAN
    /\ c.toolError <=> Cut(rec)
    /\ (\E k \in DOMAIN c.out : c.out[k].ev = "error") <=> c.toolError \/ c.upstreamError
    /\ \A k \in DOMAIN c.out : c.out[k].ev = "message_delta" => c.out[k].reason = StopReason(c)
    /\ c.stopReason \in Reasons /\ (c.stopReason = "none" /\ c.output => Spoken(c))

SameTally(c, d) ==
    /\ DOMAIN d = Fields /\ d.stopReason = c.stopReason /\ d.hasTool = c.hasTool
    /\ d.output = c.output /\ d.toolIndex = c.toolIndex
    /\ d.toolError = c.toolError /\ d.upstreamError = c.upstreamError

\* d has more events than c, none of them the service's call.
Follows(c, d) ==
    /\ SameTally(c, d) /\ d.blocks \in Seq(Block) /\ Calls(d.blocks, d.out) /\ Adds(c.out, d.out)
    /\ \A k \in DOMAIN d.out : k \notin DOMAIN c.out
          => (StartsCall(d.out[k]) => d.out[k].id = "invoke" /\ d.hasTool)

LEMMA FollowsThen ==
    ASSUME NEW c, NEW d, NEW e, Follows(c, d), Follows(d, e)
    PROVE  Follows(c, e)
  <1>1. /\ Adds(c.out, e.out)
        /\ DOMAIN c.out \subseteq DOMAIN d.out /\ DOMAIN d.out \subseteq DOMAIN e.out
    BY AddsThen DEF Follows
  <1>2. SameTally(c, e)
    BY DEF Follows, SameTally
  <1>3. ASSUME NEW k \in DOMAIN e.out, k \notin DOMAIN c.out, StartsCall(e.out[k])
        PROVE  e.out[k].id = "invoke" /\ e.hasTool
    <2>1. CASE k \in DOMAIN d.out
      <3>1. e.out[k] = d.out[k]
        BY <2>1 DEF Follows, Adds
      <3>2. d.out[k].id = "invoke" /\ d.hasTool
        BY <1>3, <2>1, <3>1 DEF Follows
      <3> QED
        BY <3>1, <3>2 DEF Follows, SameTally
    <2>2. CASE k \notin DOMAIN d.out
      BY <1>3, <2>2 DEF Follows
    <2> QED
      BY <2>1, <2>2
  <1> QED
    BY <1>1, <1>2, <1>3 DEF Follows

\* An event of the message itself.
LEMMA MessageFollows ==
    ASSUME NEW c, DOMAIN c = Fields, c.blocks \in Seq(Block), IsSeq(c.out),
           Calls(c.blocks, c.out), NEW e, ~ IsBlockEvent(e)
    PROVE  /\ Follows(c, Send(c, e))
           /\ \A k \in DOMAIN Send(c, e).out :
                 k \notin DOMAIN c.out => Send(c, e).out[k] = e
  <1> DEFINE d   == Send(c, e)
             new == Append(c.out, e)
  <1>1. SameTally(c, d) /\ d.blocks = c.blocks /\ d.out = new
    BY DEF Send, SameTally, Fields
  <1>2. Adds(c.out, new) /\ \A k \in DOMAIN new : k \notin DOMAIN c.out => new[k] = e
    BY AddsOne
  <1>3. Plain(c.blocks, e) /\ ~ StartsCall(e)
    BY DEF Plain, StartsCall, IsBlockEvent
  <1> HIDE DEF d, new
  <1>4. Calls(c.blocks, new)
    <2>1. More(c.blocks, c.blocks)
      BY MoreSelf
    <2> QED
      BY <1>2, <1>3, <2>1, PlainCalls
  <1> QED
    BY <1>1, <1>2, <1>3, <1>4 DEF Follows, d

LEMMA StopAllFollows ==
    ASSUME NEW c, Sane(c), NEW types
    PROVE  LET d == StopAll(c, types) IN
           /\ Follows(c, d)
           /\ \A k \in DOMAIN d.out : k \notin DOMAIN c.out => IsBlockEvent(d.out[k])
  <1> DEFINE d   == StopAll(c, types)
             bs  == Closed(c.blocks, types)
             new == Ended(c.out, SetToSeq(OpenOf(c.blocks, types)))
  <1>1. Sane(d) /\ Spares(c, d)
    BY StopAllActs DEF Acts, Keeps
  <1>2. DOMAIN c = Fields
    BY DEF Sane, Typed
  <1>3. d = Reshaped(c, bs, new)
    BY <1>2, StopAllIs
  <1> HIDE DEF d, bs, new
  <1>4. Rest(c, d) /\ d.hasTool = c.hasTool /\ d.output = c.output
    BY <1>2, <1>3, ReshapedRest
  <1>5. SameTally(c, d)
    BY <1>4 DEF Rest, SameTally
  <1>6. d.blocks \in Seq(Block) /\ Calls(d.blocks, d.out)
    BY <1>1 DEF Sane, Typed
  <1> QED
    BY <1>1, <1>5, <1>6 DEF Follows, Spares, d

\* What the end of the message adds.
LEMMA EndMessageFollows ==
    ASSUME NEW c, Sane(c), Unended(c.out)
    PROVE  LET d == EndMessage(c) IN
           /\ Follows(c, d)
           /\ \A k \in DOMAIN d.out : /\ d.out[k].ev # "error"
                                      /\ d.out[k].ev = "message_delta" => d.out[k].reason = StopReason(c)
  <1> DEFINE b    == [c EXCEPT !.ended = TRUE]
             d    == StopAll(b, BlockTypes)
             last == [ev |-> "message_delta", reason |-> StopReason(c)]
             stop == [ev |-> "message_stop"]
             m    == Send(d, last)
             e    == Send(m, stop)
  <1>1. DOMAIN c = Fields
    BY DEF Sane, Typed
  <1>2. EndMessage(c) = IF c.ended THEN StopAll(c, BlockTypes) ELSE e
    BY Zenon DEF EndMessage
  <1>3. /\ last.ev = "message_delta" /\ last.reason = StopReason(c) /\ stop.ev = "message_stop"
    OBVIOUS
  <1>4. /\ SameTally(c, b) /\ b.blocks = c.blocks /\ b.out = c.out
        /\ b.thinking = c.thinking /\ b.inThinking = c.inThinking /\ b.extracted = c.extracted
        /\ b.stripNewline = c.stripNewline /\ b.buffer = c.buffer /\ b.sniff = c.sniff
        /\ b.xml = c.xml
    BY <1>1 DEF Fields, SameTally
  <1>5. CASE c.ended
    <2>1. /\ Follows(c, StopAll(c, BlockTypes))
          /\ \A k \in DOMAIN StopAll(c, BlockTypes).out :
                k \notin DOMAIN c.out => IsBlockEvent(StopAll(c, BlockTypes).out[k])
      BY StopAllFollows
    <2> DEFINE f == StopAll(c, BlockTypes)
    <2>2. EndMessage(c) = f
      BY <1>2, <1>5
    <2> HIDE DEF f
    <2>3. ASSUME NEW k \in DOMAIN f.out
          PROVE  f.out[k].ev # "error" /\ f.out[k].ev # "message_delta"
      <3>1. CASE k \in DOMAIN c.out
        BY <2>1, <3>1 DEF f, Follows, Adds, Unended
      <3>2. CASE k \notin DOMAIN c.out
        BY <2>1, <2>3, <3>2 DEF f, IsBlockEvent
      <3> QED
        BY <3>1, <3>2
    <2> QED
      BY <2>1, <2>2, <2>3 DEF f
  <1>6. CASE ~ c.ended
    <2> HIDE DEF b, last, stop
    <2>1. Sane(b)
      <3>1. Typed(b)
        BY <1>4 DEF Sane, Typed, SameTally
      <3> QED
        BY <1>4, <3>1 DEF Sane, Tagged, Tools, SameTally
    <2>2. /\ Follows(b, d)
          /\ \A k \in DOMAIN d.out : k \notin DOMAIN b.out => IsBlockEvent(d.out[k])
      BY <2>1, StopAllFollows
    <2> HIDE DEF d
    <2>3. /\ Follows(d, m) /\ \A k \in DOMAIN m.out : k \notin DOMAIN d.out => m.out[k] = last
      <3>1. ~ IsBlockEvent(last)
        BY <1>3 DEF IsBlockEvent
      <3> QED
        BY <2>2, <3>1, MessageFollows DEF Follows, SameTally, Adds
    <2> HIDE DEF m
    <2>4. /\ Follows(m, e) /\ \A k \in DOMAIN e.out : k \notin DOMAIN m.out => e.out[k] = stop
      <3>1. ~ IsBlockEvent(stop)
        BY <1>3 DEF IsBlockEvent
      <3> QED
        BY <2>3, <3>1, MessageFollows DEF Follows, SameTally, Adds
    <2> HIDE DEF e
    <2>5. Follows(b, e)
      BY <2>2, <2>3, <2>4, FollowsThen
    <2>6. Follows(c, e)
      BY <1>4, <2>5 DEF Follows, SameTally
    <2>7. ASSUME NEW k \in DOMAIN e.out
          PROVE  /\ e.out[k].ev # "error"
                 /\ e.out[k].ev = "message_delta" => e.out[k].reason = StopReason(c)
      <3>1. CASE k \notin DOMAIN m.out
        BY <1>3, <2>4, <2>7, <3>1
      <3>2. CASE k \in DOMAIN m.out /\ k \notin DOMAIN d.out
        <4>1. e.out[k] = m.out[k] /\ m.out[k] = last
          BY <2>3, <2>4, <3>2 DEF Follows, Adds
        <4> QED
          BY <1>3, <4>1
      <3>3. CASE k \in DOMAIN m.out /\ k \in DOMAIN d.out
        <4>1. e.out[k] = d.out[k]
          BY <2>3, <2>4, <3>3 DEF Follows, Adds
        <4>2. d.out[k].ev \notin {"message_delta", "error"}
          <5>1. CASE k \in DOMAIN b.out
            <6>1. d.out[k] = c.out[k] /\ k \in DOMAIN c.out
              BY <1>4, <2>2, <5>1 DEF Follows, Adds
            <6> QED
              BY <6>1 DEF Unended
          <5>2. CASE k \notin DOMAIN b.out
            BY <2>2, <3>3, <5>2 DEF IsBlockEvent
          <5> QED
            BY <5>1, <5>2
        <4> QED
          BY <4>1, <4>2
      <3> QED
        BY <3>1, <3>2, <3>3
    <2> QED
      BY <1>2, <1>6, <2>6, <2>7
  <1> QED
    BY <1>5, <1>6

\* new is out with an error, or as it is.
ErrorIf(blocks, out, new, cond) ==
    /\ Calls(blocks, new) /\ Adds(out, new)
    /\ \A k \in DOMAIN new : k \notin DOMAIN out => new[k].ev = "error"
    /\ cond <=> \E k \in DOMAIN new : k \notin DOMAIN out

LEMMA OneErrorMore ==
    ASSUME NEW blocks \in Seq(Block), NEW out, IsSeq(out), Calls(blocks, out),
           NEW e, e.ev = "error", NEW cond \in BOOLEAN
    PROVE  ErrorIf(blocks, out, out \o (IF cond THEN <<e>> ELSE <<>>), cond)
  <1> DEFINE T == {out[k] : k \in DOMAIN out} \cup {e}
             new == Append(out, e)
  <1>1. out \in Seq({out[k] : k \in DOMAIN out})
    BY DEF IsSeq
  <1>2. out \in Seq(T) /\ e \in T
    BY <1>1, SeqMonotonic
  <1> HIDE DEF T
  <1>3. out \o <<e>> = new /\ out \o <<>> = out
    BY <1>2
  <1>4. CASE cond
    <2>1. Appended(out, e, new)
      BY AppendSeq
    <2>2. Adds(out, new) /\ \A k \in DOMAIN new : k \notin DOMAIN out => new[k] = e
      BY AddsOne
    <2>3. Len(out) + 1 \in DOMAIN new /\ Len(out) + 1 \notin DOMAIN out
      BY <2>1 DEF Appended
    <2>4. Plain(blocks, e)
      BY DEF Plain, StartsCall, IsBlockEvent
    <2> HIDE DEF new
    <2>5. Calls(blocks, new)
      <3>1. More(blocks, blocks)
        BY MoreSelf
      <3> QED
        BY <2>2, <2>4, <3>1, PlainCalls
    <2>6. ErrorIf(blocks, out, new, cond)
      BY <1>4, <2>2, <2>3, <2>5 DEF ErrorIf
    <2> QED
      BY <1>3, <1>4, <2>6
  <1>5. CASE ~ cond
    <2>1. Adds(out, out)
      BY AddsSelf
    <2>2. ErrorIf(blocks, out, out, cond)
      BY <1>5, <2>1 DEF ErrorIf
    <2> QED
      BY <1>3, <1>5, <2>2
  <1> QED
    BY <1>4, <1>5

LEMMA SendErrorsFollows ==
    ASSUME NEW c, DOMAIN c = Fields, c.blocks \in Seq(Block), IsSeq(c.out),
           Calls(c.blocks, c.out), c.toolError \in BOOLEAN, c.upstreamError \in BOOLEAN
    PROVE  LET d == SendErrors(c) IN
           /\ Follows(c, d)
           /\ \A k \in DOMAIN d.out : k \notin DOMAIN c.out => d.out[k].ev = "error"
           /\ c.toolError \/ c.upstreamError <=> \E k \in DOMAIN d.out : k \notin DOMAIN c.out
  <1> DEFINE a    == [ev |-> "error", type |-> "upstream_tool_json_error"]
             b    == [ev |-> "error", type |-> "api_error"]
             tool == IF c.toolError THEN <<a>> ELSE <<>>
             up   == IF c.upstreamError THEN <<b>> ELSE <<>>
             one  == c.out \o tool
             new  == one \o up
             d    == [c EXCEPT !.out = new]
  <1>1. SendErrors(c) = d
    BY Zenon DEF SendErrors
  <1>2. a.ev = "error" /\ b.ev = "error"
    OBVIOUS
  <1> HIDE DEF a, b
  <1>3. ErrorIf(c.blocks, c.out, one, c.toolError)
    BY <1>2, OneErrorMore
  <1> HIDE DEF one
  <1>4. IsSeq(one) /\ Calls(c.blocks, one)
    BY <1>3 DEF ErrorIf, Adds
  <1>5. ErrorIf(c.blocks, one, new, c.upstreamError)
    BY <1>2, <1>4, OneErrorMore
  <1> HIDE DEF new
  <1>6. SameTally(c, d) /\ d.blocks = c.blocks /\ d.out = new
    BY DEF Fields, SameTally
  <1> HIDE DEF d
  <1>7. Adds(c.out, new) /\ DOMAIN c.out \subseteq DOMAIN one /\ DOMAIN one \subseteq DOMAIN new
    BY <1>3, <1>5, AddsThen DEF ErrorIf
  <1>8. \A k \in DOMAIN new : k \notin DOMAIN c.out => new[k].ev = "error"
    <2> SUFFICES ASSUME NEW k \in DOMAIN new, k \notin DOMAIN c.out PROVE new[k].ev = "error"
      OBVIOUS
    <2>1. CASE k \in DOMAIN one
      <3>1. new[k] = one[k]
        BY <1>5, <2>1 DEF ErrorIf, Adds
      <3> QED
        BY <1>3, <2>1, <3>1 DEF ErrorIf
    <2>2. CASE k \notin DOMAIN one
      BY <1>5, <2>2 DEF ErrorIf
    <2> QED
      BY <2>1, <2>2
  <1>9. c.toolError \/ c.upstreamError <=> \E k \in DOMAIN new : k \notin DOMAIN c.out
    BY <1>3, <1>5, <1>7 DEF ErrorIf
  <1>10. Follows(c, d)
    <2>1. \A k \in DOMAIN new : k \notin DOMAIN c.out => ~ StartsCall(new[k])
      BY <1>8 DEF StartsCall
    <2> QED
      BY <1>5, <1>6, <1>7, <2>1 DEF Follows, ErrorIf
  <1> QED
    BY <1>1, <1>6, <1>8, <1>9, <1>10

\* Where the accumulator still holds something the response has been cut.
LEMMA FinishToolsIs ==
    ASSUME NEW c, Sane(c), NEW rec, Tallied(c, rec)
    PROVE  LET d == FinishTools(c) IN
           /\ Apart(c, d) /\ d.upstreamError = c.upstreamError /\ d.toolError \in BOOLEAN
           /\ d.toolError <=> Cut(rec)
           /\ d.stopReason \in Reasons /\ (d.stopReason = "none" => c.stopReason = "none")
  <1> DEFINE holds == \E id \in DOMAIN c.fragments : c.fragments[id] # <<>>
  <1>1. holds <=> \E id \in ToolIds : HeldOf(rec, id) # <<>>
    <2>1. /\ DOMAIN c.fragments \subseteq ToolIds
          /\ \A id \in ToolIds : FragmentOf(c.fragments, id) = HeldOf(rec, id)
      BY DEF Tallied, HeldIs
    <2> QED
      BY <2>1 DEF FragmentOf
  <1>2. /\ c.toolError \in BOOLEAN /\ (c.toolError <=> Unparsed(rec)) /\ DOMAIN c = Fields
        /\ c.stopReason \in Reasons
    BY DEF Tallied, Sane, Typed
  <1>3. CASE ~ c.toolError /\ holds
    <2>1. FinishTools(c) = ToolJsonError(c)
      BY <1>3 DEF FinishTools
    <2>2. Marked(c, ToolJsonError(c), c.fragments, "error", TRUE, c.upstreamError)
      BY <1>2, ReasonApart, Zenon
    <2>3. Cut(rec)
      BY <1>1, <1>3 DEF Cut
    <2> QED
      BY <2>1, <2>2, <2>3 DEF Marked, Reasons
  <1>4. CASE ~ (~ c.toolError /\ holds)
    <2>1. FinishTools(c) = c
      BY <1>4 DEF FinishTools
    <2>2. Apart(c, c)
      BY <1>2 DEF Apart, Frame
    <2>3. c.toolError <=> Cut(rec)
      BY <1>1, <1>2, <1>4 DEF Cut
    <2> QED
      BY <1>2, <2>1, <2>2, <2>3
  <1> QED
    BY <1>3, <1>4

LEMMA FinalSettles ==
    ASSUME NEW c, Heard(c), Unended(c.out), NEW rec, Tallied(c, rec)
    PROVE  Settled(FinalEvents(c), rec) /\ FinalEvents(c).upstreamError = c.upstreamError
  <1> DEFINE g == Emptied(c)
             f == FinishTools(g)
             m == EndMessage(f)
             d == SendErrors(m)
  <1>1. FinalEvents(c) = d
    BY DEF FinalEvents, Emptied
  <1>2. Closes(c, g) /\ (g.stopReason = "none" /\ g.output => Spoken(g))
    BY EmptiedCloses
  <1> HIDE DEF g
  <1>3. Sane(g) /\ Unended(g.out) /\ Tallied(g, rec)
    <2>1. Sane(c) /\ Sane(g)
      BY <1>2 DEF Heard, Fair, Closes
    <2>2. Unended(g.out)
      BY <1>2, GrowsUnended DEF Closes
    <2>3. Answered(g.toolIndex, g.out, rec)
      <3>1. Answered(c.toolIndex, g.out, rec)
        BY <1>2, <2>1, AnsweredStays DEF Sane, Closes, Tallied
      <3> QED
        BY <1>2, <3>1 DEF Closes
    <2>4. \A k \in DOMAIN g.out : StartsCall(g.out[k]) => g.hasTool
      <3> SUFFICES ASSUME NEW k \in DOMAIN g.out, StartsCall(g.out[k]) PROVE g.hasTool
        OBVIOUS
      <3>1. CASE k \in DOMAIN c.out
        <4>1. g.out[k] = c.out[k]
          BY <1>2, <3>1 DEF Closes, Adds
        <4> QED
          BY <1>2, <3>1, <4>1 DEF Tallied, Closes
      <3>2. CASE k \notin DOMAIN c.out
        BY <1>2, <3>2 DEF Closes
      <3> QED
        BY <3>1, <3>2
    <2>5. g.stopReason \in Reasons
      BY <1>2 DEF Closes, Tallied, Reasons
    <2> QED
      BY <1>2, <2>1, <2>2, <2>3, <2>4, <2>5 DEF Tallied, Closes
  <1>4. /\ Apart(g, f) /\ f.upstreamError = g.upstreamError /\ f.toolError \in BOOLEAN
        /\ f.toolError <=> Cut(rec)
        /\ f.stopReason \in Reasons /\ (f.stopReason = "none" => g.stopReason = "none")
    BY <1>3, FinishToolsIs
  <1> HIDE DEF f
  <1>5. /\ Sane(f) /\ Unended(f.out) /\ Answered(f.toolIndex, f.out, rec)
        /\ \A k \in DOMAIN f.out : StartsCall(f.out[k]) => f.hasTool
        /\ f.stopReason = "none" /\ f.output => Spoken(f)
        /\ f.upstreamError \in BOOLEAN /\ f.upstreamError = c.upstreamError
    <2>1. Sane(f) /\ Unended(f.out) /\ Answered(f.toolIndex, f.out, rec)
      BY <1>3, <1>4, ApartHeard DEF Apart, Tallied
    <2>2. f.stopReason = "none" /\ f.output => Spoken(f)
      BY <1>2, <1>4 DEF Apart, Spoken
    <2>3. \A k \in DOMAIN f.out : StartsCall(f.out[k]) => f.hasTool
      BY <1>3, <1>4 DEF Apart, Tallied
    <2> QED
      BY <1>2, <1>3, <1>4, <2>1, <2>2, <2>3 DEF Closes, Tallied
  <1>6. /\ Follows(f, m)
        /\ \A k \in DOMAIN m.out : /\ m.out[k].ev # "error"
                                   /\ m.out[k].ev = "message_delta" => m.out[k].reason = StopReason(f)
    BY <1>5, EndMessageFollows
  <1> HIDE DEF m
  <1>7. /\ DOMAIN m = Fields /\ m.blocks \in Seq(Block) /\ IsSeq(m.out) /\ Calls(m.blocks, m.out)
        /\ m.toolError = f.toolError /\ m.upstreamError = f.upstreamError
    BY <1>6 DEF Follows, SameTally, Adds
  <1>8. /\ Follows(m, d)
        /\ \A k \in DOMAIN d.out : k \notin DOMAIN m.out => d.out[k].ev = "error"
        /\ m.toolError \/ m.upstreamError <=> \E k \in DOMAIN d.out : k \notin DOMAIN m.out
    <2>1. m.toolError \in BOOLEAN /\ m.upstreamError \in BOOLEAN
      BY <1>4, <1>5, <1>7
    <2> QED
      BY <1>7, <2>1, SendErrorsFollows
  <1> HIDE DEF d
  <1>9. Follows(f, d)
    BY <1>6, <1>8, FollowsThen
  <1>10. Answered(d.toolIndex, d.out, rec)
    <2>1. Answered(f.toolIndex, d.out, rec)
      BY <1>5, <1>9, AnsweredStays DEF Sane, Follows
    <2> QED
      BY <1>9, <2>1 DEF Follows, SameTally
  <1>11. \A k \in DOMAIN d.out : StartsCall(d.out[k]) => d.hasTool
    <2> SUFFICES ASSUME NEW k \in DOMAIN d.out, StartsCall(d.out[k]) PROVE d.hasTool
      OBVIOUS
    <2>1. CASE k \in DOMAIN f.out
      <3>1. d.out[k] = f.out[k]
        BY <1>9, <2>1 DEF Follows, Adds
      <3> QED
        BY <1>5, <1>9, <2>1, <3>1 DEF Follows, SameTally
    <2>2. CASE k \notin DOMAIN f.out
      BY <1>9, <2>2 DEF Follows
    <2> QED
      BY <2>1, <2>2
  <1>12. (\E k \in DOMAIN d.out : d.out[k].ev = "error") <=> m.toolError \/ m.upstreamError
    <2>1. \A k \in DOMAIN d.out : d.out[k].ev = "error" <=> k \notin DOMAIN m.out
      BY <1>6, <1>8 DEF Follows, Adds
    <2> QED
      BY <1>8, <2>1
  <1>13. StopReason(d) = StopReason(f)
    BY <1>9 DEF Follows, SameTally, StopReason
  <1>14. \A k \in DOMAIN d.out : d.out[k].ev = "message_delta" => d.out[k].reason = StopReason(d)
    <2> SUFFICES ASSUME NEW k \in DOMAIN d.out, d.out[k].ev = "message_delta"
                 PROVE  d.out[k].reason = StopReason(f)
      BY <1>13
    <2>1. k \in DOMAIN m.out
      BY <1>8
    <2>2. d.out[k] = m.out[k]
      BY <1>8, <2>1 DEF Follows, Adds
    <2> QED
      BY <1>6, <2>1, <2>2
  <1>15. d.stopReason = "none" /\ d.output => Spoken(d)
    <2>1. d.stopReason = f.stopReason /\ d.output = f.output /\ d.hasTool = f.hasTool
      BY <1>9 DEF Follows, SameTally
    <2>2. Shown(f.out) => Shown(d.out)
      BY <1>9 DEF Shown, Follows, Adds
    <2> QED
      BY <1>5, <2>1, <2>2 DEF Spoken
  <1>16. d.toolError = f.toolError /\ d.upstreamError = f.upstreamError
    BY <1>9 DEF Follows, SameTally
  <1>17. Settled(d, rec)
    <2>1. d.blocks \in Seq(Block) /\ IsSeq(d.out) /\ Calls(d.blocks, d.out)
      BY <1>9 DEF Follows, Adds
    <2>2. d.toolError \in BOOLEAN /\ d.upstreamError \in BOOLEAN /\ (d.toolError <=> Cut(rec))
      BY <1>4, <1>5, <1>16
    <2>3. (\E k \in DOMAIN d.out : d.out[k].ev = "error") <=> d.toolError \/ d.upstreamError
      BY <1>7, <1>12, <1>16
    <2>4. d.stopReason \in Reasons
      BY <1>4, <1>9 DEF Follows, SameTally
    <2> QED
      BY <1>10, <1>11, <1>14, <1>15, <2>1, <2>2, <2>3, <2>4, Zenon DEF Settled
  <1> QED
    BY <1>1, <1>5, <1>16, <1>17

-----------------------------------------------------------------------------
(* The invariant.                                                            *)

CallInv ==
    /\ request \in DOMAIN Menu /\ received \in Seq(Menu[request].events)
    /\ phase \in {"reading", "retrying", "done"}
    /\ retries \in Nat /\ (phase = "retrying" => retries > 0)
    /\ phase # "done" => Reading(ctx, received) /\ cached = FALSE
    /\ phase = "retrying" => IsEmptyResponse(ctx)
    /\ phase = "done" =>
          /\ Settled(ctx, received)
          /\ Broken(received) => ctx.upstreamError
          /\ ctx.upstreamError => Broken(received) \/ usage = "error"
          /\ usage = "success" /\ retries = 0 => ~ ctx.toolError /\ ~ ctx.upstreamError
          /\ cached => /\ usage = "success" /\ CleanToCache(ctx)
                       /\ ~ ctx.toolError /\ ~ ctx.upstreamError

LEMMA MenuIsEvents ==
    ASSUME request \in DOMAIN Menu
    PROVE  /\ \A e \in Menu[request].events : IsEvent(e)
           /\ \A rec \in Seq(Menu[request].events) : Events(rec)
  <1>1. ASSUME NEW e \in Menu[request].events PROVE IsEvent(e)
    <2>1. e.kind \in {"assistant", "reasoning", "tool", "contextUsage", "exception", "error"}
      BY StreamAssumption
    <2>2. e.kind = "exception" => e.tooLong \in BOOLEAN
      BY StreamAssumption
    <2>3. e.kind = "tool" => e.id \in ToolIds /\ e.input \in JsonText /\ e.stop \in BOOLEAN
      BY StreamAssumption DEF JsonText, Braces
    <2> QED
      BY <2>1, <2>2, <2>3, MenuEvents, Zenon DEF IsEvent
  <1>2. ASSUME NEW rec \in Seq(Menu[request].events) PROVE Events(rec)
    <2>1. IsSeq(rec)
      BY SeqIsSeq
    <2>2. \A k \in DOMAIN rec : rec[k] \in Menu[request].events
      OBVIOUS
    <2> QED
      BY <1>1, <2>1, <2>2 DEF Events
  <1> QED
    BY <1>1, <1>2

\* Reading asks the scenario whether thinking is on.
LEMMA ReadingAfter ==
    ASSUME request' = request, NEW d, NEW rec, Reading(d, rec), ctx' = d, received' = rec
    PROVE  Reading(ctx, received)'
  <1>1. Thinking' = Thinking
    BY DEF Thinking
  <1>2. /\ Sane(d) /\ Hush(d) /\ (d.output => Told(d)) /\ Unended(d.out)
        /\ d.output \/ d.hasTool \/ Untouched(d)
        /\ Answered(d.toolIndex, d.out, rec)
        /\ \A k \in DOMAIN d.out : StartsCall(d.out[k]) => d.hasTool
        /\ HeldIs(d.fragments, rec)
        /\ d.toolError \in BOOLEAN /\ d.upstreamError \in BOOLEAN
        /\ d.toolError <=> Unparsed(rec)
        /\ d.upstreamError <=> Broken(rec)
        /\ d.stopReason \in Reasons
    BY DEF Reading
  <1>3. Sane(ctx)'
    <2>1. Tagged(ctx)'
      BY <1>1, <1>2 DEF Sane, Tagged
    <2>2. Typed(ctx)' /\ Tools(ctx)' /\ Calls(ctx.blocks, ctx.out)'
          /\ ("invoke" \notin DOMAIN ctx.toolIndex)'
      BY <1>2 DEF Sane, Typed, Tools, Calls
    <2> QED
      BY <2>1, <2>2 DEF Sane
  <1>4. Hush(ctx)'
    BY <1>1, <1>2 DEF Hush, Spoken, Shown
  <1>5. (ctx.output => Told(ctx))'
    BY <1>2 DEF Told, Spoken, Shown
  <1>6. (ctx.output \/ ctx.hasTool \/ Untouched(ctx))'
    BY <1>1, <1>2 DEF Untouched
  <1>7. Unended(ctx.out)' /\ Answered(ctx.toolIndex, ctx.out, received)'
        /\ HeldIs(ctx.fragments, received)'
    BY <1>2 DEF Unended, Answered, HeldIs
  <1>8. (/\ \A k \in DOMAIN ctx.out : StartsCall(ctx.out[k]) => ctx.hasTool
         /\ ctx.toolError \in BOOLEAN /\ ctx.upstreamError \in BOOLEAN
         /\ ctx.toolError <=> Unparsed(received)
         /\ ctx.upstreamError <=> Broken(received)
         /\ ctx.stopReason \in Reasons)'
    BY <1>2 DEF Unparsed, Broken
  <1> QED
    BY <1>3, <1>4, <1>5, <1>6, <1>7, <1>8 DEF Reading

LEMMA BooksTally ==
    ASSUME NEW c, NEW rec, Books(c, rec)
    PROVE  Tallied(c, rec)
  BY DEF Books, Tallied

LEMMA CallInvInit ==
    StreamInit => CallInv
  <1> SUFFICES ASSUME StreamInit PROVE CallInv
    OBVIOUS
  <1>1. Reading(ctx, received)
    BY NewContextReads DEF StreamInit
  <1>2. received \in Seq(Menu[request].events)
    BY DEF StreamInit
  <1> QED
    BY <1>1, <1>2 DEF StreamInit, CallInv

LEMMA CallInvNext ==
    CallInv /\ [StreamNext]_streamVars => CallInv'
  <1> SUFFICES ASSUME CallInv, [StreamNext]_streamVars PROVE CallInv'
    OBVIOUS
  <1>1. /\ request \in DOMAIN Menu /\ received \in Seq(Menu[request].events) /\ retries \in Nat
        /\ phase \in {"reading", "retrying", "done"}
        /\ Events(received) /\ \A e \in Menu[request].events : IsEvent(e)
    BY MenuIsEvents DEF CallInv
  <1>2. phase # "done" => Reading(ctx, received) /\ cached = FALSE
    BY DEF CallInv
  <1>3. phase # "done" => /\ Heard(ctx) /\ Unended(ctx.out) /\ Books(ctx, received)
                          /\ Tallied(ctx, received)
    BY <1>2, ReadingIs, BooksTally
  <1>4. ASSUME NEW c, NEW status, Finish(c, status),
               Heard(c), Unended(c.out), Tallied(c, received)
        PROVE  /\ Settled(ctx', received') /\ ctx'.upstreamError = c.upstreamError
               /\ phase' = "done" /\ usage' = status /\ retries' = retries
               /\ request' = request /\ received' = received
    BY <1>4, FinalSettles DEF Finish
  <1>5. ASSUME NEW e \in Menu[request].events, Receive(e) PROVE CallInv'
    <2>1. Reading(ProcessKiroEvent(ctx, e), Append(received, e))
      BY <1>1, <1>2, <1>5, EventReads DEF Receive
    <2>2. /\ ctx' = ProcessKiroEvent(ctx, e) /\ received' = Append(received, e)
          /\ phase' = "reading" /\ request' = request /\ retries' = retries
          /\ cached' = FALSE
      BY <1>2, <1>5 DEF Receive
    <2>3. Reading(ctx, received)'
      BY <2>1, <2>2, ReadingAfter
    <2>4. received' \in Seq(Menu[request].events)
      BY <1>1, <2>2
    <2> QED
      BY <1>1, <2>2, <2>3, <2>4 DEF CallInv
  <1>6. CASE EndOfStream
    <2>1. phase = "reading" /\ Finish(ctx, IF ctx'.upstreamError \/ ctx'.toolError THEN "error" ELSE "success")
          /\ cached' = (Menu[request].buffered /\ usage' = "success" /\ CleanToCache(ctx'))
      BY <1>6 DEF EndOfStream
    <2>2. /\ Settled(ctx', received') /\ ctx'.upstreamError = ctx.upstreamError
          /\ phase' = "done" /\ retries' = retries
          /\ usage' = IF ctx'.upstreamError \/ ctx'.toolError THEN "error" ELSE "success"
          /\ request' = request /\ received' = received
      BY <1>3, <1>4, <2>1
    <2>3. Settled(ctx, received)'
      BY <2>2
    <2>4. ctx.upstreamError <=> Broken(received)
      BY <1>3, <2>1 DEF Books
    <2>5. (/\ Broken(received) => ctx.upstreamError
           /\ ctx.upstreamError => Broken(received) \/ usage = "error")'
      BY <2>2, <2>4
    <2>6. usage' = "success" => ~ ctx'.toolError /\ ~ ctx'.upstreamError
      BY <2>2
    <2>7. (cached => /\ usage = "success" /\ CleanToCache(ctx)
                     /\ ~ ctx.toolError /\ ~ ctx.upstreamError)'
      BY <2>1, <2>6
    <2> QED
      BY <1>1, <2>2, <2>3, <2>5, <2>6, <2>7 DEF CallInv
  <1>7. CASE Retry
    <2>1. /\ phase = "reading" /\ phase' = "retrying" /\ retries' = retries + 1
          /\ request' = request /\ ctx' = ctx /\ received' = received /\ cached' = FALSE
          /\ IsEmptyResponse(ctx)
      BY <1>2, <1>7 DEF Retry, MayRetry
    <2>2. Reading(ctx, received)'
      BY <1>2, <2>1, ReadingAfter
    <2>3. IsEmptyResponse(ctx)'
      BY <2>1
    <2>4. retries' \in Nat /\ retries' > 0
      BY <1>1, <2>1
    <2> QED
      BY <1>1, <2>1, <2>2, <2>3, <2>4 DEF CallInv
  <1>8. CASE TransportError
    <2> DEFINE c == SetUpstreamError(ctx)
    <2>1. phase = "reading" /\ Finish(c, "error") /\ cached' = FALSE
      BY <1>2, <1>8 DEF TransportError
    <2>2. PICK reason \in Reasons :
             Marked(ctx, c, ctx.fragments, reason, ctx.toolError, TRUE)
      BY <1>3, <2>1, SetUpstreamErrorIs DEF Heard, Fair, Sane, Typed, Books
    <2> HIDE DEF c
    <2>3. Heard(c) /\ Unended(c.out) /\ Tallied(c, received)
      BY <1>3, <2>1, <2>2, ApartHeard DEF Marked, Apart, Tallied
    <2>4. /\ Settled(ctx', received') /\ ctx'.upstreamError = TRUE
          /\ phase' = "done" /\ retries' = retries /\ usage' = "error"
          /\ request' = request /\ received' = received
      BY <1>4, <2>1, <2>2, <2>3 DEF Marked
    <2>5. Settled(ctx, received)'
      BY <2>4
    <2> QED
      BY <1>1, <2>1, <2>4, <2>5 DEF CallInv
  <1>9. CASE RetryAnswers
    <2>1. /\ phase = "retrying" /\ phase' = "reading" /\ retries' = retries
          /\ request' = request /\ ctx' = NewContext(Thinking) /\ received' = <<>>
          /\ cached' = FALSE
      BY <1>2, <1>9 DEF RetryAnswers
    <2>2. Reading(ctx, received)'
      BY <2>1, NewContextReads, ReadingAfter
    <2>3. received' \in Seq(Menu[request].events)
      BY <2>1
    <2> QED
      BY <1>1, <2>1, <2>2, <2>3 DEF CallInv
  <1>10. CASE RetryFails
    <2>1. phase = "retrying" /\ Finish(ctx, "success") /\ cached' = FALSE /\ retries > 0
      BY <1>2, <1>10 DEF RetryFails, CallInv
    <2>2. /\ Settled(ctx', received') /\ ctx'.upstreamError = ctx.upstreamError
          /\ phase' = "done" /\ retries' = retries /\ usage' = "success"
          /\ request' = request /\ received' = received
      BY <1>3, <1>4, <2>1
    <2>3. Settled(ctx, received)'
      BY <2>2
    <2>4. ctx.upstreamError <=> Broken(received)
      BY <1>3, <2>1 DEF Books
    <2>5. (/\ Broken(received) => ctx.upstreamError
           /\ ctx.upstreamError => Broken(received) \/ usage = "error")'
      BY <2>2, <2>4
    <2>6. retries' # 0
      BY <1>1, <2>1, <2>2
    <2> QED
      BY <1>1, <2>1, <2>2, <2>3, <2>5, <2>6 DEF CallInv
  <1>11. CASE UNCHANGED streamVars
    <2>1. /\ ctx' = ctx /\ request' = request /\ phase' = phase /\ received' = received
          /\ retries' = retries /\ usage' = usage /\ cached' = cached
      BY <1>11 DEF streamVars
    <2>2. phase' # "done" => Reading(ctx, received)' /\ cached' = FALSE
      BY <1>2, <2>1, ReadingAfter
    <2>3. phase' = "done" =>
          (/\ Settled(ctx, received)
           /\ Broken(received) => ctx.upstreamError
           /\ ctx.upstreamError => Broken(received) \/ usage = "error"
           /\ usage = "success" /\ retries = 0 => ~ ctx.toolError /\ ~ ctx.upstreamError
           /\ cached => /\ usage = "success" /\ CleanToCache(ctx)
                        /\ ~ ctx.toolError /\ ~ ctx.upstreamError)'
      BY <2>1 DEF CallInv
    <2>4. phase' = "retrying" => IsEmptyResponse(ctx)' /\ retries' > 0
      BY <2>1 DEF CallInv
    <2> QED
      BY <1>1, <2>1, <2>2, <2>3, <2>4 DEF CallInv
  <1> QED
    BY <1>5, <1>6, <1>7, <1>8, <1>9, <1>10, <1>11 DEF StreamNext

-----------------------------------------------------------------------------
(* What the invariant says.                                                  *)

LEMMA CallsShow ==
    ASSUME ctx.blocks \in Seq(Block), IsSeq(ctx.out), Calls(ctx.blocks, ctx.out),
           Answered(ctx.toolIndex, ctx.out, received), Events(received)
    PROVE  ToolCallsWhole
  <1>1. \A id, j : Pieces(id, j) = PiecesOf(received, id, j)
    BY DEF Pieces, PiecesOf, IsOf
  <1>2. \A id : ToolStops(id) = StopsOf(received, id)
    BY DEF ToolStops, StopsOf, IsOf
  <1>3. \A id : {j \in ToolStops(id) : IsJson(Pieces(id, j))} = Wholes(received, id)
    BY <1>1, <1>2 DEF Wholes
  <1>4. \A id : {k \in Starts("tool_use") : ctx.out[k].id = id} = StartersOf(ctx.out, id)
    BY DEF Starts, Sent, StartersOf, StartsCall
  <1>5. ASSUME NEW id \in ToolIds
        PROVE  /\ Wholes(received, id) = {} => StartersOf(ctx.out, id) = {}
               /\ Wholes(received, id) # {} => Min(Wholes(received, id)) \in Wholes(received, id)
               /\ Wholes(received, id) # {} =>
                     \E k : /\ StartersOf(ctx.out, id) = {k}
                            /\ ctx.out[k + 1].data
                                 = PiecesOf(received, id, Min(Wholes(received, id)))
    <2>1. AnsweredTo(ctx.toolIndex, ctx.out, received, id)
      BY DEF Answered
    <2>2. Wholes(received, id) \in SUBSET Nat
      <3>1. DOMAIN received \subseteq Nat
        BY IsSeqFacts DEF Events
      <3> QED
        BY <3>1 DEF Wholes, StopsOf
    <2> QED
      BY <2>1, <2>2, MinOf DEF AnsweredTo
  <1>6. ASSUME NEW id \in ToolIds
        PROVE  LET whole  == {j \in ToolStops(id) : IsJson(Pieces(id, j))}
                   starts == {k \in Starts("tool_use") : ctx.out[k].id = id}
               IN  /\ Cardinality(starts) = (IF whole = {} THEN 0 ELSE 1)
                   /\ \A k \in starts : ctx.out[k + 1].data = Pieces(id, Min(whole))
    <2> DEFINE whole  == {j \in ToolStops(id) : IsJson(Pieces(id, j))}
               starts == {k \in Starts("tool_use") : ctx.out[k].id = id}
    <2> SUFFICES /\ Cardinality(starts) = (IF whole = {} THEN 0 ELSE 1)
                 /\ \A k \in starts : ctx.out[k + 1].data = Pieces(id, Min(whole))
      OBVIOUS
    <2>1. whole = Wholes(received, id) /\ starts = StartersOf(ctx.out, id)
      BY <1>3, <1>4
    <2> HIDE DEF whole, starts
    <2>2. CASE whole = {}
      <3>1. starts = {}
        BY <1>5, <2>1, <2>2
      <3>2. Cardinality(starts) = 0
        BY <3>1, FS_EmptySet
      <3> QED
        BY <2>2, <3>1, <3>2
    <2>3. CASE whole # {}
      <3>1. PICK k : /\ starts = {k}
                     /\ ctx.out[k + 1].data = PiecesOf(received, id, Min(whole))
        BY <1>5, <2>1, <2>3
      <3>2. Cardinality(starts) = 1
        BY <3>1, FS_Singleton
      <3> QED
        BY <1>1, <2>3, <3>1, <3>2
    <2> QED
      BY <2>2, <2>3
  <1>7. ASSUME NEW k \in Starts("tool_use")
        PROVE  /\ SentOf("content_block_delta", IndexOf(k)) = {k + 1}
               /\ SentOf("content_block_stop", IndexOf(k)) = {k + 2}
               /\ ctx.out[k].id \in ToolIds => IsJson(ctx.out[k + 1].data)
    <2>1. k \in DOMAIN ctx.out /\ StartsCall(ctx.out[k])
      BY DEF Starts, Sent, StartsCall
    <2>2. CallAt(ctx.out, k, ctx.out[k].index)
      BY <2>1, StarterIs
    <2>3. /\ SentOf("content_block_delta", IndexOf(k)) = {k + 1}
          /\ SentOf("content_block_stop", IndexOf(k)) = {k + 2}
      <3>1. /\ \A x : x \in Of(ctx.out, ctx.out[k].index) <=> x \in {k, k + 1, k + 2}
            /\ ctx.out[k].ev = "content_block_start"
            /\ ctx.out[k + 1].ev = "content_block_delta"
            /\ ctx.out[k + 2].ev = "content_block_stop"
        BY <2>2 DEF CallAt
      <3>2. \A x \in DOMAIN ctx.out : IsBlockEvent(ctx.out[x]) /\ ctx.out[x].index = ctx.out[k].index
                                     <=> x \in {k, k + 1, k + 2}
        BY <3>1 DEF Of
      <3>3. {k, k + 1, k + 2} \subseteq DOMAIN ctx.out
        BY <2>2 DEF CallAt
      <3>4. SentOf("content_block_delta", IndexOf(k)) = {k + 1}
        BY <3>1, <3>2, <3>3 DEF SentOf, IndexOf, IsBlockEvent
      <3>5. SentOf("content_block_stop", IndexOf(k)) = {k + 2}
        BY <3>1, <3>2, <3>3 DEF SentOf, IndexOf, IsBlockEvent
      <3> QED
        BY <3>4, <3>5
    <2>4. ASSUME ctx.out[k].id \in ToolIds PROVE IsJson(ctx.out[k + 1].data)
      <3> DEFINE id == ctx.out[k].id
      <3>1. k \in StartersOf(ctx.out, id) /\ id \in ToolIds
        BY <2>1, <2>4 DEF StartersOf
      <3> HIDE DEF id
      <3>2. Wholes(received, id) # {}
        BY <1>5, <3>1
      <3>3. /\ Min(Wholes(received, id)) \in Wholes(received, id)
            /\ ctx.out[k + 1].data = PiecesOf(received, id, Min(Wholes(received, id)))
        BY <1>5, <3>1, <3>2
      <3> QED
        BY <3>3 DEF Wholes
    <2> QED
      BY <2>3, <2>4
  <1> QED
    BY <1>6, <1>7, Zenon DEF ToolCallsWhole

LEMMA CallInvCalls ==
    CallInv => ToolCallsWhole
  <1> SUFFICES ASSUME CallInv PROVE ToolCallsWhole
    OBVIOUS
  <1>1. Events(received)
    BY MenuIsEvents DEF CallInv
  <1>2. CASE phase = "done"
    <2>1. Settled(ctx, received)
      BY <1>2 DEF CallInv
    <2> QED
      BY <1>1, <2>1, CallsShow DEF Settled
  <1>3. CASE phase # "done"
    <2>1. Sane(ctx) /\ Answered(ctx.toolIndex, ctx.out, received)
      BY <1>3 DEF CallInv, Reading
    <2> QED
      BY <1>1, <2>1, CallsShow DEF Sane, Typed
  <1> QED
    BY <1>2, <1>3

\* A tool call reaches the client exactly when its pieces have come to whole
\* JSON: once, as one start, one delta with all of it and one stop, and never
\* in part, however the pieces of several calls are mixed with each other and
\* with text and thinking (ToolJsonAccumulator, emit_completed_tool_use).
THEOREM ToolCallsComeWhole ==
    StreamSpec => []ToolCallsWhole
  BY CallInvInit, CallInvNext, CallInvCalls, PTL DEF StreamSpec

LEMMA CutIs ==
    Cut(received) <=> \E id \in ToolIds :
                         \/ Unfinished(id) # <<>> /\ Len(received) \notin ToolStops(id)
                         \/ \E j \in ToolStops(id) : ~ IsJson(Pieces(id, j))
  <1>1. \A id, j : Pieces(id, j) = PiecesOf(received, id, j)
    BY DEF Pieces, PiecesOf, IsOf
  <1>2. \A id : ToolStops(id) = StopsOf(received, id)
    BY DEF ToolStops, StopsOf, IsOf
  <1>3. \A id : HeldOf(received, id) # <<>>
                  <=> Unfinished(id) # <<>> /\ Len(received) \notin ToolStops(id)
    BY <1>1, <1>2 DEF HeldOf, Unfinished
  <1>4. \A id : StopsOf(received, id) # Wholes(received, id)
                  <=> \E j \in ToolStops(id) : ~ IsJson(Pieces(id, j))
    BY <1>1, <1>2 DEF Wholes
  <1> QED
    BY <1>3, <1>4 DEF Cut, Unparsed

LEMMA CallInvErrors ==
    CallInv => ErrorsShow
  <1> SUFFICES ASSUME CallInv, phase = "done"
               PROVE  /\ Broken(received) \/ Cut(received) => Sent("error") # {}
                      /\ Sent("error") # {} => Broken(received) \/ Cut(received) \/ usage = "error"
                      /\ usage = "success" /\ retries = 0 => Sent("error") = {}
    BY CutIs DEF ErrorsShow, Broken, Fails
  <1>1. /\ Settled(ctx, received)
        /\ Broken(received) => ctx.upstreamError
        /\ ctx.upstreamError => Broken(received) \/ usage = "error"
        /\ usage = "success" /\ retries = 0 => ~ ctx.toolError /\ ~ ctx.upstreamError
    BY DEF CallInv
  <1>2. Sent("error") # {} <=> ctx.toolError \/ ctx.upstreamError
    BY <1>1 DEF Settled, Sent
  <1>3. ctx.toolError <=> Cut(received)
    BY <1>1 DEF Settled
  <1> QED
    BY <1>1, <1>2, <1>3

LEMMA CallInvCache ==
    CallInv => CacheIsClean
  <1> SUFFICES ASSUME CallInv, cached PROVE CacheIsClean
    BY DEF CacheIsClean
  <1>1. phase = "done" /\ Settled(ctx, received) /\ CleanToCache(ctx)
        /\ ~ ctx.toolError /\ ~ ctx.upstreamError
    BY DEF CallInv
  <1>2. StopReason(ctx) = "end_turn" /\ ~ IsEmptyResponse(ctx)
    BY <1>1 DEF CleanToCache
  <1>3. ctx.stopReason = "none" /\ ~ ctx.hasTool
    BY <1>1, <1>2 DEF StopReason, Settled, Reasons
  <1>4. ctx.output
    BY <1>2, <1>3 DEF IsEmptyResponse
  <1>5. Shown(ctx.out)
    BY <1>1, <1>3, <1>4 DEF Settled, Spoken
  <1>6. \/ \E k \in Sent("content_block_delta") :
              ctx.out[k].kind # "signature" /\ ctx.out[k].data # <<>>
        \/ Starts("redacted_thinking") # {}
    BY <1>5 DEF Shown, Content, Sent, Starts
  <1>7. Starts("tool_use") = {}
    BY <1>1, <1>3 DEF Settled, Starts, Sent, StartsCall
  <1>8. Sent("error") = {}
    BY <1>1 DEF Settled, Sent
  <1>9. \A k \in Sent("message_delta") : ctx.out[k].reason = "end_turn"
    BY <1>1, <1>2 DEF Settled, Sent
  <1> QED
    BY <1>6, <1>7, <1>8, <1>9 DEF CacheIsClean

\* What the client, the books and the response cache are told of the outcome
\* is true: a response that was broken off or a call that came in part ends
\* with an error, no other response does unless the connection broke, none
\* with an error is counted a success but where a retry failed, and only a
\* whole answer with something in it is kept (set_upstream_error,
\* generate_final_events, write_response_cache_if_clean).
THEOREM OutcomesAreTrue ==
    StreamSpec => []OutcomeIsTrue
  <1>1. CallInv => OutcomeIsTrue
    BY CallInvErrors, CallInvCache DEF OutcomeIsTrue
  <1> QED
    BY <1>1, CallInvInit, CallInvNext, PTL DEF StreamSpec

-----------------------------------------------------------------------------
(* The attempt that is thrown away.                                          *)

TextCell(kinds, t, e) ==
    IF e.ev = "content_block_delta" /\ e.kind \in kinds THEN t \o e.data ELSE t

\* Events without a delta say nothing.
LEMMA NothingSaid ==
    ASSUME NEW out, IsSeq(out), NEW kinds,
           \A k \in DOMAIN out : out[k].ev # "content_block_delta"
    PROVE  SentText(out, kinds) = <<>>
  <1> DEFINE n == Len(out)
             iter[s \in SUBSET (DOMAIN out)] ==
                 IF s = {} THEN <<>> ELSE TextCell(kinds, iter[s \ {Max(s)}], out[Max(s)])
             f == [s \in SUBSET (DOMAIN out) |-> <<>>]
  <1>1. SentText(out, kinds) = iter[DOMAIN out]
    BY DEF SentText, FoldLeft, MapThenFoldSet, TextCell
  <1>2. n \in Nat /\ DOMAIN out = 1 .. n
    BY IsSeqFacts
  <1> HIDE DEF n
  <1>3. \A k \in DOMAIN out : \A t : TextCell(kinds, t, out[k]) = t
    BY DEF TextCell
  <1>4. ASSUME NEW s \in SUBSET (DOMAIN out)
        PROVE  (IF s = {} THEN <<>> ELSE TextCell(kinds, f[s \ {Max(s)}], out[Max(s)])) = <<>>
    <2>1. CASE s # {}
      <3>1. Max(s) \in DOMAIN out /\ s \ {Max(s)} \in SUBSET (DOMAIN out)
        BY <1>2, <2>1, MaxUpTo
      <3>2. f[s \ {Max(s)}] = <<>>
        BY <3>1
      <3> QED
        BY <1>3, <2>1, <3>1, <3>2
    <2> QED
      BY <2>1
  <1>5. iter = [s \in SUBSET (DOMAIN out) |->
                   IF s = {} THEN <<>> ELSE TextCell(kinds, iter[s \ {Max(s)}], out[Max(s)])]
    <2>1. f = [s \in SUBSET (DOMAIN out) |->
                 IF s = {} THEN <<>> ELSE TextCell(kinds, f[s \ {Max(s)}], out[Max(s)])]
      BY <1>4
    <2> QED
      BY <2>1
  <1> HIDE DEF iter, f
  <1> DEFINE L == [k \in 0 .. n |-> iter[1 .. k]]
  <1>6. L[0] = <<>> /\ L[n] = iter[DOMAIN out]
    <2>1. iter[1 .. 0] = <<>>
      BY <1>2, <1>5, FirstPlaces
    <2>2. L[0] = iter[1 .. 0] /\ L[n] = iter[1 .. n]
      BY <1>2
    <2> QED
      BY <1>2, <2>1, <2>2
  <1>7. ASSUME NEW k \in 1 .. n PROVE L[k] = L[k - 1]
    <2>1. /\ k - 1 \in 0 .. n /\ 1 .. k \in SUBSET (1 .. n) /\ 1 .. k # {}
          /\ Max(1 .. k) = k /\ (1 .. k) \ {Max(1 .. k)} = 1 .. (k - 1)
      BY <1>2, FirstPlaces
    <2>2. iter[1 .. k] = TextCell(kinds, iter[1 .. (k - 1)], out[k])
      BY <1>2, <1>5, <2>1
    <2>3. L[k] = iter[1 .. k] /\ L[k - 1] = iter[1 .. (k - 1)]
      BY <1>2, <2>1
    <2> QED
      BY <1>2, <1>3, <2>2, <2>3
  <1> HIDE DEF L
  <1> DEFINE V == {<<>>}
  <1>8. L[0] \in V /\ \A k \in 1 .. n : L[k - 1] \in V => L[k] \in V
    BY <1>6, <1>7
  <1> HIDE DEF V
  <1>9. \A k \in 0 .. n : L[k] \in V
    BY <1>2, <1>8, ChainIn
  <1>10. n \in 0 .. n
    BY <1>2
  <1>11. L[n] = <<>>
    BY <1>9, <1>10 DEF V
  <1> QED
    BY <1>1, <1>6, <1>11

PayloadCell(t, cell) == IF cell \in Payload THEN Append(t, cell) ELSE t

LEMMA NoPayload ==
    ASSUME NEW s, s = <<>>
    PROVE  PayloadOf(s) = <<>>
  <1> DEFINE iter[u \in SUBSET (DOMAIN s)] ==
                 IF u = {} THEN <<>> ELSE PayloadCell(iter[u \ {Max(u)}], s[Max(u)])
             f == [u \in SUBSET (DOMAIN s) |-> <<>>]
  <1>1. PayloadOf(s) = iter[DOMAIN s]
    BY DEF PayloadOf, FoldLeft, MapThenFoldSet, PayloadCell
  <1>2. DOMAIN s = {}
    OBVIOUS
  <1>3. iter = [u \in SUBSET (DOMAIN s) |->
                   IF u = {} THEN <<>> ELSE PayloadCell(iter[u \ {Max(u)}], s[Max(u)])]
    <2>1. f = [u \in SUBSET (DOMAIN s) |->
                 IF u = {} THEN <<>> ELSE PayloadCell(f[u \ {Max(u)}], s[Max(u)])]
      BY <1>2
    <2> QED
      BY <2>1
  <1> HIDE DEF iter
  <1> QED
    BY <1>1, <1>2, <1>3

\* What a block that is started sends.
LEMMA StartedOut ==
    ASSUME NEW c, DOMAIN c = Fields
    PROVE  StartBlock(c, "text", "-").out
             = Append(c.out, StartEvent(Len(c.blocks) + 1, "text", "-"))
  <1> DEFINE bs  == Append(c.blocks, Fresh("text"))
             new == Append(c.out, StartEvent(Len(c.blocks) + 1, "text", "-"))
  <1>1. StartBlock(c, "text", "-") = Reshaped(c, bs, new)
    BY StartBlockShape
  <1> HIDE DEF bs, new
  <1>2. Reshaped(c, bs, new).out = new
    BY ReshapedIs
  <1> QED
    BY <1>1, <1>2 DEF new

\* The initial events: none of them is a delta, and no call is started.
LEMMA InitialEvents ==
    LET out == NewContext(Thinking).out IN
    /\ IsSeq(out) /\ \A k \in DOMAIN out : /\ out[k].ev # "content_block_delta"
                                           /\ out[k].ev = "content_block_start"
                                                 => out[k].type = "text"
  <1> DEFINE e == [ev |-> "message_start"]
             c == [blocks |-> <<>>, stopReason |-> "none", hasTool |-> FALSE, ended |-> FALSE,
                   out |-> <<e>>, output |-> FALSE,
                   text |-> 0, thinking |-> 0, inThinking |-> FALSE, extracted |-> FALSE,
                   stripNewline |-> FALSE, signature |-> <<>>, buffer |-> <<>>, sniff |-> <<>>,
                   xml |-> XmlFilterInit, guard |-> [run |-> 0, tripped |-> FALSE],
                   fence |-> [open |-> FALSE, partial |-> FALSE], toolIndex |-> <<>>,
                   fragments |-> <<>>, toolError |-> FALSE, upstreamError |-> FALSE]
             b == [c EXCEPT !.text = 1]
             d == StartBlock(b, "text", "-")
             start == StartEvent(Len(b.blocks) + 1, "text", "-")
  <1>1. NewContext(Thinking) = IF Thinking THEN c ELSE d
    BY Zenon DEF NewContext
  <1>2. e.ev = "message_start" /\ start.ev = "content_block_start" /\ start.type = "text"
    BY DEF StartEvent
  <1> HIDE DEF e, start
  <1>3. DOMAIN c = Fields /\ c.out = <<e>>
    BY DEF Fields
  <1> HIDE DEF c
  <1>4. DOMAIN b = Fields /\ b.out = <<e>>
    BY <1>3 DEF Fields
  <1> HIDE DEF b
  <1>5. d.out = Append(<<e>>, start)
    BY <1>4, StartedOut DEF start
  <1> HIDE DEF d
  <1>6. /\ IsSeq(<<e>>) /\ DOMAIN <<e>> = {1} /\ <<e>>[1] = e
    <2>1. <<e>> \in Seq({e})
      OBVIOUS
    <2>2. DOMAIN <<e>> = {1} /\ <<e>>[1] = e
      OBVIOUS
    <2>3. IsSeq(<<e>>)
      BY <2>1, SeqIsSeq
    <2> QED
      BY <2>2, <2>3
  <1>7. Adds(<<e>>, d.out) /\ \A k \in DOMAIN d.out : k \notin DOMAIN <<e>> => d.out[k] = start
    BY <1>5, <1>6, AddsOne
  <1>8. \A k \in DOMAIN d.out : d.out[k] \in {e, start}
    BY <1>6, <1>7 DEF Adds
  <1>9. IsSeq(d.out)
    BY <1>7 DEF Adds
  <1> QED
    BY <1>1, <1>2, <1>3, <1>6, <1>8, <1>9

LEMMA CallInvRetries ==
    CallInv /\ phase = "retrying"
    => /\ PayloadOf(SentText(ctx.out, {"text", "thinking"}) \o ctx.sniff \o ctx.buffer) = <<>>
       /\ Starts("tool_use") \cup Starts("redacted_thinking") = {}
  <1> SUFFICES ASSUME CallInv, phase = "retrying"
               PROVE  /\ PayloadOf(SentText(ctx.out, {"text", "thinking"}) \o ctx.sniff \o ctx.buffer) = <<>>
                      /\ Starts("tool_use") \cup Starts("redacted_thinking") = {}
    OBVIOUS
  <1>1. Reading(ctx, received) /\ IsEmptyResponse(ctx)
    BY DEF CallInv
  <1>2. Untouched(ctx)
    BY <1>1 DEF Reading, IsEmptyResponse
  <1>3. ctx.out = NewContext(Thinking).out /\ ctx.buffer = <<>> /\ ctx.sniff = <<>>
    BY <1>2 DEF Untouched
  <1>4. /\ IsSeq(ctx.out)
        /\ \A k \in DOMAIN ctx.out : /\ ctx.out[k].ev # "content_block_delta"
                                     /\ ctx.out[k].ev = "content_block_start"
                                           => ctx.out[k].type = "text"
    BY <1>3, InitialEvents
  <1>5. SentText(ctx.out, {"text", "thinking"}) = <<>>
    BY <1>4, NothingSaid
  <1>6. SentText(ctx.out, {"text", "thinking"}) \o ctx.sniff \o ctx.buffer = <<>>
    BY <1>3, <1>5
  <1>7. Starts("tool_use") = {} /\ Starts("redacted_thinking") = {}
    BY <1>4 DEF Starts, Sent
  <1> QED
    BY <1>6, <1>7, NoPayload

\* An attempt that is thrown away for another has said nothing: no text and no
\* thinking, nothing that is held back, and no tool call or redacted thinking
\* (is_empty_response, which counts tokens and not events).
THEOREM RetriesDropNothing ==
    StreamSpec => RetryDropsNothing
  <1>1. CallInv /\ [StreamNext]_streamVars
        => [phase = "retrying" /\ phase' = "reading"
            => /\ PayloadOf(SentText(ctx.out, {"text", "thinking"}) \o ctx.sniff \o ctx.buffer) = <<>>
               /\ Starts("tool_use") \cup Starts("redacted_thinking") = {}]_streamVars
    BY CallInvRetries
  <1> QED
    BY <1>1, CallInvInit, CallInvNext, PTL DEF StreamSpec, RetryDropsNothing

=============================================================================
