------------------------------- MODULE SseStream -------------------------------
(***************************************************************************)
(* The translation of one response of the service, a stream of Kiro        *)
(* events, into the Anthropic event stream of the client: SseStateManager, *)
(* StreamContext, ToolJsonAccumulator and BufferedStreamContext            *)
(* (src/anthropic/stream.rs), and the two loops that drive them            *)
(* (src/anthropic/handlers.rs).                                            *)
(*                                                                         *)
(* ctx is the StreamContext with its SseStateManager; ctx.out is what it   *)
(* has produced.  A live client has it at once, a buffered one when the    *)
(* stream is done.  A handler is an operator from context to context.      *)
(* Usage figures, credits, names and pings are left out.                   *)
(***************************************************************************)
EXTENDS StreamText

CONSTANTS ToolIds,           \* ids of tool calls
          Menu,              \* scenario -> [thinking, buffered, events that may come, most]
          MaxEmptyRetries,   \* empty_response_retries
          RepeatTrip,        \* REPEAT_GUARD_TRIP_THRESHOLD
          MaxInvokeHold      \* MAX_INVOKE_HOLD_BYTES, in cells

ASSUME StreamAssumption ==
    /\ MaxEmptyRetries \in Nat
    /\ RepeatTrip \in Nat \ {0, 1}   \* 32 in the code
    /\ MaxInvokeHold \in Nat
    /\ "invoke" \notin ToolIds   \* EmitToolUse's name for a call found in the text
    /\ \A r \in DOMAIN Menu :
         /\ Menu[r].thinking \in BOOLEAN /\ Menu[r].most \in Nat
         /\ \A e \in Menu[r].events :
              /\ e.kind \in {"assistant", "reasoning", "tool", "contextUsage",
                             "exception", "error"}
              /\ e.kind = "assistant" => e.content \in Seq(Cell)
              /\ e.kind = "reasoning" => e.text \in Seq(Cell)
              /\ e.kind = "tool" =>
                    e.id \in ToolIds /\ e.input \in Seq({"{", "}"}) /\ e.stop \in BOOLEAN
              /\ e.kind = "exception" => e.tooLong \in BOOLEAN

VARIABLES request,    \* the scenario: how the client called, and what may come
          ctx,
          received,   \* the Kiro events of this attempt
          phase,      \* "reading", "retrying" (pending_retry) or "done"
          retries,    \* empty_retry_count
          usage,      \* the status of the usage record
          cached      \* the response has been put into the response cache

streamVars == <<request, ctx, received, phase, retries, usage, cached>>

Thinking == Menu[request].thinking

-----------------------------------------------------------------------------
(* SseStateManager.  A block's index is its place in c.blocks.             *)

BlockTypes == {"text", "thinking", "redacted_thinking", "tool_use"}

Send(c, event) == [c EXCEPT !.out = Append(@, event)]

StopEvent(i)      == [ev |-> "content_block_stop", index |-> i]
Delta(i, kind, d) == [ev |-> "content_block_delta", index |-> i, kind |-> kind, data |-> d]

IsOpen(c, i, type) == i \in DOMAIN c.blocks /\ c.blocks[i] = [type |-> type, open |-> TRUE]

\* Stops every open block of these types, in some order (the code walks a
\* HashMap).
StopAll(c, types) ==
    LET open == SetToSeq({i \in DOMAIN c.blocks :
                             c.blocks[i].open /\ c.blocks[i].type \in types})
    IN  [c EXCEPT !.blocks = [i \in DOMAIN c.blocks |->
                                 [type |-> c.blocks[i].type,
                                  open |-> c.blocks[i].open /\ c.blocks[i].type \notin types]],
                  !.out = @ \o [k \in DOMAIN open |-> StopEvent(open[k])]]

\* next_block_index and handle_content_block_start.
StartBlock(c, type, id) ==
    LET d == IF type = "tool_use" THEN StopAll([c EXCEPT !.hasTool = TRUE], {"text"}) ELSE c
    IN  Send([d EXCEPT !.blocks = Append(@, [type |-> type, open |-> TRUE])],
             [ev |-> "content_block_start", index |-> Len(c.blocks) + 1,
              type |-> type, id |-> id])

\* Fault: a block that has stopped is stopped again.
StopBlock_Again(c, i) ==
    IF i \in DOMAIN c.blocks THEN Send([c EXCEPT !.blocks[i].open = FALSE], StopEvent(i)) ELSE c

StopBlock(c, i) ==
    IF i \in DOMAIN c.blocks /\ c.blocks[i].open
    THEN Send([c EXCEPT !.blocks[i].open = FALSE], StopEvent(i))
    ELSE c

\* handle_content_block_delta lets a delta through to an open block only.
SendDelta(c, i, kind, d) ==
    IF i \in DOMAIN c.blocks /\ c.blocks[i].open THEN Send(c, Delta(i, kind, d)) ELSE c

StopReason(c) ==
    IF c.stopReason # "none" THEN c.stopReason
    ELSE IF c.hasTool THEN "tool_use" ELSE "end_turn"

EndMessage(c) ==
    IF c.ended THEN StopAll(c, BlockTypes)
    ELSE LET d == StopAll([c EXCEPT !.ended = TRUE], BlockTypes) IN
         Send(Send(d, [ev |-> "message_delta", reason |-> StopReason(c)]),
              [ev |-> "message_stop"])

-----------------------------------------------------------------------------
(* Plain text.                                                             *)

\* Fault: the index of a text block that a tool call has closed is kept.
SendText_StaleIndex(c, text) ==
    IF text = <<>> THEN c
    ELSE IF c.text # 0 THEN SendDelta(c, c.text, "text", text)
    ELSE SendDelta(StartBlock([c EXCEPT !.text = Len(c.blocks) + 1], "text", "-"),
                   Len(c.blocks) + 1, "text", text)

\* The rest of emit_text_delta_raw: the open text block, or a new one.
SendText(c, text) ==
    IF text = <<>> THEN c
    ELSE IF IsOpen(c, c.text, "text") THEN SendDelta(c, c.text, "text", text)
    ELSE SendDelta(StartBlock([c EXCEPT !.text = Len(c.blocks) + 1], "text", "-"),
                   Len(c.blocks) + 1, "text", text)

SendKept(c, g) ==
    SendText([c EXCEPT !.guard = [run |-> g.run, tripped |-> g.tripped],
                       !.fence = AdvanceFence(@, g.kept)],
             g.kept)

\* emit_text_delta_raw; without text nothing changes.
EmitText(c, text) == SendKept(c, RepeatGuard(c.guard, text, RepeatTrip))

\* emit_completed_tool_use.  An <invoke> block gets an id of its own.
EmitToolUse(c, id, input) ==
    LET known == id \in DOMAIN c.toolIndex
        i     == IF known THEN c.toolIndex[id] ELSE Len(c.blocks) + 1
        d     == [c EXCEPT !.hasTool = TRUE, !.output = TRUE,
                           !.toolIndex = IF id = "invoke" THEN @
                                         ELSE [x \in DOMAIN @ \cup {id} |->
                                                  IF x = id THEN i ELSE @[x]]]
        e     == IF known THEN StopAll(d, {"text"}) ELSE StartBlock(d, "tool_use", id)
    IN  StopBlock(SendDelta(e, i, "json", input), i)

\* A block from start to end: a call, or text.
TakeInvoke(c, buf, before, start, end, leak) ==
    IF leak /\ buf[start + 1] = "invoke"
    THEN EmitToolUse(EmitText(c, before), "invoke", SubSeq(buf, start, end))
    ELSE EmitText(c, SubSeq(buf, 1, end))

Drained(c, sniff) == [c |-> [c EXCEPT !.sniff = sniff], buf |-> <<>>, done |-> TRUE]

\* One pass of the loop of drain_invoke_sniff_buffer over the text left: the
\* text that may be sent, what is held of it, and a block that is complete.
DrainPass(s, flush) ==
    LET c      == s.c
        buf    == s.buf
        start  == FindInvokeStart(buf)
        end    == FindInvokeBlockEnd(buf, start)
        before == StripTrailingStray(SubSeq(buf, 1, start - 1))
        leak   == LooksLikeRealLeak(before) /\ ~ AdvanceFence(c.fence, before).open
        open   == From(buf, start)
        held   == IF flush THEN <<>>
                  ELSE IF start = 0 THEN PartialInvokeTag(buf)
                  ELSE IF leak /\ Len(open) <= MaxInvokeHold THEN open ELSE <<>>
    IN  IF s.done THEN s
        ELSE IF start > 0 /\ end > 0
        THEN [c    |-> TakeInvoke(c, buf, before, start, end, leak),
              buf  |-> From(buf, end + 1),
              done |-> FALSE]
        ELSE IF start > 0 /\ leak
        THEN Drained(EmitText(EmitText(c, SubSeq(buf, 1, start - 1)),
                              From(SubSeq(buf, 1, Len(buf) - Len(held)), start)), held)
        ELSE Drained(EmitText(c, SubSeq(buf, 1, Len(buf) - Len(held))), held)

\* Every pass but the last takes a cell at least.
DrainSniff(c, flush) ==
    LET Loop[n \in Nat] ==
            IF n = 0 THEN [c |-> [c EXCEPT !.sniff = <<>>], buf |-> c.sniff, done |-> FALSE]
            ELSE DrainPass(Loop[n - 1], flush)
    IN  Loop[Len(c.sniff) + 1].c

\* create_text_delta_events
EmitSniffed(c, text) ==
    IF text = <<>> THEN c ELSE DrainSniff([c EXCEPT !.sniff = @ \o text], FALSE)

-----------------------------------------------------------------------------
(* Thinking.                                                               *)

\* create_thinking_delta_event does not ask the state manager.
SendThinking(c, text) == Send(c, Delta(c.thinking, "thinking", text))

SendThinkingNonEmpty(c, text) == IF text = <<>> THEN c ELSE SendThinking(c, text)

\* The empty thinking delta, the signature and the stop that end a block.
FinishThinking(c, signature) ==
    StopBlock(Send(SendThinking(c, <<>>), Delta(c.thinking, "signature", signature)),
              c.thinking)

Placeholder == <<"placeholder">>   \* THINKING_SIGNATURE_PLACEHOLDER

StartThinking(c) ==
    StartBlock([c EXCEPT !.thinking = Len(c.blocks) + 1], "thinking", "-")

ThinkingOpen(c) == IsOpen(c, c.thinking, "thinking")

\* close_open_thinking_block: a block of native reasoning.
CloseThinking(c) ==
    IF ThinkingOpen(c)
    THEN FinishThinking([c EXCEPT !.signature = <<>>],
                        IF c.signature = <<>> THEN Placeholder ELSE c.signature)
    ELSE c

CloseText(c) == StopBlock([c EXCEPT !.text = 0], IF IsOpen(c, c.text, "text") THEN c.text ELSE 0)

\* What the two searches of the end tag do when they find it at k.
LeaveThinking(c, k) ==
    FinishThinking(SendThinkingNonEmpty([c EXCEPT !.inThinking = FALSE, !.extracted = TRUE],
                                        SubSeq(c.buffer, 1, k - 1)),
                   Placeholder)

\* The three branches of process_content_with_thinking, each with its test.
LookForThinking(c) ==
    LET k      == FindStartTag(c.buffer)
        before == SubSeq(c.buffer, 1, k - 1)
        n      == IF Len(c.buffer) < Len(OpenTag) THEN 0 ELSE Len(c.buffer) - Len(OpenTag)
        safe   == SubSeq(c.buffer, 1, n)
    IN  IF c.inThinking \/ c.extracted THEN c
        ELSE IF k > 0
        THEN StartThinking([EmitSniffed(c, IF Blank(before) THEN <<>> ELSE before)
                               EXCEPT !.inThinking = TRUE, !.stripNewline = TRUE,
                                      !.buffer = From(@, k + Len(OpenTag))])
        ELSE IF Blank(safe) THEN c
        ELSE [EmitSniffed(c, safe) EXCEPT !.buffer = From(@, n + 1)]

\* Fault: the break after the end tag is not waited for.
InsideThinking_KeepsTagOnly(c) ==
    LET k    == FindEndTag(c.buffer)
        kept == Len(CloseTag)
        n    == IF Len(c.buffer) < kept THEN 0 ELSE Len(c.buffer) - kept
    IN  IF ~ c.inThinking THEN c
        ELSE IF k > 0
        THEN [LeaveThinking(c, k) EXCEPT !.buffer = From(@, k + Len(CloseTag \o Break))]
        ELSE [SendThinkingNonEmpty(c, SubSeq(c.buffer, 1, n)) EXCEPT !.buffer = From(@, n + 1)]

InsideThinking(c) ==
    LET strip == c.stripNewline /\ c.buffer # <<>> /\ c.buffer[1] = "n"
        d     == [c EXCEPT !.buffer = IF strip THEN Tail(@) ELSE @,
                           !.stripNewline = @ /\ c.buffer = <<>>]
        k     == FindEndTag(d.buffer)
        kept  == Len(CloseTag \o Break)
        n     == IF Len(d.buffer) < kept THEN 0 ELSE Len(d.buffer) - kept
    IN  IF ~ c.inThinking THEN c
        ELSE IF k > 0
        THEN [LeaveThinking(d, k) EXCEPT !.buffer = From(@, k + kept)]
        ELSE [SendThinkingNonEmpty(d, SubSeq(d.buffer, 1, n)) EXCEPT !.buffer = From(@, n + 1)]

AfterThinking(c) ==
    IF c.inThinking \/ ~ c.extracted THEN c
    ELSE EmitSniffed([c EXCEPT !.buffer = <<>>], c.buffer)

ProcessWithThinking(c, text) ==
    AfterThinking(InsideThinking(LookForThinking([c EXCEPT !.buffer = @ \o text])))

ProcessText(c, text) == IF Thinking THEN ProcessWithThinking(c, text) ELSE EmitSniffed(c, text)

\* The end tag without a break after it, at a tool call and at the end.
LeaveThinkingAtEnd(c, k) ==
    EmitSniffed([LeaveThinking(c, k) EXCEPT !.buffer = <<>>],
                TrimStart(From(c.buffer, k + Len(CloseTag))))

-----------------------------------------------------------------------------
(* The Kiro events: process_kiro_event.                                    *)

\* SseStateManager::set_stop_reason: the last one wins.
SetStopReason(c, reason) == [c EXCEPT !.stopReason = reason]

\* set_upstream_error: the first one is kept.
SetUpstreamError(c) ==
    IF c.upstreamError THEN c
    ELSE SetStopReason([c EXCEPT !.upstreamError = TRUE], "error")

LeaveNative(c) == IF c.inThinking THEN c ELSE CloseThinking(c)

ProcessAssistantResponse(c, content) ==
    LET f == XmlFilter(c.xml, content)
        d == [c EXCEPT !.xml = [held |-> f.held, stripping |-> f.stripping]]
    IN  IF f.out = <<>> THEN d
        ELSE ProcessText([LeaveNative(d) EXCEPT !.output = TRUE], f.out)

\* ToolJsonAccumulator: JSON text is "{" and "}", and nothing stands for {}.
IsJson(json)    == json \in {<<>>, <<"{", "}">>}
Pushed(c, e)    == (IF e.id \in DOMAIN c.fragments THEN c.fragments[e.id] ELSE <<>>) \o e.input
Kept(c, e)      == [id \in DOMAIN c.fragments \cup {e.id} |->
                       IF id = e.id THEN Pushed(c, e) ELSE c.fragments[id]]
ToolJsonError(c) == SetStopReason([c EXCEPT !.toolError = TRUE], "error")

\* Fault: the pieces are sent on without being parsed.
PushToolUse_Unparsed(c, e) ==
    IF e.stop
    THEN EmitToolUse([c EXCEPT !.fragments = [id \in DOMAIN @ \ {e.id} |-> @[id]]],
                     e.id, Pushed(c, e))
    ELSE [c EXCEPT !.fragments = Kept(c, e)]

PushToolUse(c, e) ==
    LET json == Pushed(c, e)
        rest == [c EXCEPT !.fragments = [id \in DOMAIN @ \ {e.id} |-> @[id]]]
    IN  IF ~ e.stop THEN [c EXCEPT !.fragments = Kept(c, e)]
        ELSE IF IsJson(json) THEN EmitToolUse(rest, e.id, json)
        ELSE ToolJsonError(rest)

\* A tool call ends the thinking before it, and the text held for a tag.
LeaveTagged(c) ==
    LET k == FindEndTagAtEnd(c.buffer)
    IN  IF Thinking /\ c.inThinking /\ k > 0 THEN LeaveThinkingAtEnd(c, k) ELSE c

FlushBuffer(c) ==
    IF Thinking /\ ~ c.inThinking /\ ~ c.extracted
    THEN EmitSniffed([c EXCEPT !.buffer = <<>>], c.buffer) ELSE c

ProcessToolUse(c, e) ==
    PushToolUse(FlushBuffer(LeaveTagged(LeaveNative([c EXCEPT !.hasTool = TRUE]))), e)

EnsureThinking(c) ==
    LET d == [c EXCEPT !.buffer = <<>>]
        f == CloseText(IF Blank(c.buffer) THEN d ELSE EmitSniffed(d, c.buffer))
    IN  IF ThinkingOpen(c) THEN c ELSE StartThinking([f EXCEPT !.extracted = TRUE])

SendReasoning(c, text) ==
    IF text = <<>> THEN c
    ELSE SendThinking(EnsureThinking([c EXCEPT !.output = TRUE]), text)

\* create_redacted_thinking_events
SendRedacted(c) ==
    StopBlock(StartBlock(CloseText(CloseThinking([c EXCEPT !.output = TRUE])),
                         "redacted_thinking", "-"),
              Len(c.blocks) + 1)

NativeReasoning(c, e) == IF e.redacted THEN SendRedacted(c) ELSE c

ProcessReasoning(c, e) ==
    IF ~ Thinking
    THEN IF e.text = <<>> THEN c ELSE EmitSniffed([c EXCEPT !.output = TRUE], e.text)
    ELSE NativeReasoning(
            SendReasoning(IF e.signature THEN [c EXCEPT !.signature = <<"native">>] ELSE c,
                          e.text), e)

ProcessKiroEvent(c, e) ==
    CASE e.kind = "assistant"    -> ProcessAssistantResponse(c, e.content)
      [] e.kind = "tool"         -> ProcessToolUse(c, e)
      [] e.kind = "reasoning"    -> ProcessReasoning(c, e)
      [] e.kind = "contextUsage" -> IF e.full
                                    THEN SetStopReason(c, "model_context_window_exceeded")
                                    ELSE c
      [] e.kind = "exception" /\ e.tooLong -> SetStopReason(c, "max_tokens")
      [] OTHER                   -> SetUpstreamError(c)   \* error, other exceptions

-----------------------------------------------------------------------------
(* The end of the stream: StreamContext::generate_final_events.            *)

FlushFilter(c) ==
    LET d == [c EXCEPT !.xml = XmlFilterInit]
    IN  IF c.xml.held = <<>> THEN d ELSE ProcessText(d, c.xml.held)

FlushThinking(c) ==
    LET k == FindEndTagAtEnd(c.buffer)
    IN  IF ~ Thinking \/ c.buffer = <<>> THEN c
        ELSE IF ~ c.inThinking THEN [EmitSniffed(c, c.buffer) EXCEPT !.buffer = <<>>]
        ELSE IF k > 0 THEN LeaveThinkingAtEnd(c, k)
        ELSE [FinishThinking(SendThinking(c, c.buffer), Placeholder) EXCEPT !.buffer = <<>>]

\* A response of nothing but thinking gets a text block of one blank.
AddText(c) ==
    IF /\ Thinking /\ c.thinking # 0
       /\ \A i \in DOMAIN c.blocks : c.blocks[i].type = "thinking"
    THEN EmitSniffed(SetStopReason(c, "max_tokens"), <<" ">>)
    ELSE c

FlushSniff(c) == IF c.sniff = <<>> THEN c ELSE DrainSniff(c, TRUE)

\* Fault: nobody looks what the accumulator still holds.
FinishTools_Forgotten(c) == c

\* ToolJsonAccumulator::finish: a call that has been cut short.
FinishTools(c) ==
    IF ~ c.toolError /\ \E id \in DOMAIN c.fragments : c.fragments[id] # <<>>
    THEN ToolJsonError(c) ELSE c

SendErrors(c) ==
    LET tool == IF c.toolError THEN <<[ev |-> "error", type |-> "upstream_tool_json_error"]>>
                ELSE <<>>
        up   == IF c.upstreamError THEN <<[ev |-> "error", type |-> "api_error"]>> ELSE <<>>
    IN  [c EXCEPT !.out = @ \o tool \o up]

FinalEvents(c) ==
    SendErrors(EndMessage(FinishTools(FlushSniff(AddText(
        FlushThinking(LeaveNative(FlushFilter(c))))))))

\* new_with_thinking and generate_initial_events.  The buffered stream calls
\* the second with its first event or at its end: nobody can tell.
NewContext(thinking) ==
    LET c == [blocks |-> <<>>, stopReason |-> "none", hasTool |-> FALSE, ended |-> FALSE,
              out |-> <<[ev |-> "message_start"]>>, output |-> FALSE,
              text |-> 0, thinking |-> 0, inThinking |-> FALSE, extracted |-> FALSE,
              stripNewline |-> FALSE, signature |-> <<>>, buffer |-> <<>>, sniff |-> <<>>,
              xml |-> XmlFilterInit, guard |-> [run |-> 0, tripped |-> FALSE],
              fence |-> [open |-> FALSE, partial |-> FALSE], toolIndex |-> <<>>,
              fragments |-> <<>>, toolError |-> FALSE, upstreamError |-> FALSE]
    IN  IF thinking THEN c ELSE StartBlock([c EXCEPT !.text = 1], "text", "-")

-----------------------------------------------------------------------------
(* BufferedStreamContext.                                                  *)

\* Fault: only the tool calls and the stop reason are asked.
IsEmptyResponse_AnyText(c) == ~ c.hasTool /\ (c.upstreamError \/ c.stopReason = "none")

IsEmptyResponse(c) ==
    /\ ~ c.output /\ ~ c.hasTool
    /\ c.upstreamError \/ c.stopReason = "none"

\* write_response_cache_if_clean
CleanToCache(c) == ~ IsEmptyResponse(c) /\ StopReason(c) = "end_turn"

-----------------------------------------------------------------------------
(* The loops of create_sse_stream and create_buffered_sse_stream.          *)

StreamInit ==
    /\ request \in DOMAIN Menu
    /\ ctx = NewContext(Thinking)
    /\ received = <<>>
    /\ phase = "reading"
    /\ retries = 0
    /\ usage = "none"
    /\ cached = FALSE

\* A frame has been decoded.  Bound: the scenario's number of events.
Receive(e) ==
    /\ phase = "reading"
    /\ Len(received) < Menu[request].most
    /\ ctx' = ProcessKiroEvent(ctx, e)
    /\ received' = Append(received, e)
    /\ UNCHANGED <<request, phase, retries, usage, cached>>

Finish(c, status) ==
    /\ ctx' = FinalEvents(c)
    /\ phase' = "done"
    /\ usage' = status
    /\ UNCHANGED <<request, received, retries>>

MayRetry == Menu[request].buffered /\ retries < MaxEmptyRetries /\ IsEmptyResponse(ctx)

\* body_stream.next() gives None.
EndOfStream ==
    /\ phase = "reading"
    /\ ~ MayRetry
    /\ Finish(ctx, IF ctx'.upstreamError \/ ctx'.toolError THEN "error" ELSE "success")
    /\ cached' = (Menu[request].buffered /\ usage' = "success" /\ CleanToCache(ctx'))

\* Nothing has come: the call is sent again, unseen by the client.
Retry ==
    /\ phase = "reading"
    /\ MayRetry
    /\ phase' = "retrying"
    /\ retries' = retries + 1
    /\ UNCHANGED <<request, ctx, received, usage, cached>>

\* body_stream.next() gives an error.
TransportError ==
    /\ phase = "reading"
    /\ Finish(SetUpstreamError(ctx), "error")
    /\ UNCHANGED cached

\* The second call has an answer: reset_for_retry.
RetryAnswers ==
    /\ phase = "retrying"
    /\ phase' = "reading"
    /\ ctx' = NewContext(Thinking)
    /\ received' = <<>>
    /\ UNCHANGED <<request, retries, usage, cached>>

\* It fails, or takes more than RETRY_CALL_TIMEOUT_SECS: finish_buffered_success.
RetryFails ==
    /\ phase = "retrying"
    /\ Finish(ctx, "success")
    /\ UNCHANGED cached

StreamNext ==
    \/ \E e \in Menu[request].events : Receive(e)
    \/ EndOfStream
    \/ Retry
    \/ TransportError
    \/ RetryAnswers
    \/ RetryFails

StreamSpec == StreamInit /\ [][StreamNext]_streamVars
-----------------------------------------------------------------------------
(* Properties.                                                             *)

Sent(ev)          == {k \in DOMAIN ctx.out : ctx.out[k].ev = ev}
SentOf(ev, i)     == {k \in DOMAIN ctx.out : ctx.out[k].ev = ev /\ ctx.out[k].index = i}
Deltas(i, kind)   == {k \in SentOf("content_block_delta", i) : ctx.out[k].kind = kind}
Starts(type)      == {k \in Sent("content_block_start") : ctx.out[k].type = type}
IndexOf(k)        == ctx.out[k].index
BlockEvents       == {k \in DOMAIN ctx.out :
                         ctx.out[k].ev \in {"content_block_start", "content_block_delta",
                                            "content_block_stop"}}
PayloadOf(s)      ==
    FoldLeft(LAMBDA t, cell : IF cell \in Payload THEN Append(t, cell) ELSE t, <<>>, s)

SentText(out, kinds) ==
    FoldLeft(LAMBDA t, e : IF e.ev = "content_block_delta" /\ e.kind \in kinds
                           THEN t \o e.data ELSE t,
             <<>>, out)

\* The text of the first j events, and the part of it that is not <tool_use>
\* XML.  (The filter is not applied to reasoning; no menu has a tag there.)
Said(j) ==
    FoldLeft(LAMBDA t, e : CASE e.kind = "assistant" -> t \o e.content
                             [] e.kind = "reasoning" -> t \o e.text
                             [] OTHER                -> t,
             <<>>, SubSeq(received, 1, j))
Arrived == XmlFilter(XmlFilterInit, Said(Len(received))).out

\* Every <tool_use is completed to a tag, or is the beginning of another tag's
\* name and in one event with it.
XmlSound ==
    LET said == Said(Len(received))
        cuts == {Len(Said(j)) : j \in DOMAIN received}
    IN  \A k \in Places(said, XmlOpen) :
            LET head == k + Len(XmlOpen)
                rest == From(said, head)
            IN  \/ IsPrefix(rest, <<"n", ">">>) \/ IsPrefix(<<"n", ">">>, rest)
                \/ IsPrefix(<<">">>, rest)
                \/ IsPrefix(<<"r>">>, rest) /\ head - 1 \notin cuts

\* Every block of the client's message starts once, gets its deltas while it
\* is open, and stops at most once; when the message ends every block has
\* stopped, the stop reason comes once after them, and only errors follow the
\* end (SseStateManager, whose events four handlers and the end interleave,
\* and create_thinking_delta_event, which goes around it).  A response that
\* has tagged thinking and redacted reasoning in it may break this.
BlocksBracketed ==
    /\ \A i \in {IndexOf(k) : k \in BlockEvents} :
          LET all   == {k \in BlockEvents : IndexOf(k) = i}
              start == {k \in all : ctx.out[k].ev = "content_block_start"}
              stop  == {k \in all : ctx.out[k].ev = "content_block_stop"}
          IN  /\ start = {Min(all)}
              /\ stop \in {{}, {Max(all)}}
              /\ ctx.ended => stop # {}
    /\ \A d \in Sent("message_delta") :
          /\ Sent("message_delta") = {d} /\ Sent("message_stop") = {d + 1}
          /\ {k \in DOMAIN ctx.out : k > d + 1} = Sent("error")
    /\ phase = "done" <=> Sent("message_delta") # {}

\* What the model has said is with the client, as text, as thinking or in a
\* call taken out of the text, or in one of the buffers where a tag may be
\* beginning, however the text is cut into events and whatever comes between
\* them; without thinking also in its order (the three buffers of
\* process_assistant_response, and their flushes).  Two things may lose text:
\* the repeat guard, which cuts, and <tool_use XML that is malformed.
NothingLost ==
    LET sent  == SentText(ctx.out, {"text", "thinking", "json"})
        there == PayloadOf(sent \o ctx.sniff \o ctx.buffer)
        all   == PayloadOf(Arrived)
    IN  XmlSound /\ ~ ctx.guard.tripped
        => IF Thinking THEN ToBag(there) = ToBag(all) ELSE there = all

\* A response of text only is divided into thinking and text as the whole text
\* would be (extract_thinking_from_complete_text, which the comment there says
\* agrees with the streamed search).
SplitAsWhole ==
    LET whole == ExtractThinking(Arrived)
    IN  phase = "done" /\ Thinking /\ whole.found
        /\ (\A k \in DOMAIN received : received[k].kind = "assistant")
        => /\ PayloadOf(SentText(ctx.out, {"thinking"})) = PayloadOf(whole.thinking)
           /\ PayloadOf(SentText(ctx.out, {"text"})) = PayloadOf(whole.text)

\* The pieces of the j-th event of call id and of the ones before it, back to
\* the last stop.
Pieces(id, j) ==
    LET Of(k) == received[k].kind = "tool" /\ received[k].id = id
        last  == Latest({k \in 1..(j - 1) : Of(k) /\ received[k].stop})
    IN  FoldLeft(LAMBDA t, k : IF k > last /\ Of(k) THEN t \o received[k].input ELSE t,
                 <<>>, [k \in 1..j |-> k])

ToolStops(id) == {j \in DOMAIN received :
                     received[j].kind = "tool" /\ received[j].id = id /\ received[j].stop}
Unfinished(id) == Pieces(id, Len(received))

\* A tool call reaches the client exactly when its pieces have come to whole
\* JSON, once, with a start, one delta with all of it and a stop, and never in
\* part, however the pieces of several calls are mixed (ToolJsonAccumulator).
ToolCallsWhole ==
    /\ \A id \in ToolIds :
          LET whole  == {j \in ToolStops(id) : IsJson(Pieces(id, j))}
              starts == {k \in Starts("tool_use") : ctx.out[k].id = id}
          IN  /\ Cardinality(starts) = (IF whole = {} THEN 0 ELSE 1)
              /\ \A k \in starts :
                    ctx.out[k + 1].data = Pieces(id, Min(whole))
    /\ \A k \in Starts("tool_use") :
          /\ SentOf("content_block_delta", IndexOf(k)) = {k + 1}
          /\ SentOf("content_block_stop", IndexOf(k)) = {k + 2}
          /\ ctx.out[k].id \in ToolIds => IsJson(ctx.out[k + 1].data)

\* A block of thinking that says something is signed before it stops, or the
\* next turn is refused (create_signature_delta_event).
ThinkingSigned ==
    \A k \in Starts("thinking") :
        LET i == IndexOf(k) IN
        /\ SentOf("content_block_stop", i) # {}
        /\ \E d \in Deltas(i, "thinking") : ctx.out[d].data # <<>>
        => Cardinality(Deltas(i, "signature")) = 1

\* The blocks of the message are ones the client can take and send back.
BlocksWellFormed == BlocksBracketed /\ ThinkingSigned

\* A response that was broken off, or a tool call that came in part, ends with
\* an error event, and no other response does; it is counted as a success only
\* where a retry failed (set_upstream_error, generate_final_events).
ErrorsShow ==
    LET cut    == \E id \in ToolIds :
                     \/ Unfinished(id) # <<>> /\ Len(received) \notin ToolStops(id)
                     \/ \E j \in ToolStops(id) : ~ IsJson(Pieces(id, j))
        broken == \E k \in DOMAIN received :
                     \/ received[k].kind = "error"
                     \/ received[k].kind = "exception" /\ ~ received[k].tooLong
    IN  phase = "done" =>
        /\ broken \/ cut => Sent("error") # {}
        /\ Sent("error") # {} => broken \/ cut \/ usage = "error"
        /\ usage = "success" /\ retries = 0 => Sent("error") = {}

\* What is kept in the response cache is a whole answer: some content, no tool
\* call, no error, end_turn (write_response_cache_if_clean).
CacheIsClean ==
    cached => /\ \/ \E k \in Sent("content_block_delta") :
                       ctx.out[k].kind # "signature" /\ ctx.out[k].data # <<>>
                 \/ Starts("redacted_thinking") # {}
              /\ Starts("tool_use") = {} /\ Sent("error") = {}
              /\ \A k \in Sent("message_delta") : ctx.out[k].reason = "end_turn"

\* What the client, the books and the cache are told of the outcome is true.
OutcomeIsTrue == ErrorsShow /\ CacheIsClean

\* Only an attempt that has said nothing is thrown away: no text, no thinking,
\* no tool call, in the events kept or in a buffer (is_empty_response counts
\* tokens, not events).
RetryDropsNothing ==
    [][phase = "retrying" /\ phase' = "reading"
       => /\ PayloadOf(SentText(ctx.out, {"text", "thinking"}) \o ctx.sniff \o ctx.buffer) = <<>>
          /\ Starts("tool_use") \cup Starts("redacted_thinking") = {}]_streamVars

-----------------------------------------------------------------------------
(* What the code says and does not do.                                     *)

\* A call taken out of the text stood at the beginning of a line there
\* (invoke_looks_like_real_leak).
InvokeAtLineStart ==
    \A k \in Starts("tool_use") :
        ctx.out[k].id = "invoke" =>
            LET before == SentText(SubSeq(ctx.out, 1, k), {"text"})
            IN  before = <<>> \/ before[Len(before)] \in EndsLine

===============================================================================
