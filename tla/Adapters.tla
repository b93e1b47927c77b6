------------------------------ MODULE Adapters ------------------------------
(* The two OpenAI protocols in front of the gateway                          *)
(* (src/src/anthropic/openai.rs, responses.rs): a request becomes an         *)
(* Anthropic request, the whole Anthropic answer becomes a chat completion   *)
(* or a list of output items, as one object or as a synthesized stream.      *)
(*                                                                           *)
(* A text is a sequence of pieces.  The input of a tool call is [kind, s]:   *)
(* "input" for the {"input": s} a custom tool's schema asks for, "single"    *)
(* for another object of one string, "object" for any other, "empty" for {}. *)
EXTENDS Lists, Naturals, FiniteSets, TLC

CONSTANTS
    Joined,     \* <<namespace, name>> |-> namespace__name
    AsJson      \* an input that is no string, as JSON text

Empty == [kind |-> "empty", s |-> ""]
Raw(s) == [kind |-> "input", s |-> s]

TextPart(s) == [type |-> "text", s |-> s]
UsePart(id, name, input) ==
    [type |-> "tool_use", id |-> id, name |-> name, input |-> input]
ResultPart(id, s) == [type |-> "tool_result", id |-> id, s |-> s]

OfType(blocks, type) == Those(blocks, {b \in ToSet(blocks) : b.type = type})

\* push_merged: consecutive blocks of a role are one message.
PushMerged(merged, role, blocks) ==
    IF blocks = <<>> THEN merged
    ELSE IF merged # <<>> /\ Last(merged).role = role
    THEN [merged EXCEPT ![Len(merged)].blocks = @ \o blocks]
    ELSE Append(merged, [role |-> role, blocks |-> blocks])

\* collect_text_strings and content_blocks: no block for an empty text.
Texts(s) == IF s = <<>> THEN <<>> ELSE <<TextPart(s)>>

\* The arguments a client sends back; what does not parse is {}.
Parsed(arguments) == IF arguments.kind = "broken" THEN Empty ELSE arguments

-----------------------------------------------------------------------------
(* Chat Completions.  A message is [role, s, calls, id].                     *)

\* openai_to_anthropic, one message
ChatMessage(acc, m) ==
    LET calls == [i \in DOMAIN m.calls |->
                     UsePart(m.calls[i].id, m.calls[i].name, Parsed(m.calls[i].arguments))]
    IN  CASE m.role \in {"system", "developer"} -> [acc EXCEPT !.system = @ \o Texts(m.s)]
          [] m.role = "user" ->
               [acc EXCEPT !.messages = PushMerged(@, "user", Texts(m.s))]
          [] m.role = "assistant" ->
               [acc EXCEPT !.messages = PushMerged(@, "assistant", Texts(m.s) \o calls)]
          [] m.role = "tool" ->
               [acc EXCEPT !.messages = PushMerged(@, "user", <<ResultPart(m.id, m.s)>>)]
          [] OTHER -> acc

ChatToAnthropic(messages) ==
    FoldLeft(ChatMessage, [system |-> <<>>, messages |-> <<>>], messages)

\* map_finish_reason
FinishReason(stop, hasCalls) ==
    CASE stop = "tool_use" -> "tool_calls"
      [] stop \in {"max_tokens", "model_context_window_exceeded"} -> "length"
      [] stop \notin {"tool_use", "max_tokens", "model_context_window_exceeded"} ->
           IF hasCalls THEN "tool_calls" ELSE "stop"

\* parse_anthropic_message: the texts joined, the calls, the searches.
ParseAnswer(content, stop) ==
    LET uses == OfType(content, "tool_use")
        all(type) == FlattenSeq([i \in DOMAIN OfType(content, type) |->
                                    OfType(content, type)[i].s])
    IN  [text     |-> all("text"),
         thinking |-> all("thinking"),
         searches |-> [i \in DOMAIN OfType(content, "server_tool_use") |->
                          OfType(content, "server_tool_use")[i].id],
         calls    |-> [i \in DOMAIN uses |->
                         [id |-> uses[i].id, name |-> uses[i].name,
                          arguments |-> uses[i].input]],
         finish   |-> FinishReason(stop, uses # <<>>)]

\* build_completion_json
Completion(p) == [s |-> p.text, calls |-> p.calls, finish |-> p.finish]

\* build_stream_sse: the role, the text, a chunk for every call, the end.
Chunk(s, calls, finish) == [s |-> s, calls |-> calls, finish |-> finish]

\* Mutant: every call is sent under the same index.
CompletionChunks_OneIndex(p) ==
    <<Chunk(<<>>, <<>>, "")>>
    \o (IF p.text = <<>> THEN <<>> ELSE <<Chunk(p.text, <<>>, "")>>)
    \o [i \in DOMAIN p.calls |-> Chunk(<<>>, [k \in {1} |-> p.calls[i]], "")]
    \o <<Chunk(<<>>, <<>>, p.finish)>>

CompletionChunks(p) ==
    <<Chunk(<<>>, <<>>, "")>>
    \o (IF p.text = <<>> THEN <<>> ELSE <<Chunk(p.text, <<>>, "")>>)
    \o [i \in DOMAIN p.calls |-> Chunk(<<>>, [k \in {i} |-> p.calls[i]], "")]
    \o <<Chunk(<<>>, <<>>, p.finish)>>

-----------------------------------------------------------------------------
(* Responses: the tools.  A declaration is [type, name, tools].              *)

\* flat_tool_name
FlatName(namespace, name) ==
    IF namespace = "" THEN name ELSE Joined[<<namespace, name>>]

\* A function or a custom tool, as the model sees it and as it was declared.
ToolOf(entry, namespace) ==
    IF entry.type \in {"function", "custom"} /\ entry.name # ""
    THEN <<[flat |-> FlatName(namespace, entry.name), kind |-> entry.type,
            name |-> entry.name, namespace |-> namespace]>>
    ELSE <<>>

\* convert_responses_tools: a namespace inside a namespace is skipped, and so
\* is a web_search, which the gateway declares itself.
DeclaredTools(entries) ==
    FlattenSeq([i \in DOMAIN entries |->
        IF entries[i].type = "namespace" /\ entries[i].name # ""
        THEN FlattenSeq([j \in DOMAIN entries[i].tools |->
                            ToolOf(entries[i].tools[j], entries[i].name)])
        ELSE ToolOf(entries[i], "")])

\* tool_kinds: the last tool declared under a flat name.
ToolKinds(declared) ==
    [flat \in {declared[i].flat : i \in DOMAIN declared} |->
        declared[Max({i \in DOMAIN declared : declared[i].flat = flat})]]

\* The names of the tools of the Anthropic request.
ToolNames(declared) ==
    LET names == [i \in DOMAIN declared |-> declared[i].flat]
    IN  IF names = <<>> THEN <<"noop", "web_search">>
        ELSE IF Contains(names, "web_search") THEN names
        ELSE Append(names, "web_search")

-----------------------------------------------------------------------------
(* Responses: the input items.                                               *)

\* custom_input_text
CustomText(input) == IF input.kind \in {"input", "single"} THEN input.s ELSE AsJson

\* translate_input_item
InputItem(acc, item) ==
    LET call(input) == UsePart(item.id, FlatName(item.namespace, item.name), input)
    IN  CASE item.type = "function_call" ->
               [acc EXCEPT !.messages =
                    PushMerged(@, "assistant", <<call(Parsed(item.arguments))>>)]
          [] item.type = "custom_tool_call" ->
               [acc EXCEPT !.messages = PushMerged(@, "assistant", <<call(Raw(item.s))>>)]
          [] item.type = "output" ->
               [acc EXCEPT !.messages =
                    PushMerged(@, "user", <<ResultPart(item.id, item.s)>>)]
          [] item.type = "message" /\ item.role \in {"user", "assistant"} ->
               [acc EXCEPT !.messages = PushMerged(@, item.role, Texts(item.s))]
          [] item.type = "message" /\ item.role \in {"system", "developer"} ->
               [acc EXCEPT !.system = @ \o Texts(item.s)]
          [] OTHER -> acc     \* reasoning, web_search_call, compaction

\* responses_to_anthropic, without the tools of additional_tools items
ItemsToAnthropic(items) ==
    FoldLeft(InputItem, [system |-> <<>>, messages |-> <<>>], items)

\* The declarations of a request: its tools, then those of its items.
Declarations(tools, items) ==
    tools \o FlattenSeq([i \in DOMAIN items |->
                            IF items[i].type = "additional_tools"
                            THEN items[i].tools ELSE <<>>])

-----------------------------------------------------------------------------
(* Responses: the output items.                                              *)

Message(role, s) == [type |-> "message", role |-> role, s |-> s]

\* Mutant: the name is sent back without its namespace.
CallItem_NoNamespace(call, kinds) ==
    [type |-> "function_call", id |-> call.id, arguments |-> call.arguments,
     name |-> IF call.name \in DOMAIN kinds THEN kinds[call.name].name ELSE call.name,
     namespace |-> ""]

\* A call under the name it was declared with; one of a custom tool is a raw
\* string, one nobody declared a function call.
CallItem(call, kinds) ==
    LET known == call.name \in DOMAIN kinds
        name  == IF known THEN kinds[call.name].name ELSE call.name
        space == IF known THEN kinds[call.name].namespace ELSE ""
    IN  IF known /\ kinds[call.name].kind = "custom"
        THEN [type |-> "custom_tool_call", id |-> call.id, s |-> CustomText(call.arguments),
              name |-> name, namespace |-> space]
        ELSE [type |-> "function_call", id |-> call.id, arguments |-> call.arguments,
              name |-> name, namespace |-> space]

\* build_view: the reasoning, the searches, the text, then the calls.
View(p, kinds) ==
    (IF p.thinking = <<>> THEN <<>> ELSE <<[type |-> "reasoning", s |-> p.thinking]>>)
    \o [i \in DOMAIN p.searches |-> [type |-> "web_search_call", id |-> p.searches[i]]]
    \o (IF p.text = <<>> THEN <<>>
        ELSE <<Message("assistant", p.text)>>)
    \o [i \in DOMAIN p.calls |-> CallItem(p.calls[i], kinds)]

Status(p) == IF p.finish = "length" THEN "incomplete" ELSE "completed"

\* build_responses_sse: what a kind of item sends between added and done.
Deltas(type) ==
    CASE type = "message" -> <<"part.added", "text.delta", "text.done", "part.done">>
      [] type = "function_call" -> <<"arguments.delta", "arguments.done">>
      [] type = "custom_tool_call" -> <<"input.delta", "input.done">>
      [] type = "reasoning" -> <<"summary.delta", "summary.done">>
      [] type = "web_search_call" -> <<>>

ItemEvents(items, i) ==
    LET event(e) == [event |-> e, index |-> i, item |-> items[i]]
    IN  <<event("added")>>
        \o [d \in DOMAIN Deltas(items[i].type) |-> event(Deltas(items[i].type)[d])]
        \o <<event("done")>>

ResponseEvents(p, kinds) ==
    LET items == View(p, kinds)
        bare(e) == [event |-> e, index |-> 0, item |-> <<>>]
    IN  <<bare("created"), bare("in_progress")>>
        \o FlattenSeq([i \in DOMAIN items |-> ItemEvents(items, i)])
        \o <<bare(Status(p))>>
=============================================================================
