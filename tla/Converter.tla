----------------------------- MODULE Converter -----------------------------
(* From an Anthropic request to a Kiro request                               *)
(* (src/src/anthropic/converter.rs).  The upstream wants a conversation in   *)
(* which user and assistant alternate, every tool_use is answered by exactly *)
(* one tool_result and every tool that is named is declared; a client sends  *)
(* what its user and its network made of the conversation: interrupted       *)
(* calls, messages said twice, answers replayed after a reconnection, an     *)
(* assistant message at the end.                                             *)
(*                                                                           *)
(* A message is [role, blocks], a block [k, v, x]: its kind, a number that   *)
(* stands for its text or its tool_use id, and a string that is the digest   *)
(* of an image (or of the image inside a result), the name of a tool, or     *)
(* LongText for a result with a text above the limit of a field.  A text is  *)
(* counted in pieces, a block for each one.                                  *)
EXTENDS ToolMapping, ModelOptions, PromptFilter, SequencesExt

CONSTANTS
    Pictures,        \* digests of images in a format get_image_format knows
    OtherPictures,   \* digests of images in another format
    MaxField         \* KIRO_RS_TEXT_MAX_FIELD_BYTES in pieces of text, 0 when
                     \* KIRO_RS_TEXT_TRUNCATE is off

LongText == "long"

ASSUME FieldAssumption ==
    /\ MaxField \in Nat
    /\ (Pictures \union OtherPictures) \intersect {"", LongText} = {}

Text(v)      == [k |-> "text", v |-> v, x |-> ""]
Thinking(v)  == [k |-> "thinking", v |-> v, x |-> ""]
Image(d)     == [k |-> "image", v |-> 0, x |-> d]
ToolUse(id, name)  == [k |-> "tool_use", v |-> id, x |-> name]
ToolResult(id, d)  == [k |-> "tool_result", v |-> id, x |-> d]

\* A text the converter writes itself.
Note(what) == [k |-> "text", v |-> 0, x |-> what]

OfKind(blocks, kind) == Those(blocks, {b \in ToSet(blocks) : b.k = kind})

\* A message of the Kiro request; images are digests.
KiroMessage(role, texts, images, results, uses) ==
    [role |-> role, texts |-> texts, images |-> images,
     results |-> results, uses |-> uses]

-----------------------------------------------------------------------------
(* The content of user messages.                                             *)

\* truncate_field: of a text that is too long the first 70 % and, behind a
\* mark, as much of its end as there is room for.
HeadPieces == (7 * MaxField) \div 10
TailPieces == MaxField - HeadPieces - 1

TruncateField(texts) ==
    IF MaxField = 0 \/ Len(texts) <= MaxField THEN texts
    ELSE SubSeq(texts, 1, HeadPieces) \o <<Note("cut")>>
         \o SubSeq(texts, Len(texts) - TailPieces + 1, Len(texts))

\* extract_kiro_image into acc: an image in another format is dropped, and one
\* whose digest was seen before only mentioned, when digests are looked at
\* (acc.dedup).
LiftImage(acc, digest) ==
    IF digest \in OtherPictures THEN [acc EXCEPT !.omitted = FALSE]
    ELSE IF acc.dedup /\ digest \in acc.seen
    THEN [acc EXCEPT !.omitted = TRUE]
    ELSE [acc EXCEPT !.omitted = FALSE, !.seen = @ \union {digest},
                     !.images = Append(@, digest)]

\* One block of process_message_content_dedup.  An image of a tool_result is
\* lifted to the message, and a long text of it cut like a message's
\* (extract_tool_result_content).
TakeBlock(acc, b) ==
    CASE b.k = "text" -> [acc EXCEPT !.texts = Append(@, b)]
      [] b.k = "image" ->
           LET lifted == LiftImage(acc, b.x)
           IN  IF lifted.omitted
               THEN [lifted EXCEPT !.texts = Append(@, Note("image omitted"))]
               ELSE lifted
      [] b.k = "tool_result" /\ b.x \in Pictures \union OtherPictures ->
           LET lifted == LiftImage(acc, b.x)
               text   == IF lifted.omitted THEN "image omitted" ELSE "image attached"
           IN  [lifted EXCEPT !.results = Append(@, [b EXCEPT !.x = text])]
      [] b.k = "tool_result" /\ b.x \notin Pictures \union OtherPictures ->
           LET text == IF b.x = LongText /\ MaxField > 0 THEN "cut" ELSE b.x
           IN  [acc EXCEPT !.results = Append(@, [b EXCEPT !.x = text])]
      [] OTHER -> acc

\* process_message_content (dedup = FALSE) and process_message_content_dedup
Content(blocks, dedup, seen) ==
    LET all == FoldLeft(TakeBlock,
                        [texts |-> <<>>, images |-> <<>>, results |-> <<>>,
                         seen |-> seen, dedup |-> dedup, omitted |-> FALSE],
                        blocks)
    IN  [all EXCEPT !.texts = TruncateField(@)]

\* The digests of the images that are lifted out of the messages.
Lifted(messages) ==
    UNION {{b.x : b \in {c \in ToSet(messages[i].blocks) :
                            c.k \in {"image", "tool_result"} /\ c.x \in Pictures}} :
               i \in DOMAIN messages}

\* merge_user_messages, each message's text cut by itself; seen are the
\* digests of the history before.
MergeUsers(messages, seen) ==
    LET part == [i \in DOMAIN messages |->
                    Content(messages[i].blocks, TRUE,
                            seen \union Lifted(SubSeq(messages, 1, i - 1)))]
    IN  KiroMessage("user", FlattenSeq([i \in DOMAIN part |-> part[i].texts]),
                    FlattenSeq([i \in DOMAIN part |-> part[i].images]),
                    FlattenSeq([i \in DOMAIN part |-> part[i].results]), <<>>)

(* The content of assistant messages.                                        *)

\* convert_assistant_message: the thinking goes before the text; a message of
\* tool calls only gets a blank text.
ConvertAssistant(message, mode) ==
    LET said == OfKind(message.blocks, "thinking") \o OfKind(message.blocks, "text")
        uses == [i \in DOMAIN OfKind(message.blocks, "tool_use") |->
                    LET u == OfKind(message.blocks, "tool_use")[i]
                    IN  [u EXCEPT !.x = ToKiroName(u.x, mode)]]
    IN  KiroMessage("assistant",
                    IF said = <<>> /\ uses # <<>> THEN <<Note("blank")>> ELSE said,
                    <<>>, <<>>, uses)

\* Mutant: uses that two merged messages share are kept twice (Issue #79).
FirstOfEachId_KeepsDoubles(uses) == uses

\* The first of the uses with each id (seen_tool_use_ids).
FirstOfEachId(uses) ==
    FoldLeft(LAMBDA acc, u : IF \E i \in DOMAIN acc : acc[i].v = u.v
                             THEN acc ELSE Append(acc, u),
             <<>>, uses)

\* merge_assistant_messages, on the converted messages
JoinAssistants(all, uses) ==
    LET said  == FlattenSeq([i \in DOMAIN all |-> all[i].texts])
        texts == Those(said, ToSet(said) \ {Note("blank")})
    IN  KiroMessage("assistant",
                    IF texts = <<>> /\ uses # <<>> THEN <<Note("blank")>> ELSE texts,
                    <<>>, <<>>, uses)

MergeAssistants(messages, mode) ==
    LET all == [i \in DOMAIN messages |-> ConvertAssistant(messages[i], mode)]
    IN  IF Len(messages) = 1 THEN ConvertAssistant(messages[1], mode)
        ELSE JoinAssistants(all, FirstOfEachId(FlattenSeq([i \in DOMAIN all |-> all[i].uses])))

-----------------------------------------------------------------------------
(* The history (build_history).                                              *)

\* Mutant: the digests seen are not handed to the next message.
FlushUsers_ForgetsSeen(acc) ==
    IF acc.users = <<>> THEN acc
    ELSE [acc EXCEPT !.history = Append(@, MergeUsers(acc.users, acc.seen)),
                     !.users = <<>>]

FlushUsers(acc) ==
    IF acc.users = <<>> THEN acc
    ELSE [acc EXCEPT !.history = Append(@, MergeUsers(acc.users, acc.seen)),
                     !.seen = @ \union Lifted(acc.users), !.users = <<>>]

FlushAssistants(acc) ==
    IF acc.assistants = <<>> THEN acc
    ELSE [acc EXCEPT !.history = Append(@, MergeAssistants(acc.assistants, acc.mode)),
                     !.assistants = <<>>]

HistoryStep(acc, message) ==
    IF message.role = "user"
    THEN [FlushAssistants(acc) EXCEPT !.users = Append(@, message)]
    ELSE [FlushUsers(acc) EXCEPT !.assistants = Append(@, message)]

\* What is left at the end of the history; a user message there is answered by
\* an OK of the converter's own.
CloseHistory(acc) ==
    IF acc.users = <<>> THEN acc.history
    ELSE Append(FlushUsers(acc).history,
                KiroMessage("assistant", <<Note("OK")>>, <<>>, <<>>, <<>>))

\* The messages before the last one.
RegularHistory(messages, mode) ==
    CloseHistory(FlushAssistants(
        FoldLeft(HistoryStep,
                 [history |-> <<>>, users |-> <<>>, assistants |-> <<>>,
                  seen |-> {}, mode |-> mode],
                 Front(messages))))

\* The client's system prompt as far as the history depends on it: "none",
\* "empty" (there, but without text once it is filtered), "tagged" or "text".
System(req) ==
    LET lines == FlattenSeq(FilterPrompt(req.prompt, req.flags))
    IN  IF ~req.hasPrompt THEN "none"
        ELSE IF lines = <<>> THEN "empty"
        ELSE IF Contains(lines, "tags") THEN "tagged"
        ELSE "text"

\* The system prompt and the thinking prefix as a pair of messages.
SystemPair(system, prefix) ==
    LET pair(texts) == <<KiroMessage("user", texts, <<>>, <<>>, <<>>),
                         KiroMessage("assistant", <<Note("I will follow")>>,
                                     <<>>, <<>>, <<>>)>>
    IN  CASE system = "none" /\ prefix # ""  -> pair(<<Note(prefix)>>)
          [] system = "text" /\ prefix # ""  -> pair(<<Note(prefix), Note("system")>>)
          [] system = "text" /\ prefix = ""  -> pair(<<Note("system")>>)
          [] system = "tagged"               -> pair(<<Note("system")>>)
          [] OTHER                           -> <<>>

-----------------------------------------------------------------------------
(* Pairing and tools.                                                        *)

Ids(blocks) == {blocks[i].v : i \in DOMAIN blocks}

UseIds(history)    == UNION {Ids(history[i].uses) : i \in DOMAIN history}
ResultIds(history) == UNION {Ids(history[i].results) : i \in DOMAIN history}

\* validate_tool_pairing: the current message's results that answer a use of
\* the history which nothing answered yet, and the uses left unanswered.
Pair(history, results) ==
    FoldLeft(LAMBDA acc, r : IF r.v \in acc.unpaired
                             THEN [kept |-> Append(acc.kept, r),
                                   unpaired |-> acc.unpaired \ {r.v}]
                             ELSE acc,
             [kept |-> <<>>, unpaired |-> UseIds(history) \ ResultIds(history)],
             results)

\* remove_orphaned_tool_uses
RemoveUses(history, orphans) ==
    [i \in DOMAIN history |->
        [history[i] EXCEPT !.uses = Those(@, {u \in ToSet(@) : u.v \notin orphans})]]

\* collect_history_tool_names, in the order they are met
HistoryToolNames(history) ==
    FoldLeft(LAMBDA acc, u : IF Contains(acc, u.x) THEN acc ELSE Append(acc, u.x),
             <<>>, FlattenSeq([i \in DOMAIN history |-> history[i].uses]))

\* The names in names whose lower case is not there before.
FirstOfEachName(names) ==
    FoldLeft(LAMBDA acc, n : IF \E i \in DOMAIN acc : Lower(acc[i]) = Lower(n)
                             THEN acc ELSE Append(acc, n),
             <<>>, names)

\* convert_tools: the declared tools under Kiro's names; fs_append is hidden
\* from Claude Code.
ConvertTools(declared, mode) ==
    LET hidden == IF mode = "ClaudeCode" THEN {"fs_append"} ELSE {}
        shown  == Those(declared, ToSet(declared) \ hidden)
    IN  FirstOfEachName([i \in DOMAIN shown |-> ToKiroName(shown[i], mode)])

\* create_placeholder_tool for the names of the history no tool declares.
WithPlaceholders(tools, history) ==
    LET there == {Lower(tools[i]) : i \in DOMAIN tools}
        names == HistoryToolNames(history)
    IN  tools \o Those(names, {n \in ToSet(names) : Lower(n) \notin there})

-----------------------------------------------------------------------------
(* The request (convert_request_with_mode).                                  *)

\* What is converted: the messages up to the last one of a user (an assistant
\* message at the end, a prefill, is dropped).
UpToLastUser(messages) ==
    LET last == SelectLastInSeq(messages, LAMBDA m : m.role = "user")
    IN  SubSeq(messages, 1, last)

\* A call of Claude Code's Read with pages has no equivalent (PagedRead is
\* such a call), and a history with one is refused.
PagedRead == "Read.pages"

Refused(req, messages) ==
    \/ MapModel(req.head.model) = NoModel
    \/ UpToLastUser(messages) = <<>>
    \/ /\ req.mode = "ClaudeCode"
       /\ \E i \in DOMAIN Front(UpToLastUser(messages)) :
            \E j \in DOMAIN messages[i].blocks :
                /\ messages[i].role = "assistant"
                /\ messages[i].blocks[j].x = PagedRead

\* The Kiro request, with the effort of the reasoning field; tool_name_map and
\* the names an <invoke> may use go with it.
Paired(req, used, current, history, pairing) ==
    [history |-> history,
     effort  |-> ReasoningField(Override(req.head)),
     current |-> KiroMessage("user", current.texts, current.images, pairing.kept, <<>>),
     tools   |-> WithPlaceholders(ConvertTools(req.tools, req.mode), history),
     nameMap |-> NameMap(ToSet(req.tools) \union used, req.mode),
     known   |-> ToSet(req.tools) \union DOMAIN NameMap(ToSet(req.tools), req.mode)]

\* The names of the tools the conversation calls.
Used(messages) ==
    UNION {{b.x : b \in {c \in ToSet(messages[i].blocks) : c.k = "tool_use"}} :
               i \in DOMAIN messages}

WithHistory(req, kept, current, history) ==
    LET pairing == Pair(history, current.results)
    IN  Paired(req, Used(Front(kept)), current, RemoveUses(history, pairing.unpaired), pairing)

ConvertKept(req, kept) ==
    WithHistory(req, kept, Content(Last(kept).blocks, FALSE, {}),
                SystemPair(System(req), ThinkingPrefix(Override(req.head)))
                \o RegularHistory(kept, req.mode))

Convert(req, messages) == ConvertKept(req, UpToLastUser(messages))
=============================================================================
