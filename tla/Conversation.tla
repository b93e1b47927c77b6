---------------------------- MODULE Conversation ----------------------------
(* A client and the requests it makes of the gateway as its conversation     *)
(* grows.  Every request carries the whole conversation, is converted (the   *)
(* module Converter) and, when the Kiro request is too large, loses its      *)
(* oldest messages before it is converted again                              *)
(* (src/src/anthropic/payload_truncate.rs), one conversion per step here.    *)
EXTENDS Converter, FiniteSetsExt

CONSTANTS
    MinRecentTurns,  \* MIN_RECENT_TURNS
    MaxTrimIters,    \* MAX_TRIM_ITERS
    Limits,          \* values of KIRO_RS_MAX_PAYLOAD_BYTES, 0 for no limit
    Requests,        \* the rest of a request: mode, tools, past (the names of
                     \* tools no longer declared), head, hasPrompt, prompt and
                     \* flags (the client key's prompt filters)
    Weight,          \* bytes of a block, by kind; "message" is an empty message
    MaxMessages      \* bound: messages of the client's conversation

ASSUME ConversationAssumption ==
    /\ MinRecentTurns \in Nat \ {0} /\ MaxTrimIters \in Nat /\ MaxMessages \in Nat
    /\ \A r \in Requests : IsList(r.tools)

VARIABLES
    conv,       \* the client's conversation
    req,        \* what its requests say besides the messages
    limit,      \* PayloadLimitConfig.max_bytes
    messages,   \* payload.messages, while and after a request is converted
    result,     \* the last ConversionResult
    pc,         \* "client", "estimate", "correct", "sent" or "refused"
    iters       \* iterations of the correcting loop

convVars == <<conv, req, limit, messages, result, pc, iters>>

NoResult == [history |-> <<>>, current |-> <<>>, tools |-> <<>>,
             effort |-> "", nameMap |-> <<>>, known |-> {}]

-----------------------------------------------------------------------------
(* Sizes.                                                                    *)

SumSeq(s) == FoldLeft(LAMBDA a, b : a + b, 0, s)

BlockBytes(blocks) == SumSeq([i \in DOMAIN blocks |-> Weight[blocks[i].k]])

\* anthropic_msg_bytes
MessageBytes(m) == Weight["message"] + BlockBytes(m.blocks)

KiroBytes(m) ==
    Weight["message"] + BlockBytes(m.texts) + BlockBytes(m.results)
    + BlockBytes(m.uses) + Len(m.images) * Weight["image"]

\* converted_payload_bytes; the tools are a part of every request.
PayloadBytes(r) ==
    SumSeq([i \in DOMAIN r.history |-> KiroBytes(r.history[i])])
    + KiroBytes(r.current) + Len(r.tools) * Weight["tool"]

Placeholder == [role |-> "user", blocks |-> <<Note("truncated")>>]

IsPureToolResult(m) ==
    m.blocks # <<>> /\ \A i \in DOMAIN m.blocks : m.blocks[i].k = "tool_result"

\* drop_oldest_turns: where to cut, 0 for not at all.  Messages of results
\* only are dropped too, as far as the recent turns allow it.
CutOf(ms, count) ==
    LET maxDrop == Len(ms) - MinRecentTurns
        first   == IF count < maxDrop THEN count ELSE maxDrop
    IN  IF Len(ms) <= MinRecentTurns \/ count = 0 THEN 0
        ELSE CHOOSE cut \in first..maxDrop :
                /\ cut = maxDrop \/ ~IsPureToolResult(ms[cut + 1])
                /\ \A c \in first..(cut - 1) : IsPureToolResult(ms[c + 1])

Cut(ms, cut) == <<Placeholder>> \o SubSeq(ms, cut + 1, Len(ms))

\* How many of the oldest messages to drop: as many as it takes to make up
\* for the excess, counted in the client's bytes.
Estimate(ms, bytes) ==
    LET total     == Max({1, SumSeq([i \in DOMAIN ms |-> MessageBytes(ms[i])])})
        excess    == ((bytes - limit) * total) \div Max({1, bytes})
        trimmable == Max({0, Len(ms) - MinRecentTurns})
        enough    == {n \in 0..trimmable :
                        SumSeq([i \in 1..n |-> MessageBytes(ms[i])]) >= excess}
    IN  Max({1, IF enough = {} THEN trimmable ELSE Min(enough)})

\* How many messages an iteration of the correcting loop wants to drop: as
\* many of average size as are more than the excess.
Want(ms, bytes) ==
    LET avg    == Max({1, bytes \div Max({1, Len(ms)})})
        most   == Max({1, Len(ms) - MinRecentTurns})
        enough == {n \in 1..most : n * avg > bytes - limit}
    IN  IF enough = {} THEN most ELSE Min(enough)

-----------------------------------------------------------------------------
(* The gateway.                                                              *)

Convertible(ms) == ms # <<>> /\ ~Refused(req, ms)

\* convert_within_limit: the first conversion decides whether to cut at all.
Submit ==
    /\ pc = "client" /\ conv # <<>>
    /\ messages' = conv /\ iters' = 0
    /\ IF Convertible(conv)
       THEN /\ result' = Convert(req, conv)
            /\ pc' = IF limit = 0 \/ PayloadBytes(result') <= limit
                     THEN "sent" ELSE "estimate"
       ELSE /\ result' = NoResult /\ pc' = "refused"
    /\ UNCHANGED <<conv, req, limit>>

\* The single estimate, and the second conversion.
CutEstimate ==
    LET cut == CutOf(messages, Estimate(messages, PayloadBytes(result)))
    IN  /\ pc = "estimate"
        /\ pc' = "correct"
        /\ IF cut = 0 THEN UNCHANGED <<messages, result>>
           ELSE /\ messages' = Cut(messages, cut)
                /\ result' = Convert(req, messages')
        /\ UNCHANGED <<conv, req, limit, iters>>

\* The correcting loop stops at the limit, at the smallest window, after
\* MaxTrimIters iterations, and when the cut made the conversation no shorter
\* (the messages stay cut then, but are not converted again).
CutMore ==
    LET bytes == PayloadBytes(result)
        cut   == CutOf(messages, Want(messages, bytes))
        stop  == \/ bytes <= limit
                 \/ iters >= MaxTrimIters
                 \/ Len(messages) <= MinRecentTurns + 1
                 \/ cut = 0
    IN  /\ pc = "correct"
        /\ IF stop THEN pc' = "sent" /\ UNCHANGED <<messages, result, iters>>
           ELSE /\ messages' = Cut(messages, cut)
                /\ IF Len(messages') >= Len(messages)
                   THEN pc' = "sent" /\ UNCHANGED <<result, iters>>
                   ELSE /\ result' = Convert(req, messages')
                        /\ iters' = iters + 1 /\ UNCHANGED pc
        /\ UNCHANGED <<conv, req, limit>>

Gateway == Submit \/ CutEstimate \/ CutMore

-----------------------------------------------------------------------------
(* The client.  Pieces of text and tool_use ids are numbered by the message  *)
(* they are in, so that every one of them is new.                            *)

Now == Len(conv) + 1

LastMessage == Last(conv)

Said == Text(10 * Now)

\* A text that does not fit a field.
SaidAtLength == [j \in 1..(MaxField + 2) |-> Text(10 * Now + j)]

Continue(role, blocks) ==
    /\ pc \in {"client", "sent"} /\ Len(conv) < MaxMessages
    /\ conv' = Append(conv, [role |-> role, blocks |-> blocks])
    /\ pc' = "client" /\ messages' = <<>> /\ result' = NoResult /\ iters' = 0
    /\ UNCHANGED <<req, limit>>

\* The user says something, also before the assistant answered, also instead
\* of returning the results of its calls: a text, or pictures and a long one.
UserSpeaks ==
    \/ Continue("user", <<Said>>)
    \/ \E p \in Pictures, o \in OtherPictures :
         Continue("user", <<Image(p), Image(o)>> \o SaidAtLength)

\* The assistant answers with text, with a call of one tool, also of one the
\* client has since stopped declaring, or of every tool at once.
AssistantAnswers ==
    /\ pc = "sent" /\ LastMessage.role = "user"
    /\ \/ Continue("assistant", <<Thinking(10 * Now), Said>>)
       \/ \E n \in ToSet(req.tools) \union req.past :
            Continue("assistant", <<ToolUse(10 * Now, n)>>)
       \/ Continue("assistant",
                   <<Said>> \o [i \in DOMAIN req.tools |->
                                   ToolUse(10 * Now + i - 1, req.tools[i])])

\* The results of the calls of a message.
Results(message) ==
    LET uses == OfKind(message.blocks, "tool_use")
    IN  [i \in DOMAIN uses |-> ToolResult(uses[i].v, "")]

\* The client returns the results of the last message's calls, with an image
\* in one, or a long result of the first one only and a text after it, or
\* every one of them twice, with an image of an unknown format in one.
ClientReturns ==
    LET all == Results(LastMessage)
    IN  /\ conv # <<>> /\ LastMessage.role = "assistant" /\ all # <<>>
        /\ \E p \in Pictures, o \in OtherPictures :
             \E blocks \in {[all EXCEPT ![1].x = p],
                            <<[all[1] EXCEPT !.x = LongText], Said>>,
                            all \o [all EXCEPT ![1].x = o]} :
                Continue("user", blocks)

\* It returns a result in a message behind another of the user's: one by one,
\* late, or a second time.
ClientReturnsLate ==
    LET all == Results(conv[Len(conv) - 1])
    IN  /\ Len(conv) > 1 /\ LastMessage.role = "user"
        /\ conv[Len(conv) - 1].role = "assistant" /\ all # <<>>
        /\ Continue("user", <<Last(all)>>)

\* The first message is a summary, and the call of what follows went with the
\* messages the client has compacted.
ClientCompacted ==
    /\ Len(conv) = 1
    /\ \E blocks \in {<<ToolResult(10, "")>>, <<ToolResult(10, ""), Said>>} :
         Continue("user", blocks)

\* After a reconnection the client has the last answer twice (Issue #79).
ClientReplays ==
    /\ conv # <<>> /\ LastMessage.role = "assistant"
    /\ Len(conv) > 1 /\ conv[Len(conv) - 1].role = "user"
    /\ Continue("assistant", LastMessage.blocks)

Client ==
    \/ UserSpeaks \/ AssistantAnswers \/ ClientReturns
    \/ ClientReturnsLate \/ ClientCompacted \/ ClientReplays

ConvInit ==
    /\ conv = <<>> /\ messages = <<>> /\ result = NoResult
    /\ req \in Requests /\ limit \in Limits
    /\ pc = "client" /\ iters = 0

ConvNext == Gateway \/ Client

ConvSpec == ConvInit /\ [][ConvNext]_convVars

-----------------------------------------------------------------------------
(* Properties.                                                               *)

\* The Kiro request's messages, the current one at the end.
KiroMessages == Append(result.history, result.current)

AllBlocks(ms) == FlattenSeq([i \in DOMAIN ms |-> ms[i].blocks])

\* The client returns its results as it should: behind the message with their
\* calls, and each of them once.
InOrder(ms) ==
    \A i \in DOMAIN ms :
        LET returned == OfKind(ms[i].blocks, "tool_result")
        IN  /\ Len(returned) = Cardinality(Ids(returned))
            /\ returned # <<>> =>
                 /\ i > 1 /\ ms[i - 1].role = "assistant"
                 /\ Ids(returned) \subseteq Ids(OfKind(ms[i - 1].blocks, "tool_use"))

\* What the upstream wants of results: none twice in a message, every call
\* answered in the next message and every result the answer of a call in the
\* message before.
InPairs(ms) ==
    \A i \in DOMAIN ms :
        /\ Len(ms[i].results) = Cardinality(Ids(ms[i].results))
        /\ ms[i].uses # <<>> => i < Len(ms) /\ Ids(ms[i].uses) = Ids(ms[i + 1].results)
        /\ ms[i].results # <<>> => i > 1 /\ Ids(ms[i].results) = Ids(ms[i - 1].uses)

\* Whatever the conversation went through and however much of it was cut off,
\* user and assistant alternate from a user to the current message, no id is
\* called twice in a message, every tool that is named is declared, once, every
\* call has an answer somewhere, and the current message answers only calls
\* that have none yet, each once.  When the messages it was made of have their
\* results behind their calls, the request is one the upstream accepts.  A cut
\* leaves them there but for the results of the first message it keeps, whose
\* calls it took: payload_truncate.rs:4 promises more (TruncatedIsLegal).
RequestIsLegal ==
    pc = "sent" =>
        LET ms == KiroMessages IN
        /\ Len(ms) % 2 = 1
        /\ \A i \in DOMAIN ms :
             /\ ms[i].role = IF i % 2 = 1 THEN "user" ELSE "assistant"
             /\ Len(ms[i].uses) = Cardinality(Ids(ms[i].uses))
             /\ \A u \in ToSet(ms[i].uses) :
                  Cardinality({j \in DOMAIN result.tools :
                                 Lower(result.tools[j]) = Lower(u.x)}) = 1
        /\ UseIds(ms) \subseteq ResultIds(ms)
        /\ Ids(result.current.results) \subseteq UseIds(ms) \ ResultIds(result.history)
        /\ Len(result.current.results) = Cardinality(Ids(result.current.results))
        /\ InOrder(messages) => InPairs(ms)

\* "Truncate the Anthropic messages and then convert, so that the cleanup mends
\* the orphans the cut made" (payload_truncate.rs:4-9): a client that returns
\* its results as it should has a legal request also when it was cut.
TruncatedIsLegal == pc = "sent" /\ InOrder(conv) => InPairs(KiroMessages)

Whole == pc = "sent" /\ messages = conv

\* What cutting a field leaves of the texts of a user's message: all but a
\* middle, and that only when they are too long, counting what the converter
\* says of images that it omits.
OnlyTheMiddle(m, sent) ==
    LET p    == OfKind(m.blocks, "text")
        gone == {i \in DOMAIN p : p[i] \notin sent}
    IN  gone # {} =>
          /\ m.role = "user" /\ 0 < MaxField /\ MaxField < Len(m.blocks)
          /\ gone = Min(gone)..Max(gone) /\ 1 < Min(gone) /\ Max(gone) < Len(p)
          /\ Len(p) - Cardinality(gone) + Len(OfKind(m.blocks, "image")) >= MaxField - 1

\* Merging and pairing lose and reorder nothing.  The texts of the request are
\* those of the conversation up to its last user message, in order, but for the
\* middle of a text too long for a field; every image of a known format is
\* there, once in the history and always in the current message; and so is
\* every result the client returned of a call that is.
NothingIsLost ==
    Whole =>
        LET kept == UpToLastUser(conv)
            all  == AllBlocks(kept)
            said == Those(all, {b \in ToSet(all) : b.k \in {"text", "thinking"}})
            put  == FlattenSeq([i \in DOMAIN KiroMessages |-> KiroMessages[i].texts])
            sent == Those(put, {b \in ToSet(put) : b.x = ""})
            digests(ms) == {b.x : b \in ToSet(AllBlocks(ms))} \intersect Pictures
            pictures == FlattenSeq([i \in DOMAIN result.history |->
                                       result.history[i].images])
            returned == Ids(OfKind(all, "tool_result"))
        IN  /\ sent = Those(said, ToSet(sent))
            /\ {b \in ToSet(all) : b.k = "thinking"} \subseteq ToSet(sent)
            /\ \A m \in ToSet(kept) : OnlyTheMiddle(m, ToSet(sent))
            /\ ToSet(pictures) = digests(Front(kept))
            /\ Len(pictures) = Cardinality(ToSet(pictures))
            /\ ToSet(result.current.images) = digests(<<Last(kept)>>)
            /\ ResultIds(KiroMessages) \subseteq returned
            /\ returned \intersect Ids(OfKind(all, "tool_use")) \subseteq ResultIds(KiroMessages)

\* Arguments of a tool of the client's own.
SomeArguments ==
    UNION {[keys -> 1..2 \union {Null}] : keys \in SUBSET {"path", "depth", "file_path"}}

\* A call of a tool of the client's own comes back as it was, unless the tool
\* has the name of one of Kiro's: then only what Claude Code's tool is given is
\* left of it (converter.rs:1239 says that a tool of Raw mode and one that was
\* not mapped are passed through).
ComesBackAsItWas(t, call) ==
    t \in DOMAIN Inbound =>
        /\ DOMAIN call \subseteq {Inbound[t][i][1] : i \in DOMAIN Inbound[t]}
        /\ \A k \in DOMAIN call : call[k] # Null

\* A call the model makes of a tool reaches the client under the name of a tool
\* it declared or has called before.  Of a built-in tool the client's next
\* request replays it under the name and with arguments the model's schema of
\* the tool allows, and the replay means to the client what the first call
\* meant; of another tool it has the arguments the model gave it, just when
\* ComesBackAsItWas says so.
CallsComeBack ==
    pc = "sent" =>
        \A i \in DOMAIN result.tools :
            LET t      == result.tools[i]
                client == RestoreToolUse(t, <<>>, result.nameMap).name
                input(call) == RestoreToolUse(t, call, result.nameMap).input
            IN  /\ client \in ToSet(req.tools) \union Used(conv)
                /\ client \in ToSet(req.tools) => {client, t} \subseteq result.known
                /\ Lower(ToKiroName(client, req.mode)) = Lower(t)
                /\ BuiltIn(client, req.mode) =>
                     \A call \in ModelCalls(t, 1..3) :
                        LET replay == InputToKiro(client, input(call), req.mode)
                        IN  /\ FitsSchema(t, replay)
                            /\ InputFromKiro(t, replay) = input(call)
                /\ ~BuiltIn(client, req.mode) =>
                     \A call \in SomeArguments :
                        input(call) = call <=> ComesBackAsItWas(t, call)

\* Whether the system prompt's pair of messages shows a text to the model.
ShownIn(pair, note) == \E i \in DOMAIN pair : Contains(pair[i].texts, note)

\* What a request with this model, thinking member, budget and effort is
\* turned into asks the upstream for thought once: by the field if the model
\* takes it, or else by the prefix, which is there with no system prompt and
\* with one that has a text, and is not with one that has thinking tags of its
\* own or that is empty.
AskedOnce(m, t, b, e) ==
    LET head  == Override([model |-> m, thinking |-> t, budget |-> b, effort |-> e])
        id    == MapModel(m)
        field == ReasoningField(head)
        shown(system) == ShownIn(SystemPair(system, ThinkingPrefix(head)),
                                 Note(head.thinking))
    IN  /\ id # NoModel
        /\ field # "" => SupportsReasoning(id) /\ head.thinking # "disabled"
        /\ "xhigh" \in {field, PrefixEffort(head)} => SupportsXHigh(id)
        /\ m.thinking => Thinks(head)
        /\ Thinks(head) /\ SupportsReasoning(id)
             => \/ field # ""
                \/ ~m.thinking /\ head.thinking = "enabled"
                   /\ m.version = "4.6" /\ m.family = "opus"
        /\ \A system \in {"none", "empty", "tagged", "text"} :
             shown(system) <=> /\ Thinks(head) /\ ~SupportsReasoning(id)
                               /\ system \in {"none", "text"}

ThinkingWays == {"none", "disabled", "enabled", "adaptive"}

SomeBudgets == {4000, 20000, 100000}   \* low, high and xhigh by themselves

\* Every way of asking for thought (a model's name, the thinking member, an
\* effort, a budget) that a model offered by /v1/models can be combined with
\* asks the upstream for it at most once, never when thinking is disabled, and
\* with an effort the model knows; and once unless it is "enabled" asked of
\* Opus 4.6, which takes only adaptive thinking, or a model that takes the
\* prefix has a system prompt without any text (or without any left by the
\* filters): build_history then writes neither prompt nor prefix, and the
\* model is not asked at all.
ThinkingIsAskedOnce ==
    conv = <<>> =>
        \A m \in AvailableModels, t \in ThinkingWays,
           b \in SomeBudgets, e \in Tiers \union {"", "other"} :
            AskedOnce(m, t, b, e)

\* What a client key has removed from a system prompt is noise, not the
\* instructions (FilterKeeps).
FilterKeepsInstructions ==
    conv = <<>> =>
        \A n \in 0..4 :
          \A lines \in [1..n -> {"text", "heading", "env", "noise", "blank", "boundary"}],
             boundary \in BOOLEAN, env \in BOOLEAN :
            FilterKeeps(lines, [simplify |-> TRUE, boundary |-> boundary, env |-> env])

\* Truncation only takes messages from the start: what is sent is a suffix of
\* the conversation behind the placeholder, with the MinRecentTurns last
\* messages; the current message, unless a prefill follows it, is the one an
\* untruncated request would have, its results included when they are in
\* order; and a conversation that fits is sent whole.
RecentIsKept ==
    pc = "sent" =>
        \/ messages = conv
        \/ LET kept == Len(messages) - 1
           IN  /\ limit > 0 /\ PayloadBytes(Convert(req, conv)) > limit
               /\ messages = Cut(conv, Len(conv) - kept)
               /\ kept >= MinRecentTurns
               /\ LastMessage.role = "user" =>
                    LET whole == Convert(req, conv).current
                    IN  /\ result.current = [whole EXCEPT !.results = result.current.results]
                        /\ InOrder(conv) => result.current = whole

\* What the client says reaches the upstream, but for the oldest messages of a
\* conversation that is too large and the middle of a text that is.
SaidIsSent == NothingIsLost /\ RecentIsKept
=============================================================================
