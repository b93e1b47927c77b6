------------------------------ MODULE MCTraffic ------------------------------
(* What a request passes on its way and an answer on its way back, apart from *)
(* scheduling and the stream's events: a growing conversation that is         *)
(* converted (Conversation), the cache of prompts (PromptCache), a session of *)
(* a Responses client behind the search loop (Codex), and a stream of frames  *)
(* in the decoder (EventDecoder).  They share no state: a behaviour is one of *)
(* the four, while the others stand still.                                    *)
EXTENDS Conversation, PromptCache, Codex, EventDecoder

VARIABLE side        \* "conversation", "cache", "session" or "decoder"

-----------------------------------------------------------------------------
(* Conversations of up to five messages under four kinds of request: Claude  *)
(* Code's on a model with native thinking, with built-in tools, a hidden one *)
(* and two that differ in case; Claude Code's on a model without, with a     *)
(* filtered prompt and a tool that is no longer declared; and two without a  *)
(* mapping, one with a name that is too long and a tool of the client's own  *)
(* that has the name of one of Kiro's, one for a model that is unknown.      *)

MCLowerCase == [Lookup |-> "lookup"]
MCShortName == [LongName |-> "Lon_1a2b"]
MCWeight == [message |-> 1, text |-> 1, thinking |-> 1, image |-> 3,
             tool_use |-> 1, tool_result |-> 2, tool |-> 1]

HeadOf(family, version, variant, thinking) ==
    [model |-> [family |-> family, version |-> version, thinking |-> variant],
     thinking |-> thinking, budget |-> 100000, effort |-> ""]

AllFilters(on) == [simplify |-> on, boundary |-> on, env |-> on]

RequestOf(mode, tools, past, head, hasPrompt, prompt, filters) ==
    [mode |-> mode, tools |-> tools, past |-> past, head |-> head,
     hasPrompt |-> hasPrompt, prompt |-> prompt, flags |-> AllFilters(filters)]

MCRequests ==
    {RequestOf("ClaudeCode", <<"Read", "fs_append", "Lookup", "lookup">>, {},
               HeadOf("opus", "5", TRUE, "none"), FALSE, <<>>, FALSE),
     RequestOf("ClaudeCode", <<"Read.pages">>, {"Old"},
               HeadOf("sonnet", "4.5", FALSE, "enabled"),
               TRUE, <<<<"identity", "marker">>>>, TRUE),
     RequestOf("Raw", <<"LongName", "list_directory">>, {}, HeadOf("sonnet", "4.5", FALSE, "adaptive"),
               TRUE, <<<<"text", "tags">>>>, FALSE),
     RequestOf("Raw", <<"Lookup">>, {},
               HeadOf("sonnet", "3.7", FALSE, "adaptive"), FALSE, <<>>, FALSE)}

-----------------------------------------------------------------------------
(* Two requests at a time over four prompts: a first turn, its next turn     *)
(* with an hour's time to live and a cache_control within a message, a       *)
(* conversation of another client, and one that must not be cached.          *)

Block(s, first, mark) == [s |-> s, first |-> first, mark |-> mark]

PromptOf(seed, base, long, blocks) ==
    [seed |-> seed, base |-> base, blocks |-> blocks, long |-> long]

MCPrompts ==
    {PromptOf("s", TRUE, FALSE, <<Block("a", TRUE, FALSE)>>),
     PromptOf("s", TRUE, TRUE, <<Block("a", TRUE, FALSE), Block("b", TRUE, TRUE),
                                 Block("c", FALSE, FALSE)>>),
     PromptOf("t", FALSE, FALSE, <<Block("a", TRUE, FALSE), Block("b", TRUE, FALSE)>>),
     PromptOf("none", TRUE, FALSE, <<Block("a", TRUE, FALSE)>>)}

-----------------------------------------------------------------------------
(* The answers of the model a session meets.                                 *)

Tool(type, name) == [type |-> type, name |-> name, tools |-> <<>>]

MCJoined == <<"fs", "read">> :> "fs__read"
MCDeclared == {<<>>, <<Tool("function", "exec"), Tool("custom", "patch")>>}
MCAdded ==
    {<<[type |-> "namespace", name |-> "fs",
        tools |-> <<Tool("function", "read"), Tool("namespace", "inner")>>]>>}

Object(s) == [kind |-> "object", s |-> s]
Single(s) == [kind |-> "single", s |-> s]

Piece(k, name, input, part) == [k |-> k, name |-> name, input |-> input, part |-> part]
AtOnce(k, name, input) == Piece(k, name, input, "whole")
Find(k) == AtOnce(k, "web_search", Object("q"))

Answer_(text, pieces, stop) ==
    [text |-> text, pieces |-> pieces, stop |-> stop, broken |-> FALSE]

MCAnswers ==
    {\* searches only, with a text; two of them
     Answer_(<<TextPart(<<"t">>)>>, <<Find(1)>>, ""),
     Answer_(<<>>, <<Find(1), Find(2)>>, ""),
     \* a search among calls of the client, one of them in halves around another
     Answer_(<<>>, <<AtOnce(1, "exec", Object("x")), Find(2)>>, ""),
     Answer_(<<>>, <<Piece(1, "fs__read", Object("f"), "first"), AtOnce(2, "exec", Object("x")),
                     Piece(1, "fs__read", Object("f"), "second")>>, ""),
     \* the custom tool: by its schema, not by it, and with another key
     Answer_(<<>>, <<AtOnce(1, "patch", Raw("p"))>>, ""),
     Answer_(<<>>, <<AtOnce(1, "patch", Single("p")), AtOnce(2, "patch", Object("p"))>>, ""),
     \* calls that leaked into the text
     Answer_(<<TextPart(<<"t">>), Leak("exec", Object("x"))>>, <<AtOnce(1, "exec", Object("x"))>>, ""),
     Answer_(<<Leak("web_search", Object("q")), Leak("fs__read", Object("f"))>>, <<>>, ""),
     \* a tool nobody declared, a call that was cut off, an answer without calls
     Answer_(<<>>, <<AtOnce(1, "ghost", Empty)>>, ""),
     Answer_(<<>>, <<Piece(1, "exec", Object("x"), "first")>>, "max_tokens"),
     Answer_(<<TextPart(<<"t">>)>>, <<>>, ""),
     [Answer_(<<TextPart(<<"t">>)>>, <<>>, "") EXCEPT !.broken = TRUE]}

-----------------------------------------------------------------------------
Conversing == side = "conversation" /\ ConvNext
              /\ UNCHANGED <<side, cacheVars, codexVars, decoderVars>>
Caching == side = "cache" /\ CacheNext
           /\ UNCHANGED <<side, convVars, codexVars, decoderVars>>
Session == side = "session" /\ CodexNext
           /\ UNCHANGED <<side, convVars, cacheVars, decoderVars>>
Decoding == side = "decoder" /\ DecoderNext
            /\ UNCHANGED <<side, convVars, cacheVars, codexVars>>

\* The parts that stand still do so in a state of their own that is not their
\* first one: what is checked of operators, for all inputs, is checked there.
IdleConversation ==
    /\ conv = <<[role |-> "user", blocks |-> <<Text(1)>>]>>
    /\ messages = <<>> /\ result = NoResult /\ pc = "client" /\ iters = 0
    /\ req = CHOOSE r \in Requests : TRUE
    /\ limit = 0

IdleCache ==
    /\ entries = <<>> /\ recorded = <<>> /\ file = [whole |-> TRUE, entries |-> <<>>]
    /\ dirty = FALSE /\ forgot = FALSE /\ failed = FALSE
    /\ task = [at |-> "sleep", snapshot |-> <<>>]
    /\ now = 0 /\ served = MaxCalls /\ restarts = 0
    /\ calls = [c \in Callers |-> Idle]

IdleDecoder ==
    /\ frames = <<"good">> /\ garbage = 1 /\ fed = Total /\ overflowed = FALSE
    /\ buffer = <<>> /\ state = "Ready" /\ errors = 0 /\ decoded = <<1>>
    /\ iterating = FALSE

TrafficInit ==
    /\ side \in {"conversation", "cache", "session", "decoder"}
    /\ IF side = "conversation" THEN ConvInit ELSE IdleConversation
    /\ IF side = "cache" THEN CacheInit ELSE IdleCache
    /\ CodexInit
    /\ side # "session" => declared = <<>>
    /\ IF side = "decoder" THEN DecoderInit ELSE IdleDecoder

TrafficNext == Conversing \/ Caching \/ Session \/ Decoding

Symmetry == Permutations(Callers)
=============================================================================
