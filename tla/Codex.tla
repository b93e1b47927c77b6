-------------------------------- MODULE Codex --------------------------------
(* A session of a client of the Responses protocol (Codex): it sends all its *)
(* items every time, the adapter (Adapters) makes an Anthropic request of    *)
(* them, which always goes through the search loop (WebSearchLoop), and the  *)
(* client gets output items, executes the calls and sends all of it again.   *)
EXTENDS WebSearchLoop

CONSTANTS
    Declared,        \* lists of tools the client may declare
    Added,           \* lists of tools an additional_tools item may add
    MaxTurns         \* bound: requests of the session

\* A text block of an answer is a text or a leaked call,
\* and an input is an object, never text that does not parse.
IsInput(input) == input.kind # "broken" /\ input = [kind |-> input.kind, s |-> input.s]

AreTools(tools) == IsList(tools) /\ \A i \in DOMAIN tools : IsList(tools[i].tools)

ASSUME CodexAssumption ==
    /\ \A a \in Answers :
         /\ IsList(a.text) /\ IsList(a.pieces)
         /\ \A i \in DOMAIN a.text : /\ a.text[i].type \in {"text", "invoke"}
                                     /\ IsList(a.text[i].s)
                                     /\ a.text[i].type = "invoke" => IsInput(a.text[i].input)
         /\ \A i \in DOMAIN a.pieces : IsInput(a.pieces[i].input)
    /\ \A tools \in Declared \cup Added : AreTools(tools)

VARIABLES
    items,           \* the client's items
    declared,        \* its declarations
    said             \* history: the calls it was answered with, in order

codexVars == <<items, declared, said, payload, known, round, outcome, searched,
               presentation, stage, reply, records, turns, found>>

Tools == DeclaredTools(Declarations(declared, items))
Kinds == ToolKinds(Tools)

Answer == ParseAnswer(reply.content, reply.stop)

CodexInit ==
    /\ LoopInit
    /\ \E tools \in Added :
         items = <<[type |-> "additional_tools", tools |-> tools],
                   Message("developer", <<"rules">>), Message("user", <<"go">>)>>
    /\ declared \in Declared /\ said = <<>>

\* post_responses up to post_messages
Request ==
    /\ stage = "idle" /\ turns < MaxTurns
    /\ Enter(ItemsToAnthropic(items).messages, ToolNames(Tools))
    /\ UNCHANGED <<items, declared, said>>

\* The client keeps the output items, and adds the results of its calls, of
\* all or of all but the last, which the user interrupted; after an error it
\* sends the same items again.
Receive ==
    /\ stage = "answered" /\ stage' = "idle"
    /\ IF ~reply.ok THEN UNCHANGED <<items, said>>
       ELSE LET uses == OfType(reply.content, "tool_use")
                output(i) == [type |-> "output", id |-> uses[i].id, s |-> <<"done">>]
            IN  /\ said' = said \o uses
                /\ \E n \in {Len(uses), Len(uses) - 1} \cap Nat :
                     items' = items \o View(Answer, Kinds) \o [i \in 1..n |-> output(i)]
                              \o (IF n = Len(uses) /\ n > 0 THEN <<>>
                                  ELSE <<Message("user", <<"more">>)>>)
    /\ UNCHANGED <<declared, payload, known, round, outcome, searched, presentation,
                   reply, records, turns, found>>

Loop == LoopNext /\ UNCHANGED <<items, declared, said>>

CodexNext == Request \/ Receive \/ Loop

CodexSpec == CodexInit /\ [][CodexNext]_codexVars

-----------------------------------------------------------------------------
(* Properties.                                                               *)

\* "web_search is ALWAYS executed internally and is NEVER flushed as a raw
\* tool_use" (websearch_loop.rs:610), and no search is lost: every one that
\* was answered is shown to the client with its result, of every round, and
\* the upstream is sent the results of just the calls it made.
SearchStaysInside ==
    /\ reply.ok =>
        /\ \A i \in DOMAIN reply.content :
             /\ reply.content[i].type = "tool_use" => reply.content[i].name # "web_search"
             /\ reply.content[i].type = "server_tool_use" =>
                  /\ i < Len(reply.content)
                  /\ reply.content[i + 1].type = "web_search_tool_result"
        /\ Len(OfType(reply.content, "server_tool_use")) = found
    /\ \A i \in DOMAIN payload :
         LET searches == {b.id : b \in {c \in ToSet(payload[i].blocks) :
                                          c.type = "tool_use" /\ IsSearch(c)}}
         IN  searches # {} =>
               /\ i < Len(payload) /\ payload[i].role = "assistant"
               /\ searches = {b.id : b \in ToSet(payload[i + 1].blocks)}

\* The answer and what the books say of it agree: a request is recorded once,
\* as a success only when it is answered; a call the client is to execute is
\* announced by the stop reason, unless the upstream forced another; every
\* call of the model is handed on once, also when it leaked into the text as
\* well; and the upstream is asked once more than there may be search rounds.
AnswerAgrees ==
    /\ round <= MaxRounds
    /\ stage \in {"round", "search"} => records = <<>>
    /\ stage = "answered" => /\ records = <<IF reply.ok THEN "success" ELSE "error">>
    /\ stage = "answered" /\ reply.ok =>
        LET uses == OfType(reply.content, "tool_use")
        IN  /\ outcome.stop = "" => (reply.stop = "tool_use" <=> uses # <<>>)
            /\ \A i \in DOMAIN outcome.uses : ~IsSearch(outcome.uses[i]) =>
                 Cardinality({j \in DOMAIN uses : /\ uses[j].name = outcome.uses[i].name
                                                  /\ uses[j].input = outcome.uses[i].input})
                   = Cardinality({j \in DOMAIN outcome.uses :
                                    /\ outcome.uses[j].name = outcome.uses[i].name
                                    /\ outcome.uses[j].input = outcome.uses[i].input})

\* What the loop does with an answer is what the client and the books are told.
LoopIsTrue == SearchStaysInside /\ AnswerAgrees

\* "保证与模型当初产出的 tool_use 逐字一致" (responses.rs:555): when the client
\* sends its items again, the upstream gets back the calls it made, in order,
\* under the names and with the inputs it gave them; only a call of a custom
\* tool that did not follow the schema comes back in the schema's form.
ReplayIsVerbatim ==
    stage = "round" /\ round = 0 =>
        LET back == OfType(FlattenSeq([i \in DOMAIN payload |-> payload[i].blocks]),
                           "tool_use")
        IN  /\ Len(back) = Len(said)
            /\ \A i \in DOMAIN back :
                 /\ back[i].id = said[i].id /\ back[i].name = said[i].name
                 /\ \/ back[i].input = said[i].input
                    \/ /\ said[i].name \in DOMAIN Kinds
                       /\ Kinds[said[i].name].kind = "custom"
                       /\ said[i].input.kind # "input"

\* One answer tells every protocol the same: the done items of the synthesized
\* stream are the items of the object, each between its own added and done; the
\* chunks of a chat completion add up to the completion; and a chat client that
\* sends it back gives the upstream the texts and calls of the answer.
AnswersTellTheSame ==
    stage = "answered" /\ reply.ok =>
        LET events == ResponseEvents(Answer, Kinds)
            done   == Those(events, {e \in ToSet(events) : e.event = "done"})
            chunks == CompletionChunks(Answer)
            back   == ChatToAnthropic(<<[role |-> "assistant", s |-> Completion(Answer).s,
                                         calls |-> Completion(Answer).calls, id |-> 0]>>)
        IN  /\ [i \in DOMAIN done |-> done[i].item] = View(Answer, Kinds)
            /\ \A i, j \in DOMAIN events : i < j /\ events[i].index > 0 =>
                 events[j].index = 0 \/ events[i].index <= events[j].index
            /\ FlattenSeq([i \in DOMAIN chunks |-> chunks[i].s]) = Completion(Answer).s
            /\ \A i \in DOMAIN Answer.calls : \E c \in ToSet(chunks) :
                 i \in DOMAIN c.calls /\ c.calls[i] = Answer.calls[i]
            /\ Last(chunks).finish = Completion(Answer).finish
            /\ OfType(FlattenSeq([i \in DOMAIN back.messages |-> back.messages[i].blocks]),
                      "tool_use") = OfType(reply.content, "tool_use")

=============================================================================
