--------------------------- MODULE WebSearchLoop ---------------------------
(* A request that declares web_search among other tools                      *)
(* (src/src/anthropic/websearch_loop.rs): the gateway asks the upstream, does*)
(* the searches it asks for itself, and asks again with the results, until   *)
(* an answer has something for the client or the rounds are used up.         *)
(*                                                                           *)
(* The upstream's answer of a round is [text, pieces, stop, broken]: pieces  *)
(* of tool calls [k, name, input, part] in the order they come, calls that   *)
(* leaked into the text as <invoke>, the stop reason an event forces, and    *)
(* whether the stream broke off.  A call's pieces are its "whole" input, its *)
(* "first" and "second" half, or none of it.                                 *)
EXTENDS Adapters

CONSTANTS
    MaxRounds,       \* MAX_WEB_SEARCH_ROUNDS
    Answers          \* what the upstream may answer in a round

ASSUME RoundsAssumption == MaxRounds \in Nat

VARIABLES
    payload,         \* payload.messages, which grow with every round
    known,           \* known_tool_names: the tools of the request
    round,           \* round_idx
    outcome,         \* RoundOutcome: [text, uses, stop]
    searched,        \* results of this round's searches, in order
    presentation,    \* blocks of the searches of earlier rounds
    stage,           \* "idle", "round", "search", "answered"
    reply,           \* the answer: [ok, content, stop]
    records,         \* what hook.record was told: "success" or "error"
    turns,           \* history: requests so far
    found            \* history: searches that were answered

NoOutcome == [text |-> <<>>, uses |-> <<>>, stop |-> ""]
NoReply   == [ok |-> FALSE, content |-> <<>>, stop |-> ""]

\* The text as it came, leaked calls included.
Joint(text) == FlattenSeq([i \in DOMAIN text |-> text[i].s])

Leak(name, input) == [type |-> "invoke", name |-> name, input |-> input, s |-> <<"invoke">>]

\* Ids of this round's calls are new.
IdOf(k) == 100 * turns + 10 * round + k

-----------------------------------------------------------------------------
(* One round (decode_round).                                                 *)

\* The input of a call: its pieces together, {} when they are no JSON.
Assembled(pieces) ==
    LET parts == SelectSeq([i \in DOMAIN pieces |-> pieces[i].part], LAMBDA p : p # "")
    IN  IF parts \in {<<"whole">>, <<"first", "second">>} THEN pieces[1].input ELSE Empty

\* The calls in the order in which their ids were first seen.
ToolUses(pieces) ==
    LET first  == {i \in DOMAIN pieces : \A j \in 1..(i - 1) : pieces[j].k # pieces[i].k}
        order  == Those([i \in DOMAIN pieces |-> i], first)
        own(k) == Those(pieces, {p \in ToSet(pieces) : p.k = k})
    IN  [n \in DOMAIN order |->
            UsePart(IdOf(pieces[order[n]].k), pieces[order[n]].name,
                    Assembled(own(pieces[order[n]].k)))]

IsSearch(use) == use.name = "web_search"

\* should_search_round
SearchesOnly ==
    /\ outcome.uses # <<>> /\ \A i \in DOMAIN outcome.uses : IsSearch(outcome.uses[i])
    /\ round < MaxRounds

Searches == Those(outcome.uses, {u \in ToSet(outcome.uses) : IsSearch(u)})

Answered(ok, content, stop) ==
    /\ stage' = "answered"
    /\ reply' = [ok |-> ok, content |-> content, stop |-> stop]
    /\ records' = Append(records, IF ok THEN "success" ELSE "error")

\* The conversion or the call of the upstream fails.
RoundFails ==
    /\ stage = "round"
    /\ Answered(FALSE, <<>>, "")
    /\ UNCHANGED <<payload, known, round, outcome, searched, presentation, turns, found>>

\* run_round; a stream that broke off is an error, whatever was decoded.
RunRound ==
    /\ stage = "round"
    /\ \E a \in Answers :
        /\ IF a.broken
           THEN Answered(FALSE, <<>>, "") /\ UNCHANGED <<outcome, searched>>
           ELSE /\ outcome' = [text |-> a.text, uses |-> ToolUses(a.pieces), stop |-> a.stop]
                /\ searched' = <<>> /\ stage' = "search"
                /\ UNCHANGED <<reply, records>>
    /\ UNCHANGED <<payload, known, round, presentation, turns, found>>

\* call_mcp_api for the next search of the round.
Search ==
    /\ stage = "search" /\ Len(searched) < Len(Searches)
    /\ \E result \in {"found", "none"} : searched' = Append(searched, result)
    /\ found' = found + 1
    /\ UNCHANGED <<payload, known, round, outcome, presentation, stage, reply, records, turns>>

SearchFails ==
    /\ stage = "search" /\ Len(searched) < Len(Searches)
    /\ Answered(FALSE, <<>>, "")
    /\ UNCHANGED <<payload, known, round, outcome, searched, presentation, turns, found>>

\* A search as the client is shown it.
Shown(i) ==
    <<[type |-> "server_tool_use", id |-> Searches[i].id, query |-> Searches[i].input],
      [type |-> "web_search_tool_result", s |-> <<searched[i]>>]>>

AllShown == FlattenSeq([i \in DOMAIN Searches |-> Shown(i)])

\* Mutant: only searches that found something are given a result.
AppendRound_FoundOnly ==
    /\ stage = "search" /\ Len(searched) = Len(Searches) /\ SearchesOnly
    /\ payload' = payload
         \o <<[role |-> "assistant", blocks |-> outcome.uses],
              [role |-> "user", blocks |->
                 LET hits == SelectSeq([i \in DOMAIN Searches |-> i],
                                       LAMBDA i : searched[i] = "found")
                 IN  [i \in DOMAIN hits |-> ResultPart(Searches[hits[i]].id, <<"found">>)]]>>
    /\ presentation' = presentation \o AllShown
    /\ round' = round + 1 /\ stage' = "round"
    /\ UNCHANGED <<known, outcome, searched, reply, records, turns, found>>

\* append_search_round: the calls and their results go back to the upstream.
AppendRound ==
    /\ stage = "search" /\ Len(searched) = Len(Searches) /\ SearchesOnly
    /\ payload' = payload
         \o <<[role |-> "assistant",
               blocks |-> Texts(Joint(outcome.text)) \o outcome.uses],
              [role |-> "user",
               blocks |-> [i \in DOMAIN Searches |->
                              ResultPart(Searches[i].id, <<searched[i]>>)]]>>
    /\ presentation' = presentation \o AllShown
    /\ round' = round + 1 /\ stage' = "round"
    /\ UNCHANGED <<known, outcome, searched, reply, records, turns, found>>

-----------------------------------------------------------------------------
(* The answer (build_flush_content, resolve_flush_stop_reason).              *)

\* A call that leaked into the text and came as a call, too.
SameCall(leak) ==
    \E i \in DOMAIN outcome.uses : /\ ~IsSearch(outcome.uses[i])
                                   /\ outcome.uses[i].name = leak.name
                                   /\ outcome.uses[i].input = leak.input

\* extract_invoke_content_blocks with the guards of the loop: a leaked call of
\* a declared tool other than web_search becomes a call, any other stays text.
Reclaimed ==
    FlattenSeq([i \in DOMAIN outcome.text |->
        LET b == outcome.text[i]
        IN  IF b.type # "invoke" THEN <<b>>
            ELSE IF b.name = "web_search" \/ b.name \notin ToSet(known) THEN <<TextPart(b.s)>>
            ELSE IF SameCall(b) THEN <<>>
            ELSE <<UsePart(IdOf(5 + i), b.name, b.input)>>])

\* Every search of the round is shown, every other call handed on.
Flushed ==
    presentation \o Reclaimed
    \o FlattenSeq([i \in DOMAIN outcome.uses |->
          IF IsSearch(outcome.uses[i])
          THEN Shown(Cardinality({j \in 1..i : IsSearch(outcome.uses[j])}))
          ELSE <<outcome.uses[i]>>])

StopReason(content) ==
    IF outcome.stop # "" THEN outcome.stop
    ELSE IF \/ \E i \in DOMAIN content : content[i].type = "tool_use"
            \/ \E i \in DOMAIN outcome.uses : ~IsSearch(outcome.uses[i])
    THEN "tool_use" ELSE "end_turn"

Flush ==
    /\ stage = "search" /\ Len(searched) = Len(Searches) /\ ~SearchesOnly
    /\ Answered(TRUE, Flushed, StopReason(Flushed))
    /\ UNCHANGED <<payload, known, round, outcome, searched, presentation, turns, found>>

LoopNext == RoundFails \/ RunRound \/ Search \/ SearchFails \/ AppendRound \/ Flush

\* A new request enters the loop (run_web_search_loop).
Enter(messages, names) ==
    /\ payload' = messages /\ known' = names
    /\ round' = 0 /\ outcome' = NoOutcome /\ searched' = <<>> /\ presentation' = <<>>
    /\ stage' = "round" /\ reply' = NoReply /\ records' = <<>> /\ found' = 0 /\ turns' = turns + 1

LoopInit ==
    /\ payload = <<>> /\ known = <<>> /\ round = 0 /\ outcome = NoOutcome
    /\ searched = <<>> /\ presentation = <<>> /\ stage = "idle" /\ reply = NoReply
    /\ records = <<>> /\ turns = 0 /\ found = 0
=============================================================================
