---------------------------- MODULE ModelOptions ----------------------------
(* Models and how much they think: the name a client uses, the model id Kiro *)
(* is asked for, and the two ways of asking it to think                      *)
(* (src/src/anthropic/converter.rs, handlers.rs).  A newer model takes the   *)
(* effort as a field of the request, an older one as a prefix of the system  *)
(* prompt; the field is an error for an older model, and the prefix leaks    *)
(* into the answers of a newer one.                                          *)
(*                                                                           *)
(* A name is [family, version, thinking], the parts map_model looks for; a   *)
(* request's head is [model, thinking, budget, effort], where thinking is    *)
(* "none" when the request has no such member and effort is "" likewise.     *)
EXTENDS Integers, FiniteSets

CONSTANT MaxBudgetTokens     \* MAX_BUDGET_TOKENS, the cap on a request's budget

\* PASSTHROUGH_MODELS, which Kiro knows under the same name.
PassthroughModels ==
    {"deepseek-3.2", "minimax-m2.5", "minimax-m2.1", "glm-5", "qwen3-coder-next",
     "gpt-5.6-sol", "gpt-5.6-terra", "gpt-5.6-luna"}

NoModel == [family |-> "none", version |-> ""]

\* map_model
MapModel(m) ==
    CASE m.family = "fable" -> [family |-> "fable", version |-> "5"]
      [] m.family = "haiku" -> [family |-> "haiku", version |-> "4.5"]
      [] m.family = "sonnet" /\ m.version \in {"5", "4.8", "4.6", "4.5"} ->
           [family |-> "sonnet", version |-> m.version]
      [] m.family = "opus" /\ m.version \in {"5", "4.8", "4.7", "4.6", "4.5"} ->
           [family |-> "opus", version |-> m.version]
      [] m.family \in PassthroughModels /\ ~m.thinking ->
           [family |-> m.family, version |-> ""]
      [] OTHER -> NoModel

Claude(families, versions) ==
    {[family |-> f, version |-> v] : f \in families, v \in versions}

\* model_supports_native_reasoning
SupportsReasoning(id) ==
    id \in Claude({"opus"}, {"5", "4.8", "4.7", "4.6"})
           \union Claude({"sonnet"}, {"5", "4.6"}) \union Claude({"fable"}, {"5"})

\* model_supports_xhigh_effort: all but the known older ones.
SupportsXHigh(id) ==
    id \notin Claude({"opus", "sonnet"}, {"4.6", "4.5"}) \union Claude({"haiku"}, {"4.5"})

Tiers == {"low", "medium", "high", "xhigh", "max"}

\* normalize_effort_for_model of an effort that is not empty
NormalizeEffort(id, effort) ==
    IF effort \notin Tiers \/ (effort = "xhigh" /\ ~SupportsXHigh(id))
    THEN "high" ELSE effort

\* effort_from_budget_tokens
EffortOfBudget(tokens) ==
    CASE tokens <= 4000 -> "low"
      [] tokens > 4000 /\ tokens <= 16000 -> "medium"
      [] tokens > 16000 /\ tokens <= 64000 -> "high"
      [] OTHER -> "xhigh"

Thinks(head) == head.thinking \in {"enabled", "adaptive"}

\* override_thinking_from_model_name, on a request as it was parsed (the
\* budget is capped there).
Override(head) ==
    LET capped == [head EXCEPT !.budget = IF @ > MaxBudgetTokens
                                          THEN MaxBudgetTokens ELSE @]
        opus46 == head.model.family = "opus" /\ head.model.version = "4.6"
    IN  IF ~head.model.thinking THEN capped
        ELSE IF opus46
        THEN [capped EXCEPT !.thinking = "adaptive", !.budget = 20000, !.effort = "high"]
        ELSE [capped EXCEPT !.thinking = "enabled", !.budget = 20000]

\* native_reasoning_requested
ReasoningRequested(head, id) ==
    IF id = [family |-> "opus", version |-> "4.6"]
    THEN head.thinking = "adaptive"
    ELSE Thinks(head) \/ head.effort # ""

\* select_native_reasoning_effort
SelectEffort(head, id) ==
    NormalizeEffort(id, IF head.effort # "" THEN head.effort
                        ELSE IF Thinks(head) THEN EffortOfBudget(head.budget)
                        ELSE "high")

\* build_additional_model_request_fields: the effort, "" for no field.
ReasoningField(head) ==
    LET id == MapModel(head.model)
    IN  IF head.thinking = "disabled" \/ ~SupportsReasoning(id)
           \/ ~ReasoningRequested(head, id)
        THEN "" ELSE SelectEffort(head, id)

\* Mutant: the prefix is written for models that take the field, too.
ThinkingPrefix_Always(head) == IF Thinks(head) THEN head.thinking ELSE ""

\* generate_thinking_prefix: the kind of the prefix, "" for none, and the
\* effort an adaptive one names.
ThinkingPrefix(head) ==
    IF SupportsReasoning(MapModel(head.model)) \/ ~Thinks(head)
    THEN "" ELSE head.thinking

PrefixEffort(head) ==
    IF head.effort = "" THEN "high" ELSE NormalizeEffort(MapModel(head.model), head.effort)

-----------------------------------------------------------------------------
(* available_models: what /v1/models offers.                                 *)

Named(family, versions) ==
    {[family |-> family, version |-> v, thinking |-> t] : v \in versions, t \in BOOLEAN}

AvailableClaude ==
    Named("opus", {"5", "4.8", "4.7", "4.6", "4.5"})
    \union Named("sonnet", {"5", "4.8", "4.6", "4.5"})
    \union Named("fable", {"5"}) \union Named("haiku", {"4.5"})

AvailableOthers ==
    {[family |-> f, version |-> "", thinking |-> FALSE] : f \in PassthroughModels}

AvailableModels == AvailableClaude \union AvailableOthers
=============================================================================
