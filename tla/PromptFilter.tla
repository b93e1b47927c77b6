---------------------------- MODULE PromptFilter ----------------------------
(* What a client key may have removed from the system prompt                 *)
(* (src/src/anthropic/prompt_filter.rs).  The prompt is a sequence of        *)
(* blocks, a block a sequence of lines, a line its kind:                     *)
(*   "text", "blank", "heading" (any "# ..." but the next), "env" (a heading *)
(*   of a section that is only noise), "noise" (a line dropped wherever it   *)
(*   is), "boundary" (a --- SYSTEM PROMPT --- line), "identity" (a noise     *)
(*   line with two of Claude Code's markers), "marker" (a text line with one *)
(*   of them), "tags" (a text line with thinking tags of its own).           *)
EXTENDS Lists, Naturals

Markers == [identity |-> {"claude code", "official cli"}, marker |-> {"doing tasks"}]

\* is_claude_code_system of the joined blocks
IsClaudeCode(lines) ==
    Cardinality(UNION {Markers[l] : l \in ToSet(lines) \cap DOMAIN Markers}) >= 2

\* trim, as far as lines go
Trim(lines) ==
    LET solid == {i \in DOMAIN lines : lines[i] # "blank"}
    IN  IF solid = {} THEN <<>>
        ELSE SubSeq(lines, CHOOSE i \in solid : \A j \in solid : i <= j,
                           CHOOSE i \in solid : \A j \in solid : i >= j)

\* strip_boundary_markers
StripBoundary(lines) == Trim(Those(lines, ToSet(lines) \ {"boundary"}))

\* collapse_blank_lines
CollapseBlank(lines) ==
    FoldLeft(LAMBDA acc, l : IF l = "blank" /\ acc # <<>> /\ Last(acc) = "blank"
                             THEN acc ELSE Append(acc, l),
             <<>>, lines)

\* Mutant: a section of noise ends after the heading that follows it.
EnvLine_EatsHeading(acc, l) ==
    IF l = "env" THEN [acc EXCEPT !.skip = TRUE]
    ELSE IF l = "heading" /\ acc.skip THEN [acc EXCEPT !.skip = FALSE]
    ELSE IF acc.skip \/ l \in {"noise", "identity"} THEN acc
    ELSE [acc EXCEPT !.out = Append(@, l)]

\* One line of strip_env_noise: a section that is only noise ends at the next
\* heading, which is kept.
EnvLine(acc, l) ==
    IF l = "env" THEN [acc EXCEPT !.skip = TRUE]
    ELSE IF l = "heading" THEN [skip |-> FALSE, out |-> Append(acc.out, l)]
    ELSE IF acc.skip \/ l \in {"noise", "identity"} THEN acc
    ELSE [acc EXCEPT !.out = Append(@, l)]

StripEnvNoise(lines) ==
    Trim(CollapseBlank(FoldLeft(EnvLine, [skip |-> FALSE, out |-> <<>>], lines).out))

\* apply: the prompt of a Claude Code is replaced as a whole, any other is
\* filtered block by block, and blocks left without text are dropped.
FilterPrompt(blocks, flags) ==
    LET one(lines) ==
            LET stripped == IF flags.boundary THEN StripBoundary(lines) ELSE lines
            IN  IF flags.env THEN StripEnvNoise(stripped) ELSE stripped
        all == [i \in DOMAIN blocks |-> one(blocks[i])]
    IN  IF ~(flags.simplify \/ flags.boundary \/ flags.env) THEN blocks
        ELSE IF flags.simplify /\ IsClaudeCode(FlattenSeq(blocks))
        THEN <<<<"marker">>>>     \* CLAUDE_CODE_BACKEND_PROMPT
        ELSE Those(all, {b \in ToSet(all) : Trim(b) # <<>>})

-----------------------------------------------------------------------------
\* The line is below a heading of noise, with no other heading between.
InNoiseSection(lines, i) ==
    \E j \in 1..(i - 1) : /\ lines[j] = "env"
                          /\ \A h \in (j + 1)..i : lines[h] # "heading"

\* The lines of a block that are instructions to the model.
Instructions(lines) ==
    Those([i \in DOMAIN lines |-> IF InNoiseSection(lines, i) THEN "" ELSE lines[i]],
          {"text", "marker", "tags", "heading"})

\* Filtering a prompt of one block takes nothing but noise: every line of
\* instructions outside the sections of noise is still there and in its place,
\* no noise is left where it is to be removed, and filtering the prompt of an
\* earlier request's transcript again changes nothing.
FilterKeeps(lines, flags) ==
    LET out  == FilterPrompt(<<lines>>, flags)
        kept == FlattenSeq(out)
    IN  /\ Instructions(kept) = Instructions(lines)
        /\ flags.env => ToSet(kept) \cap {"env", "noise"} = {}
        /\ FilterPrompt(out, flags) = out
=============================================================================
