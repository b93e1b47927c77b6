------------------------------ MODULE StreamText ------------------------------
(***************************************************************************)
(* The text scanners of src/anthropic/stream.rs: the filter for <tool_use> *)
(* XML, the search for the thinking tags, the search for an <invoke> block *)
(* in plain text, the code fence and the repeat guard.                     *)
(*                                                                         *)
(* A text is a sequence of cells.  The tags are cut where a network chunk  *)
(* may cut them, so that a prefix of a tag's cells is a prefix of its      *)
(* characters.  All other text is a line (newline included), the beginning *)
(* of a line, or an empty line.                                            *)
(***************************************************************************)
EXTENDS Naturals, Sequences, FiniteSets, SequencesExt

Payload  == {"a", "b", "u", "v"}            \* what the model has to say
Lines    == {"a", "b", "call", "fence"}     \* whole lines; "call" is a stray token
Words    == {"u", "v", " "}                 \* text without a newline
Marks    == {"<", "/", ">", "r>", "thinking>", "tool_use",
             "invoke", "invoke?", "invoke>"}
    \* "invoke" is `invoke name="t">` and its parameters for a declared tool t,
    \* "invoke?" the same for a tool the request did not declare,
    \* "r>" what makes <tool_user> of <tool_use.
Cell     == Lines \cup Words \cup Marks \cup {"n"}

EndsLine == Lines \cup {"n"}
HasGt == {">", "r>", "thinking>", "invoke", "invoke?", "invoke>"}

\* is_quote_char of the byte after a tag, and of the byte before it.
QuoteFirst == {"<", "/", ">", "fence"}
QuoteLast  == HasGt \cup {"<", "/"}

OpenTag     == <<"<", "thinking>">>
CloseTag    == <<"<", "/", "thinking>">>
Break       == <<"n", "n">>
XmlOpen     == <<"<", "tool_use">>
XmlClose    == <<"<", "/", "tool_use", ">">>
InvokeClose == <<"<", "/", "invoke>">>

From(s, k) == SubSeq(s, k, Len(s))
Blank(s)   == \A k \in DOMAIN s : s[k] \in {"n", " "}

At(s, tag, k)    == /\ k + Len(tag) - 1 <= Len(s)
                    /\ SubSeq(s, k, k + Len(tag) - 1) = tag
Places(s, tag)   == {k \in 1..Len(s) : At(s, tag, k)}
First(S)         == IF S = {} THEN 0 ELSE Min(S)
Latest(S)        == IF S = {} THEN 0 ELSE Max(S)

\* longest_prefix_suffix: the end of s that may be the beginning of tag.
PartialEnd(s, tag) ==
    LET n == Latest({k \in 1..(Len(tag) - 1) :
                        k <= Len(s) /\ From(s, Len(s) - k + 1) = SubSeq(tag, 1, k)})
    IN  From(s, Len(s) - n + 1)

-----------------------------------------------------------------------------
(* ToolUseXmlLeakFilter.  `held` is its buffer.                            *)

XmlFilterInit == [held |-> <<>>, stripping |-> FALSE]

\* One pass of the loop of filter() over the text that is left; when it is
\* done, `rest` is what the buffer holds.
XmlPass(w) ==
    LET rest  == w.rest
        close == First(Places(rest, XmlClose))
        open  == First(Places(rest, XmlOpen))
        head  == open + Len(XmlOpen)                 \* past "<tool_use"
        gt    == First({k \in head..Len(rest) : rest[k] \in HasGt})
        blank == head <= Len(rest) /\ Blank(<<rest[head]>>)
        before == SubSeq(rest, 1, open - 1)
        keep   == PartialEnd(rest, XmlOpen)
        Resume(say, k, strip) == [rest |-> From(rest, k), out |-> w.out \o say,
                                  stripping |-> strip, done |-> FALSE]
        Stop(say, held, strip) == [rest |-> held, out |-> w.out \o say,
                                   stripping |-> strip, done |-> TRUE]
    IN  IF w.done THEN w
        ELSE IF w.stripping
        THEN IF close > 0 THEN Resume(<<>>, close + Len(XmlClose), FALSE)
             ELSE Stop(<<>>, PartialEnd(rest, XmlClose), TRUE)
        ELSE IF open = 0 THEN Stop(SubSeq(rest, 1, Len(rest) - Len(keep)), keep, FALSE)
        ELSE IF gt = 0 /\ (blank \/ head > Len(rest)) THEN Stop(before, <<>>, TRUE)
        ELSE IF gt > 0 /\ (blank \/ rest[head] = ">") THEN Resume(before, gt + 1, TRUE)
        ELSE Resume(before \o XmlOpen, head, FALSE)

\* filter(): what is let through and the filter's next state.  Every pass but
\* the last takes a cell at least.
XmlFilter(f, content) ==
    LET all == f.held \o content
        Loop[n \in Nat] ==
            IF n = 0 THEN [rest |-> all, out |-> <<>>, stripping |-> f.stripping, done |-> FALSE]
            ELSE XmlPass(Loop[n - 1])
        w == Loop[Len(all) + 1]
    IN  [out |-> w.out, held |-> w.rest, stripping |-> w.stripping]

-----------------------------------------------------------------------------
(* The thinking tags.  A tag next to a quote character is only mentioned.  *)

Unquoted(s, tag, k) ==
    /\ k = 1 \/ s[k - 1] \notin QuoteLast
    /\ LET after == k + Len(tag) IN after > Len(s) \/ s[after] \notin QuoteFirst

FindStartTag(s) == First({k \in Places(s, OpenTag) : Unquoted(s, OpenTag, k)})

FindEndTag(s) ==
    First({k \in Places(s, CloseTag) :
              Unquoted(s, CloseTag, k) /\ At(s, Break, k + Len(CloseTag))})

FindEndTagAtEnd(s) ==
    First({k \in Places(s, CloseTag) :
              Unquoted(s, CloseTag, k) /\ Blank(From(s, k + Len(CloseTag)))})

TrimStart(s) == From(s, First({k \in 1..(Len(s) + 1) : k > Len(s) \/ ~ Blank(<<s[k]>>)}))

\* extract_thinking_from_complete_text: the same split of a whole text.
ExtractThinking(text) ==
    LET start  == FindStartTag(text)
        before == SubSeq(text, 1, start - 1)
        inner  == From(text, start + Len(OpenTag))
        end    == FindEndTag(inner)
        atEnd  == FindEndTagAtEnd(inner)
        stop   == IF end > 0 THEN end ELSE atEnd
        after  == IF end > 0 THEN From(inner, end + Len(CloseTag \o Break))
                  ELSE TrimStart(From(inner, atEnd + Len(CloseTag)))
    IN  IF start = 0 \/ stop = 0
        THEN [found |-> FALSE, thinking |-> <<>>, text |-> text]
        ELSE [found |-> TRUE, thinking |-> SubSeq(inner, 1, stop - 1),
              text |-> (IF Blank(before) THEN <<>> ELSE before) \o after]

-----------------------------------------------------------------------------
(* <invoke> blocks in plain text.                                          *)

InvokeOpens(s) == {k \in 1..Len(s) : s[k] = "<" /\ k < Len(s)
                                     /\ s[k + 1] \in {"invoke", "invoke?"}}

FindInvokeStart(s) == First({k \in InvokeOpens(s) : k = 1 \/ s[k - 1] \notin QuoteLast})

\* Its last cell: the last closing tag before the next block; 0 if none yet.
FindInvokeBlockEnd(s, start) ==
    LET next  == First({k \in InvokeOpens(s) : k > start})
        bound == IF next = 0 THEN Len(s) + 1 ELSE next
        close == Latest({k \in Places(s, InvokeClose) :
                            k > start /\ k + Len(InvokeClose) <= bound})
    IN  IF close = 0 THEN 0 ELSE close + Len(InvokeClose) - 1

\* strip_trailing_stray_tokens
StripTrailingStray(s) ==
    SubSeq(s, 1, Min({k \in 0..Len(s) :
        \/ k = Len(s)
        \/ /\ \A j \in (k + 1)..Len(s) : s[j] \in {"call", "n"}
           /\ s[k + 1] = "call"
           /\ k = 0 \/ s[k] \in EndsLine}))

\* invoke_looks_like_real_leak: nothing, or a whole line and blanks, before it.
LooksLikeRealLeak(before) ==
    \E k \in 0..Len(before) :
        /\ k = 0 \/ before[k] \in EndsLine
        /\ \A j \in (k + 1)..Len(before) : before[j] = " "

\* partial_invoke_tag_suffix_len: everything from a "<" with no ">" after it.
PartialInvokeTag(s) ==
    LET lt == Latest({k \in DOMAIN s : s[k] = "<"})
    IN  IF lt = 0 \/ \E k \in lt..Len(s) : s[k] \in HasGt THEN <<>> ELSE From(s, lt)

\* advance_code_fence_state: open, and whether the last line is unfinished.
AdvanceFence(fence, text) ==
    FoldLeft(LAMBDA f, cell :
                [open |-> IF cell = "fence" /\ ~ f.partial THEN ~ f.open ELSE f.open,
                 partial |-> cell \notin EndsLine],
             fence, text)

-----------------------------------------------------------------------------
\* repeat_guard_filter: the text kept, and the guard after it.  A line that
\* repeats the stray token `trip` times cuts the rest of the response.
RepeatGuard(guard, text, trip) ==
    FoldLeft(LAMBDA g, cell :
                LET stray == cell = "call" /\ g.lineStart
                    empty == cell \in {"n", " "} /\ g.lineStart
                    run   == IF stray THEN g.run + 1 ELSE IF empty THEN g.run ELSE 0
                IN  IF g.tripped \/ (stray /\ run >= trip)
                    THEN [g EXCEPT !.tripped = TRUE]
                    ELSE [run |-> run, tripped |-> FALSE,
                          lineStart |-> cell \in EndsLine \/ (empty /\ cell = " "),
                          kept |-> Append(g.kept, cell)],
             [run |-> guard.run, tripped |-> guard.tripped,
              lineStart |-> TRUE, kept |-> <<>>],
             text)
===============================================================================
