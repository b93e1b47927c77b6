--------------------------- MODULE SseStream_proofs ---------------------------
(***************************************************************************)
(* The order of the blocks in the client's stream, for every scenario,     *)
(* every event in every order, cut anywhere, and any limits.               *)
(*                                                                         *)
(* While the response is read the context is Good: what has been sent is a *)
(* bracketed sequence of blocks that agrees with the table of blocks, a    *)
(* tool call's index is that of a block of its own, and the one block of   *)
(* thinking that may be open is the one the context names.  Every handler  *)
(* keeps a Good context Good, and the handlers of the end, one after the   *)
(* other, bring it to one that is Over: every block has stopped, and only  *)
(* errors follow.                                                          *)
(***************************************************************************)
EXTENDS SseStream, SequenceTheorems, FiniteSetTheorems, TLAPS

-----------------------------------------------------------------------------
(* What has been sent, and the blocks it makes.                              *)

Block == [type : BlockTypes, open : BOOLEAN]

\* A sequence, of whatever its elements are.
IsSeq(s) == s \in Seq({s[k] : k \in DOMAIN s})

IsBlockEvent(e) ==
    e.ev \in {"content_block_start", "content_block_delta", "content_block_stop"}

\* The places of the events of block i.
Of(out, i) ==
    {k \in DOMAIN out : IsBlockEvent(out[k]) /\ out[k].index = i}

\* Block i starts, with this type, before all else of it, and once.
Begun(out, i, type) ==
    \E s \in Of(out, i) :
        /\ out[s].ev = "content_block_start" /\ out[s].type = type
        /\ \A k \in Of(out, i) : k >= s /\ (out[k].ev = "content_block_start" => k = s)

\* It has not stopped; it has stopped, after all else of it, and once.
Running(out, i) == \A k \in Of(out, i) : out[k].ev # "content_block_stop"

Stopped(out, i) ==
    \E t \in Of(out, i) :
        /\ out[t].ev = "content_block_stop"
        /\ \A k \in Of(out, i) : k <= t /\ (out[k].ev = "content_block_stop" => k = t)

Bracketed(blocks, out) ==
    /\ \A k \in DOMAIN out : IsBlockEvent(out[k]) => out[k].index \in DOMAIN blocks
    /\ \A i \in DOMAIN blocks :
         /\ Begun(out, i, blocks[i].type)
         /\ IF blocks[i].open THEN Running(out, i) ELSE Stopped(out, i)

\* The signatures of block i, and the deltas of it that say something.
Signatures(out, i) ==
    {k \in Of(out, i) : out[k].ev = "content_block_delta" /\ out[k].kind = "signature"}

Loud(out, i) ==
    {k \in Of(out, i) : /\ out[k].ev = "content_block_delta" /\ out[k].kind = "thinking"
                        /\ out[k].data # <<>>}

Signed(blocks, out) ==
    \A i \in DOMAIN blocks :
        blocks[i].type = "thinking"
        => IF blocks[i].open THEN Signatures(out, i) = {}
           ELSE Loud(out, i) = {} \/ \E k \in DOMAIN out : Signatures(out, i) = {k}

\* Nothing that ends a message has been sent.
Unended(out) ==
    \A k \in DOMAIN out : out[k].ev \notin {"message_delta", "message_stop", "error"}

-----------------------------------------------------------------------------
(* The context while the response is read.                                   *)

Text == Seq(Cell)

Fields == {"blocks", "stopReason", "hasTool", "ended", "out", "output", "text", "thinking",
           "inThinking", "extracted", "stripNewline", "signature", "buffer", "sniff", "xml",
           "guard", "fence", "toolIndex", "fragments", "toolError", "upstreamError"}

Typed(c) ==
    /\ DOMAIN c = Fields
    /\ c.blocks \in Seq(Block) /\ IsSeq(c.out) /\ c.thinking \in Nat
    /\ c.inThinking \in BOOLEAN /\ c.extracted \in BOOLEAN /\ c.stripNewline \in BOOLEAN
    /\ c.buffer \in Text /\ c.sniff \in Text
    /\ c.xml.held \in Text /\ c.xml.stripping \in BOOLEAN

\* The client's stream so far.
Sound(c) ==
    /\ Bracketed(c.blocks, c.out) /\ Signed(c.blocks, c.out)
    /\ Unended(c.out) /\ c.ended = FALSE

\* A tool call's index is that of a block of its own.
Tools(c) ==
    \A id \in DOMAIN c.toolIndex :
        c.toolIndex[id] \in DOMAIN c.blocks /\ c.blocks[c.toolIndex[id]].type = "tool_use"

\* There is one open block of thinking at most, that of thinking_block_index;
\* while its text is tagged it is open, and when it has said something more of
\* it is held back.
Thoughts(c) ==
    /\ \A i \in DOMAIN c.blocks :
          c.blocks[i] = [type |-> "thinking", open |-> TRUE]
          => i = c.thinking /\ (c.inThinking \/ c.extracted)
    /\ c.inThinking =>
          /\ Thinking /\ ThinkingOpen(c) /\ ~ c.extracted
          /\ Loud(c.out, c.thinking) # {} => c.buffer # <<>> /\ ~ c.stripNewline

Good(c) == Typed(c) /\ Sound(c) /\ Tools(c) /\ Thoughts(c)

\* Assumption about the service: while a tagged block of thinking is open, it sends no
\* reasoning of its own, neither text nor redacted.
ReasoningOutsideTags ==
    \A e \in Menu[request].events :
        Receive(e) /\ e.kind = "reasoning" /\ ctx.inThinking
        => e.text = <<>> /\ ~ e.redacted

\* The message has ended at n: every block has stopped, and only errors follow.
EndedAt(blocks, out, n) ==
    /\ IsSeq(out) /\ Bracketed(blocks, out) /\ Signed(blocks, out)
    /\ \A i \in DOMAIN blocks : ~ blocks[i].open
    /\ n \in DOMAIN out /\ out[n].ev = "message_delta"
    /\ n + 1 \in DOMAIN out /\ out[n + 1].ev = "message_stop"
    /\ \A k \in DOMAIN out :
          /\ k < n => out[k].ev \notin {"message_delta", "message_stop", "error"}
          /\ k > n + 1 => out[k].ev = "error"

Over(c) == \E n : EndedAt(c.blocks, c.out, n)

\* The inductive invariant.
StreamInv ==
    /\ request \in DOMAIN Menu /\ phase \in {"reading", "retrying", "done"}
    /\ IF phase = "done" THEN Over(ctx) ELSE Good(ctx)

-----------------------------------------------------------------------------
(* Numbers and texts.                                                        *)

LEMMA LeastNumber ==
    \A T \in SUBSET Nat : T # {} => \E x \in T : \A y \in T : x <= y
  <1> DEFINE R == {ss \in Nat \X Nat : ss[1] < ss[2]}
  <1>1. IsWellFoundedOn(R, Nat)
    BY NatLessThanWellFounded DEF OpToRel
  <1>2. \A a, b \in Nat : a < b => <<a, b>> \in R
    OBVIOUS
  <1> HIDE DEF R
  <1> SUFFICES ASSUME NEW T \in SUBSET Nat, T # {}
               PROVE  \E x \in T : \A y \in T : x <= y
    OBVIOUS
  <1>3. PICK x \in T : \A y \in T : ~ (<<y, x>> \in R)
    BY <1>1, WFMin
  <1>4. \A y \in T : x <= y
    <2>1. \A y \in T : y \in Nat /\ x \in Nat /\ ~ (y < x)
      BY <1>2, <1>3
    <2> QED
      BY <2>1
  <1> QED
    BY <1>4

LEMMA SameLength ==
    \A a, b \in Nat : 1 .. a = 1 .. b => a = b
  <1> SUFFICES ASSUME NEW a \in Nat, NEW b \in Nat, 1 .. a = 1 .. b PROVE a = b
    OBVIOUS
  <1>1. \A x : x \in 1 .. a <=> x \in 1 .. b
    OBVIOUS
  <1>2. (a \in 1 .. a <=> a \in 1 .. b) /\ (b \in 1 .. b <=> b \in 1 .. a)
    BY <1>1
  <1> QED
    BY <1>2

\* First and Latest find what there is.
LEMMA FirstIsIn ==
    ASSUME NEW T \in SUBSET Nat
    PROVE  First(T) \in Nat /\ (T # {} => First(T) \in T)
  <1>1. CASE T = {}
    BY <1>1 DEF First
  <1>2. CASE T # {}
    <2>1. PICK x \in T : \A y \in T : x <= y
      BY <1>2, LeastNumber
    <2>2. Min(T) \in T
      BY <2>1 DEF Min
    <2> QED
      BY <1>2, <2>2 DEF First
  <1> QED
    BY <1>1, <1>2

LEMMA LatestIsIn ==
    ASSUME NEW n \in Nat, NEW T \in SUBSET (1 .. n)
    PROVE  Latest(T) \in 0 .. n /\ (T # {} => Latest(T) \in T)
  <1>1. CASE T = {}
    BY <1>1 DEF Latest
  <1>2. CASE T # {}
    <2> DEFINE U == {n - y : y \in T}
    <2>1. U \in SUBSET Nat /\ U # {}
      <3>1. \A y \in T : n - y \in Nat
        OBVIOUS
      <3>2. PICK z \in T : TRUE
        BY <1>2
      <3>3. n - z \in U
        BY <3>2
      <3>4. \A u \in U : u \in Nat
        BY <3>1
      <3> QED
        BY <3>3, <3>4, Zenon
    <2>2. PICK u \in U : \A y \in U : u <= y
      BY <2>1, LeastNumber
    <2>3. PICK x \in T : u = n - x
      BY <2>2
    <2>4. \A y \in T : x >= y
      <3> SUFFICES ASSUME NEW y \in T PROVE x >= y
        OBVIOUS
      <3>1. n - x <= n - y
        BY <2>2, <2>3
      <3> QED
        BY <3>1
    <2>5. Max(T) \in T
      BY <2>4 DEF Max
    <2>6. Max(T) \in 1 .. n
      BY <2>5, Zenon
    <2>7. \A y \in 1 .. n : y \in 0 .. n
      OBVIOUS
    <2> QED
      BY <1>2, <2>5, <2>6, <2>7, Zenon DEF Latest
  <1> QED
    BY <1>1, <1>2

LEMMA FromText ==
    ASSUME NEW s \in Text, NEW k \in Nat, k > 0
    PROVE  From(s, k) \in Text /\ Len(From(s, k)) = IF k <= Len(s) THEN Len(s) - k + 1 ELSE 0
  <1>1. \A i \in k .. Len(s) : s[i] \in Cell
    BY DEF Text
  <1> QED
    BY <1>1, SubSeqProperties DEF From, Text

LEMMA StartText ==
    ASSUME NEW s \in Text, NEW k \in Int, k <= Len(s)
    PROVE  SubSeq(s, 1, k) \in Text /\ Len(SubSeq(s, 1, k)) = IF 1 <= k THEN k ELSE 0
  <1>1. Len(s) \in Nat /\ \A i \in 1 .. k : s[i] \in Cell
    BY DEF Text
  <1> QED
    BY <1>1, SubSeqProperties DEF Text

LEMMA JoinText ==
    ASSUME NEW s \in Text, NEW t \in Text
    PROVE  s \o t \in Text /\ Len(s \o t) = Len(s) + Len(t)
  BY DEF Text

LEMMA PlacesInside ==
    ASSUME NEW s \in Text, NEW tag
    PROVE  /\ Places(s, tag) \in SUBSET (1 .. Len(s)) /\ Len(s) \in Nat
           /\ First(Places(s, tag)) \in Nat
           /\ First(Places(s, tag)) > 0 => First(Places(s, tag)) \in Places(s, tag)
  <1>1. Len(s) \in Nat /\ Places(s, tag) \in SUBSET (1 .. Len(s))
    BY DEF Text, Places
  <1>2. Places(s, tag) \in SUBSET Nat
    BY <1>1
  <1>3. Places(s, tag) = {} => First(Places(s, tag)) = 0
    BY DEF First
  <1> QED
    BY <1>1, <1>2, <1>3, FirstIsIn

\* What may be the beginning of a tag is the end of the text.
LEMMA PartialEndText ==
    ASSUME NEW s \in Text, NEW tag, Len(tag) \in Nat \ {0}
    PROVE  PartialEnd(s, tag) \in Text /\ Len(PartialEnd(s, tag)) <= Len(s)
  <1> DEFINE T == {k \in 1..(Len(tag) - 1) :
                     k <= Len(s) /\ From(s, Len(s) - k + 1) = SubSeq(tag, 1, k)}
             n == Latest(T)
  <1>1. Len(s) \in Nat
    BY DEF Text
  <1>2. T \in SUBSET (1 .. (Len(tag) - 1))
    OBVIOUS
  <1>3. n \in Nat /\ (T # {} => n \in T)
    <2>1. Len(tag) - 1 \in Nat
      OBVIOUS
    <2>2. n \in 0 .. (Len(tag) - 1) /\ (T # {} => n \in T)
      BY <1>2, <2>1, LatestIsIn, Zenon
    <2> HIDE DEF n, T
    <2> QED
      BY <2>1, <2>2
  <1>4. T = {} => n = 0
    BY DEF Latest
  <1>5. n <= Len(s)
    BY <1>1, <1>3, <1>4
  <1> HIDE DEF n, T
  <1>6. Len(s) - n + 1 \in Nat /\ Len(s) - n + 1 > 0
    BY <1>1, <1>3, <1>5
  <1>7. From(s, Len(s) - n + 1) \in Text
        /\ Len(From(s, Len(s) - n + 1)) <= Len(s)
    BY <1>1, <1>3, <1>5, <1>6, FromText
  <1> QED
    BY <1>7 DEF PartialEnd, n, T

LEMMA Tags ==
    /\ Len(XmlOpen) = 2 /\ Len(XmlClose) = 4 /\ XmlOpen \in Text /\ <<>> \in Text
    /\ Len(OpenTag) = 2 /\ Len(CloseTag) = 3 /\ Len(CloseTag \o Break) = 5
    /\ Len(InvokeClose) = 3
  <1>1. {"<", "tool_use"} \subseteq Cell
    BY DEF Cell, Marks
  <1>2. XmlOpen \in Seq({"<", "tool_use"}) /\ <<>> \in Seq({"<", "tool_use"})
    BY DEF XmlOpen
  <1>3. XmlOpen \in Text /\ <<>> \in Text
    BY <1>1, <1>2, SeqMonotonic, Zenon DEF Text
  <1>4. Len(CloseTag \o Break) = 5
    <2>1. /\ CloseTag \in Seq({"<", "/", "thinking>", "n"}) /\ Len(CloseTag) = 3
          /\ Break \in Seq({"<", "/", "thinking>", "n"}) /\ Len(Break) = 2
      BY DEF CloseTag, Break
    <2>2. Len(CloseTag \o Break) = Len(CloseTag) + Len(Break)
      BY <2>1, ConcatProperties
    <2> HIDE DEF CloseTag, Break
    <2> QED
      BY <2>1, <2>2
  <1> QED
    BY <1>3, <1>4 DEF XmlOpen, XmlClose, OpenTag, CloseTag, InvokeClose

-----------------------------------------------------------------------------
(* The filter of <tool_use> XML lets a text through and holds one.           *)

XmlState == [rest : Text, out : Text, stripping : BOOLEAN, done : BOOLEAN]

LEMMA XmlPassText ==
    ASSUME NEW w \in XmlState
    PROVE  XmlPass(w) \in XmlState
  <1> DEFINE rest   == w.rest
             close  == First(Places(rest, XmlClose))
             open   == First(Places(rest, XmlOpen))
             head   == open + Len(XmlOpen)
             gt     == First({k \in head..Len(rest) : rest[k] \in HasGt})
             blank  == head <= Len(rest) /\ Blank(<<rest[head]>>)
             before == SubSeq(rest, 1, open - 1)
             keep   == PartialEnd(rest, XmlOpen)
             Resume(say, k, strip) == [rest |-> From(rest, k), out |-> w.out \o say,
                                       stripping |-> strip, done |-> FALSE]
             Stop(say, held, strip) == [rest |-> held, out |-> w.out \o say,
                                        stripping |-> strip, done |-> TRUE]
  <1>1. rest \in Text /\ Len(rest) \in Nat /\ w.out \in Text /\ <<>> \in Text
    BY Tags DEF XmlState, Text
  <1>2. ASSUME NEW say \in Text, NEW k \in Nat, k > 0, NEW strip \in BOOLEAN
        PROVE  Resume(say, k, strip) \in XmlState
    BY <1>1, <1>2, FromText, JoinText DEF XmlState
  <1>3. ASSUME NEW say \in Text, NEW held \in Text, NEW strip \in BOOLEAN
        PROVE  Stop(say, held, strip) \in XmlState
    BY <1>1, <1>3, JoinText DEF XmlState
  <1>4. /\ close \in Nat
        /\ open \in Nat /\ open <= Len(rest) /\ head = open + 2
    BY <1>1, PlacesInside, Tags
  <1>5. gt \in Nat
    <2>1. {k \in head..Len(rest) : rest[k] \in HasGt} \in SUBSET Nat
      BY <1>1, <1>4
    <2> QED
      BY <2>1, FirstIsIn, Zenon
  <1>6. before \in Text
    BY <1>1, <1>4, StartText
  <1>7. /\ keep \in Text /\ Len(keep) \in Nat /\ Len(keep) <= Len(rest)
        /\ PartialEnd(rest, XmlClose) \in Text
    <2>1. Len(XmlOpen) \in Nat \ {0} /\ Len(XmlClose) \in Nat \ {0}
      BY Tags
    <2>2. keep \in Text /\ Len(keep) <= Len(rest) /\ PartialEnd(rest, XmlClose) \in Text
      BY <1>1, <2>1, PartialEndText, Zenon
    <2> HIDE DEF keep
    <2> QED
      BY <2>2 DEF Text
  <1>8. SubSeq(rest, 1, Len(rest) - Len(keep)) \in Text
    <2> HIDE DEF keep
    <2>1. Len(rest) - Len(keep) \in Int /\ Len(rest) - Len(keep) <= Len(rest)
      BY <1>1, <1>7
    <2> QED
      BY <1>1, <2>1, StartText
  <1>9. before \o XmlOpen \in Text
    BY <1>6, JoinText, Tags
  <1>10. XmlPass(w) =
           IF w.done THEN w
           ELSE IF w.stripping
           THEN IF close > 0 THEN Resume(<<>>, close + Len(XmlClose), FALSE)
                ELSE Stop(<<>>, PartialEnd(rest, XmlClose), TRUE)
           ELSE IF open = 0 THEN Stop(SubSeq(rest, 1, Len(rest) - Len(keep)), keep, FALSE)
           ELSE IF gt = 0 /\ (blank \/ head > Len(rest)) THEN Stop(before, <<>>, TRUE)
           ELSE IF gt > 0 /\ (blank \/ rest[head] = ">") THEN Resume(before, gt + 1, TRUE)
           ELSE Resume(before \o XmlOpen, head, FALSE)
    BY DEF XmlPass
  <1>11. close + Len(XmlClose) \in Nat /\ close + Len(XmlClose) > 0
         /\ gt + 1 \in Nat /\ gt + 1 > 0 /\ head \in Nat /\ head > 0
    BY <1>4, <1>5, Tags
  <1> HIDE DEF rest, close, open, head, gt, blank, before, keep, Resume, Stop
  <1>12. /\ Resume(<<>>, close + Len(XmlClose), FALSE) \in XmlState
         /\ Stop(<<>>, PartialEnd(rest, XmlClose), TRUE) \in XmlState
         /\ Stop(SubSeq(rest, 1, Len(rest) - Len(keep)), keep, FALSE) \in XmlState
         /\ Stop(before, <<>>, TRUE) \in XmlState
         /\ Resume(before, gt + 1, TRUE) \in XmlState
         /\ Resume(before \o XmlOpen, head, FALSE) \in XmlState
    BY <1>1, <1>2, <1>3, <1>6, <1>7, <1>8, <1>9, <1>11
  <1> QED
    BY <1>10, <1>12, Zenon

LEMMA XmlLoop ==
    ASSUME NEW start
    PROVE  \E L : L = [n \in Nat |-> IF n = 0 THEN start ELSE XmlPass(L[n - 1])]
  <1> DEFINE Upto(g, n) == g = [k \in 0 .. n |-> IF k = 0 THEN start ELSE XmlPass(g[k - 1])]
             Open == {n \in Nat : ~ \E g : Upto(g, n)}
  <1>1. Open = {}
    <2>1. SUFFICES ASSUME Open # {} PROVE FALSE
      OBVIOUS
    <2>2. PICK n \in Open : \A m \in Open : n <= m
      <3>1. Open \in SUBSET Nat
        OBVIOUS
      <3> HIDE DEF Open
      <3> QED
        BY <2>1, <3>1, LeastNumber, Zenon
    <2>3. CASE n = 0
      <3>1. Upto([k \in 0 .. n |-> start], n)
        BY <2>3
      <3> QED
        BY <2>2, <3>1
    <2>4. CASE n # 0
      <3>1. n - 1 \in Nat /\ n - 1 \notin Open
        <4>1. n \in Nat
          BY <2>2
        <4> HIDE DEF Open
        <4> QED
          BY <2>2, <2>4, <4>1
      <3>2. PICK g : Upto(g, n - 1)
        BY <3>1
      <3> DEFINE h == [k \in 0 .. n |-> IF k = 0 THEN start ELSE XmlPass(g[k - 1])]
      <3>3. \A k \in 0 .. n - 1 : h[k] = g[k]
        BY <3>1, <3>2
      <3>4. \A k \in 0 .. n : k # 0 => k - 1 \in 0 .. n - 1
        BY <3>1
      <3>5. Upto(h, n)
        BY <3>3, <3>4
      <3> QED
        BY <2>2, <3>5
    <2> QED
      BY <2>3, <2>4
  <1>2. ASSUME NEW n \in Nat, NEW m \in Nat, NEW g, NEW h, Upto(g, n), Upto(h, m),
               NEW k \in 0 .. n, k <= m
        PROVE  g[k] = h[k]
    <2> DEFINE T == {x \in Nat : x <= n /\ x <= m /\ g[x] # h[x]}
    <2>1. SUFFICES ASSUME T # {} PROVE FALSE
      <3>1. k \in Nat /\ k <= n
        BY <1>2
      <3>2. T = {} => g[k] = h[k]
        BY <1>2, <3>1
      <3> HIDE DEF T
      <3> QED
        BY <3>2
    <2>2. PICK x \in T : \A y \in T : x <= y
      <3>1. T \in SUBSET Nat
        OBVIOUS
      <3> HIDE DEF T
      <3> QED
        BY <2>1, <3>1, LeastNumber, Zenon
    <2>3. x # 0
      BY <1>2, <2>2
    <2>4. x - 1 \in Nat /\ x - 1 <= n /\ x - 1 <= m /\ x - 1 \notin T
      BY <2>2, <2>3
    <2>5. g[x - 1] = h[x - 1]
      BY <2>4
    <2>6. g[x] = XmlPass(g[x - 1]) /\ h[x] = XmlPass(h[x - 1])
      BY <1>2, <2>2, <2>3
    <2> QED
      BY <2>2, <2>5, <2>6
  <1> DEFINE G(n) == CHOOSE g : Upto(g, n)
             F    == [n \in Nat |-> G(n)[n]]
  <1>3. \A n \in Nat : Upto(G(n), n)
    BY <1>1
  <1>4. ASSUME NEW n \in Nat
        PROVE  F[n] = IF n = 0 THEN start ELSE XmlPass(F[n - 1])
    <2> HIDE DEF Upto, G
    <2>1. F[n] = G(n)[n] /\ Upto(G(n), n)
      BY <1>3
    <2>2. CASE n = 0
      BY <2>1, <2>2 DEF Upto
    <2>3. CASE n # 0
      <3>1. n - 1 \in Nat /\ n - 1 \in 0 .. n /\ n - 1 <= n - 1
        BY <2>3
      <3>2. G(n)[n] = XmlPass(G(n)[n - 1])
        BY <2>1, <2>3 DEF Upto
      <3>3. G(n)[n - 1] = G(n - 1)[n - 1]
        BY <1>2, <1>3, <3>1
      <3>4. F[n - 1] = G(n - 1)[n - 1]
        BY <3>1
      <3> QED
        BY <2>1, <2>3, <3>2, <3>3, <3>4
    <2> QED
      BY <2>2, <2>3
  <1>5. F = [n \in Nat |-> IF n = 0 THEN start ELSE XmlPass(F[n - 1])]
    <2> HIDE DEF G
    <2> QED
      BY <1>4
  <1> QED
    BY <1>5

LEMMA XmlFilterText ==
    ASSUME NEW f, f.held \in Text, f.stripping \in BOOLEAN, NEW content \in Text
    PROVE  /\ XmlFilter(f, content).out \in Text
           /\ XmlFilter(f, content).held \in Text
           /\ XmlFilter(f, content).stripping \in BOOLEAN
  <1> DEFINE all   == f.held \o content
             start == [rest |-> all, out |-> <<>>, stripping |-> f.stripping, done |-> FALSE]
             Loop[n \in Nat] == IF n = 0 THEN start ELSE XmlPass(Loop[n - 1])
             w == Loop[Len(all) + 1]
  <1>1. XmlFilter(f, content) = [out |-> w.out, held |-> w.rest, stripping |-> w.stripping]
    BY Zenon DEF XmlFilter
  <1>2. start \in XmlState /\ Len(all) + 1 \in Nat
    BY JoinText, Tags DEF XmlState, Text
  <1> HIDE DEF start
  <1>3. Loop = [n \in Nat |-> IF n = 0 THEN start ELSE XmlPass(Loop[n - 1])]
    BY XmlLoop
  <1> HIDE DEF Loop, all
  <1> DEFINE Bad == {n \in Nat : Loop[n] \notin XmlState}
  <1>4. Bad = {}
    <2>1. SUFFICES ASSUME Bad # {} PROVE FALSE
      OBVIOUS
    <2>2. PICK n \in Bad : \A m \in Bad : n <= m
      <3>1. Bad \in SUBSET Nat
        OBVIOUS
      <3> HIDE DEF Bad
      <3> QED
        BY <2>1, <3>1, LeastNumber, Zenon
    <2>3. n # 0
      BY <1>2, <1>3, <2>2
    <2>4. n - 1 \in Nat /\ n - 1 \notin Bad
      BY <2>2, <2>3
    <2>5. Loop[n] = XmlPass(Loop[n - 1])
      BY <1>3, <2>2, <2>3
    <2> QED
      BY <2>2, <2>4, <2>5, XmlPassText
  <1>5. w \in XmlState
    BY <1>2, <1>4
  <1> QED
    BY <1>1, <1>5 DEF XmlState

-----------------------------------------------------------------------------
(* Sequences to which something is appended.                                 *)

LEMMA SeqIsSeq ==
    ASSUME NEW T, NEW s \in Seq(T)
    PROVE  IsSeq(s)
  <1> DEFINE R == {s[k] : k \in DOMAIN s}
  <1>1. Len(s) \in Nat /\ DOMAIN s = 1 .. Len(s)
    OBVIOUS
  <1>2. \A k \in 1 .. Len(s) : s[k] \in R
    BY <1>1
  <1> HIDE DEF R
  <1>3. SubSeq(s, 1, Len(s)) \in Seq(R)
    BY <1>1, <1>2, SubSeqProperties
  <1>4. s \in Seq(R)
    BY <1>3, SubSeqFull
  <1> QED
    BY <1>4 DEF IsSeq, R

LEMMA IsSeqFacts ==
    ASSUME NEW s, IsSeq(s)
    PROVE  Len(s) \in Nat /\ DOMAIN s = 1 .. Len(s)
  BY DEF IsSeq

\* What is appended, said of the new sequence.
Appended(s, e, t) ==
    /\ IsSeq(t) /\ Len(s) \in Nat /\ Len(t) = Len(s) + 1
    /\ DOMAIN s = 1 .. Len(s) /\ DOMAIN t = 1 .. (Len(s) + 1)
    /\ \A k \in 1 .. Len(s) : t[k] = s[k]
    /\ t[Len(s) + 1] = e

LEMMA AppendSeq ==
    ASSUME NEW s, IsSeq(s), NEW e
    PROVE  Appended(s, e, Append(s, e))
  <1> DEFINE T == {s[k] : k \in DOMAIN s} \cup {e}
             t == Append(s, e)
  <1>1. s \in Seq({s[k] : k \in DOMAIN s})
    BY DEF IsSeq
  <1>2. s \in Seq(T) /\ e \in T
    BY <1>1, SeqMonotonic
  <1> HIDE DEF T
  <1>3. t \in Seq(T)
    BY <1>2
  <1>4. IsSeq(t)
    BY <1>3, SeqIsSeq
  <1>5. /\ Len(s) \in Nat /\ Len(t) = Len(s) + 1
        /\ DOMAIN s = 1 .. Len(s) /\ DOMAIN t = 1 .. (Len(s) + 1)
        /\ \A k \in 1 .. Len(s) : t[k] = s[k]
        /\ t[Len(s) + 1] = e
    BY <1>2, <1>3
  <1> QED
    BY <1>4, <1>5 DEF Appended

Concats(s, u, t) ==
    /\ IsSeq(t) /\ Len(s) \in Nat /\ Len(u) \in Nat /\ Len(t) = Len(s) + Len(u)
    /\ DOMAIN s = 1 .. Len(s) /\ DOMAIN t = 1 .. (Len(s) + Len(u))
    /\ \A k \in 1 .. Len(s) : t[k] = s[k]
    /\ \A k \in 1 .. Len(u) : t[Len(s) + k] = u[k]

LEMMA ConcatSeq ==
    ASSUME NEW s, IsSeq(s), NEW u, IsSeq(u)
    PROVE  Concats(s, u, s \o u)
  <1> DEFINE t == s \o u
  <1> DEFINE T == {s[k] : k \in DOMAIN s} \cup {u[k] : k \in DOMAIN u}
  <1>1. s \in Seq({s[k] : k \in DOMAIN s}) /\ u \in Seq({u[k] : k \in DOMAIN u})
    BY DEF IsSeq
  <1>2. s \in Seq(T) /\ u \in Seq(T)
    BY <1>1, SeqMonotonic
  <1> HIDE DEF T
  <1>3. t \in Seq(T)
    BY <1>2
  <1>4. /\ Len(t) = Len(s) + Len(u)
        /\ \A i \in 1 .. Len(s) + Len(u) : t[i] = IF i <= Len(s) THEN s[i] ELSE u[i - Len(s)]
    BY <1>2, ConcatProperties
  <1>5. Len(s) \in Nat /\ Len(u) \in Nat /\ DOMAIN s = 1 .. Len(s)
    BY <1>2
  <1>6. \A k \in 1 .. Len(u) : t[Len(s) + k] = u[k]
    <2> SUFFICES ASSUME NEW k \in 1 .. Len(u) PROVE t[Len(s) + k] = u[k]
      OBVIOUS
    <2>1. Len(s) + k \in 1 .. Len(s) + Len(u) /\ ~(Len(s) + k <= Len(s)) /\ (Len(s) + k) - Len(s) = k
      BY <1>5
    <2> QED
      BY <1>4, <2>1
  <1>7. \A k \in 1 .. Len(s) : t[k] = s[k]
    BY <1>4, <1>5
  <1>8. DOMAIN t = 1 .. (Len(s) + Len(u))
    BY <1>3, <1>4
  <1> QED
    BY <1>3, <1>4, <1>5, <1>6, <1>7, <1>8, SeqIsSeq DEF Concats

\* One more event.
LEMMA OneMore ==
    ASSUME NEW out, IsSeq(out), NEW e
    PROVE  \A j : /\ Of(Append(out, e), j) = IF IsBlockEvent(e) /\ e.index = j
                                             THEN Of(out, j) \cup {Len(out) + 1} ELSE Of(out, j)
                  /\ \A k \in Of(out, j) : k \in 1 .. Len(out) /\ Append(out, e)[k] = out[k]
  <1> DEFINE new == Append(out, e)
  <1>1. /\ Len(out) \in Nat /\ DOMAIN out = 1 .. Len(out) /\ DOMAIN new = 1 .. (Len(out) + 1)
        /\ \A k \in 1 .. Len(out) : new[k] = out[k]
        /\ new[Len(out) + 1] = e /\ IsSeq(new)
    BY AppendSeq DEF Appended
  <1> HIDE DEF new
  <1>2. \A k \in DOMAIN new : k \in DOMAIN out \/ k = Len(out) + 1
    BY <1>1
  <1>3. \A k \in DOMAIN out : k \in DOMAIN new /\ new[k] = out[k] /\ k # Len(out) + 1
    BY <1>1
  <1>4. Len(out) + 1 \in DOMAIN new
    BY <1>1
  <1>5. ASSUME NEW j
        PROVE  /\ Of(new, j) = IF IsBlockEvent(e) /\ e.index = j
                               THEN Of(out, j) \cup {Len(out) + 1} ELSE Of(out, j)
               /\ \A k \in Of(out, j) : k \in 1 .. Len(out) /\ new[k] = out[k]
    <2>1. \A k \in Of(out, j) : k \in 1 .. Len(out) /\ new[k] = out[k]
      BY <1>1 DEF Of
    <2>2. \A k : k \in Of(new, j) <=> \/ k \in Of(out, j)
                                      \/ k = Len(out) + 1 /\ IsBlockEvent(e) /\ e.index = j
      BY <1>1, <1>2, <1>3, <1>4, Zenon DEF Of, IsBlockEvent
    <2>3. IsBlockEvent(e) /\ e.index = j => Of(new, j) = Of(out, j) \cup {Len(out) + 1}
      BY <2>2
    <2>4. ~ (IsBlockEvent(e) /\ e.index = j) => Of(new, j) = Of(out, j)
      BY <2>2
    <2> QED
      BY <2>1, <2>3, <2>4
  <1> QED
    BY <1>5, Zenon DEF new

\* One more event of a block.
LEMMA OneMoreOf ==
    ASSUME NEW out, IsSeq(out), NEW e, IsBlockEvent(e), NEW i, e.index = i
    PROVE  \A j : /\ j = i => Of(Append(out, e), j) = Of(out, j) \cup {Len(out) + 1}
                  /\ j # i => Of(Append(out, e), j) = Of(out, j)
                  /\ \A k \in Of(out, j) : k \in 1 .. Len(out) /\ Append(out, e)[k] = out[k]
  <1> SUFFICES ASSUME NEW j
               PROVE  /\ j = i => Of(Append(out, e), j) = Of(out, j) \cup {Len(out) + 1}
                      /\ j # i => Of(Append(out, e), j) = Of(out, j)
                      /\ \A k \in Of(out, j) : k \in 1 .. Len(out) /\ Append(out, e)[k] = out[k]
    OBVIOUS
  <1>1. /\ Of(Append(out, e), j) = IF IsBlockEvent(e) /\ e.index = j
                                   THEN Of(out, j) \cup {Len(out) + 1} ELSE Of(out, j)
        /\ \A k \in Of(out, j) : k \in 1 .. Len(out) /\ Append(out, e)[k] = out[k]
    BY OneMore, Zenon
  <1> QED
    BY <1>1

LEMMA BlocksAre ==
    ASSUME NEW blocks \in Seq(Block)
    PROVE  /\ Len(blocks) \in Nat /\ DOMAIN blocks = 1 .. Len(blocks)
           /\ \A j \in DOMAIN blocks :
                 /\ blocks[j] \in Block
                 /\ blocks[j] = [type |-> blocks[j].type, open |-> blocks[j].open]
                 /\ blocks[j].type \in BlockTypes /\ blocks[j].open \in BOOLEAN
  <1>1. \A j \in DOMAIN blocks : blocks[j] \in Block
    OBVIOUS
  <1> QED
    BY <1>1 DEF Block

\* A delta goes to an open block.
LEMMA DeltaBrackets ==
    ASSUME NEW blocks, NEW out, IsSeq(out), Bracketed(blocks, out),
           NEW i \in DOMAIN blocks, blocks[i].open,
           NEW e, e.ev = "content_block_delta", e.index = i
    PROVE  Bracketed(blocks, Append(out, e))
  <1> DEFINE new == Append(out, e)
             n   == Len(out) + 1
  <1>1. /\ IsBlockEvent(e)
        /\ e.ev # "content_block_start" /\ e.ev # "content_block_stop"
    BY DEF IsBlockEvent
  <1>2. /\ Len(out) \in Nat /\ DOMAIN out = 1 .. Len(out) /\ DOMAIN new = 1 .. (Len(out) + 1)
        /\ \A k \in 1 .. Len(out) : new[k] = out[k]
        /\ new[n] = e
    BY AppendSeq DEF Appended
  <1>3. \A j : /\ j = i => Of(new, j) = Of(out, j) \cup {n}
               /\ j # i => Of(new, j) = Of(out, j)
               /\ \A k \in Of(out, j) : k \in 1 .. Len(out) /\ new[k] = out[k]
    BY <1>1, OneMoreOf
  <1> HIDE DEF new
  <1>4. \A k \in DOMAIN new : IsBlockEvent(new[k]) => new[k].index \in DOMAIN blocks
    <2> SUFFICES ASSUME NEW k \in DOMAIN new, IsBlockEvent(new[k])
                 PROVE  new[k].index \in DOMAIN blocks
      OBVIOUS
    <2>1. CASE k = n
      BY <1>2, <2>1
    <2>2. CASE k # n
      BY <1>2, <2>2 DEF Bracketed
    <2> QED
      BY <2>1, <2>2
  <1>5. ASSUME NEW j \in DOMAIN blocks
        PROVE  /\ Begun(new, j, blocks[j].type)
               /\ IF blocks[j].open THEN Running(new, j) ELSE Stopped(new, j)
    <2>1. /\ Begun(out, j, blocks[j].type)
          /\ IF blocks[j].open THEN Running(out, j) ELSE Stopped(out, j)
      BY DEF Bracketed
    <2>2. CASE j # i
      BY <1>3, <2>1, <2>2 DEF Begun, Running, Stopped
    <2>3. CASE j = i
      <3>1. Of(new, j) = Of(out, j) \cup {n}
        BY <1>3, <2>3
      <3>2. PICK s \in Of(out, j) :
              /\ out[s].ev = "content_block_start" /\ out[s].type = blocks[j].type
              /\ \A k \in Of(out, j) : k >= s /\ (out[k].ev = "content_block_start" => k = s)
        BY <2>1 DEF Begun
      <3>3. s \in Of(new, j) /\ new[s] = out[s] /\ s \in 1 .. Len(out)
        BY <1>3, <3>1, <3>2
      <3>4. \A k \in Of(new, j) : k >= s /\ (new[k].ev = "content_block_start" => k = s)
        BY <1>1, <1>2, <1>3, <3>1, <3>2, <3>3
      <3>5. Begun(new, j, blocks[j].type)
        BY <3>2, <3>3, <3>4 DEF Begun
      <3>6. Running(new, j)
        BY <1>1, <1>2, <1>3, <2>1, <2>3, <3>1 DEF Running
      <3> QED
        BY <2>3, <3>5, <3>6
    <2> QED
      BY <2>2, <2>3
  <1> QED
    BY <1>4, <1>5 DEF Bracketed, new

\* An open block stops.
LEMMA StopBrackets ==
    ASSUME NEW blocks \in Seq(Block), NEW out, IsSeq(out), Bracketed(blocks, out),
           NEW i \in DOMAIN blocks, blocks[i].open
    PROVE  Bracketed([blocks EXCEPT ![i].open = FALSE], Append(out, StopEvent(i)))
  <1> DEFINE e   == StopEvent(i)
             new == Append(out, e)
             n   == Len(out) + 1
             bs  == [blocks EXCEPT ![i].open = FALSE]
  <1>1. IsBlockEvent(e) /\ e.index = i /\ e.ev = "content_block_stop"
    BY DEF IsBlockEvent, StopEvent
  <1>2. /\ Len(out) \in Nat /\ DOMAIN out = 1 .. Len(out) /\ DOMAIN new = 1 .. (Len(out) + 1)
        /\ \A k \in 1 .. Len(out) : new[k] = out[k]
        /\ new[n] = e
    BY AppendSeq DEF Appended
  <1>3. \A j : /\ j = i => Of(new, j) = Of(out, j) \cup {n}
               /\ j # i => Of(new, j) = Of(out, j)
               /\ \A k \in Of(out, j) : k \in 1 .. Len(out) /\ new[k] = out[k]
    BY <1>1, OneMoreOf
  <1>4. /\ DOMAIN bs = DOMAIN blocks /\ bs[i].open = FALSE
        /\ \A j \in DOMAIN blocks : bs[j].type = blocks[j].type /\ (j # i => bs[j] = blocks[j])
    BY BlocksAre
  <1> HIDE DEF new, e, bs
  <1>5. \A k \in DOMAIN new : IsBlockEvent(new[k]) => new[k].index \in DOMAIN bs
    <2> SUFFICES ASSUME NEW k \in DOMAIN new, IsBlockEvent(new[k])
                 PROVE  new[k].index \in DOMAIN bs
      OBVIOUS
    <2>1. CASE k = n
      BY <1>1, <1>2, <1>4, <2>1
    <2>2. CASE k # n
      BY <1>2, <1>4, <2>2 DEF Bracketed
    <2> QED
      BY <2>1, <2>2
  <1>6. ASSUME NEW j \in DOMAIN bs
        PROVE  /\ Begun(new, j, bs[j].type)
               /\ IF bs[j].open THEN Running(new, j) ELSE Stopped(new, j)
    <2>1. /\ Begun(out, j, blocks[j].type)
          /\ IF blocks[j].open THEN Running(out, j) ELSE Stopped(out, j)
      BY <1>4 DEF Bracketed
    <2>2. CASE j # i
      <3>1. Of(new, j) = Of(out, j) /\ \A k \in Of(out, j) : new[k] = out[k]
        BY <1>3, <2>2
      <3>2. bs[j] = blocks[j]
        BY <1>4, <2>2
      <3>3. Begun(new, j, bs[j].type)
        BY <2>1, <3>1, <3>2 DEF Begun
      <3>4. IF bs[j].open THEN Running(new, j) ELSE Stopped(new, j)
        BY <2>1, <3>1, <3>2 DEF Running, Stopped
      <3> QED
        BY <3>3, <3>4
    <2>3. CASE j = i
      <3>1. Of(new, j) = Of(out, j) \cup {n}
        BY <1>3, <2>3
      <3>2. PICK s \in Of(out, j) :
              /\ out[s].ev = "content_block_start" /\ out[s].type = blocks[j].type
              /\ \A k \in Of(out, j) : k >= s /\ (out[k].ev = "content_block_start" => k = s)
        BY <2>1 DEF Begun
      <3>3. s \in Of(new, j) /\ new[s] = out[s] /\ s \in 1 .. Len(out)
        BY <1>3, <3>1, <3>2
      <3>4. \A k \in Of(new, j) : k >= s /\ (new[k].ev = "content_block_start" => k = s)
        BY <1>1, <1>2, <1>3, <3>1, <3>2, <3>3
      <3>5. Begun(new, j, bs[j].type)
        BY <1>4, <3>2, <3>3, <3>4 DEF Begun
      <3>6. n \in Of(new, j) /\ new[n].ev = "content_block_stop"
        BY <1>1, <1>2, <3>1
      <3>7. \A k \in Of(new, j) : k <= n /\ (new[k].ev = "content_block_stop" => k = n)
        <4>1. Running(out, j)
          BY <2>1, <2>3
        <4> QED
          BY <1>2, <1>3, <3>1, <4>1 DEF Running
      <3>8. Stopped(new, j)
        BY <3>6, <3>7, Zenon DEF Stopped
      <3> QED
        BY <1>4, <2>3, <3>5, <3>8
    <2> QED
      BY <2>2, <2>3
  <1> QED
    BY <1>5, <1>6 DEF Bracketed, new, e, bs

\* A new block starts.
LEMMA StartBrackets ==
    ASSUME NEW blocks \in Seq(Block), NEW out, IsSeq(out), Bracketed(blocks, out),
           NEW type \in BlockTypes,
           NEW e, e.ev = "content_block_start", e.index = Len(blocks) + 1, e.type = type,
           NEW bs, bs = Append(blocks, [type |-> type, open |-> TRUE])
    PROVE  /\ Bracketed(bs, Append(out, e))
           /\ Of(out, Len(blocks) + 1) = {}
  <1> DEFINE new == Append(out, e)
             n   == Len(out) + 1
             i   == Len(blocks) + 1
  <1>1. IsBlockEvent(e) /\ e.index = i
    BY DEF IsBlockEvent
  <1>2. /\ Len(out) \in Nat /\ DOMAIN out = 1 .. Len(out) /\ DOMAIN new = 1 .. (Len(out) + 1)
        /\ \A k \in 1 .. Len(out) : new[k] = out[k]
        /\ new[n] = e
    BY AppendSeq DEF Appended
  <1>3. \A j : /\ j = i => Of(new, j) = Of(out, j) \cup {n}
               /\ j # i => Of(new, j) = Of(out, j)
               /\ \A k \in Of(out, j) : k \in 1 .. Len(out) /\ new[k] = out[k]
    BY <1>1, OneMoreOf
  <1>4. /\ Len(blocks) \in Nat /\ DOMAIN blocks = 1 .. Len(blocks)
        /\ DOMAIN bs = 1 .. (Len(blocks) + 1)
        /\ \A j \in DOMAIN blocks : bs[j] = blocks[j]
        /\ bs[i] = [type |-> type, open |-> TRUE]
    <2>1. [type |-> type, open |-> TRUE] \in Block
      BY DEF Block
    <2> QED
      BY <2>1
  <1>5. Of(out, i) = {}
    <2> SUFFICES ASSUME NEW k \in Of(out, i) PROVE FALSE
      OBVIOUS
    <2>1. i \in DOMAIN blocks
      BY DEF Of, Bracketed
    <2> QED
      BY <1>4, <2>1
  <1> HIDE DEF new
  <1>6. \A k \in DOMAIN new : IsBlockEvent(new[k]) => new[k].index \in DOMAIN bs
    <2> SUFFICES ASSUME NEW k \in DOMAIN new, IsBlockEvent(new[k])
                 PROVE  new[k].index \in DOMAIN bs
      OBVIOUS
    <2>1. CASE k = n
      BY <1>1, <1>2, <1>4, <2>1
    <2>2. CASE k # n
      <3>1. new[k].index \in DOMAIN blocks
        BY <1>2, <2>2 DEF Bracketed
      <3> QED
        BY <1>4, <3>1
    <2> QED
      BY <2>1, <2>2
  <1>7. ASSUME NEW j \in DOMAIN bs
        PROVE  /\ Begun(new, j, bs[j].type)
               /\ IF bs[j].open THEN Running(new, j) ELSE Stopped(new, j)
    <2>1. CASE j # i
      <3>1. j \in DOMAIN blocks
        BY <1>4, <2>1
      <3>2. /\ Begun(out, j, blocks[j].type)
            /\ IF blocks[j].open THEN Running(out, j) ELSE Stopped(out, j)
        BY <3>1 DEF Bracketed
      <3>3. Of(new, j) = Of(out, j) /\ \A k \in Of(out, j) : new[k] = out[k]
        BY <1>3, <2>1
      <3>4. bs[j] = blocks[j]
        BY <1>4, <3>1
      <3>5. Begun(new, j, bs[j].type)
        BY <3>2, <3>3, <3>4 DEF Begun
      <3>6. IF bs[j].open THEN Running(new, j) ELSE Stopped(new, j)
        BY <3>2, <3>3, <3>4 DEF Running, Stopped
      <3> QED
        BY <3>5, <3>6
    <2>2. CASE j = i
      <3>1. Of(new, j) = {n}
        BY <1>3, <1>5, <2>2
      <3>2. n >= n
        BY <1>2
      <3>3. Begun(new, j, type)
        BY <1>2, <3>1, <3>2 DEF Begun
      <3>4. Running(new, j)
        BY <1>2, <3>1 DEF Running
      <3>5. bs[j].type = type /\ bs[j].open
        BY <1>4, <2>2
      <3> HIDE DEF n
      <3> QED
        BY <3>3, <3>4, <3>5
    <2> QED
      BY <2>1, <2>2
  <1> QED
    BY <1>5, <1>6, <1>7 DEF Bracketed, new

-----------------------------------------------------------------------------
(* Signatures, and deltas that say something.                                *)

\* A delta of thinking, and a signature.
Says(e, i) == /\ IsBlockEvent(e) /\ e.index = i /\ e.ev = "content_block_delta"
              /\ e.kind = "thinking" /\ e.data # <<>>

Signs(e, i) == /\ IsBlockEvent(e) /\ e.index = i /\ e.ev = "content_block_delta"
               /\ e.kind = "signature"

LEMMA OneMoreDelta ==
    ASSUME NEW out, IsSeq(out), NEW e, NEW j
    PROVE  /\ Loud(Append(out, e), j) = IF Says(e, j) THEN Loud(out, j) \cup {Len(out) + 1}
                                        ELSE Loud(out, j)
           /\ Signatures(Append(out, e), j) = IF Signs(e, j)
                                              THEN Signatures(out, j) \cup {Len(out) + 1}
                                              ELSE Signatures(out, j)
  <1>0. /\ Of(Append(out, e), j) = IF IsBlockEvent(e) /\ e.index = j
                                   THEN Of(out, j) \cup {Len(out) + 1} ELSE Of(out, j)
        /\ \A k \in Of(out, j) : k \in 1 .. Len(out) /\ Append(out, e)[k] = out[k]
    BY OneMore
  <1> DEFINE new == Append(out, e)
             n   == Len(out) + 1
  <1>1. Of(new, j) = IF IsBlockEvent(e) /\ e.index = j THEN Of(out, j) \cup {n} ELSE Of(out, j)
    BY <1>0
  <1>2. new[n] = e /\ Len(out) \in Nat
    BY AppendSeq DEF Appended
  <1>3. n \notin Of(out, j) /\ \A k \in Of(out, j) : new[k] = out[k]
    BY <1>0, <1>2
  <1> HIDE DEF new, n
  <1>4. \A k : k \in Of(new, j) <=> \/ k \in Of(out, j)
                                    \/ k = n /\ IsBlockEvent(e) /\ e.index = j
    <2>1. CASE IsBlockEvent(e) /\ e.index = j
      BY <1>1, <2>1
    <2>2. CASE ~ (IsBlockEvent(e) /\ e.index = j)
      BY <1>1, <2>2
    <2> QED
      BY <2>1, <2>2
  <1>5. \A k : k \in Loud(new, j) <=> k \in Loud(out, j) \/ (k = n /\ Says(e, j))
    <2>1. \A k \in Of(out, j) : k \in Loud(new, j) <=> k \in Loud(out, j)
      BY <1>3, <1>4, Zenon DEF Loud
    <2>2. n \in Loud(new, j) <=> Says(e, j)
      BY <1>2, <1>3, <1>4, Zenon DEF Loud, Says
    <2>3. \A k : k \in Loud(out, j) => k \in Of(out, j)
      BY Zenon DEF Loud
    <2>4. \A k : k \in Loud(new, j) => k \in Of(out, j) \/ k = n
      <3>1. \A k : k \in Loud(new, j) => k \in Of(new, j)
        BY Zenon DEF Loud
      <3> QED
        BY <1>4, <3>1, Zenon
    <2> TAKE k
    <2>5. CASE k \in Of(out, j)
      BY <1>3, <2>1, <2>5
    <2>6. CASE k = n
      BY <1>3, <2>2, <2>3, <2>6, Zenon
    <2> QED
      BY <2>3, <2>4, <2>5, <2>6, Zenon
  <1>6. \A k : k \in Signatures(new, j) <=> k \in Signatures(out, j) \/ (k = n /\ Signs(e, j))
    <2>1. \A k \in Of(out, j) : k \in Signatures(new, j) <=> k \in Signatures(out, j)
      BY <1>3, <1>4, Zenon DEF Signatures
    <2>2. n \in Signatures(new, j) <=> Signs(e, j)
      BY <1>2, <1>3, <1>4, Zenon DEF Signatures, Signs
    <2>3. \A k : k \in Signatures(out, j) => k \in Of(out, j)
      BY Zenon DEF Signatures
    <2>4. \A k : k \in Signatures(new, j) => k \in Of(out, j) \/ k = n
      <3>1. \A k : k \in Signatures(new, j) => k \in Of(new, j)
        BY Zenon DEF Signatures
      <3> QED
        BY <1>4, <3>1, Zenon
    <2> TAKE k
    <2>5. CASE k \in Of(out, j)
      BY <1>3, <2>1, <2>5
    <2>6. CASE k = n
      BY <1>3, <2>2, <2>3, <2>6, Zenon
    <2> QED
      BY <2>3, <2>4, <2>5, <2>6, Zenon
  <1> HIDE DEF Says, Signs
  <1>7. Loud(new, j) = IF Says(e, j) THEN Loud(out, j) \cup {n} ELSE Loud(out, j)
    <2>1. CASE Says(e, j)
      BY <1>5, <2>1
    <2>2. CASE ~ Says(e, j)
      <3>1. \A k : k \in Loud(new, j) <=> k \in Loud(out, j)
        BY <1>5, <2>2, Zenon
      <3>2. Loud(new, j) = Loud(out, j)
        BY <3>1
      <3> QED
        BY <2>2, <3>2, Zenon
    <2> QED
      BY <2>1, <2>2
  <1>8. Signatures(new, j) = IF Signs(e, j) THEN Signatures(out, j) \cup {n} ELSE Signatures(out, j)
    <2>1. CASE Signs(e, j)
      BY <1>6, <2>1
    <2>2. CASE ~ Signs(e, j)
      <3>1. \A k : k \in Signatures(new, j) <=> k \in Signatures(out, j)
        BY <1>6, <2>2, Zenon
      <3>2. Signatures(new, j) = Signatures(out, j)
        BY <3>1
      <3> QED
        BY <2>2, <3>2, Zenon
    <2> QED
      BY <2>1, <2>2
  <1> QED
    BY <1>7, <1>8 DEF new, n

\* An event that neither says something nor signs.
LEMMA QuietEvent ==
    ASSUME NEW out, IsSeq(out), NEW e,
           \/ e.ev # "content_block_delta"
           \/ e.kind \notin {"thinking", "signature"}
           \/ e.kind = "thinking" /\ e.data = <<>>
    PROVE  \A j : /\ Loud(Append(out, e), j) = Loud(out, j)
                  /\ Signatures(Append(out, e), j) = Signatures(out, j)
  <1> SUFFICES ASSUME NEW j
               PROVE  /\ Loud(Append(out, e), j) = Loud(out, j)
                      /\ Signatures(Append(out, e), j) = Signatures(out, j)
    OBVIOUS
  <1>1. ~ Says(e, j) /\ ~ Signs(e, j)
    BY DEF Says, Signs
  <1> QED
    BY <1>1, OneMoreDelta

LEMMA UnendedAppend ==
    ASSUME NEW out, IsSeq(out), Unended(out),
           NEW e, e.ev \notin {"message_delta", "message_stop", "error"}
    PROVE  Unended(Append(out, e)) /\ IsSeq(Append(out, e))
  <1>1. Appended(out, e, Append(out, e))
    BY AppendSeq
  <1> DEFINE new == Append(out, e)
  <1> HIDE DEF new
  <1>2. Appended(out, e, new)
    BY <1>1 DEF new
  <1>3. ASSUME NEW k \in DOMAIN new
        PROVE  new[k].ev \notin {"message_delta", "message_stop", "error"}
    <2>1. CASE k = Len(out) + 1
      BY <1>2, <2>1 DEF Appended
    <2>2. CASE k # Len(out) + 1
      BY <1>2, <2>2 DEF Appended, Unended
    <2> QED
      BY <2>1, <2>2
  <1> QED
    BY <1>2, <1>3 DEF new, Unended, Appended

\* Where neither the thinking nor what it says and signs has changed, the
\* blocks of thinking are as signed as before.
LEMMA QuietSigned ==
    ASSUME NEW blocks, NEW out, Signed(blocks, out), NEW bs, NEW new,
           DOMAIN out \subseteq DOMAIN new,
           \A i \in DOMAIN bs : bs[i].type = "thinking" =>
              /\ i \in DOMAIN blocks /\ bs[i] = blocks[i]
              /\ Loud(new, i) = Loud(out, i) /\ Signatures(new, i) = Signatures(out, i)
    PROVE  Signed(bs, new)
  BY Zenon DEF Signed

-----------------------------------------------------------------------------
(* The order in which open blocks are stopped.                               *)

LEMMA SetToSeqIs ==
    ASSUME NEW T, IsFiniteSet(T), NEW q, q = SetToSeq(T)
    PROVE  /\ Cardinality(T) \in Nat /\ q \in [1 .. Cardinality(T) -> T]
           /\ \A a, b \in 1 .. Cardinality(T) : q[a] = q[b] => a = b
           /\ \A x \in T : \E a \in 1 .. Cardinality(T) : q[a] = x
  <1> DEFINE n == Cardinality(T)
  <1>1. n \in Nat
    BY FS_CardinalityType
  <1>2. \E f \in [1 .. n -> T] : IsInjective(f)
    <2>1. PICK m \in Nat : ExistsBijection(1 .. m, T)
      BY FS_NatBijection
    <2>2. m = n
      BY <2>1, FS_CountingElements
    <2>3. PICK f \in [1 .. n -> T] : IsInjective(f)
      BY <2>1, <2>2 DEF ExistsBijection, Bijection, Injection
    <2> QED
      BY <2>3
  <1>3. q \in [1 .. n -> T] /\ IsInjective(q)
    BY <1>2 DEF SetToSeq
  <1> HIDE DEF n
  <1>4. \A a, b \in 1 .. n : q[a] = q[b] => a = b
    BY <1>3 DEF IsInjective
  <1>5. q \in Injection(1 .. n, T)
    BY <1>3 DEF Injection
  <1>6. Cardinality(1 .. n) = n
    BY <1>1, FS_Interval
  <1>7. q \in Surjection(1 .. n, T)
    BY <1>5, <1>6, FS_Injection DEF n
  <1>8. \A x \in T : \E a \in 1 .. n : q[a] = x
    BY <1>7 DEF Surjection
  <1> QED
    BY <1>1, <1>3, <1>4, <1>8 DEF n

-----------------------------------------------------------------------------
(* What a step leaves alone of the context, and what a step of text does.    *)

\* The thinking, and what is held in front of it.
Frame(c, d) ==
    /\ DOMAIN d = Fields
    /\ d.thinking = c.thinking /\ d.inThinking = c.inThinking /\ d.extracted = c.extracted
    /\ d.stripNewline = c.stripNewline /\ d.buffer = c.buffer /\ d.xml = c.xml
    /\ d.ended = c.ended

\* Blocks keep their types, those of thinking all they are.
BlocksStay(c, d) ==
    /\ \A i \in DOMAIN d.blocks : d.blocks[i].type = "thinking" =>
          i \in DOMAIN c.blocks /\ d.blocks[i] = c.blocks[i]
    /\ \A i \in DOMAIN c.blocks :
          /\ i \in DOMAIN d.blocks /\ d.blocks[i].type = c.blocks[i].type
          /\ c.blocks[i].type = "thinking" =>
                d.blocks[i] = c.blocks[i] /\ Loud(d.out, i) = Loud(c.out, i)

Still(c, d) == Frame(c, d) /\ BlocksStay(c, d)

Core(c) == Typed(c) /\ Sound(c)

\* What text does: events of other blocks than thinking, with the sniff buffer
\* and the calls' indices as they were.
Moves(c, d) == Core(d) /\ Still(c, d) /\ d.sniff = c.sniff /\ d.toolIndex = c.toolIndex

Same(c, d) == Frame(c, d) /\ d.blocks = c.blocks /\ d.out = c.out

LEMMA SameMoves ==
    ASSUME NEW c, Core(c), NEW d, Same(c, d), d.sniff \in Text
    PROVE  Core(d) /\ Still(c, d)
  <1>1. Typed(d)
    BY DEF Core, Typed, Same, Frame
  <1>2. Sound(d)
    BY DEF Core, Sound, Same, Frame
  <1>3. BlocksStay(c, d)
    BY DEF BlocksStay, Same
  <1> QED
    BY <1>1, <1>2, <1>3 DEF Core, Still, Same

LEMMA StillThen ==
    ASSUME NEW c, NEW d, NEW e, Still(c, d), Still(d, e)
    PROVE  Still(c, e)
  <1>1. Frame(c, e)
    BY DEF Still, Frame
  <1>2. BlocksStay(c, e)
    BY DEF Still, BlocksStay
  <1> QED
    BY <1>1, <1>2 DEF Still

LEMMA MovesThen ==
    ASSUME NEW c, NEW d, NEW e, Moves(c, d), Moves(d, e)
    PROVE  Moves(c, e)
  BY StillThen DEF Moves

LEMMA StaysSo ==
    ASSUME NEW c, Core(c)
    PROVE  Moves(c, c)
  <1>1. Frame(c, c)
    BY DEF Core, Typed, Frame
  <1>2. BlocksStay(c, c)
    BY DEF BlocksStay
  <1> QED
    BY <1>1, <1>2 DEF Moves, Still

\* A context with other blocks and other events.
Reshaped(c, bs, new) == [c EXCEPT !.blocks = bs, !.out = new]

LEMMA ReshapedIs ==
    ASSUME NEW c, DOMAIN c = Fields, NEW bs, NEW new
    PROVE  /\ Frame(c, Reshaped(c, bs, new))
           /\ Reshaped(c, bs, new).blocks = bs /\ Reshaped(c, bs, new).out = new
           /\ Reshaped(c, bs, new).sniff = c.sniff
           /\ Reshaped(c, bs, new).toolIndex = c.toolIndex
  BY DEF Reshaped, Frame, Fields

LEMMA SendIs ==
    ASSUME NEW c, DOMAIN c = Fields, NEW e
    PROVE  /\ Frame(c, Send(c, e)) /\ Send(c, e).blocks = c.blocks
           /\ Send(c, e).out = Append(c.out, e)
           /\ Send(c, e).sniff = c.sniff /\ Send(c, e).toolIndex = c.toolIndex
  BY DEF Frame, Fields, Send

\* The steps that neither start, stop, sign nor say thinking.
LEMMA MovesBy ==
    ASSUME NEW c, Core(c), NEW d, Frame(c, d), d.sniff = c.sniff, d.toolIndex = c.toolIndex,
           d.blocks \in Seq(Block), IsSeq(d.out), Bracketed(d.blocks, d.out), Unended(d.out),
           DOMAIN c.out \subseteq DOMAIN d.out,
           \A i \in DOMAIN c.blocks : i \in DOMAIN d.blocks /\ d.blocks[i].type = c.blocks[i].type,
           \A i \in DOMAIN d.blocks : d.blocks[i].type = "thinking" =>
              /\ i \in DOMAIN c.blocks /\ d.blocks[i] = c.blocks[i],
           \A i : /\ Loud(d.out, i) = Loud(c.out, i)
                  /\ Signatures(d.out, i) = Signatures(c.out, i)
    PROVE  Moves(c, d)
  <1>1. Typed(d)
    BY DEF Core, Typed, Frame
  <1>2. Signed(d.blocks, d.out)
    <2>1. Signed(c.blocks, c.out)
      BY DEF Core, Sound
    <2> QED
      BY <2>1, QuietSigned
  <1>3. Sound(d)
    BY <1>2 DEF Core, Sound, Frame
  <1>4. BlocksStay(c, d)
    BY DEF BlocksStay
  <1> QED
    BY <1>1, <1>3, <1>4 DEF Moves, Core, Still

LEMMA SendDeltaMoves ==
    ASSUME NEW c, Core(c), NEW i, NEW kind, kind \notin {"thinking", "signature"}, NEW data
    PROVE  Moves(c, SendDelta(c, i, kind, data))
  <1> DEFINE e == Delta(i, kind, data)
             d == Send(c, e)
  <1>1. /\ e.ev = "content_block_delta" /\ e.index = i /\ e.kind = kind
    BY DEF Delta
  <1> HIDE DEF e
  <1>2. CASE ~ (i \in DOMAIN c.blocks /\ c.blocks[i].open)
    BY <1>2, StaysSo DEF SendDelta
  <1>3. CASE i \in DOMAIN c.blocks /\ c.blocks[i].open
    <2>1. /\ DOMAIN c = Fields /\ c.blocks \in Seq(Block) /\ IsSeq(c.out)
          /\ Bracketed(c.blocks, c.out) /\ Unended(c.out)
      BY DEF Core, Typed, Sound
    <2>2. /\ Frame(c, d) /\ d.blocks = c.blocks /\ d.out = Append(c.out, e)
          /\ d.sniff = c.sniff /\ d.toolIndex = c.toolIndex
      BY <2>1, SendIs
    <2> HIDE DEF d
    <2>3. Bracketed(d.blocks, d.out)
      BY <1>1, <1>3, <2>1, <2>2, DeltaBrackets
    <2>4. Unended(d.out) /\ IsSeq(d.out)
      BY <1>1, <2>1, <2>2, UnendedAppend
    <2>5. \A j : Loud(d.out, j) = Loud(c.out, j) /\ Signatures(d.out, j) = Signatures(c.out, j)
      BY <1>1, <2>1, <2>2, QuietEvent
    <2>6. DOMAIN c.out \subseteq DOMAIN d.out
      BY <2>1, <2>2, AppendSeq DEF Appended
    <2>7. Moves(c, d)
      BY <2>1, <2>2, <2>3, <2>4, <2>5, <2>6, MovesBy
    <2> QED
      BY <1>3, <2>7 DEF SendDelta, d, e
  <1> QED
    BY <1>2, <1>3

\* The blocks after block i has stopped.
Without(blocks, i) == [blocks EXCEPT ![i].open = FALSE]

LEMMA WithoutIs ==
    ASSUME NEW blocks \in Seq(Block), NEW i \in DOMAIN blocks
    PROVE  /\ Without(blocks, i) \in Seq(Block)
           /\ DOMAIN Without(blocks, i) = DOMAIN blocks
           /\ Without(blocks, i)[i].open = FALSE
           /\ \A j \in DOMAIN blocks :
                 /\ Without(blocks, i)[j].type = blocks[j].type
                 /\ j # i => Without(blocks, i)[j] = blocks[j]
  <1> DEFINE bs == Without(blocks, i)
             b  == [blocks[i] EXCEPT !.open = FALSE]
  <1>1. /\ DOMAIN blocks = 1 .. Len(blocks) /\ Len(blocks) \in Nat
        /\ blocks[i] \in Block
    BY BlocksAre
  <1>2. bs = [blocks EXCEPT ![i] = b]
    BY DEF Without
  <1>3. b \in Block /\ b.open = FALSE /\ b.type = blocks[i].type
    BY <1>1 DEF Block
  <1> HIDE DEF bs, b
  <1>4. bs \in Seq(Block)
    BY <1>1, <1>2, <1>3, ExceptSeq
  <1>5. DOMAIN bs = DOMAIN blocks /\ bs[i] = b
        /\ \A j \in DOMAIN blocks : j # i => bs[j] = blocks[j]
    BY <1>2
  <1>6. \A j \in DOMAIN blocks : bs[j].type = blocks[j].type
    BY <1>3, <1>5
  <1> QED
    BY <1>3, <1>4, <1>5, <1>6 DEF bs

LEMMA StopBlockIs ==
    ASSUME NEW c, DOMAIN c = Fields, NEW i, i \in DOMAIN c.blocks, c.blocks[i].open
    PROVE  StopBlock(c, i) = Reshaped(c, Without(c.blocks, i), Append(c.out, StopEvent(i)))
  BY DEF StopBlock, Send, Fields, Reshaped, Without

LEMMA StopBlockMoves ==
    ASSUME NEW c, Core(c), NEW i, i \in DOMAIN c.blocks => c.blocks[i].type # "thinking"
    PROVE  Moves(c, StopBlock(c, i))
  <1> DEFINE bs  == Without(c.blocks, i)
             e   == StopEvent(i)
             new == Append(c.out, e)
             d   == Reshaped(c, bs, new)
  <1>1. CASE ~ (i \in DOMAIN c.blocks /\ c.blocks[i].open)
    BY <1>1, StaysSo DEF StopBlock
  <1>2. CASE i \in DOMAIN c.blocks /\ c.blocks[i].open
    <2>1. /\ DOMAIN c = Fields /\ c.blocks \in Seq(Block) /\ IsSeq(c.out)
          /\ Bracketed(c.blocks, c.out) /\ Unended(c.out)
      BY DEF Core, Typed, Sound
    <2>3. StopBlock(c, i) = d
      BY <1>2, <2>1, StopBlockIs
    <2>4. e.ev = "content_block_stop" /\ e.index = i
      BY DEF StopEvent
    <2>5. /\ bs \in Seq(Block) /\ DOMAIN bs = DOMAIN c.blocks
          /\ \A j \in DOMAIN bs : bs[j].type = c.blocks[j].type /\ (j # i => bs[j] = c.blocks[j])
      <3>1. /\ bs \in Seq(Block) /\ DOMAIN bs = DOMAIN c.blocks
            /\ \A j \in DOMAIN c.blocks :
                  /\ bs[j].type = c.blocks[j].type
                  /\ j # i => bs[j] = c.blocks[j]
        BY <1>2, <2>1, WithoutIs, Zenon
      <3> QED
        BY <3>1, Zenon
    <2>6. Bracketed(bs, Append(c.out, e))
      BY <1>2, <2>1, StopBrackets DEF Without
    <2> HIDE DEF bs, e
    <2>2. /\ Frame(c, d) /\ d.blocks = bs /\ d.out = Append(c.out, e)
          /\ d.sniff = c.sniff /\ d.toolIndex = c.toolIndex
      <3> HIDE DEF new
      <3>1. DOMAIN c = Fields
        BY <2>1
      <3>2. Frame(c, d) /\ d.blocks = bs /\ d.out = new
          /\ d.sniff = c.sniff /\ d.toolIndex = c.toolIndex
        BY <3>1, ReshapedIs
      <3> QED
        BY <3>2 DEF new
    <2> HIDE DEF d
    <2>7. Unended(d.out) /\ IsSeq(d.out)
      BY <2>1, <2>2, <2>4, UnendedAppend
    <2>8. \A j : Loud(d.out, j) = Loud(c.out, j) /\ Signatures(d.out, j) = Signatures(c.out, j)
      BY <2>1, <2>2, <2>4, QuietEvent
    <2>9. DOMAIN c.out \subseteq DOMAIN d.out
      BY <2>1, <2>2, AppendSeq DEF Appended
    <2>10. Moves(c, d)
      BY <1>2, <2>1, <2>2, <2>5, <2>6, <2>7, <2>8, <2>9, MovesBy
    <2> QED
      BY <2>3, <2>10
  <1> QED
    BY <1>1, <1>2

-----------------------------------------------------------------------------
(* Several blocks are stopped at once.                                       *)

\* The events of the blocks q, in the order of q, sent after out.
Ended(out, q) == out \o [k \in DOMAIN q |-> StopEvent(q[k])]

\* q lists the blocks T, all open, each once.
Lists(q, T, blocks) ==
    /\ \E n \in Nat : q \in [1 .. n -> T]
    /\ \A a, b \in DOMAIN q : q[a] = q[b] => a = b
    /\ \A x \in T : \E a \in DOMAIN q : q[a] = x
    /\ \A x \in T : x \in DOMAIN blocks /\ blocks[x].open

LEMMA EndedIs ==
    ASSUME NEW out, IsSeq(out), NEW T, NEW q, NEW blocks, Lists(q, T, blocks)
    PROVE  /\ IsSeq(Ended(out, q)) /\ Len(out) \in Nat
           /\ DOMAIN out = 1 .. Len(out) /\ DOMAIN out \subseteq DOMAIN Ended(out, q)
           /\ \A k \in DOMAIN out : Ended(out, q)[k] = out[k]
           /\ \A a \in DOMAIN q : /\ a \in Nat \ {0}
                                  /\ Len(out) + a \in DOMAIN Ended(out, q)
                                  /\ Ended(out, q)[Len(out) + a] = StopEvent(q[a])
           /\ \A k \in DOMAIN Ended(out, q) :
                 \/ k \in DOMAIN out
                 \/ \E a \in DOMAIN q : k = Len(out) + a
  <1> DEFINE s   == [k \in DOMAIN q |-> StopEvent(q[k])]
             new == Ended(out, q)
  <1>1. PICK n \in Nat : q \in [1 .. n -> T]
    BY DEF Lists
  <1>2. DOMAIN q = 1 .. n
    BY <1>1
  <1>3. /\ s \in Seq({StopEvent(q[k]) : k \in 1 .. n})
        /\ Len(s) = n /\ \A k \in 1 .. n : s[k] = StopEvent(q[k])
    BY <1>2
  <1>4. IsSeq(s)
    BY <1>3, SeqIsSeq
  <1> HIDE DEF s
  <1>5. new = out \o s
    BY DEF Ended, s
  <1> HIDE DEF new
  <1>6. /\ IsSeq(new) /\ Len(out) \in Nat
        /\ DOMAIN out = 1 .. Len(out) /\ DOMAIN new = 1 .. (Len(out) + n)
        /\ \A k \in 1 .. Len(out) : new[k] = out[k]
        /\ \A k \in 1 .. n : new[Len(out) + k] = s[k]
    <2>1. /\ IsSeq(new) /\ Len(out) \in Nat /\ Len(new) = Len(out) + Len(s)
          /\ DOMAIN out = 1 .. Len(out) /\ DOMAIN new = 1 .. (Len(out) + Len(s))
          /\ \A k \in 1 .. Len(out) : new[k] = out[k]
          /\ \A k \in 1 .. Len(s) : new[Len(out) + k] = s[k]
      <3>1. Concats(out, s, out \o s)
        BY <1>4, ConcatSeq, Zenon
      <3> QED
        BY <1>5, <3>1 DEF Concats
    <2> QED
      BY <1>3, <2>1, Zenon
  <1>7. DOMAIN out \subseteq DOMAIN new /\ \A k \in DOMAIN out : new[k] = out[k]
    BY <1>6
  <1>8. ASSUME NEW a \in DOMAIN q
        PROVE  /\ a \in Nat \ {0} /\ Len(out) + a \in DOMAIN new
               /\ new[Len(out) + a] = StopEvent(q[a])
    <2>1. a \in 1 .. n
      BY <1>2
    <2>2. Len(out) + a \in 1 .. (Len(out) + n) /\ a \in Nat \ {0}
      BY <1>6, <2>1
    <2>3. new[Len(out) + a] = s[a]
      BY <1>6, <2>1
    <2> QED
      BY <1>3, <1>6, <2>1, <2>2, <2>3
  <1>9. ASSUME NEW k \in DOMAIN new, k \notin DOMAIN out
        PROVE  \E a \in DOMAIN q : k = Len(out) + a
    <2>1. k - Len(out) \in 1 .. n /\ k = Len(out) + (k - Len(out))
      BY <1>6, <1>9
    <2> QED
      BY <1>2, <2>1
  <1> QED
    BY <1>6, <1>7, <1>8, <1>9 DEF new

LEMMA EndedOf ==
    ASSUME NEW out, IsSeq(out), NEW T, NEW q, NEW blocks, Lists(q, T, blocks), NEW j
    PROVE  /\ \A k \in Of(out, j) : Ended(out, q)[k] = out[k]
           /\ j \notin T => Of(Ended(out, q), j) = Of(out, j)
           /\ j \in T => \E t : /\ Of(Ended(out, q), j) = Of(out, j) \cup {t}
                                /\ t \notin Of(out, j)
                                /\ Ended(out, q)[t].ev = "content_block_stop"
                                /\ \A k \in Of(out, j) : k <= t
  <1> DEFINE new == Ended(out, q)
  <1>1. /\ Len(out) \in Nat
        /\ DOMAIN out = 1 .. Len(out) /\ DOMAIN out \subseteq DOMAIN new
        /\ \A k \in DOMAIN out : new[k] = out[k]
        /\ \A a \in DOMAIN q : /\ a \in Nat \ {0} /\ Len(out) + a \in DOMAIN new
                               /\ new[Len(out) + a] = StopEvent(q[a])
        /\ \A k \in DOMAIN new : k \in DOMAIN out \/ \E a \in DOMAIN q : k = Len(out) + a
    BY EndedIs
  <1> HIDE DEF new
  <1>2. \A a \in DOMAIN q : StopEvent(q[a]).ev = "content_block_stop"
                            /\ StopEvent(q[a]).index = q[a] /\ IsBlockEvent(StopEvent(q[a]))
    BY DEF StopEvent, IsBlockEvent
  <1>3. /\ \A a, b \in DOMAIN q : q[a] = q[b] => a = b
        /\ \A x \in T : \E a \in DOMAIN q : q[a] = x
        /\ \A a \in DOMAIN q : q[a] \in T
    BY DEF Lists
  <1>4. \A k \in Of(out, j) : k \in DOMAIN out /\ new[k] = out[k]
    BY <1>1 DEF Of
  <1>5. \A k \in DOMAIN out : k \in Of(new, j) <=> k \in Of(out, j)
    BY <1>1 DEF Of, IsBlockEvent
  <1>6. \A a \in DOMAIN q : Len(out) + a \in Of(new, j) <=> q[a] = j
    BY <1>1, <1>2 DEF Of
  <1>7. \A k \in Of(new, j) : k \in Of(out, j) \/ \E a \in DOMAIN q : k = Len(out) + a /\ q[a] = j
    <2> SUFFICES ASSUME NEW k \in Of(new, j)
                 PROVE  k \in Of(out, j) \/ \E a \in DOMAIN q : k = Len(out) + a /\ q[a] = j
      OBVIOUS
    <2>1. k \in DOMAIN new
      BY DEF Of
    <2> QED
      BY <1>1, <1>5, <1>6, <2>1
  <1>8. ASSUME j \notin T PROVE Of(new, j) = Of(out, j)
    <2>1. \A k \in Of(new, j) : k \in Of(out, j)
      BY <1>3, <1>7, <1>8
    <2>2. \A k \in Of(out, j) : k \in Of(new, j)
      BY <1>4, <1>5
    <2> QED
      BY <2>1, <2>2
  <1>9. ASSUME j \in T
        PROVE  \E t : /\ Of(new, j) = Of(out, j) \cup {t} /\ t \notin Of(out, j)
                      /\ new[t].ev = "content_block_stop"
                      /\ \A k \in Of(out, j) : k <= t
    <2>1. PICK a \in DOMAIN q : q[a] = j
      BY <1>3, <1>9
    <2> DEFINE t == Len(out) + a
    <2>2. t \in Of(new, j) /\ new[t].ev = "content_block_stop"
      BY <1>1, <1>2, <1>6, <2>1
    <2>3. \A k \in Of(out, j) : k <= t /\ k # t /\ k \in Of(new, j)
      BY <1>1, <1>4, <1>5, <2>1
    <2>4. \A k \in Of(new, j) : k \in Of(out, j) \/ k = t
      BY <1>3, <1>7, <2>1
    <2> HIDE DEF t
    <2>5. Of(new, j) = Of(out, j) \cup {t}
      BY <2>2, <2>3, <2>4
    <2> QED
      BY <2>2, <2>3, <2>5
  <1> QED
    BY <1>4, <1>8, <1>9 DEF new

LEMMA EndedBrackets ==
    ASSUME NEW out, IsSeq(out), NEW T, NEW q, NEW blocks, Lists(q, T, blocks),
           Bracketed(blocks, out), Unended(out), NEW bs, DOMAIN bs = DOMAIN blocks,
           \A j \in DOMAIN blocks : /\ bs[j].type = blocks[j].type
                                    /\ j \in T => ~ bs[j].open
                                    /\ j \notin T => bs[j].open = blocks[j].open
    PROVE  /\ Bracketed(bs, Ended(out, q)) /\ Unended(Ended(out, q))
           /\ \A j : /\ Loud(Ended(out, q), j) = Loud(out, j)
                     /\ Signatures(Ended(out, q), j) = Signatures(out, j)
  <1> DEFINE new == Ended(out, q)
  <1>1. /\ DOMAIN out \subseteq DOMAIN new
        /\ \A k \in DOMAIN out : new[k] = out[k]
        /\ \A a \in DOMAIN q : new[Len(out) + a] = StopEvent(q[a])
        /\ \A k \in DOMAIN new : k \in DOMAIN out \/ \E a \in DOMAIN q : k = Len(out) + a
    BY EndedIs
  <1>2. ASSUME NEW j
        PROVE  /\ \A k \in Of(out, j) : new[k] = out[k]
               /\ j \notin T => Of(new, j) = Of(out, j)
               /\ j \in T => \E t : /\ Of(new, j) = Of(out, j) \cup {t} /\ t \notin Of(out, j)
                                    /\ new[t].ev = "content_block_stop"
                                    /\ \A k \in Of(out, j) : k <= t
    BY EndedOf
  <1> HIDE DEF new
  <1>3. \A a \in DOMAIN q : StopEvent(q[a]).ev = "content_block_stop"
                            /\ StopEvent(q[a]).index = q[a]
    BY DEF StopEvent
  <1>4. \A a \in DOMAIN q : q[a] \in T /\ q[a] \in DOMAIN blocks /\ blocks[q[a]].open
    BY DEF Lists
  <1>5. Unended(new)
    <2> SUFFICES ASSUME NEW k \in DOMAIN new
                 PROVE  new[k].ev \notin {"message_delta", "message_stop", "error"}
      BY DEF Unended
    <2> QED
      BY <1>1, <1>3 DEF Unended
  <1>6. \A k \in DOMAIN new : IsBlockEvent(new[k]) => new[k].index \in DOMAIN bs
    <2> SUFFICES ASSUME NEW k \in DOMAIN new, IsBlockEvent(new[k])
                 PROVE  new[k].index \in DOMAIN blocks
      OBVIOUS
    <2>1. CASE k \in DOMAIN out
      BY <1>1, <2>1 DEF Bracketed
    <2>2. CASE k \notin DOMAIN out
      BY <1>1, <1>3, <1>4, <2>2
    <2> QED
      BY <2>1, <2>2
  <1>7. ASSUME NEW j \in DOMAIN bs
        PROVE  /\ Begun(new, j, bs[j].type)
               /\ IF bs[j].open THEN Running(new, j) ELSE Stopped(new, j)
    <2>1. /\ Begun(out, j, blocks[j].type)
          /\ IF blocks[j].open THEN Running(out, j) ELSE Stopped(out, j)
      BY DEF Bracketed
    <2>2. \A k \in Of(out, j) : new[k] = out[k]
      BY <1>2
    <2>3. CASE j \notin T
      <3>1. Of(new, j) = Of(out, j)
        BY <1>2, <2>3
      <3>2. Begun(new, j, bs[j].type)
        BY <2>1, <2>2, <3>1 DEF Begun
      <3>3. bs[j].open = blocks[j].open
        BY <2>3
      <3>4. IF blocks[j].open THEN Running(new, j) ELSE Stopped(new, j)
        BY <2>1, <2>2, <3>1 DEF Running, Stopped
      <3> QED
        BY <3>2, <3>3, <3>4
    <2>4. CASE j \in T
      <3>1. PICK t : /\ Of(new, j) = Of(out, j) \cup {t} /\ t \notin Of(out, j)
                     /\ new[t].ev = "content_block_stop"
                     /\ \A k \in Of(out, j) : k <= t
        BY <1>2, <2>4
      <3>2. PICK s \in Of(out, j) :
              /\ out[s].ev = "content_block_start" /\ out[s].type = blocks[j].type
              /\ \A k \in Of(out, j) : k >= s /\ (out[k].ev = "content_block_start" => k = s)
        BY <2>1 DEF Begun
      <3>3. s \in Of(new, j) /\ new[s] = out[s]
        BY <2>2, <3>1, <3>2
      <3>4. t >= s /\ t <= t
        <4>1. s <= t /\ s \in Nat /\ t \in Nat
          <5>1. s \in DOMAIN out /\ t \in DOMAIN new
            BY <3>1, <3>2 DEF Of
          <5>2. IsSeq(new)
            BY EndedIs DEF new
          <5>3. DOMAIN out = 1 .. Len(out) /\ DOMAIN new = 1 .. Len(new) /\ Len(new) \in Nat
                /\ Len(out) \in Nat
            BY <5>2, IsSeqFacts
          <5> QED
            BY <3>1, <3>2, <5>1, <5>3
        <4> QED
          BY <4>1
      <3>5. \A k \in Of(new, j) : k >= s /\ (new[k].ev = "content_block_start" => k = s)
        BY <2>2, <3>1, <3>2, <3>4
      <3>6. Begun(new, j, bs[j].type)
        BY <3>2, <3>3, <3>5 DEF Begun
      <3>7. Running(out, j) /\ ~ bs[j].open
        BY <2>1, <2>4 DEF Lists
      <3>8. \A k \in Of(new, j) : k <= t /\ (new[k].ev = "content_block_stop" => k = t)
        BY <2>2, <3>1, <3>4, <3>7 DEF Running
      <3>9. t \in Of(new, j)
        BY <3>1
      <3>10. Stopped(new, j)
        BY <3>1, <3>8, <3>9 DEF Stopped
      <3> QED
        BY <3>6, <3>7, <3>10
    <2> QED
      BY <2>3, <2>4
  <1>8. ASSUME NEW j
        PROVE  Loud(new, j) = Loud(out, j) /\ Signatures(new, j) = Signatures(out, j)
    <2>1. \A k \in Of(out, j) : new[k] = out[k]
      BY <1>2
    <2>2. \A k \in Of(out, j) : k \in Of(new, j)
      BY <1>2
    <2>3. \A k \in Of(new, j) : k \in Of(out, j) \/ new[k].ev = "content_block_stop"
      BY <1>2
    <2> QED
      BY <2>1, <2>2, <2>3 DEF Loud, Signatures
  <1>9. Bracketed(bs, new)
    BY <1>6, <1>7 DEF Bracketed
  <1> QED
    BY <1>5, <1>8, <1>9 DEF new

\* The blocks after the open ones of these types have stopped.
Closed(blocks, types) ==
    [i \in DOMAIN blocks |-> [type |-> blocks[i].type,
                              open |-> blocks[i].open /\ blocks[i].type \notin types]]

OpenOf(blocks, types) == {i \in DOMAIN blocks : blocks[i].open /\ blocks[i].type \in types}

LEMMA ClosedIs ==
    ASSUME NEW blocks \in Seq(Block), NEW types
    PROVE  /\ Closed(blocks, types) \in Seq(Block)
           /\ DOMAIN Closed(blocks, types) = DOMAIN blocks
           /\ \A j \in DOMAIN blocks :
                 /\ Closed(blocks, types)[j].type = blocks[j].type
                 /\ j \in OpenOf(blocks, types) => ~ Closed(blocks, types)[j].open
                 /\ j \notin OpenOf(blocks, types) => Closed(blocks, types)[j] = blocks[j]
  <1> DEFINE bs == Closed(blocks, types)
  <1>1. Len(blocks) \in Nat /\ DOMAIN blocks = 1 .. Len(blocks) /\ DOMAIN bs = DOMAIN blocks
    BY BlocksAre DEF Closed
  <1>2. ASSUME NEW j \in DOMAIN blocks
        PROVE  /\ bs[j] \in Block /\ bs[j].type = blocks[j].type
               /\ bs[j].open = (blocks[j].open /\ blocks[j].type \notin types)
    <2>1. blocks[j] \in Block
      BY BlocksAre
    <2>2. bs[j] = [type |-> blocks[j].type,
                   open |-> blocks[j].open /\ blocks[j].type \notin types]
      BY DEF Closed
    <2> QED
      BY <2>1, <2>2 DEF Block
  <1> HIDE DEF bs
  <1>3. bs \in Seq(Block)
    <2>1. bs = [j \in 1 .. Len(blocks) |-> bs[j]]
      BY <1>1 DEF bs, Closed
    <2>2. bs \in [1 .. Len(blocks) -> Block]
      BY <1>1, <1>2, <2>1
    <2> QED
      BY <1>1, <2>2
  <1>4. ASSUME NEW j \in DOMAIN blocks, j \notin OpenOf(blocks, types)
        PROVE  bs[j] = blocks[j]
    <2>1. /\ bs[j] = [type |-> bs[j].type, open |-> bs[j].open]
          /\ blocks[j] = [type |-> blocks[j].type, open |-> blocks[j].open]
          /\ blocks[j].open \in BOOLEAN
      BY <1>1, <1>3, BlocksAre
    <2>2. bs[j].open = blocks[j].open
      BY <1>2, <1>4, <2>1 DEF OpenOf
    <2>3. bs[j].type = blocks[j].type
      BY <1>2
    <2> QED
      BY <2>1, <2>2, <2>3, Zenon
  <1>5. ASSUME NEW j \in DOMAIN blocks, j \in OpenOf(blocks, types)
        PROVE  ~ bs[j].open
    BY <1>2, <1>5 DEF OpenOf
  <1> QED
    BY <1>1, <1>2, <1>3, <1>4, <1>5 DEF bs

LEMMA StopAllIs ==
    ASSUME NEW c, DOMAIN c = Fields, NEW types
    PROVE  StopAll(c, types) = Reshaped(c, Closed(c.blocks, types),
                                        Ended(c.out, SetToSeq(OpenOf(c.blocks, types))))
  BY Zenon DEF StopAll, Reshaped, Closed, Ended, OpenOf

\* d is c after its open blocks of these types have stopped.
StopsAll(c, d, types) ==
    /\ Frame(c, d) /\ d.sniff = c.sniff /\ d.toolIndex = c.toolIndex
    /\ d.blocks \in Seq(Block) /\ IsSeq(d.out)
    /\ Bracketed(d.blocks, d.out) /\ Unended(d.out)
    /\ DOMAIN c.out \subseteq DOMAIN d.out
    /\ \A i : Loud(d.out, i) = Loud(c.out, i) /\ Signatures(d.out, i) = Signatures(c.out, i)
    /\ DOMAIN d.blocks = DOMAIN c.blocks
    /\ \A i \in DOMAIN c.blocks :
          /\ d.blocks[i].type = c.blocks[i].type
          /\ c.blocks[i].type \in types => ~ d.blocks[i].open
          /\ c.blocks[i].type \notin types => d.blocks[i] = c.blocks[i]

LEMMA StopAllKeeps ==
    ASSUME NEW c, DOMAIN c = Fields, c.blocks \in Seq(Block), IsSeq(c.out),
           Bracketed(c.blocks, c.out), Unended(c.out), NEW types
    PROVE  StopsAll(c, StopAll(c, types), types)
  <1> DEFINE d  == StopAll(c, types)
             T  == OpenOf(c.blocks, types)
             q  == SetToSeq(T)
             bs == Closed(c.blocks, types)
             new == Ended(c.out, q)
  <1>1. /\ DOMAIN c = Fields /\ c.blocks \in Seq(Block) /\ IsSeq(c.out)
        /\ Bracketed(c.blocks, c.out) /\ Unended(c.out)
    OBVIOUS
  <1>2. /\ Frame(c, d) /\ d.sniff = c.sniff /\ d.toolIndex = c.toolIndex
        /\ d.blocks = bs /\ d.out = new
    <2>1. DOMAIN c = Fields
      BY <1>1
    <2>2. d = Reshaped(c, bs, new)
      BY <2>1, StopAllIs
    <2> HIDE DEF d, bs, new
    <2> QED
      BY <2>1, <2>2, ReshapedIs
  <1>3. Lists(q, T, c.blocks)
    <2>1. IsFiniteSet(T)
      <3>1. T \subseteq 1 .. Len(c.blocks) /\ Len(c.blocks) \in Nat
        BY <1>1, BlocksAre DEF OpenOf
      <3>2. IsFiniteSet(1 .. Len(c.blocks))
        BY <3>1, FS_Interval
      <3> QED
        BY <3>1, <3>2, FS_Subset
    <2>2. /\ Cardinality(T) \in Nat /\ q \in [1 .. Cardinality(T) -> T]
          /\ \A a, b \in 1 .. Cardinality(T) : q[a] = q[b] => a = b
          /\ \A x \in T : \E a \in 1 .. Cardinality(T) : q[a] = x
      BY <2>1, SetToSeqIs
    <2>3. \A x \in T : x \in DOMAIN c.blocks /\ c.blocks[x].open
      BY DEF OpenOf
    <2> HIDE DEF q, T
    <2> QED
      BY <2>2, <2>3 DEF Lists
  <1>4. /\ bs \in Seq(Block) /\ DOMAIN bs = DOMAIN c.blocks
        /\ \A j \in DOMAIN c.blocks :
                 /\ bs[j].type = c.blocks[j].type
                 /\ j \in T => ~ bs[j].open
                 /\ j \notin T => bs[j] = c.blocks[j]
    BY <1>1, ClosedIs
  <1> HIDE DEF d, T, q, bs
  <1>5. IsSeq(new) /\ DOMAIN c.out \subseteq DOMAIN new
    BY <1>1, <1>3, EndedIs
  <1>6. /\ Bracketed(bs, new) /\ Unended(new)
        /\ \A j : Loud(new, j) = Loud(c.out, j) /\ Signatures(new, j) = Signatures(c.out, j)
    BY <1>1, <1>3, <1>4, EndedBrackets
  <1>7. ASSUME NEW i \in DOMAIN c.blocks
        PROVE  /\ c.blocks[i].type \in types => ~ bs[i].open
               /\ c.blocks[i].type \notin types => bs[i] = c.blocks[i]
    BY <1>4 DEF T, OpenOf
  <1> HIDE DEF new
  <1> QED
    BY <1>2, <1>4, <1>5, <1>6, <1>7 DEF d, StopsAll

LEMMA StopAllMoves ==
    ASSUME NEW c, Core(c), NEW types, "thinking" \notin types
    PROVE  /\ Moves(c, StopAll(c, types))
           /\ DOMAIN StopAll(c, types).blocks = DOMAIN c.blocks
  <1> DEFINE d == StopAll(c, types)
  <1>0. /\ DOMAIN c = Fields /\ c.blocks \in Seq(Block) /\ IsSeq(c.out)
        /\ Bracketed(c.blocks, c.out) /\ Unended(c.out)
    BY DEF Core, Typed, Sound
  <1>1. /\ Frame(c, d) /\ d.sniff = c.sniff /\ d.toolIndex = c.toolIndex
        /\ d.blocks \in Seq(Block) /\ IsSeq(d.out)
        /\ Bracketed(d.blocks, d.out) /\ Unended(d.out)
        /\ DOMAIN c.out \subseteq DOMAIN d.out
        /\ \A i : Loud(d.out, i) = Loud(c.out, i) /\ Signatures(d.out, i) = Signatures(c.out, i)
        /\ DOMAIN d.blocks = DOMAIN c.blocks
        /\ \A i \in DOMAIN c.blocks :
              /\ d.blocks[i].type = c.blocks[i].type
              /\ c.blocks[i].type \notin types => d.blocks[i] = c.blocks[i]
    <2>1. StopsAll(c, d, types)
      BY <1>0, StopAllKeeps, Zenon
    <2> HIDE DEF d
    <2> QED
      BY <2>1 DEF StopsAll
  <1> HIDE DEF d
  <1>2. \A i \in DOMAIN d.blocks : d.blocks[i].type = "thinking" =>
           /\ i \in DOMAIN c.blocks /\ d.blocks[i] = c.blocks[i]
    BY <1>1
  <1>3. Moves(c, d)
    BY <1>1, <1>2, MovesBy
  <1> QED
    BY <1>1, <1>3 DEF d

-----------------------------------------------------------------------------
(* A block starts.                                                           *)

\* The block that is added, and its event.
Fresh(type) == [type |-> type, open |-> TRUE]

StartEvent(i, type, id) ==
    [ev |-> "content_block_start", index |-> i, type |-> type, id |-> id]

\* d is c with one block of this type more.
Begins(c, d, type) ==
    /\ Core(d) /\ Frame(c, d) /\ d.sniff = c.sniff /\ d.toolIndex = c.toolIndex
    /\ Len(c.blocks) \in Nat /\ DOMAIN d.blocks = 1 .. (Len(c.blocks) + 1)
    /\ DOMAIN c.blocks = 1 .. Len(c.blocks)
    /\ d.blocks[Len(c.blocks) + 1] = Fresh(type)
    /\ \A i \in DOMAIN c.blocks : d.blocks[i] = c.blocks[i]
    /\ \A i : Loud(d.out, i) = Loud(c.out, i)
    /\ Loud(d.out, Len(c.blocks) + 1) = {}

LEMMA AddBlock ==
    ASSUME NEW c, Core(c), NEW type \in BlockTypes, NEW id
    PROVE  Begins(c, Reshaped(c, Append(c.blocks, Fresh(type)),
                              Append(c.out, StartEvent(Len(c.blocks) + 1, type, id))), type)
  <1> DEFINE n   == Len(c.blocks) + 1
             e   == StartEvent(n, type, id)
             bs  == Append(c.blocks, Fresh(type))
             new == Append(c.out, e)
             d   == Reshaped(c, bs, new)
  <1>1. /\ DOMAIN c = Fields /\ c.blocks \in Seq(Block) /\ IsSeq(c.out)
        /\ Bracketed(c.blocks, c.out) /\ Unended(c.out) /\ Signed(c.blocks, c.out)
    BY DEF Core, Typed, Sound
  <1>2. e.ev = "content_block_start" /\ e.index = n /\ e.type = type
    BY DEF StartEvent
  <1>3. Fresh(type) \in Block
    BY DEF Fresh, Block
  <1>4. /\ bs \in Seq(Block) /\ Len(c.blocks) \in Nat /\ DOMAIN c.blocks = 1 .. Len(c.blocks)
        /\ DOMAIN bs = 1 .. n /\ bs[n] = Fresh(type)
        /\ \A i \in DOMAIN c.blocks : bs[i] = c.blocks[i]
    <2>1. c.blocks \in Seq(Block)
      BY <1>1
    <2> QED
      BY <1>3, <2>1, AppendProperties
  <1> HIDE DEF e
  <1>5. Bracketed(bs, new) /\ Of(c.out, n) = {}
    <2>1. bs = Append(c.blocks, [type |-> type, open |-> TRUE])
      BY DEF Fresh
    <2> HIDE DEF bs
    <2> QED
      BY <1>1, <1>2, <2>1, StartBrackets
  <1>6. \A j : Loud(new, j) = Loud(c.out, j) /\ Signatures(new, j) = Signatures(c.out, j)
    BY <1>1, <1>2, QuietEvent
  <1>7. Unended(new) /\ IsSeq(new)
    BY <1>1, <1>2, UnendedAppend
  <1>8. DOMAIN c.out \subseteq DOMAIN new
    BY <1>1, AppendSeq DEF Appended
  <1>9. Loud(new, n) = {} /\ Signatures(new, n) = {}
    <2>1. Loud(c.out, n) = {} /\ Signatures(c.out, n) = {}
      BY <1>5 DEF Loud, Signatures
    <2> QED
      BY <1>6, <2>1
  <1> HIDE DEF bs, new
  <1>10. /\ Frame(c, d) /\ d.blocks = bs /\ d.out = new
         /\ d.sniff = c.sniff /\ d.toolIndex = c.toolIndex
    <2>1. DOMAIN c = Fields
      BY <1>1
    <2> QED
      BY <2>1, ReshapedIs
  <1> HIDE DEF d
  <1>11. Signed(bs, new)
    <2> SUFFICES ASSUME NEW i \in DOMAIN bs, bs[i].type = "thinking"
                 PROVE  IF bs[i].open THEN Signatures(new, i) = {}
                        ELSE \/ Loud(new, i) = {}
                             \/ \E k \in DOMAIN new : Signatures(new, i) = {k}
      BY DEF Signed
    <2>1. CASE i = n
      BY <1>4, <1>9, <2>1 DEF Fresh
    <2>2. CASE i # n
      <3>1. i \in DOMAIN c.blocks /\ bs[i] = c.blocks[i]
        BY <1>4, <2>2
      <3>2. IF bs[i].open THEN Signatures(c.out, i) = {}
            ELSE Loud(c.out, i) = {} \/ \E k \in DOMAIN c.out : Signatures(c.out, i) = {k}
        BY <1>1, <3>1 DEF Signed
      <3> QED
        BY <1>6, <1>8, <3>2
    <2> QED
      BY <2>1, <2>2
  <1>12. Typed(d)
    BY <1>4, <1>7, <1>10 DEF Core, Typed, Frame
  <1>13. Sound(d)
    BY <1>5, <1>7, <1>10, <1>11 DEF Core, Sound, Frame
  <1> QED
    BY <1>4, <1>6, <1>9, <1>10, <1>12, <1>13 DEF Begins, Core, d, bs, new, e

LEMMA BeginsMoves ==
    ASSUME NEW c, NEW d, NEW type, type # "thinking", Begins(c, d, type)
    PROVE  Moves(c, d)
  <1>1. ASSUME NEW i \in DOMAIN d.blocks, d.blocks[i].type = "thinking"
        PROVE  i \in DOMAIN c.blocks /\ d.blocks[i] = c.blocks[i]
    <2>1. i # Len(c.blocks) + 1
      BY <1>1 DEF Begins, Fresh
    <2> QED
      BY <1>1, <2>1 DEF Begins
  <1>2. ASSUME NEW i \in DOMAIN c.blocks
        PROVE  /\ i \in DOMAIN d.blocks /\ d.blocks[i] = c.blocks[i]
               /\ Loud(d.out, i) = Loud(c.out, i)
    BY <1>2 DEF Begins
  <1>3. BlocksStay(c, d)
    BY <1>1, <1>2, Zenon DEF BlocksStay
  <1> QED
    BY <1>3 DEF Moves, Begins, Still

LEMMA StartBlockIs ==
    ASSUME NEW c, Core(c), NEW type \in BlockTypes, type # "tool_use", NEW id
    PROVE  Begins(c, StartBlock(c, type, id), type)
  <1>1. DOMAIN c = Fields
    BY DEF Core, Typed
  <1>2. StartBlock(c, type, id)
          = Reshaped(c, Append(c.blocks, Fresh(type)),
                     Append(c.out, StartEvent(Len(c.blocks) + 1, type, id)))
    BY <1>1 DEF StartBlock, Send, Reshaped, Fresh, StartEvent, Fields
  <1> QED
    BY <1>2, AddBlock

\* A tool call stops the text before it.
LEMMA StartToolMoves ==
    ASSUME NEW c, Core(c), NEW id
    PROVE  LET d == StartBlock(c, "tool_use", id) IN
           /\ Moves(c, d)
           /\ Len(c.blocks) + 1 \in DOMAIN d.blocks
           /\ d.blocks[Len(c.blocks) + 1].type = "tool_use"
  <1> DEFINE b == [c EXCEPT !.hasTool = TRUE]
             s == StopAll(b, {"text"})
             d == Reshaped(s, Append(s.blocks, Fresh("tool_use")),
                           Append(s.out, StartEvent(Len(s.blocks) + 1, "tool_use", id)))
  <1>1. DOMAIN c = Fields /\ c.blocks \in Seq(Block)
    BY DEF Core, Typed
  <1>2. Same(c, b) /\ b.sniff = c.sniff /\ b.toolIndex = c.toolIndex
    BY <1>1 DEF Same, Frame, Fields
  <1>3. c.sniff \in Text
    BY DEF Core, Typed
  <1> HIDE DEF b
  <1>4. Moves(c, b)
    BY <1>2, <1>3, SameMoves DEF Moves
  <1>5. Moves(b, s) /\ DOMAIN s.blocks = DOMAIN b.blocks
    BY <1>4, StopAllMoves DEF Moves
  <1>6. DOMAIN s = Fields /\ Len(s.blocks) = Len(c.blocks) /\ Core(s)
    <2>1. s.blocks \in Seq(Block) /\ b.blocks \in Seq(Block) /\ DOMAIN s = Fields /\ Core(s)
      BY <1>4, <1>5 DEF Moves, Core, Typed
    <2>2. /\ Len(s.blocks) \in Nat /\ DOMAIN s.blocks = 1 .. Len(s.blocks)
          /\ Len(b.blocks) \in Nat /\ DOMAIN b.blocks = 1 .. Len(b.blocks)
      BY <2>1, BlocksAre
    <2>3. Len(s.blocks) = Len(b.blocks)
      <3> HIDE DEF s
      <3> QED
        BY <1>5, <2>2, SameLength
    <2> QED
      BY <1>2, <2>1, <2>3 DEF Same
  <1>7. StartBlock(c, "tool_use", id) = d
    <2>1. StartBlock(c, "tool_use", id)
            = Send([s EXCEPT !.blocks = Append(@, Fresh("tool_use"))],
                   StartEvent(Len(c.blocks) + 1, "tool_use", id))
      BY Zenon DEF StartBlock, b, Fresh, StartEvent
    <2> HIDE DEF s
    <2>2. Send([s EXCEPT !.blocks = Append(@, Fresh("tool_use"))],
               StartEvent(Len(c.blocks) + 1, "tool_use", id)) = d
      BY <1>6 DEF Send, Reshaped, Fields
    <2> QED
      BY <2>1, <2>2
  <1> HIDE DEF s
  <1>8. Begins(s, d, "tool_use")
    BY <1>6, AddBlock DEF BlockTypes
  <1> HIDE DEF d
  <1>9. Moves(s, d)
    BY <1>8, BeginsMoves
  <1>10. Moves(c, d)
    BY <1>4, <1>5, <1>9, MovesThen
  <1>11. Len(c.blocks) + 1 \in DOMAIN d.blocks /\ d.blocks[Len(c.blocks) + 1].type = "tool_use"
    <2>1. /\ Len(s.blocks) \in Nat /\ DOMAIN d.blocks = 1 .. (Len(s.blocks) + 1)
          /\ d.blocks[Len(s.blocks) + 1] = Fresh("tool_use")
      BY <1>8 DEF Begins
    <2> QED
      BY <1>6, <2>1 DEF Fresh
  <1> QED
    BY <1>7, <1>10, <1>11

-----------------------------------------------------------------------------
(* The open block of thinking says something, and ends.                      *)

\* d is c with something more in its open block of thinking.
Utters(c, d) ==
    /\ Core(d) /\ Frame(c, d) /\ d.blocks = c.blocks
    /\ d.sniff = c.sniff /\ d.toolIndex = c.toolIndex

LEMMA OpenIs ==
    ASSUME NEW c, Core(c), ThinkingOpen(c)
    PROVE  /\ c.thinking \in DOMAIN c.blocks /\ c.blocks[c.thinking].open
           /\ c.blocks[c.thinking].type = "thinking"
  BY DEF ThinkingOpen, IsOpen

LEMMA SendThinkingSays ==
    ASSUME NEW c, Core(c), ThinkingOpen(c), NEW text
    PROVE  /\ Utters(c, SendThinking(c, text))
           /\ text = <<>> => \A j : Loud(SendThinking(c, text).out, j) = Loud(c.out, j)
  <1> DEFINE e == Delta(c.thinking, "thinking", text)
             d == Send(c, e)
  <1>1. /\ e.ev = "content_block_delta" /\ e.index = c.thinking /\ e.kind = "thinking"
        /\ e.data = text
    BY DEF Delta
  <1> HIDE DEF e
  <1>2. /\ DOMAIN c = Fields /\ c.blocks \in Seq(Block) /\ IsSeq(c.out)
        /\ Bracketed(c.blocks, c.out) /\ Unended(c.out) /\ Signed(c.blocks, c.out)
    BY DEF Core, Typed, Sound
  <1>3. /\ Frame(c, d) /\ d.blocks = c.blocks /\ d.out = Append(c.out, e)
        /\ d.sniff = c.sniff /\ d.toolIndex = c.toolIndex
    BY <1>2, SendIs
  <1> HIDE DEF d
  <1>4. Bracketed(d.blocks, d.out)
    BY <1>1, <1>2, <1>3, OpenIs, DeltaBrackets
  <1>5. Unended(d.out) /\ IsSeq(d.out)
    BY <1>1, <1>2, <1>3, UnendedAppend
  <1>6. DOMAIN c.out \subseteq DOMAIN d.out
    BY <1>2, <1>3, AppendSeq DEF Appended
  <1>7. \A j : /\ ~ Signs(e, j) /\ (j # c.thinking => ~ Says(e, j))
               /\ text = <<>> => ~ Says(e, j)
    BY <1>1 DEF Signs, Says
  <1>8. \A j : /\ Signatures(d.out, j) = Signatures(c.out, j)
               /\ j # c.thinking \/ text = <<>> => Loud(d.out, j) = Loud(c.out, j)
    BY <1>2, <1>3, <1>7, OneMoreDelta
  <1>9. Signed(d.blocks, d.out)
    <2> SUFFICES ASSUME NEW i \in DOMAIN c.blocks, c.blocks[i].type = "thinking"
                 PROVE  IF c.blocks[i].open THEN Signatures(d.out, i) = {}
                        ELSE \/ Loud(d.out, i) = {}
                             \/ \E k \in DOMAIN d.out : Signatures(d.out, i) = {k}
      BY <1>3 DEF Signed
    <2>1. IF c.blocks[i].open THEN Signatures(c.out, i) = {}
          ELSE Loud(c.out, i) = {} \/ \E k \in DOMAIN c.out : Signatures(c.out, i) = {k}
      BY <1>2 DEF Signed
    <2>2. ~ c.blocks[i].open => i # c.thinking
      BY OpenIs
    <2> QED
      BY <1>6, <1>8, <2>1, <2>2
  <1>10. Core(d)
    <2>1. Typed(d)
      BY <1>3, <1>5 DEF Core, Typed, Frame
    <2>2. Sound(d)
      BY <1>3, <1>4, <1>5, <1>9 DEF Core, Sound, Frame
    <2> QED
      BY <2>1, <2>2 DEF Core
  <1>11. Utters(c, d)
    BY <1>3, <1>10 DEF Utters
  <1>12. d = SendThinking(c, text)
    BY DEF d, e, SendThinking
  <1> HIDE DEF Utters
  <1> QED
    BY <1>8, <1>11, <1>12

LEMMA FinishThinkingEnds ==
    ASSUME NEW c, Core(c), ThinkingOpen(c), NEW signature
    PROVE  LET d == FinishThinking(c, signature) IN
           /\ Core(d) /\ Frame(c, d) /\ d.blocks = Without(c.blocks, c.thinking)
           /\ d.sniff = c.sniff /\ d.toolIndex = c.toolIndex
           /\ \A j : Loud(d.out, j) = Loud(c.out, j)
  <1> DEFINE i  == c.thinking
             t  == SendThinking(c, <<>>)
             e  == Delta(i, "signature", signature)
             g  == Send(t, e)
             s  == StopEvent(i)
             bs == Without(c.blocks, i)
             d  == Reshaped(g, bs, Append(g.out, s))
  <1>1. /\ Utters(c, t) /\ \A j : Loud(t.out, j) = Loud(c.out, j)
    BY SendThinkingSays
  <1>2. i \in DOMAIN c.blocks /\ c.blocks[i].open /\ c.blocks[i].type = "thinking"
    BY OpenIs
  <1>3. /\ e.ev = "content_block_delta" /\ e.index = i /\ e.kind = "signature"
        /\ s.ev = "content_block_stop" /\ s.index = i
    BY DEF Delta, StopEvent
  <1> HIDE DEF t
  <1>4. /\ DOMAIN t = Fields /\ c.blocks \in Seq(Block) /\ IsSeq(t.out)
        /\ Bracketed(c.blocks, t.out) /\ Unended(t.out) /\ Signed(c.blocks, t.out)
        /\ Frame(c, t) /\ t.blocks = c.blocks /\ t.sniff = c.sniff /\ t.toolIndex = c.toolIndex
    BY <1>1 DEF Utters, Core, Typed, Sound
  <1>5. d = FinishThinking(c, signature)
    <2>1. FinishThinking(c, signature) = StopBlock(g, i)
      BY DEF FinishThinking, t
    <2> HIDE DEF e
    <2>2. DOMAIN g = Fields /\ g.blocks = c.blocks
      BY <1>4, SendIs DEF Frame
    <2> HIDE DEF g
    <2>3. StopBlock(g, i) = d
      BY <1>2, <2>2, StopBlockIs
    <2> QED
      BY <2>1, <2>3
  <1> HIDE DEF e, s
  <1>6. /\ Frame(t, g) /\ g.blocks = c.blocks /\ g.out = Append(t.out, e)
        /\ g.sniff = c.sniff /\ g.toolIndex = c.toolIndex
    BY <1>4, SendIs
  <1> HIDE DEF g
  <1>7. Bracketed(c.blocks, g.out)
    BY <1>2, <1>3, <1>4, <1>6, DeltaBrackets
  <1>8. Unended(g.out) /\ IsSeq(g.out)
    BY <1>3, <1>4, <1>6, UnendedAppend
  <1>9. /\ DOMAIN t.out \subseteq DOMAIN g.out /\ Len(t.out) + 1 \in DOMAIN g.out
    <2>1. Appended(t.out, e, g.out)
      BY <1>4, <1>6, AppendSeq
    <2> QED
      BY <2>1 DEF Appended
  <1>10. \A j : /\ Loud(g.out, j) = Loud(t.out, j)
                /\ Signatures(g.out, j) = IF j = i THEN Signatures(t.out, j) \cup {Len(t.out) + 1}
                                          ELSE Signatures(t.out, j)
    <2>1. \A j : ~ Says(e, j) /\ (Signs(e, j) <=> j = i)
      BY <1>3 DEF Says, Signs, IsBlockEvent
    <2> SUFFICES ASSUME NEW j
                 PROVE  /\ Loud(g.out, j) = Loud(t.out, j)
                        /\ Signatures(g.out, j) = IF j = i
                                                  THEN Signatures(t.out, j) \cup {Len(t.out) + 1}
                                                  ELSE Signatures(t.out, j)
      OBVIOUS
    <2>2. IsSeq(t.out)
      BY <1>4
    <2>3. /\ Loud(Append(t.out, e), j) = IF Says(e, j) THEN Loud(t.out, j) \cup {Len(t.out) + 1}
                                         ELSE Loud(t.out, j)
          /\ Signatures(Append(t.out, e), j) = IF Signs(e, j)
                                               THEN Signatures(t.out, j) \cup {Len(t.out) + 1}
                                               ELSE Signatures(t.out, j)
      BY <2>2, OneMoreDelta
    <2> QED
      BY <1>6, <2>1, <2>3
  <1> DEFINE new == Append(g.out, s)
  <1>11. Bracketed(bs, new)
    BY <1>2, <1>4, <1>7, <1>8, StopBrackets DEF Without, s
  <1>12. Unended(new) /\ IsSeq(new)
    BY <1>3, <1>8, UnendedAppend
  <1>13. \A j : Loud(new, j) = Loud(g.out, j) /\ Signatures(new, j) = Signatures(g.out, j)
    BY <1>3, <1>8, QuietEvent
  <1>14. DOMAIN g.out \subseteq DOMAIN new
    BY <1>8, AppendSeq DEF Appended
  <1>15. /\ bs \in Seq(Block) /\ DOMAIN bs = DOMAIN c.blocks /\ bs[i].open = FALSE
         /\ \A j \in DOMAIN c.blocks :
                 /\ bs[j].type = c.blocks[j].type
                 /\ j # i => bs[j] = c.blocks[j]
    BY <1>2, <1>4, WithoutIs, Zenon
  <1> HIDE DEF bs, new
  <1>16. Signed(bs, new)
    <2> SUFFICES ASSUME NEW j \in DOMAIN bs, bs[j].type = "thinking"
                 PROVE  IF bs[j].open THEN Signatures(new, j) = {}
                        ELSE \/ Loud(new, j) = {}
                             \/ \E k \in DOMAIN new : Signatures(new, j) = {k}
      BY DEF Signed
    <2>1. IF c.blocks[j].open THEN Signatures(t.out, j) = {}
          ELSE Loud(t.out, j) = {} \/ \E k \in DOMAIN t.out : Signatures(t.out, j) = {k}
      BY <1>4, <1>15 DEF Signed
    <2>2. CASE j = i
      <3>1. Signatures(t.out, i) = {}
        BY <1>2, <2>1, <2>2
      <3>2. Signatures(new, i) = {Len(t.out) + 1}
        BY <1>10, <1>13, <3>1
      <3> QED
        BY <1>9, <1>14, <1>15, <2>2, <3>2
    <2>3. CASE j # i
      BY <1>9, <1>10, <1>13, <1>14, <1>15, <2>1, <2>3
    <2> QED
      BY <2>2, <2>3
  <1>17. /\ Frame(g, d) /\ d.blocks = bs /\ d.out = new
         /\ d.sniff = g.sniff /\ d.toolIndex = g.toolIndex
    <2>1. DOMAIN g = Fields
      BY <1>6 DEF Frame
    <2>2. d = Reshaped(g, bs, new)
      BY DEF new
    <2> QED
      BY <2>1, <2>2, ReshapedIs
  <1> HIDE DEF d
  <1>18. Frame(c, d)
    BY <1>4, <1>6, <1>17 DEF Frame
  <1>19. Core(d)
    <2>1. Typed(d)
      BY <1>6, <1>12, <1>15, <1>17, <1>18 DEF Core, Typed, Frame
    <2>2. Sound(d)
      BY <1>11, <1>12, <1>16, <1>17, <1>18 DEF Core, Sound, Frame
    <2> QED
      BY <2>1, <2>2 DEF Core
  <1>20. \A j : Loud(d.out, j) = Loud(c.out, j)
    BY <1>1, <1>10, <1>13, <1>17
  <1>21. d.blocks = bs /\ d.sniff = c.sniff /\ d.toolIndex = c.toolIndex
    BY <1>6, <1>17
  <1> QED
    BY <1>5, <1>18, <1>19, <1>20, <1>21 DEF bs

-----------------------------------------------------------------------------
(* Plain text and the calls of tools.                                        *)

Base(c) == Core(c) /\ Tools(c)

\* What any of it does to the context.
Runs(c, d) == Base(d) /\ Still(c, d)

LEMMA RunsThen ==
    ASSUME NEW c, NEW d, NEW e, Runs(c, d), Runs(d, e)
    PROVE  Runs(c, e)
  BY StillThen DEF Runs

LEMMA RunsSelf ==
    ASSUME NEW c, Base(c)
    PROVE  Runs(c, c)
  BY StaysSo DEF Base, Runs, Moves

LEMMA MovesRuns ==
    ASSUME NEW c, Base(c), NEW d, Moves(c, d)
    PROVE  Runs(c, d)
  <1>1. Tools(d)
    BY DEF Base, Moves, Still, BlocksStay, Tools
  <1> QED
    BY <1>1 DEF Runs, Base, Moves

LEMMA SameRuns ==
    ASSUME NEW c, Base(c), NEW d, Same(c, d), d.sniff \in Text, d.toolIndex = c.toolIndex
    PROVE  Runs(c, d)
  <1>1. Core(d) /\ Still(c, d)
    BY SameMoves DEF Base
  <1>2. Tools(d)
    BY DEF Base, Tools, Same
  <1> QED
    BY <1>1, <1>2 DEF Runs, Base

LEMMA SendTextMoves ==
    ASSUME NEW c, Core(c), NEW text
    PROVE  Moves(c, SendText(c, text))
  <1> DEFINE n == Len(c.blocks) + 1
             b == [c EXCEPT !.text = n]
             d == StartBlock(b, "text", "-")
             f == SendDelta(d, n, "text", text)
  <1>1. DOMAIN c = Fields /\ c.sniff \in Text
    BY DEF Core, Typed
  <1>2. Same(c, b) /\ b.sniff = c.sniff /\ b.toolIndex = c.toolIndex
    BY <1>1 DEF Same, Frame, Fields
  <1> HIDE DEF b
  <1>3. Moves(c, b)
    BY <1>1, <1>2, SameMoves DEF Moves
  <1>4. Begins(b, d, "text")
    BY <1>3, StartBlockIs DEF Moves, BlockTypes
  <1> HIDE DEF d
  <1>5. Moves(b, d)
    BY <1>4, BeginsMoves
  <1>6. Moves(d, f)
    BY <1>5, SendDeltaMoves DEF Moves
  <1> HIDE DEF f
  <1>7. Moves(c, f)
    BY <1>3, <1>5, <1>6, MovesThen
  <1>8. CASE text = <<>>
    BY <1>8, StaysSo DEF SendText
  <1>9. CASE text # <<>> /\ IsOpen(c, c.text, "text")
    BY <1>9, SendDeltaMoves DEF SendText
  <1>10. CASE text # <<>> /\ ~ IsOpen(c, c.text, "text")
    <2>1. SendText(c, text) = f
      BY <1>10, Zenon DEF SendText, f, d, b
    <2> QED
      BY <1>7, <2>1
  <1> QED
    BY <1>8, <1>9, <1>10

LEMMA EmitTextMoves ==
    ASSUME NEW c, Core(c), NEW text
    PROVE  Moves(c, EmitText(c, text))
  <1> DEFINE g == RepeatGuard(c.guard, text, RepeatTrip)
             b == [c EXCEPT !.guard = [run |-> g.run, tripped |-> g.tripped],
                            !.fence = AdvanceFence(@, g.kept)]
  <1>1. EmitText(c, text) = SendText(b, g.kept)
    BY Zenon DEF EmitText, SendKept
  <1> HIDE DEF g
  <1>2. DOMAIN c = Fields /\ c.sniff \in Text
    BY DEF Core, Typed
  <1>3. Same(c, b) /\ b.sniff = c.sniff /\ b.toolIndex = c.toolIndex
    BY <1>2 DEF Same, Frame, Fields
  <1> HIDE DEF b
  <1>4. Moves(c, b)
    BY <1>2, <1>3, SameMoves DEF Moves
  <1>5. Moves(b, SendText(b, g.kept))
    BY <1>4, SendTextMoves DEF Moves
  <1> QED
    BY <1>1, <1>4, <1>5, MovesThen

LEMMA EmitToolUseRuns ==
    ASSUME NEW c, Base(c), NEW id, NEW input
    PROVE  Runs(c, EmitToolUse(c, id, input))
  <1> DEFINE known == id \in DOMAIN c.toolIndex
             i == IF known THEN c.toolIndex[id] ELSE Len(c.blocks) + 1
             index == IF id = "invoke" THEN c.toolIndex
                      ELSE [x \in DOMAIN c.toolIndex \cup {id} |->
                               IF x = id THEN i ELSE c.toolIndex[x]]
             d == [c EXCEPT !.hasTool = TRUE, !.output = TRUE, !.toolIndex = index]
             e == IF known THEN StopAll(d, {"text"}) ELSE StartBlock(d, "tool_use", id)
             f == SendDelta(e, i, "json", input)
             g == StopBlock(f, i)
  <1>1. DOMAIN c = Fields /\ c.sniff \in Text /\ Core(c)
    BY DEF Base, Core, Typed
  <1>2. EmitToolUse(c, id, input) = g
    BY DEF EmitToolUse
  <1>3. \A x \in DOMAIN index :
           x # id \/ id = "invoke" => x \in DOMAIN c.toolIndex /\ index[x] = c.toolIndex[x]
    OBVIOUS
  <1>4. id # "invoke" /\ id \in DOMAIN index => index[id] = i
    OBVIOUS
  <1> HIDE DEF index
  <1>5. Same(c, d) /\ d.sniff = c.sniff /\ d.toolIndex = index
    BY <1>1 DEF Same, Frame, Fields
  <1> HIDE DEF d
  <1>6. Core(d) /\ Still(c, d)
    BY <1>1, <1>5, SameMoves
  <1>7. Moves(d, e) /\ i \in DOMAIN e.blocks /\ e.blocks[i].type = "tool_use"
    <2>1. CASE known
      <3>1. e = StopAll(d, {"text"})
        BY <2>1
      <3> HIDE DEF e
      <3>2. Moves(d, e)
        BY <1>6, <3>1, StopAllMoves
      <3>3. i \in DOMAIN c.blocks /\ c.blocks[i].type = "tool_use"
        BY <2>1 DEF Base, Tools
      <3>4. i \in DOMAIN d.blocks /\ d.blocks[i].type = "tool_use"
        BY <1>5, <3>3 DEF Same
      <3> HIDE DEF i
      <3>5. i \in DOMAIN e.blocks /\ e.blocks[i].type = "tool_use"
        BY <3>2, <3>4 DEF Moves, Still, BlocksStay
      <3> QED
        BY <3>2, <3>5
    <2>2. CASE ~ known
      <3>1. e = StartBlock(d, "tool_use", id) /\ i = Len(d.blocks) + 1
        BY <1>5, <2>2 DEF Same
      <3> HIDE DEF e, i
      <3> QED
        BY <1>6, <3>1, StartToolMoves
    <2> QED
      BY <2>1, <2>2
  <1> HIDE DEF e, i
  <1>8. Moves(e, f)
    BY <1>7, SendDeltaMoves DEF Moves
  <1> HIDE DEF f
  <1>9. i \in DOMAIN f.blocks /\ f.blocks[i].type = "tool_use"
    BY <1>7, <1>8 DEF Moves, Still, BlocksStay
  <1>10. Moves(f, g)
    BY <1>8, <1>9, StopBlockMoves DEF Moves
  <1> HIDE DEF g
  <1>11. Moves(d, g)
    BY <1>7, <1>8, <1>10, MovesThen
  <1>12. i \in DOMAIN g.blocks /\ g.blocks[i].type = "tool_use"
    BY <1>9, <1>10 DEF Moves, Still, BlocksStay
  <1>13. Core(g) /\ Still(c, g)
    BY <1>6, <1>11, StillThen DEF Moves
  <1>14. Tools(g)
    <2>1. g.toolIndex = index
      BY <1>5, <1>11 DEF Moves
    <2> SUFFICES ASSUME NEW x \in DOMAIN index
                 PROVE  index[x] \in DOMAIN g.blocks /\ g.blocks[index[x]].type = "tool_use"
      BY <2>1 DEF Tools
    <2>2. CASE x = id /\ id # "invoke"
      BY <1>4, <1>12, <2>2
    <2>3. CASE x # id \/ id = "invoke"
      <3>1. x \in DOMAIN c.toolIndex /\ index[x] = c.toolIndex[x]
        BY <1>3, <2>3
      <3>2. index[x] \in DOMAIN c.blocks /\ c.blocks[index[x]].type = "tool_use"
        BY <3>1 DEF Base, Tools
      <3> QED
        BY <1>13, <3>2 DEF Still, BlocksStay
    <2> QED
      BY <2>2, <2>3
  <1> QED
    BY <1>2, <1>13, <1>14 DEF Runs, Base

LEMMA EmitTextRuns ==
    ASSUME NEW c, Base(c), NEW text
    PROVE  Runs(c, EmitText(c, text))
  BY EmitTextMoves, MovesRuns DEF Base

LEMMA TakeInvokeRuns ==
    ASSUME NEW c, Base(c), NEW buf, NEW before, NEW start, NEW end, NEW leak
    PROVE  Runs(c, TakeInvoke(c, buf, before, start, end, leak))
  <1> DEFINE d == EmitText(c, before)
  <1>1. Runs(c, d)
    BY EmitTextRuns
  <1> HIDE DEF d
  <1>2. Runs(d, EmitToolUse(d, "invoke", SubSeq(buf, start, end)))
    BY <1>1, EmitToolUseRuns DEF Runs
  <1>3. Runs(c, EmitToolUse(d, "invoke", SubSeq(buf, start, end)))
    BY <1>1, <1>2, RunsThen
  <1>4. Runs(c, EmitText(c, SubSeq(buf, 1, end)))
    BY EmitTextRuns
  <1> QED
    BY <1>3, <1>4 DEF TakeInvoke, d

LEMMA InvokeStartIs ==
    ASSUME NEW s \in Text
    PROVE  FindInvokeStart(s) \in Nat /\ (FindInvokeStart(s) = 0 \/ FindInvokeStart(s) <= Len(s))
  <1> DEFINE T == {k \in InvokeOpens(s) : k = 1 \/ s[k - 1] \notin QuoteLast}
  <1>1. Len(s) \in Nat /\ T \subseteq 1 .. Len(s)
    BY DEF Text, InvokeOpens
  <1>2. T \in SUBSET Nat
    BY <1>1
  <1>3. T = {} => First(T) = 0
    BY DEF First
  <1> HIDE DEF T
  <1>4. First(T) \in Nat /\ (First(T) = 0 \/ First(T) \in T)
    BY <1>2, <1>3, FirstIsIn
  <1>5. FindInvokeStart(s) = First(T)
    BY DEF FindInvokeStart, T
  <1> QED
    BY <1>1, <1>4, <1>5

LEMMA InvokeEndIs ==
    ASSUME NEW s \in Text, NEW start
    PROVE  FindInvokeBlockEnd(s, start) \in Nat
  <1> DEFINE next  == First({k \in InvokeOpens(s) : k > start})
             bound == IF next = 0 THEN Len(s) + 1 ELSE next
             T     == {k \in Places(s, InvokeClose) : k > start /\ k + Len(InvokeClose) <= bound}
             close == Latest(T)
  <1>1. FindInvokeBlockEnd(s, start) = IF close = 0 THEN 0 ELSE close + Len(InvokeClose) - 1
    BY Zenon DEF FindInvokeBlockEnd
  <1> HIDE DEF bound
  <1>2. Len(s) \in Nat /\ T \in SUBSET (1 .. Len(s))
    BY DEF Text, Places
  <1> HIDE DEF T
  <1>3. close \in 0 .. Len(s)
    BY <1>2, LatestIsIn
  <1> HIDE DEF close
  <1> QED
    BY <1>1, <1>2, <1>3, Tags

LEMMA PartialInvokeText ==
    ASSUME NEW s \in Text
    PROVE  PartialInvokeTag(s) \in Text
  <1> DEFINE T  == {k \in DOMAIN s : s[k] = "<"}
             lt == Latest(T)
  <1>1. Len(s) \in Nat /\ T \in SUBSET (1 .. Len(s)) /\ <<>> \in Text
    BY Tags DEF Text
  <1>2. \/ PartialInvokeTag(s) = <<>>
        \/ lt # 0 /\ PartialInvokeTag(s) = From(s, lt)
    BY DEF PartialInvokeTag
  <1> HIDE DEF T
  <1>3. lt \in 0 .. Len(s)
    BY <1>1, LatestIsIn
  <1> HIDE DEF lt
  <1>4. lt # 0 => lt \in Nat /\ lt > 0
    BY <1>1, <1>3
  <1> QED
    BY <1>1, <1>2, <1>4, FromText

\* A state of the loop that drains the sniff buffer of c.
Draining(c, s) == Runs(c, s.c) /\ s.buf \in Text /\ s.done \in BOOLEAN

LEMMA DrainedIs ==
    ASSUME NEW c, NEW d, Runs(c, d), NEW sniff \in Text
    PROVE  Draining(c, Drained(d, sniff))
  <1> DEFINE e == [d EXCEPT !.sniff = sniff]
  <1>1. DOMAIN d = Fields
    BY DEF Runs, Base, Core, Typed
  <1>2. Same(d, e) /\ e.sniff = sniff /\ e.toolIndex = d.toolIndex
    BY <1>1 DEF Same, Frame, Fields
  <1>3. /\ Drained(d, sniff).c = e /\ Drained(d, sniff).buf = <<>>
        /\ Drained(d, sniff).done = TRUE
    BY DEF Drained
  <1> HIDE DEF e
  <1>4. Runs(d, e)
    BY <1>2, SameRuns DEF Runs
  <1>5. Runs(c, e)
    BY <1>4, RunsThen
  <1> QED
    BY <1>3, <1>5, Tags DEF Draining

LEMMA DrainPassIs ==
    ASSUME NEW c, NEW s, Draining(c, s), NEW flush
    PROVE  Draining(c, DrainPass(s, flush))
  <1> DEFINE d      == s.c
             buf    == s.buf
             start  == FindInvokeStart(buf)
             end    == FindInvokeBlockEnd(buf, start)
             before == StripTrailingStray(SubSeq(buf, 1, start - 1))
             leak   == LooksLikeRealLeak(before) /\ ~ AdvanceFence(d.fence, before).open
             open   == From(buf, start)
             held   == IF flush THEN <<>>
                       ELSE IF start = 0 THEN PartialInvokeTag(buf)
                       ELSE IF leak /\ Len(open) <= MaxInvokeHold THEN open ELSE <<>>
             taken  == [c    |-> TakeInvoke(d, buf, before, start, end, leak),
                        buf  |-> From(buf, end + 1),
                        done |-> FALSE]
             f      == EmitText(d, SubSeq(buf, 1, start - 1))
             g      == EmitText(f, From(SubSeq(buf, 1, Len(buf) - Len(held)), start))
             h      == EmitText(d, SubSeq(buf, 1, Len(buf) - Len(held)))
  <1>1. DrainPass(s, flush) =
          IF s.done THEN s
          ELSE IF start > 0 /\ end > 0 THEN taken
          ELSE IF start > 0 /\ leak THEN Drained(g, held) ELSE Drained(h, held)
    BY Zenon DEF DrainPass
  <1>2. buf \in Text /\ Runs(c, d) /\ Base(d)
    BY DEF Draining, Runs
  <1> HIDE DEF d, buf
  <1>3. start \in Nat /\ end \in Nat /\ Len(buf) \in Nat
    BY <1>2, InvokeStartIs, InvokeEndIs DEF Text
  <1> HIDE DEF end, before, leak, f
  <1>4. held \in Text
    <2>1. <<>> \in Text /\ PartialInvokeTag(buf) \in Text
      BY <1>2, Tags, PartialInvokeText
    <2>2. start # 0 => open \in Text
      BY <1>2, <1>3, FromText
    <2> HIDE DEF open, start
    <2> QED
      BY <2>1, <2>2
  <1> HIDE DEF held, start
  <1>5. Draining(c, taken)
    <2>1. Runs(d, taken.c)
      BY <1>2, TakeInvokeRuns
    <2>2. taken.buf \in Text /\ taken.done \in BOOLEAN
      <3>1. end + 1 \in Nat /\ end + 1 > 0
        BY <1>3
      <3>2. From(buf, end + 1) \in Text
        BY <1>2, <3>1, FromText
      <3> QED
        BY <3>2
    <2> HIDE DEF taken
    <2> QED
      BY <1>2, <2>1, <2>2, RunsThen DEF Draining
  <1>6. Runs(c, g)
    <2>1. Runs(d, f)
      BY <1>2, EmitTextRuns DEF f
    <2>2. Runs(f, g)
      BY <2>1, EmitTextRuns DEF Runs
    <2> HIDE DEF g
    <2> QED
      BY <1>2, <2>1, <2>2, RunsThen
  <1>7. Runs(c, h)
    <2>1. Runs(d, h)
      BY <1>2, EmitTextRuns
    <2> HIDE DEF h
    <2> QED
      BY <1>2, <2>1, RunsThen
  <1> HIDE DEF taken, g, h
  <1>8. Draining(c, Drained(g, held)) /\ Draining(c, Drained(h, held))
    BY <1>4, <1>6, <1>7, DrainedIs
  <1> QED
    BY <1>1, <1>5, <1>8

LEMMA DrainLoop ==
    ASSUME NEW start, NEW flush
    PROVE  \E L : L = [n \in Nat |-> IF n = 0 THEN start ELSE DrainPass(L[n - 1], flush)]
  <1> DEFINE Upto(g, n) == g = [k \in 0 .. n |-> IF k = 0 THEN start ELSE DrainPass(g[k - 1], flush)]
             Open == {n \in Nat : ~ \E g : Upto(g, n)}
  <1>1. Open = {}
    <2>1. SUFFICES ASSUME Open # {} PROVE FALSE
      OBVIOUS
    <2>2. PICK n \in Open : \A m \in Open : n <= m
      <3>1. Open \in SUBSET Nat
        OBVIOUS
      <3> HIDE DEF Open
      <3> QED
        BY <2>1, <3>1, LeastNumber, Zenon
    <2>3. CASE n = 0
      <3>1. Upto([k \in 0 .. n |-> start], n)
        BY <2>3
      <3> QED
        BY <2>2, <3>1
    <2>4. CASE n # 0
      <3>1. n - 1 \in Nat /\ n - 1 \notin Open
        <4>1. n \in Nat
          BY <2>2
        <4> HIDE DEF Open
        <4> QED
          BY <2>2, <2>4, <4>1
      <3>2. PICK g : Upto(g, n - 1)
        BY <3>1
      <3> DEFINE h == [k \in 0 .. n |-> IF k = 0 THEN start ELSE DrainPass(g[k - 1], flush)]
      <3>3. \A k \in 0 .. n - 1 : h[k] = g[k]
        BY <3>1, <3>2
      <3>4. \A k \in 0 .. n : k # 0 => k - 1 \in 0 .. n - 1
        BY <3>1
      <3>5. Upto(h, n)
        BY <3>3, <3>4
      <3> QED
        BY <2>2, <3>5
    <2> QED
      BY <2>3, <2>4
  <1>2. ASSUME NEW n \in Nat, NEW m \in Nat, NEW g, NEW h, Upto(g, n), Upto(h, m),
               NEW k \in 0 .. n, k <= m
        PROVE  g[k] = h[k]
    <2> DEFINE T == {x \in Nat : x <= n /\ x <= m /\ g[x] # h[x]}
    <2>1. SUFFICES ASSUME T # {} PROVE FALSE
      <3>1. k \in Nat /\ k <= n
        BY <1>2
      <3>2. T = {} => g[k] = h[k]
        BY <1>2, <3>1
      <3> HIDE DEF T
      <3> QED
        BY <3>2
    <2>2. PICK x \in T : \A y \in T : x <= y
      <3>1. T \in SUBSET Nat
        OBVIOUS
      <3> HIDE DEF T
      <3> QED
        BY <2>1, <3>1, LeastNumber, Zenon
    <2>3. x # 0
      BY <1>2, <2>2
    <2>4. x - 1 \in Nat /\ x - 1 <= n /\ x - 1 <= m /\ x - 1 \notin T
      BY <2>2, <2>3
    <2>5. g[x - 1] = h[x - 1]
      BY <2>4
    <2>6. g[x] = DrainPass(g[x - 1], flush) /\ h[x] = DrainPass(h[x - 1], flush)
      BY <1>2, <2>2, <2>3
    <2> QED
      BY <2>2, <2>5, <2>6
  <1> DEFINE G(n) == CHOOSE g : Upto(g, n)
             F    == [n \in Nat |-> G(n)[n]]
  <1>3. \A n \in Nat : Upto(G(n), n)
    BY <1>1
  <1>4. ASSUME NEW n \in Nat
        PROVE  F[n] = IF n = 0 THEN start ELSE DrainPass(F[n - 1], flush)
    <2> HIDE DEF Upto, G
    <2>1. F[n] = G(n)[n] /\ Upto(G(n), n)
      BY <1>3
    <2>2. CASE n = 0
      BY <2>1, <2>2 DEF Upto
    <2>3. CASE n # 0
      <3>1. n - 1 \in Nat /\ n - 1 \in 0 .. n /\ n - 1 <= n - 1
        BY <2>3
      <3>2. G(n)[n] = DrainPass(G(n)[n - 1], flush)
        BY <2>1, <2>3 DEF Upto
      <3>3. G(n)[n - 1] = G(n - 1)[n - 1]
        BY <1>2, <1>3, <3>1
      <3>4. F[n - 1] = G(n - 1)[n - 1]
        BY <3>1
      <3> QED
        BY <2>1, <2>3, <3>2, <3>3, <3>4
    <2> QED
      BY <2>2, <2>3
  <1>5. F = [n \in Nat |-> IF n = 0 THEN start ELSE DrainPass(F[n - 1], flush)]
    <2> HIDE DEF G
    <2> QED
      BY <1>4
  <1> QED
    BY <1>5

LEMMA DrainSniffRuns ==
    ASSUME NEW c, Base(c), NEW flush
    PROVE  Runs(c, DrainSniff(c, flush))
  <1> DEFINE b     == [c EXCEPT !.sniff = <<>>]
             start == [c |-> b, buf |-> c.sniff, done |-> FALSE]
             Loop[n \in Nat] == IF n = 0 THEN start ELSE DrainPass(Loop[n - 1], flush)
  <1>1. DrainSniff(c, flush) = Loop[Len(c.sniff) + 1].c
    BY Zenon DEF DrainSniff
  <1>2. Draining(c, start) /\ Len(c.sniff) + 1 \in Nat
    <2>1. DOMAIN c = Fields /\ c.sniff \in Text /\ <<>> \in Text
      BY Tags DEF Base, Core, Typed
    <2>2. Same(c, b) /\ b.sniff = <<>> /\ b.toolIndex = c.toolIndex
      BY <2>1 DEF Same, Frame, Fields
    <2>3. start.c = b /\ start.buf = c.sniff /\ start.done = FALSE
      OBVIOUS
    <2> HIDE DEF b, start
    <2>4. Runs(c, b)
      BY <2>1, <2>2, SameRuns
    <2>5. Draining(c, start)
      BY <2>1, <2>3, <2>4 DEF Draining
    <2>6. Len(c.sniff) + 1 \in Nat
      BY <2>1 DEF Text
    <2> QED
      BY <2>5, <2>6
  <1> HIDE DEF start
  <1>3. Loop = [n \in Nat |-> IF n = 0 THEN start ELSE DrainPass(Loop[n - 1], flush)]
    BY DrainLoop
  <1> HIDE DEF Loop
  <1> DEFINE Bad == {n \in Nat : ~ Draining(c, Loop[n])}
  <1>4. Bad = {}
    <2>1. SUFFICES ASSUME Bad # {} PROVE FALSE
      OBVIOUS
    <2>2. PICK n \in Bad : \A m \in Bad : n <= m
      <3>1. Bad \in SUBSET Nat
        OBVIOUS
      <3> HIDE DEF Bad
      <3> QED
        BY <2>1, <3>1, LeastNumber, Zenon
    <2>3. n # 0
      BY <1>2, <1>3, <2>2
    <2>4. n - 1 \in Nat /\ n - 1 \notin Bad
      BY <2>2, <2>3
    <2>5. Loop[n] = DrainPass(Loop[n - 1], flush)
      BY <1>3, <2>2, <2>3
    <2> QED
      BY <2>2, <2>4, <2>5, DrainPassIs
  <1>5. Draining(c, Loop[Len(c.sniff) + 1])
    BY <1>2, <1>4
  <1> QED
    BY <1>1, <1>5 DEF Draining

LEMMA EmitSniffedRuns ==
    ASSUME NEW c, Base(c), NEW text \in Text
    PROVE  Runs(c, EmitSniffed(c, text))
  <1> DEFINE b == [c EXCEPT !.sniff = @ \o text]
  <1>1. DOMAIN c = Fields /\ c.sniff \in Text
    BY DEF Base, Core, Typed
  <1>2. Same(c, b) /\ b.sniff \in Text /\ b.toolIndex = c.toolIndex
    <2>1. Same(c, b) /\ b.sniff = c.sniff \o text /\ b.toolIndex = c.toolIndex
      BY <1>1 DEF Same, Frame, Fields
    <2> QED
      BY <1>1, <2>1, JoinText
  <1>3. EmitSniffed(c, text) = IF text = <<>> THEN c ELSE DrainSniff(b, FALSE)
    BY Zenon DEF EmitSniffed
  <1> HIDE DEF b
  <1>4. Runs(c, b)
    BY <1>2, SameRuns
  <1>5. Runs(b, DrainSniff(b, FALSE))
    BY <1>4, DrainSniffRuns DEF Runs
  <1>6. Runs(c, DrainSniff(b, FALSE))
    BY <1>4, <1>5, RunsThen
  <1> QED
    BY <1>3, <1>6, RunsSelf

-----------------------------------------------------------------------------
(* The thinking and its buffer.                                              *)

\* The same blocks, the same events.
SameBlocks(c, d) ==
    /\ d.blocks = c.blocks /\ d.out = c.out /\ d.toolIndex = c.toolIndex /\ d.ended = c.ended

LEMMA BaseAs ==
    ASSUME NEW c, Base(c), NEW d, SameBlocks(c, d), Typed(d)
    PROVE  Base(d)
  <1>1. Sound(d)
    BY DEF Base, Core, Sound, SameBlocks
  <1>2. Tools(d)
    BY DEF Base, Tools, SameBlocks
  <1> QED
    BY <1>1, <1>2 DEF Base, Core

LEMMA GoodIs ==
    ASSUME NEW c
    PROVE  Good(c) <=> Base(c) /\ Thoughts(c)
  BY DEF Good, Base, Core

\* No block of thinking is open.
NoThinking(c) ==
    \A i \in DOMAIN c.blocks : ~ (c.blocks[i].type = "thinking" /\ c.blocks[i].open)

LEMMA OpenBlocks ==
    ASSUME NEW c, Base(c), NEW i \in DOMAIN c.blocks
    PROVE  c.blocks[i] = [type |-> "thinking", open |-> TRUE]
           <=> c.blocks[i].type = "thinking" /\ c.blocks[i].open
  <1>1. c.blocks \in Seq(Block)
    BY DEF Base, Core, Typed
  <1>2. /\ c.blocks[i] = [type |-> c.blocks[i].type, open |-> c.blocks[i].open]
        /\ c.blocks[i].open \in BOOLEAN
    BY <1>1, BlocksAre
  <1>3. c.blocks[i] = [type |-> "thinking", open |-> TRUE]
        => c.blocks[i].type = "thinking" /\ c.blocks[i].open
    OBVIOUS
  <1>4. ASSUME c.blocks[i].type = "thinking", c.blocks[i].open
        PROVE  c.blocks[i] = [type |-> "thinking", open |-> TRUE]
    <2>1. c.blocks[i].open = TRUE
      BY <1>2, <1>4
    <2> QED
      BY <1>2, <1>4, <2>1, Zenon
  <1> QED
    BY <1>3, <1>4

LEMMA NoneOpen ==
    ASSUME NEW c, Good(c), ~ ThinkingOpen(c)
    PROVE  NoThinking(c) /\ ~ c.inThinking
  <1>1. Base(c) /\ Thoughts(c)
    BY GoodIs
  <1>2. ASSUME NEW i \in DOMAIN c.blocks, c.blocks[i].type = "thinking", c.blocks[i].open
        PROVE  FALSE
    <2>1. c.blocks[i] = [type |-> "thinking", open |-> TRUE]
      BY <1>1, <1>2, OpenBlocks
    <2>2. i = c.thinking
      BY <1>1, <2>1 DEF Thoughts
    <2> QED
      BY <2>1, <2>2 DEF ThinkingOpen, IsOpen
  <1>3. ~ c.inThinking
    BY <1>1 DEF Thoughts
  <1> QED
    BY <1>2, <1>3 DEF NoThinking

\* With nothing open the thinking may be said to be over.
LEMMA GoodWithout ==
    ASSUME NEW c, Base(c), NoThinking(c), ~ c.inThinking
    PROVE  Good(c)
  <1>1. \A i \in DOMAIN c.blocks : c.blocks[i] # [type |-> "thinking", open |-> TRUE]
    BY OpenBlocks DEF NoThinking
  <1>2. Thoughts(c)
    BY <1>1 DEF Thoughts
  <1> QED
    BY <1>2, GoodIs

LEMMA RunsKeep ==
    ASSUME NEW c, NEW d, Runs(c, d)
    PROVE  NoThinking(c) => NoThinking(d)
  BY DEF Runs, Still, BlocksStay, NoThinking

LEMMA RunsGood ==
    ASSUME NEW c, Good(c), NEW d, Runs(c, d)
    PROVE  Good(d)
  <1>1. Base(c) /\ Thoughts(c)
    BY GoodIs
  <1>2. /\ d.thinking = c.thinking /\ d.inThinking = c.inThinking /\ d.extracted = c.extracted
        /\ d.stripNewline = c.stripNewline /\ d.buffer = c.buffer
    BY DEF Runs, Still, Frame
  <1>3. /\ \A i \in DOMAIN d.blocks : d.blocks[i].type = "thinking" =>
              i \in DOMAIN c.blocks /\ d.blocks[i] = c.blocks[i]
        /\ \A i \in DOMAIN c.blocks : c.blocks[i].type = "thinking" =>
              /\ i \in DOMAIN d.blocks /\ d.blocks[i] = c.blocks[i]
              /\ Loud(d.out, i) = Loud(c.out, i)
    BY DEF Runs, Still, BlocksStay
  <1>4. ASSUME NEW i \in DOMAIN d.blocks, d.blocks[i] = [type |-> "thinking", open |-> TRUE]
        PROVE  i = d.thinking /\ (d.inThinking \/ d.extracted)
    <2>1. d.blocks[i].type = "thinking"
      BY <1>4
    <2>2. i \in DOMAIN c.blocks /\ c.blocks[i] = [type |-> "thinking", open |-> TRUE]
      BY <1>3, <1>4, <2>1
    <2> QED
      BY <1>1, <1>2, <2>2 DEF Thoughts
  <1>5. ASSUME d.inThinking
        PROVE  /\ Thinking /\ ThinkingOpen(d) /\ ~ d.extracted
               /\ Loud(d.out, d.thinking) # {} => d.buffer # <<>> /\ ~ d.stripNewline
    <2>1. /\ Thinking /\ ThinkingOpen(c) /\ ~ c.extracted
          /\ Loud(c.out, c.thinking) # {} => c.buffer # <<>> /\ ~ c.stripNewline
      BY <1>1, <1>2, <1>5 DEF Thoughts
    <2>2. c.thinking \in DOMAIN c.blocks
          /\ c.blocks[c.thinking] = [type |-> "thinking", open |-> TRUE]
      BY <2>1 DEF ThinkingOpen, IsOpen
    <2>3. c.blocks[c.thinking].type = "thinking"
      BY <2>2
    <2>4. /\ c.thinking \in DOMAIN d.blocks /\ d.blocks[c.thinking] = c.blocks[c.thinking]
          /\ Loud(d.out, c.thinking) = Loud(c.out, c.thinking)
      BY <1>3, <2>2, <2>3
    <2>5. ThinkingOpen(d)
      BY <1>2, <2>2, <2>4 DEF ThinkingOpen, IsOpen
    <2> QED
      BY <1>2, <2>1, <2>4, <2>5
  <1>6. Thoughts(d)
    BY <1>4, <1>5 DEF Thoughts
  <1> QED
    BY <1>6, GoodIs DEF Runs

\* The buffer and what is not about thinking change.
LEMMA GoodAs ==
    ASSUME NEW c, Good(c), NEW d, SameBlocks(c, d), Typed(d),
           d.thinking = c.thinking, d.inThinking = c.inThinking, d.extracted = c.extracted,
           c.inThinking /\ Loud(c.out, c.thinking) # {} => d.buffer # <<>> /\ ~ d.stripNewline
    PROVE  Good(d)
  <1>1. Base(c) /\ Thoughts(c)
    BY GoodIs
  <1>2. Base(d)
    BY <1>1, BaseAs
  <1>3. Thoughts(d)
    <2>1. d.blocks = c.blocks /\ d.out = c.out
      BY DEF SameBlocks
    <2>2. ThinkingOpen(d) <=> ThinkingOpen(c)
      BY <2>1 DEF ThinkingOpen, IsOpen
    <2> QED
      BY <1>1, <2>1, <2>2 DEF Thoughts
  <1> QED
    BY <1>2, <1>3, GoodIs

\* Everything but fields this proof does not look at.
LEMMA SameGood ==
    ASSUME NEW c, Good(c), NEW d, Same(c, d), d.sniff = c.sniff, d.toolIndex = c.toolIndex
    PROVE  Good(d)
  <1>1. Base(c) /\ c.sniff \in Text
    BY GoodIs DEF Base, Core, Typed
  <1>2. Runs(c, d)
    BY <1>1, SameRuns
  <1> QED
    BY <1>2, RunsGood

\* A new buffer.
LEMMA BufferIs ==
    ASSUME NEW c, Base(c), NEW text \in Text
    PROVE  LET d == [c EXCEPT !.buffer = text] IN
           /\ SameBlocks(c, d) /\ Typed(d) /\ Base(d) /\ d.buffer = text
           /\ d.thinking = c.thinking /\ d.inThinking = c.inThinking
           /\ d.extracted = c.extracted /\ d.stripNewline = c.stripNewline
  <1> DEFINE d == [c EXCEPT !.buffer = text]
  <1>0. Typed(c)
    BY DEF Base, Core
  <1>1. DOMAIN c = Fields
    BY <1>0 DEF Typed
  <1>2. /\ DOMAIN d = Fields /\ SameBlocks(c, d) /\ d.buffer = text
        /\ d.thinking = c.thinking /\ d.inThinking = c.inThinking
        /\ d.extracted = c.extracted /\ d.stripNewline = c.stripNewline
        /\ d.sniff = c.sniff /\ d.xml = c.xml
    BY <1>1 DEF Fields, SameBlocks
  <1> HIDE DEF d
  <1>3. Typed(d)
    BY <1>0, <1>2 DEF Typed, SameBlocks
  <1>4. Base(d)
    BY <1>2, <1>3, BaseAs
  <1> QED
    BY <1>2, <1>3, <1>4 DEF d

LEMMA BufferGood ==
    ASSUME NEW c, Good(c), NEW text \in Text,
           c.inThinking /\ Loud(c.out, c.thinking) # {} => text # <<>> /\ ~ c.stripNewline
    PROVE  Good([c EXCEPT !.buffer = text])
  <1> DEFINE d == [c EXCEPT !.buffer = text]
  <1>1. Base(c)
    BY GoodIs
  <1>2. /\ SameBlocks(c, d) /\ Typed(d) /\ d.buffer = text
        /\ d.thinking = c.thinking /\ d.inThinking = c.inThinking
        /\ d.extracted = c.extracted /\ d.stripNewline = c.stripNewline
    BY <1>1, BufferIs
  <1> HIDE DEF d
  <1>3. Good(d)
    BY <1>2, GoodAs
  <1> QED
    BY <1>3 DEF d

-----------------------------------------------------------------------------
(* Thinking starts and ends.                                                 *)

LEMMA StartThinkingGood ==
    ASSUME NEW c, Base(c), NoThinking(c), ~ c.extracted \/ ~ c.inThinking,
           c.inThinking \/ c.extracted, c.inThinking => Thinking
    PROVE  /\ Good(StartThinking(c)) /\ ThinkingOpen(StartThinking(c))
           /\ StartThinking(c).inThinking = c.inThinking
  <1> DEFINE n == Len(c.blocks) + 1
             b == [c EXCEPT !.thinking = n]
             d == StartBlock(b, "thinking", "-")
  <1>1. Typed(c) /\ c.blocks \in Seq(Block)
    BY DEF Base, Core, Typed
  <1>2. DOMAIN c = Fields /\ Len(c.blocks) \in Nat
    BY <1>1, BlocksAre DEF Typed
  <1>3. n \in Nat
    BY <1>2
  <1>4. /\ DOMAIN b = Fields /\ SameBlocks(c, b) /\ b.thinking = n
        /\ b.buffer = c.buffer /\ b.inThinking = c.inThinking
        /\ b.extracted = c.extracted /\ b.stripNewline = c.stripNewline
        /\ b.sniff = c.sniff /\ b.xml = c.xml
    BY <1>2 DEF Fields, SameBlocks
  <1>5. d = StartThinking(c)
    BY DEF StartThinking
  <1> HIDE DEF b, d
  <1>6. Typed(b)
    BY <1>1, <1>3, <1>4 DEF Typed, SameBlocks
  <1>7. Base(b)
    BY <1>4, <1>6, BaseAs
  <1>8. Begins(b, d, "thinking")
    <2>1. d = StartBlock(b, "thinking", "-") /\ "thinking" \in BlockTypes /\ Core(b)
      BY <1>7 DEF d, BlockTypes, Base
    <2> QED
      BY <2>1, StartBlockIs
  <1>9. Tools(d)
    BY <1>7, <1>8 DEF Base, Tools, Begins
  <1>10. Base(d)
    BY <1>8, <1>9 DEF Begins, Base
  <1>11. b.blocks = c.blocks
    BY <1>4 DEF SameBlocks
  <1>12. /\ d.thinking = n /\ d.inThinking = c.inThinking /\ d.extracted = c.extracted
         /\ n \in DOMAIN d.blocks /\ d.blocks[n] = [type |-> "thinking", open |-> TRUE]
         /\ Loud(d.out, n) = {}
         /\ \A i \in DOMAIN d.blocks :
               i = n \/ (i \in DOMAIN c.blocks /\ d.blocks[i] = c.blocks[i])
    BY <1>4, <1>8, <1>11 DEF Begins, Frame, Fresh
  <1> HIDE DEF n
  <1>13. ThinkingOpen(d)
    BY <1>12 DEF ThinkingOpen, IsOpen
  <1>14. ASSUME NEW i \in DOMAIN d.blocks, d.blocks[i] = [type |-> "thinking", open |-> TRUE]
         PROVE  i = n
    <2>1. d.blocks[i].type = "thinking" /\ d.blocks[i].open
      BY <1>14
    <2> QED
      BY <1>12, <2>1 DEF NoThinking
  <1>15. Thoughts(d)
    BY <1>12, <1>13, <1>14 DEF Thoughts
  <1> QED
    BY <1>5, <1>10, <1>12, <1>13, <1>15, GoodIs

\* The open block is the only one.
LEMMA FinishBase ==
    ASSUME NEW c, Base(c), ThinkingOpen(c),
           \A i \in DOMAIN c.blocks :
               c.blocks[i].type = "thinking" /\ c.blocks[i].open => i = c.thinking,
           NEW signature
    PROVE  LET d == FinishThinking(c, signature) IN
           /\ Base(d) /\ NoThinking(d) /\ Frame(c, d)
           /\ DOMAIN d.blocks = DOMAIN c.blocks
  <1> DEFINE i == c.thinking
             d == FinishThinking(c, signature)
  <1>1. i \in DOMAIN c.blocks /\ c.blocks[i].open /\ c.blocks[i].type = "thinking"
    BY OpenIs DEF Base
  <1>2. /\ Core(d) /\ Frame(c, d) /\ d.blocks = Without(c.blocks, i)
        /\ d.sniff = c.sniff /\ d.toolIndex = c.toolIndex
    BY FinishThinkingEnds DEF Base
  <1> HIDE DEF d
  <1>3. c.blocks \in Seq(Block)
    BY DEF Base, Core, Typed
  <1>4. /\ DOMAIN d.blocks = DOMAIN c.blocks /\ d.blocks[i].open = FALSE
        /\ \A j \in DOMAIN c.blocks :
              /\ d.blocks[j].type = c.blocks[j].type
              /\ j # i => d.blocks[j] = c.blocks[j]
    <2>1. LET w == Without(c.blocks, i) IN
          /\ DOMAIN w = DOMAIN c.blocks /\ w[i].open = FALSE
          /\ \A j \in DOMAIN c.blocks :
                /\ w[j].type = c.blocks[j].type
                /\ j # i => w[j] = c.blocks[j]
      BY <1>1, <1>3, WithoutIs, Zenon
    <2> QED
      BY <1>2, <2>1, Zenon
  <1>5. Tools(d)
    BY <1>2, <1>4 DEF Base, Tools
  <1>6. NoThinking(d)
    BY <1>4 DEF NoThinking
  <1> QED
    BY <1>2, <1>4, <1>5, <1>6 DEF d, Base

LEMMA FinishGood ==
    ASSUME NEW c, Base(c), ThinkingOpen(c), ~ c.inThinking,
           \A i \in DOMAIN c.blocks :
               c.blocks[i].type = "thinking" /\ c.blocks[i].open => i = c.thinking,
           NEW signature
    PROVE  LET d == FinishThinking(c, signature) IN
           /\ Good(d) /\ NoThinking(d) /\ ~ d.inThinking /\ Frame(c, d)
           /\ DOMAIN d.blocks = DOMAIN c.blocks
  <1> DEFINE d == FinishThinking(c, signature)
  <1>1. Base(d) /\ NoThinking(d) /\ Frame(c, d) /\ DOMAIN d.blocks = DOMAIN c.blocks
    BY FinishBase
  <1> HIDE DEF d
  <1>2. ~ d.inThinking
    BY <1>1 DEF Frame
  <1>3. Good(d)
    BY <1>1, <1>2, GoodWithout
  <1> QED
    BY <1>1, <1>2, <1>3 DEF d

LEMMA OnlyOpen ==
    ASSUME NEW c, Good(c)
    PROVE  \A i \in DOMAIN c.blocks :
               c.blocks[i].type = "thinking" /\ c.blocks[i].open => i = c.thinking
  <1>1. Base(c) /\ Thoughts(c)
    BY GoodIs
  <1> SUFFICES ASSUME NEW i \in DOMAIN c.blocks,
                      c.blocks[i].type = "thinking" /\ c.blocks[i].open
               PROVE  i = c.thinking
    OBVIOUS
  <1>2. c.blocks[i] = [type |-> "thinking", open |-> TRUE]
    BY <1>1, OpenBlocks
  <1> QED
    BY <1>1, <1>2 DEF Thoughts

\* The native block is closed, or there was none.
LEMMA CloseThinkingGood ==
    ASSUME NEW c, Good(c), ~ c.inThinking
    PROVE  LET d == CloseThinking(c) IN
           /\ Good(d) /\ NoThinking(d) /\ ~ d.inThinking
           /\ DOMAIN d.blocks = DOMAIN c.blocks
  <1> DEFINE b   == [c EXCEPT !.signature = <<>>]
             sig == IF c.signature = <<>> THEN Placeholder ELSE c.signature
  <1>1. CASE ~ ThinkingOpen(c)
    BY <1>1, NoneOpen DEF CloseThinking
  <1>2. CASE ThinkingOpen(c)
    <2>1. DOMAIN c = Fields
      BY DEF Good, Typed
    <2>2. Same(c, b) /\ b.sniff = c.sniff /\ b.toolIndex = c.toolIndex
      BY <2>1 DEF Same, Frame, Fields
    <2>3. CloseThinking(c) = FinishThinking(b, sig)
      BY <1>2 DEF CloseThinking
    <2> HIDE DEF b, sig
    <2>4. Good(b)
      BY <2>2, SameGood
    <2>5. b.blocks = c.blocks /\ b.thinking = c.thinking /\ b.inThinking = c.inThinking
      BY <2>2 DEF Same, Frame
    <2>6. ThinkingOpen(b)
      BY <1>2, <2>5 DEF ThinkingOpen, IsOpen
    <2>7. Base(b)
      BY <2>4, GoodIs
    <2>8. \A i \in DOMAIN b.blocks :
             b.blocks[i].type = "thinking" /\ b.blocks[i].open => i = b.thinking
      BY <2>4, OnlyOpen
    <2>9. LET d == FinishThinking(b, sig) IN
          /\ Good(d) /\ NoThinking(d) /\ ~ d.inThinking
          /\ DOMAIN d.blocks = DOMAIN b.blocks
      BY <2>5, <2>6, <2>7, <2>8, FinishGood
    <2> QED
      BY <2>3, <2>5, <2>9
  <1> QED
    BY <1>1, <1>2

LEMMA LeaveNativeGood ==
    ASSUME NEW c, Good(c)
    PROVE  /\ Good(LeaveNative(c))
           /\ LeaveNative(c).inThinking \/ NoThinking(LeaveNative(c))
  <1>1. CASE c.inThinking
    BY <1>1 DEF LeaveNative
  <1>2. CASE ~ c.inThinking
    BY <1>2, CloseThinkingGood DEF LeaveNative
  <1> QED
    BY <1>1, <1>2

LEMMA CloseTextRuns ==
    ASSUME NEW c, Base(c)
    PROVE  Runs(c, CloseText(c))
  <1> DEFINE b == [c EXCEPT !.text = 0]
             i == IF IsOpen(c, c.text, "text") THEN c.text ELSE 0
  <1>1. DOMAIN c = Fields /\ c.sniff \in Text /\ c.blocks \in Seq(Block)
    BY DEF Base, Core, Typed
  <1>2. Same(c, b) /\ b.sniff = c.sniff /\ b.toolIndex = c.toolIndex
    BY <1>1 DEF Same, Frame, Fields
  <1>3. CloseText(c) = StopBlock(b, i)
    BY DEF CloseText
  <1> HIDE DEF b
  <1>4. i \in DOMAIN b.blocks => b.blocks[i].type # "thinking"
    <2>1. b.blocks = c.blocks
      BY <1>2 DEF Same
    <2>2. 0 \notin DOMAIN c.blocks
      BY <1>1, BlocksAre
    <2> QED
      BY <2>1, <2>2 DEF IsOpen
  <1>5. Runs(c, b)
    BY <1>1, <1>2, SameRuns
  <1> HIDE DEF i
  <1>6. Moves(b, StopBlock(b, i))
    BY <1>4, <1>5, StopBlockMoves DEF Runs, Base
  <1>7. Runs(b, StopBlock(b, i))
    BY <1>5, <1>6, MovesRuns DEF Runs
  <1> QED
    BY <1>3, <1>5, <1>7, RunsThen

LEMMA NonEmptyUtters ==
    ASSUME NEW c, Base(c), ThinkingOpen(c), NEW text
    PROVE  LET d == SendThinkingNonEmpty(c, text) IN
           /\ Utters(c, d) /\ Base(d)
           /\ text = <<>> => \A j : Loud(d.out, j) = Loud(c.out, j)
  <1> DEFINE d == SendThinkingNonEmpty(c, text)
  <1>1. Utters(c, d) /\ (text = <<>> => \A j : Loud(d.out, j) = Loud(c.out, j))
    <2>1. CASE text = <<>>
      <3>1. Moves(c, c)
        BY StaysSo DEF Base
      <3>2. Utters(c, c)
        BY <3>1 DEF Moves, Still, Utters
      <3> QED
        BY <2>1, <3>2 DEF SendThinkingNonEmpty
    <2>2. CASE text # <<>>
      BY <2>2, SendThinkingSays DEF SendThinkingNonEmpty, Base
    <2> QED
      BY <2>1, <2>2
  <1> HIDE DEF d
  <1>2. Base(d)
    BY <1>1 DEF Utters, Base, Tools
  <1> QED
    BY <1>1, <1>2 DEF d

LEMMA LeaveThinkingGood ==
    ASSUME NEW c, Good(c), c.inThinking, NEW k
    PROVE  LET d == LeaveThinking(c, k) IN Good(d) /\ NoThinking(d) /\ ~ d.inThinking
  <1> DEFINE b    == [c EXCEPT !.inThinking = FALSE, !.extracted = TRUE]
             text == SubSeq(c.buffer, 1, k - 1)
             u    == SendThinkingNonEmpty(b, text)
             d    == FinishThinking(u, Placeholder)
  <1>1. Base(c) /\ Thoughts(c) /\ Typed(c)
    BY GoodIs DEF Base, Core
  <1>2. /\ DOMAIN b = Fields /\ SameBlocks(c, b) /\ b.thinking = c.thinking
        /\ b.inThinking = FALSE /\ b.extracted = TRUE /\ b.buffer = c.buffer
        /\ b.stripNewline = c.stripNewline /\ b.sniff = c.sniff /\ b.xml = c.xml
    <2>1. DOMAIN c = Fields
      BY <1>1 DEF Typed
    <2> QED
      BY <2>1 DEF Fields, SameBlocks
  <1>3. d = LeaveThinking(c, k)
    BY DEF LeaveThinking
  <1> HIDE DEF b, text
  <1>4. Typed(b)
    BY <1>1, <1>2 DEF Typed, SameBlocks
  <1>5. Base(b)
    BY <1>1, <1>2, <1>4, BaseAs
  <1>6. b.blocks = c.blocks
    BY <1>2 DEF SameBlocks
  <1>7. ThinkingOpen(b)
    BY <1>1, <1>2, <1>6 DEF Thoughts, ThinkingOpen, IsOpen
  <1>8. Utters(b, u) /\ Base(u)
    BY <1>5, <1>7, NonEmptyUtters
  <1> HIDE DEF u
  <1>9. u.blocks = c.blocks /\ u.thinking = c.thinking /\ u.inThinking = FALSE
    BY <1>2, <1>6, <1>8 DEF Utters, Frame
  <1>10. ThinkingOpen(u)
    BY <1>2, <1>6, <1>7, <1>9 DEF ThinkingOpen, IsOpen
  <1>11. \A i \in DOMAIN u.blocks :
            u.blocks[i].type = "thinking" /\ u.blocks[i].open => i = u.thinking
    BY <1>9, OnlyOpen
  <1>12. Good(d) /\ NoThinking(d) /\ ~ d.inThinking
    BY <1>8, <1>9, <1>10, <1>11, FinishGood
  <1> QED
    BY <1>3, <1>12

-----------------------------------------------------------------------------
(* The three branches of process_content_with_thinking.                      *)

LEMMA FirstOf ==
    ASSUME NEW s \in Text, NEW tag, NEW T, T \subseteq Places(s, tag)
    PROVE  First(T) \in Nat /\ First(T) <= Len(s)
  <1>1. Len(s) \in Nat /\ T \subseteq 1 .. Len(s)
    BY PlacesInside
  <1>2. T \in SUBSET Nat
    BY <1>1
  <1>3. T = {} => First(T) = 0
    BY DEF First
  <1>4. First(T) \in Nat /\ (T # {} => First(T) \in T)
    BY <1>2, FirstIsIn
  <1> QED
    BY <1>1, <1>3, <1>4

LEMMA TagsAre ==
    ASSUME NEW s \in Text
    PROVE  /\ FindStartTag(s) \in Nat /\ FindStartTag(s) <= Len(s)
           /\ FindEndTag(s) \in Nat /\ FindEndTagAtEnd(s) \in Nat
  <1>1. FindStartTag(s) \in Nat /\ FindStartTag(s) <= Len(s)
    BY FirstOf DEF FindStartTag
  <1>2. FindEndTag(s) \in Nat
    BY FirstOf DEF FindEndTag
  <1>3. FindEndTagAtEnd(s) \in Nat
    BY FirstOf DEF FindEndTagAtEnd
  <1> QED
    BY <1>1, <1>2, <1>3

LEMMA LookForThinkingGood ==
    ASSUME NEW c, Good(c), Thinking
    PROVE  Good(LookForThinking(c))
  <1> DEFINE k      == FindStartTag(c.buffer)
             before == SubSeq(c.buffer, 1, k - 1)
             n      == IF Len(c.buffer) < Len(OpenTag) THEN 0 ELSE Len(c.buffer) - Len(OpenTag)
             safe   == SubSeq(c.buffer, 1, n)
             said   == IF Blank(before) THEN <<>> ELSE before
             d      == EmitSniffed(c, said)
             b      == [d EXCEPT !.inThinking = TRUE, !.stripNewline = TRUE,
                                 !.buffer = From(@, k + Len(OpenTag))]
             e      == EmitSniffed(c, safe)
             f      == [e EXCEPT !.buffer = From(@, n + 1)]
  <1>1. LookForThinking(c) =
          IF c.inThinking \/ c.extracted THEN c
          ELSE IF k > 0 THEN StartThinking(b) ELSE IF Blank(safe) THEN c ELSE f
    BY Zenon DEF LookForThinking
  <1>2. Base(c) /\ Thoughts(c) /\ Typed(c) /\ c.buffer \in Text /\ Len(c.buffer) \in Nat
    BY GoodIs DEF Base, Core, Typed, Text
  <1>3. k \in Nat /\ k <= Len(c.buffer) /\ n \in Nat /\ n <= Len(c.buffer)
    BY <1>2, TagsAre, Tags
  <1> HIDE DEF k, n
  <1>4. CASE c.inThinking \/ c.extracted
    BY <1>1, <1>4
  <1>5. CASE ~ (c.inThinking \/ c.extracted) /\ k > 0
    <2>1. before \in Text /\ <<>> \in Text
      <3>1. k - 1 \in Int /\ k - 1 <= Len(c.buffer)
        BY <1>2, <1>3
      <3> QED
        BY <1>2, <3>1, StartText, Tags
    <2>2. said \in Text
      BY <2>1
    <2> HIDE DEF before, said
    <2>3. Runs(c, d)
      BY <1>2, <2>2, EmitSniffedRuns
    <2> HIDE DEF d
    <2>4. ~ ThinkingOpen(c)
      <3>1. \A i \in DOMAIN c.blocks : c.blocks[i] # [type |-> "thinking", open |-> TRUE]
        BY <1>2, <1>5 DEF Thoughts
      <3> QED
        BY <3>1 DEF ThinkingOpen, IsOpen
    <2>5. NoThinking(d) /\ Base(d) /\ Typed(d)
      BY <2>3, <2>4, NoneOpen, RunsKeep DEF Runs, Base, Core
    <2>6. From(d.buffer, k + Len(OpenTag)) \in Text
      <3>1. d.buffer \in Text /\ k + Len(OpenTag) \in Nat /\ k + Len(OpenTag) > 0
        BY <1>3, <2>5, Tags DEF Typed
      <3> QED
        BY <3>1, FromText
    <2>7. /\ DOMAIN b = Fields /\ SameBlocks(d, b) /\ b.thinking = d.thinking
          /\ b.inThinking = TRUE /\ b.extracted = d.extracted
          /\ b.buffer = From(d.buffer, k + Len(OpenTag))
          /\ b.stripNewline = TRUE /\ b.sniff = d.sniff /\ b.xml = d.xml
      <3>1. DOMAIN d = Fields
        BY <2>5 DEF Typed
      <3> QED
        BY <3>1 DEF Fields, SameBlocks
    <2> HIDE DEF b
    <2>8. Typed(b)
      BY <2>5, <2>6, <2>7 DEF Typed, SameBlocks
    <2>9. Base(b)
      BY <2>5, <2>7, <2>8, BaseAs
    <2>10. NoThinking(b)
      BY <2>5, <2>7 DEF NoThinking, SameBlocks
    <2>11. ~ b.extracted
      BY <1>5, <2>3, <2>7 DEF Runs, Still, Frame
    <2>12. Good(StartThinking(b))
      BY <2>7, <2>9, <2>10, <2>11, StartThinkingGood
    <2> QED
      BY <1>1, <1>5, <2>12
  <1>6. CASE ~ (c.inThinking \/ c.extracted) /\ ~ k > 0
    <2>1. safe \in Text
      BY <1>2, <1>3, StartText
    <2> HIDE DEF safe
    <2>2. Runs(c, e)
      BY <1>2, <2>1, EmitSniffedRuns
    <2> HIDE DEF e
    <2>3. Good(e)
      BY <2>2, RunsGood
    <2>4. From(e.buffer, n + 1) \in Text
      <3>1. e.buffer \in Text /\ n + 1 \in Nat /\ n + 1 > 0
        BY <1>3, <2>3 DEF Good, Typed
      <3> QED
        BY <3>1, FromText
    <2>5. ~ e.inThinking
      BY <1>6, <2>2 DEF Runs, Still, Frame
    <2>6. Good(f)
      BY <2>3, <2>4, <2>5, BufferGood
    <2> QED
      BY <1>1, <1>6, <2>6
  <1> QED
    BY <1>4, <1>5, <1>6

LEMMA TailText ==
    ASSUME NEW s \in Text, s # <<>>
    PROVE  Tail(s) \in Text
  BY DEF Text

LEMMA InsideThinkingGood ==
    ASSUME NEW c, Good(c)
    PROVE  Good(InsideThinking(c))
  <1> DEFINE strip == c.stripNewline /\ c.buffer # <<>> /\ c.buffer[1] = "n"
             buf   == IF strip THEN Tail(c.buffer) ELSE c.buffer
             d     == [c EXCEPT !.buffer = IF strip THEN Tail(@) ELSE @,
                                !.stripNewline = @ /\ c.buffer = <<>>]
             k     == FindEndTag(d.buffer)
             kept  == Len(CloseTag \o Break)
             n     == IF Len(d.buffer) < kept THEN 0 ELSE Len(d.buffer) - kept
             l     == LeaveThinking(d, k)
             u     == SendThinkingNonEmpty(d, SubSeq(d.buffer, 1, n))
             f     == [u EXCEPT !.buffer = From(@, n + 1)]
  <1>1. InsideThinking(c) =
          IF ~ c.inThinking THEN c
          ELSE IF k > 0 THEN [l EXCEPT !.buffer = From(@, k + kept)] ELSE f
    BY Zenon DEF InsideThinking
  <1>2. Base(c) /\ Thoughts(c) /\ Typed(c) /\ DOMAIN c = Fields
    BY GoodIs DEF Base, Core, Typed
  <1>3. c.buffer \in Text /\ c.stripNewline \in BOOLEAN
    BY <1>2 DEF Typed
  <1>4. CASE ~ c.inThinking
    BY <1>1, <1>4
  <1>5. CASE c.inThinking
    <2>1. buf \in Text
      BY <1>3, TailText
    <2>2. /\ DOMAIN d = Fields /\ SameBlocks(c, d) /\ d.thinking = c.thinking
          /\ d.inThinking = c.inThinking /\ d.extracted = c.extracted
          /\ d.buffer = buf /\ d.stripNewline = (c.stripNewline /\ c.buffer = <<>>)
          /\ d.sniff = c.sniff /\ d.xml = c.xml
      BY <1>2 DEF Fields, SameBlocks
    <2>3. d.stripNewline => d.buffer = <<>>
      BY <2>2
    <2>4. c.inThinking /\ Loud(c.out, c.thinking) # {} => d.buffer # <<>> /\ ~ d.stripNewline
      BY <1>2, <2>2 DEF Thoughts
    <2> HIDE DEF d, buf
    <2>5. Typed(d)
      BY <1>2, <2>1, <2>2 DEF Typed, SameBlocks
    <2>6. Good(d) /\ d.inThinking
      BY <1>5, <2>2, <2>4, <2>5, GoodAs
    <2>7. Base(d) /\ Thoughts(d) /\ d.buffer \in Text /\ Len(d.buffer) \in Nat
      BY <2>5, <2>6, GoodIs DEF Typed, Text
    <2>8. k \in Nat /\ kept = 5
      BY <2>7, TagsAre, Tags
    <2>9. n \in Nat /\ (n = 0 \/ n = Len(d.buffer) - 5)
      BY <2>7, <2>8
    <2> HIDE DEF k, kept
    <2>10. CASE k > 0
      <3>1. Good(l) /\ ~ l.inThinking
        BY <2>6, LeaveThinkingGood
      <3> HIDE DEF l
      <3>2. From(l.buffer, k + kept) \in Text
        <4>1. l.buffer \in Text /\ k + kept \in Nat /\ k + kept > 0
          BY <2>8, <3>1 DEF Good, Typed
        <4> QED
          BY <4>1, FromText
      <3>3. Good([l EXCEPT !.buffer = From(l.buffer, k + kept)])
        BY <3>1, <3>2, BufferGood
      <3> QED
        BY <1>1, <1>5, <2>10, <3>3
    <2>11. CASE ~ k > 0
      <3> DEFINE t == SubSeq(d.buffer, 1, n)
      <3>1. ThinkingOpen(d) /\ Thinking /\ ~ d.extracted
        BY <2>6, <2>7 DEF Thoughts
      <3>2. n = 0 => t = <<>>
        BY <2>7
      <3>3. Utters(d, u) /\ Base(u) /\ (t = <<>> => \A j : Loud(u.out, j) = Loud(d.out, j))
        BY <2>7, <3>1, NonEmptyUtters
      <3> HIDE DEF t, u
      <3> DEFINE rest == From(d.buffer, n + 1)
      <3>4. /\ rest \in Text
            /\ Len(rest) = IF n + 1 <= Len(d.buffer) THEN Len(d.buffer) - (n + 1) + 1 ELSE 0
        <4>1. n + 1 \in Nat /\ n + 1 > 0
          BY <2>9
        <4> QED
          BY <2>7, <4>1, FromText
      <3> HIDE DEF rest, n
      <3>5. /\ u.blocks = d.blocks /\ u.thinking = d.thinking /\ u.inThinking = d.inThinking
            /\ u.extracted = d.extracted /\ u.stripNewline = d.stripNewline
            /\ u.buffer = d.buffer
        BY <3>3 DEF Utters, Frame
      <3>6. f = [u EXCEPT !.buffer = rest]
        BY <3>5 DEF rest
      <3>7. /\ SameBlocks(u, f) /\ Base(f) /\ f.buffer = rest
            /\ f.thinking = u.thinking /\ f.inThinking = u.inThinking
            /\ f.extracted = u.extracted /\ f.stripNewline = u.stripNewline
        <4> DEFINE x == [u EXCEPT !.buffer = rest]
        <4>1. Base(u) /\ rest \in Text
          BY <3>3, <3>4
        <4>2. /\ SameBlocks(u, x) /\ Base(x) /\ x.buffer = rest
              /\ x.thinking = u.thinking /\ x.inThinking = u.inThinking
              /\ x.extracted = u.extracted /\ x.stripNewline = u.stripNewline
          BY <4>1, BufferIs
        <4>3. f = x
          BY <3>6
        <4> HIDE DEF f, x
        <4> QED
          BY <4>2, <4>3
      <3> HIDE DEF f
      <3>8. f.blocks = d.blocks /\ f.out = u.out
        BY <3>5, <3>7 DEF SameBlocks
      <3>9. ASSUME Loud(f.out, f.thinking) # {}
            PROVE  f.buffer # <<>> /\ ~ f.stripNewline
        <4>1. CASE n = 0
          <5>1. Loud(d.out, d.thinking) # {}
            BY <3>2, <3>3, <3>5, <3>7, <3>8, <3>9, <4>1
          <5>2. d.buffer # <<>> /\ ~ d.stripNewline
            BY <2>6, <2>7, <5>1 DEF Thoughts
          <5>3. Len(d.buffer) # 0
            BY <2>7, <5>2 DEF Text
          <5>4. Len(rest) # 0
            BY <2>7, <3>4, <4>1, <5>3
          <5>5. rest # <<>>
            BY <5>4
          <5> QED
            BY <3>5, <3>7, <5>2, <5>5
        <4>2. CASE n # 0
          <5>1. Len(rest) = 5
            BY <2>7, <2>9, <3>4, <4>2
          <5>2. rest # <<>>
            BY <5>1
          <5>3. Len(d.buffer) # 0
            BY <2>7, <2>9, <4>2
          <5>4. ~ d.stripNewline
            BY <2>3, <5>3
          <5> QED
            BY <3>5, <3>7, <5>2, <5>4
        <4> QED
          BY <4>1, <4>2
      <3>10. ThinkingOpen(f)
        BY <3>1, <3>5, <3>7, <3>8 DEF ThinkingOpen, IsOpen
      <3>11. Thoughts(f)
        BY <2>7, <3>1, <3>5, <3>7, <3>8, <3>9, <3>10 DEF Thoughts
      <3>12. Good(f)
        BY <3>7, <3>11, GoodIs
      <3> QED
        BY <1>1, <1>5, <2>11, <3>12
    <2> QED
      BY <2>10, <2>11
  <1> QED
    BY <1>4, <1>5

LEMMA EmitSniffedGood ==
    ASSUME NEW c, Good(c), NEW text \in Text
    PROVE  /\ Good(EmitSniffed(c, text)) /\ Runs(c, EmitSniffed(c, text))
           /\ EmitSniffed(c, text).inThinking = c.inThinking
           /\ NoThinking(c) => NoThinking(EmitSniffed(c, text))
  <1> DEFINE d == EmitSniffed(c, text)
  <1>1. Runs(c, d)
    BY EmitSniffedRuns, GoodIs
  <1> HIDE DEF d
  <1>2. d.inThinking = c.inThinking
    BY <1>1 DEF Runs, Still, Frame
  <1> QED
    BY <1>1, <1>2, RunsGood, RunsKeep DEF d

\* The buffer goes out as text.
LEMMA SpillGood ==
    ASSUME NEW c, Good(c), ~ c.inThinking
    PROVE  Good(EmitSniffed([c EXCEPT !.buffer = <<>>], c.buffer))
  <1>1. c.buffer \in Text /\ <<>> \in Text
    BY Tags DEF Good, Typed
  <1>2. Good([c EXCEPT !.buffer = <<>>])
    BY <1>1, BufferGood
  <1> QED
    BY <1>1, <1>2, EmitSniffedGood

LEMMA AfterThinkingGood ==
    ASSUME NEW c, Good(c)
    PROVE  Good(AfterThinking(c))
  BY SpillGood DEF AfterThinking

LEMMA ProcessTextGood ==
    ASSUME NEW c, Good(c), NEW text \in Text
    PROVE  Good(ProcessText(c, text))
  <1> DEFINE b == [c EXCEPT !.buffer = c.buffer \o text]
  <1>1. CASE ~ Thinking
    BY <1>1, EmitSniffedGood DEF ProcessText
  <1>2. CASE Thinking
    <2>1. c.buffer \in Text
      BY DEF Good, Typed
    <2>2. c.buffer \o text \in Text /\ Len(c.buffer \o text) = Len(c.buffer) + Len(text)
      BY <2>1, JoinText
    <2>3. c.buffer # <<>> => c.buffer \o text # <<>>
      <3>1. Len(c.buffer) \in Nat /\ Len(text) \in Nat /\ (c.buffer # <<>> => Len(c.buffer) # 0)
        BY <2>1 DEF Text
      <3>2. c.buffer # <<>> => Len(c.buffer \o text) # 0
        BY <2>2, <3>1
      <3> QED
        BY <3>2
    <2>4. c.inThinking /\ Loud(c.out, c.thinking) # {}
          => c.buffer \o text # <<>> /\ ~ c.stripNewline
      BY <2>3 DEF Good, Thoughts
    <2>5. Good(b)
      BY <2>2, <2>4, BufferGood
    <2>6. ProcessText(c, text) = AfterThinking(InsideThinking(LookForThinking(b)))
      BY <1>2, Zenon DEF ProcessText, ProcessWithThinking
    <2> HIDE DEF b
    <2> QED
      BY <1>2, <2>5, <2>6, LookForThinkingGood, InsideThinkingGood, AfterThinkingGood
  <1> QED
    BY <1>1, <1>2

LEMMA TrimStartText ==
    ASSUME NEW s \in Text
    PROVE  TrimStart(s) \in Text
  <1> DEFINE T == {k \in 1..(Len(s) + 1) : k > Len(s) \/ ~ Blank(<<s[k]>>)}
  <1>1. Len(s) \in Nat /\ T \in SUBSET Nat
    BY DEF Text
  <1>2. Len(s) + 1 \in T
    BY <1>1
  <1>3. First(T) \in Nat /\ First(T) > 0
    <2>1. \A k \in T : k > 0
      BY <1>1
    <2> HIDE DEF T
    <2> QED
      BY <1>1, <1>2, <2>1, FirstIsIn
  <1> HIDE DEF T
  <1>4. From(s, First(T)) \in Text
    BY <1>3, FromText
  <1> QED
    BY <1>4 DEF TrimStart, T

LEMMA LeaveAtEndGood ==
    ASSUME NEW c, Good(c), c.inThinking, NEW k \in Nat
    PROVE  LET d == LeaveThinkingAtEnd(c, k) IN
           Good(d) /\ NoThinking(d) /\ ~ d.inThinking
  <1> DEFINE l    == LeaveThinking(c, k)
             b    == [l EXCEPT !.buffer = <<>>]
             text == TrimStart(From(c.buffer, k + Len(CloseTag)))
  <1>1. Good(l) /\ NoThinking(l) /\ ~ l.inThinking
    BY LeaveThinkingGood
  <1> HIDE DEF l
  <1>2. Good(b)
    BY <1>1, Tags, BufferGood
  <1>3. NoThinking(b) /\ ~ b.inThinking
    <2>1. Base(l) /\ <<>> \in Text
      BY <1>1, GoodIs, Tags
    <2>2. SameBlocks(l, b) /\ b.inThinking = l.inThinking
      BY <2>1, BufferIs
    <2> HIDE DEF b
    <2> QED
      BY <1>1, <2>2 DEF NoThinking, SameBlocks
  <1>4. text \in Text
    <2>1. c.buffer \in Text /\ k + Len(CloseTag) \in Nat /\ k + Len(CloseTag) > 0
      BY Tags DEF Good, Typed
    <2> QED
      BY <2>1, FromText, TrimStartText
  <1>5. LeaveThinkingAtEnd(c, k) = EmitSniffed(b, text)
    BY DEF LeaveThinkingAtEnd, l
  <1> HIDE DEF b, text
  <1> QED
    BY <1>2, <1>3, <1>4, <1>5, EmitSniffedGood

-----------------------------------------------------------------------------
(* The Kiro events.                                                          *)

\* Changes of fields that say nothing of blocks and of thinking.
LEMMA OtherFields ==
    ASSUME NEW c, Good(c), NEW x, NEW y
    PROVE  /\ Good([c EXCEPT !.output = x]) /\ Good([c EXCEPT !.hasTool = x])
           /\ Good([c EXCEPT !.stopReason = x]) /\ Good([c EXCEPT !.signature = x])
           /\ Good([c EXCEPT !.fragments = x])
           /\ Good([c EXCEPT !.upstreamError = x, !.stopReason = y])
           /\ Good([c EXCEPT !.toolError = x, !.stopReason = y])
           /\ [c EXCEPT !.output = x].inThinking = c.inThinking
           /\ [c EXCEPT !.signature = x].inThinking = c.inThinking
  <1>1. DOMAIN c = Fields
    BY DEF Good, Typed
  <1> DEFINE Is(d) == Same(c, d) /\ d.sniff = c.sniff /\ d.toolIndex = c.toolIndex
  <1>2. /\ Is([c EXCEPT !.output = x]) /\ Is([c EXCEPT !.hasTool = x])
        /\ Is([c EXCEPT !.stopReason = x]) /\ Is([c EXCEPT !.signature = x])
        /\ Is([c EXCEPT !.fragments = x])
    BY <1>1 DEF Same, Frame, Fields
  <1>3. /\ Is([c EXCEPT !.upstreamError = x, !.stopReason = y])
        /\ Is([c EXCEPT !.toolError = x, !.stopReason = y])
    BY <1>1 DEF Same, Frame, Fields
  <1>4. ASSUME NEW d, Is(d) PROVE Good(d) /\ d.inThinking = c.inThinking
    BY <1>4, SameGood DEF Same, Frame
  <1> HIDE DEF Is
  <1> QED
    BY <1>2, <1>3, <1>4

LEMMA SetStopReasonGood ==
    ASSUME NEW c, Good(c), NEW reason
    PROVE  Good(SetStopReason(c, reason))
  BY OtherFields DEF SetStopReason

LEMMA SetUpstreamErrorGood ==
    ASSUME NEW c, Good(c)
    PROVE  Good(SetUpstreamError(c))
  <1> DEFINE b == [c EXCEPT !.upstreamError = TRUE]
  <1>1. Good(b)
    <2>1. DOMAIN c = Fields
      BY DEF Good, Typed
    <2>2. Same(c, b) /\ b.sniff = c.sniff /\ b.toolIndex = c.toolIndex
      BY <2>1 DEF Same, Frame, Fields
    <2> HIDE DEF b
    <2> QED
      BY <2>2, SameGood
  <1>2. SetUpstreamError(c) = IF c.upstreamError THEN c ELSE SetStopReason(b, "error")
    BY DEF SetUpstreamError
  <1> HIDE DEF b
  <1> QED
    BY <1>1, <1>2, SetStopReasonGood

LEMMA ToolJsonErrorGood ==
    ASSUME NEW c, Good(c)
    PROVE  Good(ToolJsonError(c))
  <1> DEFINE b == [c EXCEPT !.toolError = TRUE]
  <1>1. Good(b)
    <2>1. DOMAIN c = Fields
      BY DEF Good, Typed
    <2>2. Same(c, b) /\ b.sniff = c.sniff /\ b.toolIndex = c.toolIndex
      BY <2>1 DEF Same, Frame, Fields
    <2> HIDE DEF b
    <2> QED
      BY <2>2, SameGood
  <1>2. ToolJsonError(c) = SetStopReason(b, "error")
    BY DEF ToolJsonError
  <1> HIDE DEF b
  <1> QED
    BY <1>1, <1>2, SetStopReasonGood

LEMMA XmlGood ==
    ASSUME NEW c, Good(c), NEW xml, xml.held \in Text, xml.stripping \in BOOLEAN
    PROVE  Good([c EXCEPT !.xml = xml])
  <1> DEFINE d == [c EXCEPT !.xml = xml]
  <1>1. Typed(c) /\ DOMAIN c = Fields /\ Thoughts(c)
    BY DEF Good, Typed
  <1>2. /\ DOMAIN d = Fields /\ SameBlocks(c, d) /\ d.thinking = c.thinking
        /\ d.inThinking = c.inThinking /\ d.extracted = c.extracted
        /\ d.buffer = c.buffer /\ d.stripNewline = c.stripNewline
        /\ d.sniff = c.sniff /\ d.xml = xml
    BY <1>1 DEF Fields, SameBlocks
  <1> HIDE DEF d
  <1>3. Typed(d)
    BY <1>1, <1>2 DEF Typed, SameBlocks
  <1>4. c.inThinking /\ Loud(c.out, c.thinking) # {} => d.buffer # <<>> /\ ~ d.stripNewline
    BY <1>1, <1>2 DEF Thoughts
  <1>5. Good(d)
    BY <1>2, <1>3, <1>4, GoodAs
  <1> QED
    BY <1>5 DEF d

LEMMA AssistantGood ==
    ASSUME NEW c, Good(c), NEW content \in Text
    PROVE  Good(ProcessAssistantResponse(c, content))
  <1> DEFINE f == XmlFilter(c.xml, content)
             xml == [held |-> f.held, stripping |-> f.stripping]
             d == [c EXCEPT !.xml = xml]
             e == LeaveNative(d)
  <1>1. ProcessAssistantResponse(c, content) =
          IF f.out = <<>> THEN d ELSE ProcessText([e EXCEPT !.output = TRUE], f.out)
    BY Zenon DEF ProcessAssistantResponse
  <1>2. c.xml.held \in Text /\ c.xml.stripping \in BOOLEAN
    BY DEF Good, Typed
  <1>3. f.out \in Text /\ f.held \in Text /\ f.stripping \in BOOLEAN
    BY <1>2, XmlFilterText
  <1> HIDE DEF f
  <1>4. xml.held \in Text /\ xml.stripping \in BOOLEAN
    BY <1>3
  <1> HIDE DEF xml
  <1>5. Good(d)
    BY <1>4, XmlGood
  <1> HIDE DEF d
  <1>6. Good(e)
    BY <1>5, LeaveNativeGood
  <1> HIDE DEF e
  <1>7. Good([e EXCEPT !.output = TRUE])
    BY <1>6, OtherFields
  <1>8. Good(ProcessText([e EXCEPT !.output = TRUE], f.out))
    BY <1>3, <1>7, ProcessTextGood
  <1> QED
    BY <1>1, <1>5, <1>8

LEMMA PushToolUseGood ==
    ASSUME NEW c, Good(c), NEW e
    PROVE  Good(PushToolUse(c, e))
  <1> DEFINE json == Pushed(c, e)
             more == Kept(c, e)
             less == [id \in DOMAIN c.fragments \ {e.id} |-> c.fragments[id]]
             rest == [c EXCEPT !.fragments = less]
  <1>1. PushToolUse(c, e) =
          IF ~ e.stop THEN [c EXCEPT !.fragments = more]
          ELSE IF IsJson(json) THEN EmitToolUse(rest, e.id, json) ELSE ToolJsonError(rest)
    BY Zenon DEF PushToolUse
  <1> HIDE DEF json, more, less
  <1>2. Good([c EXCEPT !.fragments = more]) /\ Good(rest)
    BY OtherFields
  <1> HIDE DEF rest
  <1>3. Good(EmitToolUse(rest, e.id, json))
    <2>1. Runs(rest, EmitToolUse(rest, e.id, json))
      BY <1>2, GoodIs, EmitToolUseRuns
    <2> QED
      BY <1>2, <2>1, RunsGood
  <1>4. Good(ToolJsonError(rest))
    BY <1>2, ToolJsonErrorGood
  <1> QED
    BY <1>1, <1>2, <1>3, <1>4

LEMMA LeaveTaggedGood ==
    ASSUME NEW c, Good(c)
    PROVE  Good(LeaveTagged(c))
  <1>1. FindEndTagAtEnd(c.buffer) \in Nat
    BY TagsAre DEF Good, Typed
  <1> QED
    BY <1>1, LeaveAtEndGood DEF LeaveTagged

LEMMA FlushBufferGood ==
    ASSUME NEW c, Good(c)
    PROVE  Good(FlushBuffer(c))
  BY SpillGood DEF FlushBuffer

LEMMA ProcessToolUseGood ==
    ASSUME NEW c, Good(c), NEW e
    PROVE  Good(ProcessToolUse(c, e))
  <1>1. Good([c EXCEPT !.hasTool = TRUE])
    BY OtherFields
  <1> QED
    BY <1>1, LeaveNativeGood, LeaveTaggedGood, FlushBufferGood, PushToolUseGood
    DEF ProcessToolUse

LEMMA EnsureThinkingGood ==
    ASSUME NEW c, Good(c), ~ c.inThinking
    PROVE  LET d == EnsureThinking(c) IN Good(d) /\ ThinkingOpen(d) /\ ~ d.inThinking
  <1> DEFINE d == [c EXCEPT !.buffer = <<>>]
             t == IF Blank(c.buffer) THEN d ELSE EmitSniffed(d, c.buffer)
             f == CloseText(t)
             b == [f EXCEPT !.extracted = TRUE]
  <1>1. EnsureThinking(c) = IF ThinkingOpen(c) THEN c ELSE StartThinking(b)
    BY DEF EnsureThinking
  <1>2. CASE ThinkingOpen(c)
    BY <1>1, <1>2
  <1>3. CASE ~ ThinkingOpen(c)
    <2>1. c.buffer \in Text /\ <<>> \in Text /\ Base(c) /\ NoThinking(c)
      BY <1>3, GoodIs, NoneOpen, Tags DEF Good, Typed
    <2>2. Base(d) /\ SameBlocks(c, d) /\ d.inThinking = c.inThinking
      BY <2>1, BufferIs
    <2> HIDE DEF d
    <2>3. NoThinking(d)
      BY <2>1, <2>2 DEF NoThinking, SameBlocks
    <2>4. Runs(d, t)
      BY <2>1, <2>2, RunsSelf, EmitSniffedRuns
    <2> HIDE DEF t
    <2>5. Runs(t, f)
      BY <2>4, CloseTextRuns DEF Runs
    <2>6. Runs(d, f)
      BY <2>4, <2>5, RunsThen
    <2> HIDE DEF f
    <2>7. Base(f) /\ NoThinking(f) /\ ~ f.inThinking /\ Typed(f)
      BY <2>2, <2>3, <2>6, RunsKeep DEF Runs, Still, Frame, Base, Core
    <2>8. /\ DOMAIN b = Fields /\ SameBlocks(f, b) /\ b.thinking = f.thinking
          /\ b.inThinking = f.inThinking /\ b.extracted = TRUE /\ b.buffer = f.buffer
          /\ b.stripNewline = f.stripNewline /\ b.sniff = f.sniff /\ b.xml = f.xml
      <3>1. DOMAIN f = Fields
        BY <2>7 DEF Typed
      <3> QED
        BY <3>1 DEF Fields, SameBlocks
    <2> HIDE DEF b
    <2>9. Typed(b)
      BY <2>7, <2>8 DEF Typed, SameBlocks
    <2>10. Base(b)
      BY <2>7, <2>8, <2>9, BaseAs
    <2>11. NoThinking(b)
      BY <2>7, <2>8 DEF NoThinking, SameBlocks
    <2>12. /\ Good(StartThinking(b)) /\ ThinkingOpen(StartThinking(b))
           /\ ~ StartThinking(b).inThinking
      BY <2>7, <2>8, <2>10, <2>11, StartThinkingGood
    <2> QED
      BY <1>1, <1>3, <2>12
  <1> QED
    BY <1>2, <1>3

LEMMA SendReasoningGood ==
    ASSUME NEW c, Good(c), ~ c.inThinking, NEW text
    PROVE  Good(SendReasoning(c, text)) /\ ~ SendReasoning(c, text).inThinking
  <1> DEFINE b == [c EXCEPT !.output = TRUE]
             d == EnsureThinking(b)
             e == SendThinking(d, text)
  <1>1. CASE text = <<>>
    BY <1>1 DEF SendReasoning
  <1>2. CASE text # <<>>
    <2>1. Good(b) /\ ~ b.inThinking
      BY OtherFields
    <2>2. SendReasoning(c, text) = e
      BY <1>2 DEF SendReasoning
    <2> HIDE DEF b
    <2>3. Good(d) /\ ThinkingOpen(d) /\ ~ d.inThinking
      BY <2>1, EnsureThinkingGood
    <2> HIDE DEF d
    <2>4. Base(d) /\ Thoughts(d)
      BY <2>3, GoodIs
    <2>5. Utters(d, e)
      BY <2>3, <2>4, SendThinkingSays DEF Base
    <2> HIDE DEF e
    <2>6. Base(e)
      BY <2>4, <2>5 DEF Utters, Base, Tools
    <2>7. Thoughts(e) /\ ~ e.inThinking
      BY <2>3, <2>4, <2>5 DEF Utters, Frame, Thoughts
    <2> QED
      BY <2>2, <2>6, <2>7, GoodIs
  <1> QED
    BY <1>1, <1>2

LEMMA SendRedactedGood ==
    ASSUME NEW c, Good(c), ~ c.inThinking
    PROVE  Good(SendRedacted(c))
  <1> DEFINE a == [c EXCEPT !.output = TRUE]
             b == CloseThinking(a)
             d == CloseText(b)
             e == StartBlock(d, "redacted_thinking", "-")
             n == Len(c.blocks) + 1
             f == StopBlock(e, n)
  <1>1. SendRedacted(c) = f
    BY DEF SendRedacted
  <1>2. Good(a) /\ ~ a.inThinking
    BY OtherFields
  <1>3. a.blocks = c.blocks /\ c.blocks \in Seq(Block)
    <2>1. DOMAIN c = Fields /\ c.blocks \in Seq(Block)
      BY DEF Good, Typed
    <2> QED
      BY <2>1 DEF Fields
  <1> HIDE DEF a
  <1>4. Good(b) /\ DOMAIN b.blocks = DOMAIN c.blocks
    BY <1>2, <1>3, CloseThinkingGood
  <1> HIDE DEF b
  <1>5. Runs(b, d)
    BY <1>4, GoodIs, CloseTextRuns
  <1> HIDE DEF d
  <1>6. Begins(d, e, "redacted_thinking")
    <2>1. Core(d) /\ "redacted_thinking" \in BlockTypes
      BY <1>5 DEF Runs, Base, BlockTypes
    <2> QED
      BY <2>1, StartBlockIs
  <1> HIDE DEF e
  <1>7. Moves(d, e)
    BY <1>6, BeginsMoves
  <1>8. Runs(d, e)
    BY <1>5, <1>7, MovesRuns DEF Runs
  <1>9. n \in DOMAIN e.blocks => e.blocks[n].type # "thinking"
    <2> SUFFICES ASSUME n \in DOMAIN e.blocks, e.blocks[n].type = "thinking" PROVE FALSE
      OBVIOUS
    <2>1. n \in DOMAIN d.blocks /\ d.blocks[n].type = "thinking"
      BY <1>8 DEF Runs, Still, BlocksStay
    <2>2. n \in DOMAIN b.blocks
      BY <1>5, <2>1 DEF Runs, Still, BlocksStay
    <2>3. DOMAIN c.blocks = 1 .. Len(c.blocks) /\ Len(c.blocks) \in Nat
      BY <1>3, BlocksAre
    <2> QED
      BY <1>4, <2>2, <2>3
  <1> HIDE DEF n
  <1>10. Moves(e, f)
    BY <1>8, <1>9, StopBlockMoves DEF Runs, Base
  <1>11. Runs(e, f)
    BY <1>8, <1>10, MovesRuns DEF Runs
  <1> HIDE DEF f
  <1>12. Runs(b, f)
    BY <1>5, <1>8, <1>11, RunsThen
  <1> QED
    BY <1>1, <1>4, <1>12, RunsGood

LEMMA ReasoningGood ==
    ASSUME NEW c, Good(c), NEW e, e.text \in Text,
           c.inThinking => e.text = <<>> /\ ~ e.redacted
    PROVE  Good(ProcessReasoning(c, e))
  <1> DEFINE b == IF e.signature THEN [c EXCEPT !.signature = <<"native">>] ELSE c
             d == SendReasoning(b, e.text)
  <1>1. CASE ~ Thinking
    <2>1. Good([c EXCEPT !.output = TRUE])
      BY OtherFields
    <2> QED
      BY <1>1, <2>1, EmitSniffedGood DEF ProcessReasoning
  <1>2. CASE Thinking
    <2>1. Good(b) /\ b.inThinking = c.inThinking
      BY OtherFields
    <2>2. ProcessReasoning(c, e) = NativeReasoning(d, e)
      BY <1>2 DEF ProcessReasoning
    <2> HIDE DEF b
    <2>3. CASE c.inThinking
      <3>1. d = b /\ ~ e.redacted
        BY <2>3 DEF SendReasoning
      <3> QED
        BY <2>1, <2>2, <3>1 DEF NativeReasoning
    <2>4. CASE ~ c.inThinking
      <3>1. Good(d) /\ ~ d.inThinking
        BY <2>1, <2>4, SendReasoningGood
      <3> HIDE DEF d
      <3> QED
        BY <2>2, <3>1, SendRedactedGood DEF NativeReasoning
    <2> QED
      BY <2>3, <2>4
  <1> QED
    BY <1>1, <1>2

LEMMA EventGood ==
    ASSUME NEW c, Good(c), NEW e,
           e.kind = "assistant" => e.content \in Text,
           e.kind = "reasoning" => e.text \in Text,
           e.kind = "reasoning" /\ c.inThinking => e.text = <<>> /\ ~ e.redacted
    PROVE  Good(ProcessKiroEvent(c, e))
  <1>1. CASE e.kind = "assistant"
    BY <1>1, AssistantGood DEF ProcessKiroEvent
  <1>2. CASE e.kind = "tool"
    BY <1>2, ProcessToolUseGood DEF ProcessKiroEvent
  <1>3. CASE e.kind = "reasoning"
    BY <1>3, ReasoningGood DEF ProcessKiroEvent
  <1>4. CASE e.kind = "contextUsage"
    BY <1>4, SetStopReasonGood DEF ProcessKiroEvent
  <1>5. CASE e.kind = "exception" /\ e.tooLong
    BY <1>5, SetStopReasonGood DEF ProcessKiroEvent
  <1>6. CASE /\ e.kind \notin {"assistant", "tool", "reasoning", "contextUsage"}
             /\ ~ (e.kind = "exception" /\ e.tooLong)
    BY <1>6, SetUpstreamErrorGood DEF ProcessKiroEvent
  <1> QED
    BY <1>1, <1>2, <1>3, <1>4, <1>5, <1>6

-----------------------------------------------------------------------------
(* The end of the message.                                                   *)

LEMMA FlushFilterGood ==
    ASSUME NEW c, Good(c)
    PROVE  Good(FlushFilter(c))
  <1>1. XmlFilterInit.held \in Text /\ XmlFilterInit.stripping \in BOOLEAN
    BY Tags DEF XmlFilterInit
  <1>2. Good([c EXCEPT !.xml = XmlFilterInit]) /\ c.xml.held \in Text
    BY <1>1, XmlGood DEF Good, Typed
  <1> QED
    BY <1>2, ProcessTextGood DEF FlushFilter

\* No open block of thinking has said anything: none needs a signature.
Silent(c) ==
    \A i \in DOMAIN c.blocks :
        c.blocks[i].type = "thinking" /\ c.blocks[i].open => Loud(c.out, i) = {}

Flushed(c) == Base(c) /\ Silent(c)

LEMMA NothingFlushed ==
    ASSUME NEW c, Base(c), NoThinking(c)
    PROVE  Flushed(c)
  BY DEF Flushed, Silent, NoThinking

LEMMA RunsFlushed ==
    ASSUME NEW c, Flushed(c), NEW d, Runs(c, d)
    PROVE  Flushed(d)
  BY DEF Flushed, Silent, Runs, Still, BlocksStay

LEMMA SameFlushed ==
    ASSUME NEW c, Flushed(c), NEW d, Same(c, d), d.sniff = c.sniff, d.toolIndex = c.toolIndex
    PROVE  Flushed(d)
  <1>1. Base(c) /\ c.sniff \in Text
    BY DEF Flushed, Base, Core, Typed
  <1>2. Runs(c, d)
    BY <1>1, SameRuns
  <1> QED
    BY <1>2, RunsFlushed

LEMMA EmptyBuffer ==
    ASSUME NEW c, Base(c), NoThinking(c)
    PROVE  Flushed([c EXCEPT !.buffer = <<>>])
  <1> DEFINE d == [c EXCEPT !.buffer = <<>>]
  <1>1. SameBlocks(c, d) /\ Base(d)
    BY Tags, BufferIs
  <1> HIDE DEF d
  <1>2. NoThinking(d)
    BY <1>1 DEF NoThinking, SameBlocks
  <1> QED
    BY <1>1, <1>2, NothingFlushed DEF d

LEMMA FlushThinkingFlushed ==
    ASSUME NEW c, Good(c), c.inThinking \/ NoThinking(c)
    PROVE  Flushed(FlushThinking(c))
  <1> DEFINE k == FindEndTagAtEnd(c.buffer)
             e == EmitSniffed(c, c.buffer)
             s == SendThinking(c, c.buffer)
             f == FinishThinking(s, Placeholder)
  <1>1. FlushThinking(c) =
          IF ~ Thinking \/ c.buffer = <<>> THEN c
          ELSE IF ~ c.inThinking THEN [e EXCEPT !.buffer = <<>>]
          ELSE IF k > 0 THEN LeaveThinkingAtEnd(c, k) ELSE [f EXCEPT !.buffer = <<>>]
    BY Zenon DEF FlushThinking
  <1>2. Base(c) /\ Thoughts(c) /\ c.buffer \in Text
    BY GoodIs DEF Good, Typed
  <1>3. k \in Nat
    BY <1>2, TagsAre
  <1> HIDE DEF k
  <1>4. CASE ~ Thinking \/ c.buffer = <<>>
    <2>1. CASE NoThinking(c)
      BY <1>1, <1>2, <1>4, <2>1, NothingFlushed
    <2>2. CASE c.inThinking
      <3>1. Loud(c.out, c.thinking) = {}
        BY <1>2, <1>4, <2>2 DEF Thoughts
      <3>2. Silent(c)
        BY <3>1, OnlyOpen DEF Silent
      <3> QED
        BY <1>1, <1>2, <1>4, <3>2 DEF Flushed
    <2> QED
      BY <2>1, <2>2
  <1>5. CASE ~ (~ Thinking \/ c.buffer = <<>>) /\ ~ c.inThinking
    <2>1. Runs(c, e)
      BY <1>2, EmitSniffedRuns
    <2> HIDE DEF e
    <2>2. Base(e) /\ NoThinking(e)
      BY <1>5, <2>1, RunsKeep DEF Runs
    <2>3. Flushed([e EXCEPT !.buffer = <<>>])
      BY <2>2, EmptyBuffer
    <2> QED
      BY <1>1, <1>5, <2>3
  <1>6. CASE ~ (~ Thinking \/ c.buffer = <<>>) /\ c.inThinking /\ k > 0
    <2>1. Good(LeaveThinkingAtEnd(c, k)) /\ NoThinking(LeaveThinkingAtEnd(c, k))
      BY <1>3, <1>6, LeaveAtEndGood
    <2>2. Flushed(LeaveThinkingAtEnd(c, k))
      BY <2>1, GoodIs, NothingFlushed
    <2> QED
      BY <1>1, <1>6, <2>2
  <1>7. CASE ~ (~ Thinking \/ c.buffer = <<>>) /\ c.inThinking /\ ~ k > 0
    <2>1. ThinkingOpen(c)
      BY <1>2, <1>7 DEF Thoughts
    <2>2. Utters(c, s)
      BY <1>2, <2>1, SendThinkingSays DEF Base
    <2> HIDE DEF s
    <2>3. Base(s)
      BY <1>2, <2>2 DEF Utters, Base, Tools
    <2>4. s.blocks = c.blocks /\ s.thinking = c.thinking
      BY <2>2 DEF Utters, Frame
    <2>5. ThinkingOpen(s)
      BY <2>1, <2>4 DEF ThinkingOpen, IsOpen
    <2>6. \A i \in DOMAIN s.blocks :
             s.blocks[i].type = "thinking" /\ s.blocks[i].open => i = s.thinking
      BY <2>4, OnlyOpen
    <2>7. Base(f) /\ NoThinking(f)
      BY <2>3, <2>5, <2>6, FinishBase
    <2> HIDE DEF f
    <2>8. Flushed([f EXCEPT !.buffer = <<>>])
      BY <2>7, EmptyBuffer
    <2> QED
      BY <1>1, <1>7, <2>8
  <1> QED
    BY <1>4, <1>5, <1>6, <1>7

LEMMA SetStopReasonFlushed ==
    ASSUME NEW c, Flushed(c), NEW reason
    PROVE  Flushed(SetStopReason(c, reason))
  <1> DEFINE d == SetStopReason(c, reason)
  <1>1. DOMAIN c = Fields
    BY DEF Flushed, Base, Core, Typed
  <1>2. Same(c, d) /\ d.sniff = c.sniff /\ d.toolIndex = c.toolIndex
    BY <1>1 DEF SetStopReason, Same, Frame, Fields
  <1> HIDE DEF d
  <1> QED
    BY <1>2, SameFlushed DEF d

LEMMA AddTextFlushed ==
    ASSUME NEW c, Flushed(c)
    PROVE  Flushed(AddText(c))
  <1> DEFINE d == SetStopReason(c, "max_tokens")
  <1>1. Flushed(d)
    BY SetStopReasonFlushed
  <1> HIDE DEF d
  <1>2. <<" ">> \in Text
    <2>1. {" "} \subseteq Cell
      BY DEF Cell, Words
    <2>2. <<" ">> \in Seq({" "})
      OBVIOUS
    <2> QED
      BY <2>1, <2>2, SeqMonotonic, Zenon DEF Text
  <1>3. Runs(d, EmitSniffed(d, <<" ">>))
    BY <1>1, <1>2, EmitSniffedRuns DEF Flushed
  <1>4. Flushed(EmitSniffed(d, <<" ">>))
    BY <1>1, <1>3, RunsFlushed
  <1> QED
    BY <1>4 DEF AddText, d

LEMMA FlushSniffFlushed ==
    ASSUME NEW c, Flushed(c)
    PROVE  Flushed(FlushSniff(c))
  <1>1. Runs(c, DrainSniff(c, TRUE))
    BY DrainSniffRuns DEF Flushed
  <1> QED
    BY <1>1, RunsFlushed DEF FlushSniff

LEMMA FinishToolsFlushed ==
    ASSUME NEW c, Flushed(c)
    PROVE  Flushed(FinishTools(c))
  <1> DEFINE b == [c EXCEPT !.toolError = TRUE]
  <1>1. DOMAIN c = Fields
    BY DEF Flushed, Base, Core, Typed
  <1>2. Same(c, b) /\ b.sniff = c.sniff /\ b.toolIndex = c.toolIndex
    BY <1>1 DEF Same, Frame, Fields
  <1> HIDE DEF b
  <1>3. Flushed(SetStopReason(b, "error"))
    BY <1>2, SameFlushed, SetStopReasonFlushed
  <1> QED
    BY <1>3 DEF FinishTools, ToolJsonError, b

\* An event that is of no block.
LEMMA OtherEvent ==
    ASSUME NEW blocks, NEW out, IsSeq(out), Bracketed(blocks, out), Signed(blocks, out),
           NEW e, ~ IsBlockEvent(e)
    PROVE  Bracketed(blocks, Append(out, e)) /\ Signed(blocks, Append(out, e))
  <1> DEFINE new == Append(out, e)
  <1>1. Appended(out, e, new)
    BY AppendSeq
  <1>2. \A j : Of(new, j) = Of(out, j) /\ \A k \in Of(out, j) : new[k] = out[k]
    BY OneMore
  <1>3. e.ev # "content_block_delta"
    BY DEF IsBlockEvent
  <1>4. \A j : Loud(new, j) = Loud(out, j) /\ Signatures(new, j) = Signatures(out, j)
    BY <1>3, QuietEvent
  <1> HIDE DEF new
  <1>5. DOMAIN out \subseteq DOMAIN new
    BY <1>1 DEF Appended
  <1>6. Signed(blocks, new)
    BY <1>4, <1>5, QuietSigned
  <1>7. ASSUME NEW k \in DOMAIN new, IsBlockEvent(new[k])
        PROVE  new[k].index \in DOMAIN blocks
    <2>1. k \in DOMAIN out /\ new[k] = out[k]
      BY <1>1, <1>7 DEF Appended
    <2> QED
      BY <1>7, <2>1 DEF Bracketed
  <1>8. ASSUME NEW i \in DOMAIN blocks
        PROVE  /\ Begun(new, i, blocks[i].type)
               /\ IF blocks[i].open THEN Running(new, i) ELSE Stopped(new, i)
    <2>1. Of(new, i) = Of(out, i) /\ \A k \in Of(out, i) : new[k] = out[k]
      BY <1>2
    <2>2. /\ Begun(out, i, blocks[i].type)
          /\ IF blocks[i].open THEN Running(out, i) ELSE Stopped(out, i)
      BY DEF Bracketed
    <2>3. Begun(new, i, blocks[i].type)
      BY <2>1, <2>2 DEF Begun
    <2>4. (Running(out, i) => Running(new, i)) /\ (Stopped(out, i) => Stopped(new, i))
      BY <2>1 DEF Running, Stopped
    <2> QED
      BY <2>2, <2>3, <2>4
  <1> QED
    BY <1>6, <1>7, <1>8 DEF Bracketed, new

LEMMA EndsAt ==
    ASSUME NEW blocks, NEW out, IsSeq(out), Bracketed(blocks, out), Signed(blocks, out),
           Unended(out), \A i \in DOMAIN blocks : ~ blocks[i].open,
           NEW d, d.ev = "message_delta", NEW s, s.ev = "message_stop"
    PROVE  \E n : EndedAt(blocks, Append(Append(out, d), s), n)
  <1> DEFINE mid == Append(out, d)
             new == Append(mid, s)
             n   == Len(out) + 1
  <1>1. Appended(out, d, mid)
    BY AppendSeq
  <1>2. IsSeq(mid)
    BY <1>1 DEF Appended
  <1>3. ~ IsBlockEvent(d) /\ ~ IsBlockEvent(s)
    BY DEF IsBlockEvent
  <1>4. Bracketed(blocks, mid) /\ Signed(blocks, mid)
    BY <1>3, OtherEvent
  <1> HIDE DEF mid
  <1>5. Appended(mid, s, new)
    BY <1>2, AppendSeq
  <1>6. Bracketed(blocks, new) /\ Signed(blocks, new)
    BY <1>2, <1>3, <1>4, OtherEvent
  <1> HIDE DEF new
  <1>7. /\ Len(out) \in Nat /\ DOMAIN out = 1 .. Len(out) /\ DOMAIN new = 1 .. (Len(out) + 2)
        /\ \A k \in DOMAIN out : new[k] = out[k]
        /\ new[n] = d /\ new[n + 1] = s /\ IsSeq(new)
    <2>1. /\ Len(out) \in Nat /\ DOMAIN out = 1 .. Len(out) /\ Len(mid) = Len(out) + 1
          /\ \A k \in 1 .. Len(out) : mid[k] = out[k]
          /\ mid[n] = d
      BY <1>1 DEF Appended
    <2>2. /\ DOMAIN new = 1 .. (Len(mid) + 1) /\ new[Len(mid) + 1] = s /\ IsSeq(new)
          /\ \A k \in 1 .. Len(mid) : new[k] = mid[k]
      BY <1>5 DEF Appended
    <2> QED
      BY <2>1, <2>2
  <1>8. ASSUME NEW k \in DOMAIN new
        PROVE  /\ k < n => new[k].ev \notin {"message_delta", "message_stop", "error"}
               /\ k > n + 1 => new[k].ev = "error"
    <2>1. k < n => k \in DOMAIN out
      BY <1>7
    <2>2. ~ (k > n + 1)
      BY <1>7
    <2> QED
      BY <1>7, <2>1, <2>2 DEF Unended
  <1>9. n \in DOMAIN new /\ n + 1 \in DOMAIN new
    BY <1>7
  <1>10. EndedAt(blocks, new, n)
    BY <1>6, <1>7, <1>8, <1>9 DEF EndedAt
  <1> QED
    BY <1>10 DEF new, mid

LEMMA ErrorEnds ==
    ASSUME NEW blocks, NEW out, NEW n, EndedAt(blocks, out, n), NEW e, e.ev = "error"
    PROVE  EndedAt(blocks, Append(out, e), n)
  <1> DEFINE new == Append(out, e)
  <1>1. IsSeq(out) /\ Bracketed(blocks, out) /\ Signed(blocks, out)
    BY DEF EndedAt
  <1>2. ~ IsBlockEvent(e)
    BY DEF IsBlockEvent
  <1>3. Bracketed(blocks, new) /\ Signed(blocks, new)
    BY <1>1, <1>2, OtherEvent
  <1>4. Appended(out, e, new)
    BY <1>1, AppendSeq
  <1> HIDE DEF new
  <1>5. /\ Len(out) \in Nat /\ DOMAIN out = 1 .. Len(out) /\ DOMAIN new = 1 .. (Len(out) + 1)
        /\ \A k \in 1 .. Len(out) : new[k] = out[k]
        /\ new[Len(out) + 1] = e /\ IsSeq(new)
    BY <1>4 DEF Appended
  <1>6. /\ n \in 1 .. Len(out) /\ out[n].ev = "message_delta"
        /\ n + 1 \in 1 .. Len(out) /\ out[n + 1].ev = "message_stop"
        /\ \A k \in 1 .. Len(out) :
             /\ k < n => out[k].ev \notin {"message_delta", "message_stop", "error"}
             /\ k > n + 1 => out[k].ev = "error"
    BY <1>5 DEF EndedAt
  <1>7. ASSUME NEW k \in DOMAIN new
        PROVE  /\ k < n => new[k].ev \notin {"message_delta", "message_stop", "error"}
               /\ k > n + 1 => new[k].ev = "error"
    <2>1. CASE k \in 1 .. Len(out)
      BY <1>5, <1>6, <2>1
    <2>2. CASE k = Len(out) + 1
      BY <1>5, <1>6, <2>2
    <2> QED
      BY <1>5, <2>1, <2>2
  <1>8. n \in DOMAIN new /\ n + 1 \in DOMAIN new /\ new[n] = out[n] /\ new[n + 1] = out[n + 1]
    BY <1>5, <1>6
  <1>9. \A i \in DOMAIN blocks : ~ blocks[i].open
    BY DEF EndedAt
  <1>10. EndedAt(blocks, new, n)
    BY <1>3, <1>5, <1>6, <1>7, <1>8, <1>9 DEF EndedAt
  <1> QED
    BY <1>10 DEF new

LEMMA EndMessageOver ==
    ASSUME NEW c, Flushed(c)
    PROVE  Over(EndMessage(c)) /\ DOMAIN EndMessage(c) = Fields
  <1> DEFINE b    == [c EXCEPT !.ended = TRUE]
             d    == StopAll(b, BlockTypes)
             last == [ev |-> "message_delta", reason |-> StopReason(c)]
             stop == [ev |-> "message_stop"]
             m    == Send(d, last)
             e    == Send(m, stop)
  <1>1. /\ DOMAIN c = Fields /\ c.blocks \in Seq(Block) /\ IsSeq(c.out)
        /\ Bracketed(c.blocks, c.out) /\ Unended(c.out) /\ Signed(c.blocks, c.out)
        /\ c.ended = FALSE
    BY DEF Flushed, Base, Core, Typed, Sound
  <1>2. EndMessage(c) = e
    BY <1>1, Zenon DEF EndMessage
  <1>3. last.ev = "message_delta" /\ stop.ev = "message_stop"
    OBVIOUS
  <1>4. DOMAIN b = Fields /\ b.blocks = c.blocks /\ b.out = c.out
    BY <1>1 DEF Fields
  <1> HIDE DEF b, last, stop
  <1>5. StopsAll(b, d, BlockTypes)
    BY <1>1, <1>4, StopAllKeeps
  <1> HIDE DEF d
  <1>6. /\ DOMAIN d = Fields /\ d.blocks \in Seq(Block) /\ IsSeq(d.out)
        /\ Bracketed(d.blocks, d.out) /\ Unended(d.out)
        /\ DOMAIN c.out \subseteq DOMAIN d.out
        /\ \A i : Loud(d.out, i) = Loud(c.out, i) /\ Signatures(d.out, i) = Signatures(c.out, i)
        /\ DOMAIN d.blocks = DOMAIN c.blocks
        /\ \A i \in DOMAIN c.blocks :
              /\ d.blocks[i].type = c.blocks[i].type
              /\ c.blocks[i].type \in BlockTypes => ~ d.blocks[i].open
    BY <1>4, <1>5 DEF StopsAll, Frame
  <1>7. \A i \in DOMAIN d.blocks : ~ d.blocks[i].open
    BY <1>1, <1>6, BlocksAre
  <1>8. Signed(d.blocks, d.out)
    <2> SUFFICES ASSUME NEW i \in DOMAIN d.blocks, d.blocks[i].type = "thinking"
                 PROVE  \/ Loud(d.out, i) = {}
                        \/ \E k \in DOMAIN d.out : Signatures(d.out, i) = {k}
      BY <1>7 DEF Signed
    <2>1. i \in DOMAIN c.blocks /\ c.blocks[i].type = "thinking"
      BY <1>6
    <2>2. CASE c.blocks[i].open
      <3>1. Loud(c.out, i) = {}
        BY <2>1, <2>2 DEF Flushed, Silent
      <3> QED
        BY <1>6, <3>1
    <2>3. CASE ~ c.blocks[i].open
      <3>1. Loud(c.out, i) = {} \/ \E k \in DOMAIN c.out : Signatures(c.out, i) = {k}
        BY <1>1, <2>1, <2>3 DEF Signed
      <3> QED
        BY <1>6, <3>1
    <2> QED
      BY <2>2, <2>3
  <1>9. \E n : EndedAt(d.blocks, Append(Append(d.out, last), stop), n)
    BY <1>3, <1>6, <1>7, <1>8, EndsAt
  <1>10. DOMAIN m = Fields /\ m.blocks = d.blocks /\ m.out = Append(d.out, last)
    BY <1>6, SendIs DEF Frame
  <1> HIDE DEF m
  <1>11. DOMAIN e = Fields /\ e.blocks = d.blocks /\ e.out = Append(Append(d.out, last), stop)
    BY <1>10, SendIs DEF Frame
  <1> HIDE DEF e
  <1> QED
    BY <1>2, <1>9, <1>11 DEF Over

LEMMA OneError ==
    ASSUME NEW blocks, NEW out, NEW n, EndedAt(blocks, out, n), NEW e, e.ev = "error"
    PROVE  EndedAt(blocks, out \o <<e>>, n) /\ EndedAt(blocks, out \o <<>>, n)
  <1>1. IsSeq(out)
    BY DEF EndedAt
  <1> DEFINE T == {out[k] : k \in DOMAIN out} \cup {e}
  <1>2. out \in Seq({out[k] : k \in DOMAIN out})
    BY <1>1 DEF IsSeq
  <1>3. out \in Seq(T) /\ e \in T
    BY <1>2, SeqMonotonic
  <1> HIDE DEF T
  <1>4. out \o <<e>> = Append(out, e) /\ out \o <<>> = out
    BY <1>3
  <1>5. EndedAt(blocks, Append(out, e), n)
    BY ErrorEnds
  <1> QED
    BY <1>4, <1>5

LEMMA SendErrorsOver ==
    ASSUME NEW c, Over(c), DOMAIN c = Fields
    PROVE  Over(SendErrors(c))
  <1> DEFINE a    == [ev |-> "error", type |-> "upstream_tool_json_error"]
             b    == [ev |-> "error", type |-> "api_error"]
             tool == IF c.toolError THEN <<a>> ELSE <<>>
             up   == IF c.upstreamError THEN <<b>> ELSE <<>>
             new  == (c.out \o tool) \o up
             d    == [c EXCEPT !.out = new]
  <1>1. SendErrors(c) = d
    BY Zenon DEF SendErrors
  <1>2. PICK n : EndedAt(c.blocks, c.out, n)
    BY DEF Over
  <1>3. a.ev = "error" /\ b.ev = "error"
    OBVIOUS
  <1> HIDE DEF a, b
  <1>4. EndedAt(c.blocks, c.out \o tool, n)
    BY <1>2, <1>3, OneError
  <1> HIDE DEF tool
  <1>5. EndedAt(c.blocks, new, n)
    BY <1>3, <1>4, OneError
  <1> HIDE DEF new
  <1>6. d.blocks = c.blocks /\ d.out = new
    BY DEF Fields
  <1> HIDE DEF d
  <1> QED
    BY <1>1, <1>5, <1>6 DEF Over

LEMMA FinalEventsOver ==
    ASSUME NEW c, Good(c)
    PROVE  Over(FinalEvents(c))
  <1> DEFINE a == FlushFilter(c)
             b == LeaveNative(a)
             d == FlushThinking(b)
             e == AddText(d)
             f == FlushSniff(e)
             g == FinishTools(f)
             h == EndMessage(g)
  <1>1. FinalEvents(c) = SendErrors(h)
    BY DEF FinalEvents
  <1>2. Good(a)
    BY FlushFilterGood
  <1> HIDE DEF a
  <1>3. Good(b) /\ (b.inThinking \/ NoThinking(b))
    BY <1>2, LeaveNativeGood
  <1> HIDE DEF b
  <1>4. Flushed(d)
    BY <1>3, FlushThinkingFlushed
  <1> HIDE DEF d
  <1>5. Flushed(e)
    BY <1>4, AddTextFlushed
  <1> HIDE DEF e
  <1>6. Flushed(f)
    BY <1>5, FlushSniffFlushed
  <1> HIDE DEF f
  <1>7. Flushed(g)
    BY <1>6, FinishToolsFlushed
  <1> HIDE DEF g
  <1>8. Over(h) /\ DOMAIN h = Fields
    BY <1>7, EndMessageOver
  <1> HIDE DEF h
  <1> QED
    BY <1>1, <1>8, SendErrorsOver

-----------------------------------------------------------------------------
(* What the invariant says of the client's message.                          *)

LEMMA MinIs ==
    ASSUME NEW T, T \subseteq Nat, NEW s \in T, \A k \in T : k >= s
    PROVE  Min(T) = s
  <1>1. \A x \in T : (\A y \in T : x <= y) => x = s
    <2> SUFFICES ASSUME NEW x \in T, \A y \in T : x <= y PROVE x = s
      OBVIOUS
    <2>1. x <= s /\ x >= s /\ x \in Nat /\ s \in Nat
      OBVIOUS
    <2> QED
      BY <2>1
  <1>2. \A y \in T : s <= y
    <2> SUFFICES ASSUME NEW y \in T PROVE s <= y
      OBVIOUS
    <2>1. y >= s /\ y \in Nat /\ s \in Nat
      OBVIOUS
    <2> QED
      BY <2>1
  <1> QED
    BY <1>1, <1>2 DEF Min

LEMMA MaxIs ==
    ASSUME NEW T, T \subseteq Nat, NEW t \in T, \A k \in T : k <= t
    PROVE  Max(T) = t
  <1>1. \A x \in T : (\A y \in T : x >= y) => x = t
    <2> SUFFICES ASSUME NEW x \in T, \A y \in T : x >= y PROVE x = t
      OBVIOUS
    <2>1. x <= t /\ x >= t /\ x \in Nat /\ t \in Nat
      OBVIOUS
    <2> QED
      BY <2>1
  <1>2. \A y \in T : t >= y
    <2> SUFFICES ASSUME NEW y \in T PROVE t >= y
      OBVIOUS
    <2>1. y <= t /\ y \in Nat /\ t \in Nat
      OBVIOUS
    <2> QED
      BY <2>1
  <1> QED
    BY <1>1, <1>2 DEF Max

\* Every block is between its start and its stop.
LEMMA BracketsShow ==
    ASSUME IsSeq(ctx.out), Bracketed(ctx.blocks, ctx.out),
           ctx.ended => \A j \in DOMAIN ctx.blocks : ~ ctx.blocks[j].open,
           NEW i \in {IndexOf(k) : k \in BlockEvents}
    PROVE  LET all   == {k \in BlockEvents : IndexOf(k) = i}
               start == {k \in all : ctx.out[k].ev = "content_block_start"}
               stop  == {k \in all : ctx.out[k].ev = "content_block_stop"}
           IN  /\ start = {Min(all)}
               /\ stop \in {{}, {Max(all)}}
               /\ ctx.ended => stop # {}
  <1> DEFINE all   == {k \in BlockEvents : IndexOf(k) = i}
             start == {k \in all : ctx.out[k].ev = "content_block_start"}
             stop  == {k \in all : ctx.out[k].ev = "content_block_stop"}
             T     == Of(ctx.out, i)
  <1>1. all = T
    BY DEF BlockEvents, IndexOf, Of, IsBlockEvent
  <1>2. i \in DOMAIN ctx.blocks
    BY DEF BlockEvents, IndexOf, Bracketed, IsBlockEvent
  <1>3. T \subseteq Nat
    <2>1. Len(ctx.out) \in Nat /\ DOMAIN ctx.out = 1 .. Len(ctx.out)
      BY IsSeqFacts
    <2> QED
      BY <2>1 DEF Of
  <1>4. PICK s \in T :
          /\ ctx.out[s].ev = "content_block_start"
          /\ \A k \in T : k >= s /\ (ctx.out[k].ev = "content_block_start" => k = s)
    BY <1>2 DEF Bracketed, Begun
  <1>5. Running(ctx.out, i) \/ Stopped(ctx.out, i)
    BY <1>2 DEF Bracketed
  <1>6. ctx.ended => Stopped(ctx.out, i)
    BY <1>2 DEF Bracketed
  <1>7. Running(ctx.out, i) => \A k \in T : ctx.out[k].ev # "content_block_stop"
    BY DEF Running
  <1>8. ASSUME Stopped(ctx.out, i)
        PROVE  \E t \in T : /\ ctx.out[t].ev = "content_block_stop"
                            /\ \A k \in T : k <= t /\ (ctx.out[k].ev = "content_block_stop" => k = t)
    BY <1>8 DEF Stopped
  <1> HIDE DEF all, T
  <1>9. start = {Min(all)}
    <2>1. Min(T) = s
      BY <1>3, <1>4, MinIs
    <2>2. start = {s}
      BY <1>1, <1>4
    <2> QED
      BY <1>1, <2>1, <2>2
  <1>10. CASE Stopped(ctx.out, i)
    <2>1. PICK t \in T :
            /\ ctx.out[t].ev = "content_block_stop"
            /\ \A k \in T : k <= t /\ (ctx.out[k].ev = "content_block_stop" => k = t)
      BY <1>8, <1>10
    <2>2. Max(T) = t
      BY <1>3, <2>1, MaxIs
    <2>3. stop = {t}
      BY <1>1, <2>1
    <2>4. stop \in {{}, {Max(all)}} /\ stop # {}
      BY <1>1, <2>2, <2>3
    <2> QED
      BY <1>9, <2>4 DEF all
  <1>11. CASE ~ Stopped(ctx.out, i)
    <2>1. stop = {}
      BY <1>1, <1>5, <1>7, <1>11
    <2> QED
      BY <1>6, <1>9, <1>11, <2>1 DEF all
  <1> QED
    BY <1>10, <1>11

LEMMA SignedShows ==
    ASSUME IsSeq(ctx.out), Bracketed(ctx.blocks, ctx.out), Signed(ctx.blocks, ctx.out)
    PROVE  ThinkingSigned
  <1> SUFFICES ASSUME NEW k \in Starts("thinking"),
                      SentOf("content_block_stop", IndexOf(k)) # {},
                      \E d \in Deltas(IndexOf(k), "thinking") : ctx.out[d].data # <<>>
               PROVE  Cardinality(Deltas(IndexOf(k), "signature")) = 1
    BY Zenon DEF ThinkingSigned
  <1> DEFINE i == IndexOf(k)
  <1>1. /\ k \in DOMAIN ctx.out /\ ctx.out[k].ev = "content_block_start"
        /\ ctx.out[k].type = "thinking" /\ IsBlockEvent(ctx.out[k])
    BY DEF Starts, Sent, IsBlockEvent
  <1>2. i \in DOMAIN ctx.blocks
    BY <1>1 DEF Bracketed, IndexOf
  <1>3. k \in Of(ctx.out, i)
    BY <1>1 DEF Of, IndexOf
  <1>4. ctx.blocks[i].type = "thinking"
    <2>1. PICK s \in Of(ctx.out, i) :
            /\ ctx.out[s].type = ctx.blocks[i].type
            /\ \A x \in Of(ctx.out, i) : ctx.out[x].ev = "content_block_start" => x = s
      BY <1>2 DEF Bracketed, Begun
    <2> QED
      BY <1>1, <1>3, <2>1
  <1>5. ~ ctx.blocks[i].open
    <2>1. PICK t \in SentOf("content_block_stop", i) : TRUE
      OBVIOUS
    <2>2. t \in Of(ctx.out, i) /\ ctx.out[t].ev = "content_block_stop"
      BY <2>1 DEF SentOf, Of, IsBlockEvent
    <2>3. ~ Running(ctx.out, i)
      BY <2>2 DEF Running
    <2> QED
      BY <1>2, <2>3 DEF Bracketed
  <1>6. Loud(ctx.out, i) # {}
    <2>1. PICK d \in Deltas(i, "thinking") : ctx.out[d].data # <<>>
      OBVIOUS
    <2>2. d \in Loud(ctx.out, i)
      BY <2>1 DEF Deltas, SentOf, Loud, Of, IsBlockEvent
    <2> QED
      BY <2>2
  <1>7. \E x \in DOMAIN ctx.out : Signatures(ctx.out, i) = {x}
    BY <1>2, <1>4, <1>5, <1>6 DEF Signed
  <1>8. Deltas(i, "signature") = Signatures(ctx.out, i)
    BY DEF Deltas, SentOf, Signatures, Of, IsBlockEvent
  <1> QED
    BY <1>7, <1>8, FS_Singleton

LEMMA GoodShows ==
    ASSUME Good(ctx), phase # "done"
    PROVE  BlocksWellFormed
  <1>1. /\ IsSeq(ctx.out) /\ Bracketed(ctx.blocks, ctx.out) /\ Signed(ctx.blocks, ctx.out)
        /\ Unended(ctx.out) /\ ctx.ended = FALSE
    BY DEF Good, Typed, Sound
  <1>2. ThinkingSigned
    BY <1>1, SignedShows
  <1>3. Sent("message_delta") = {}
    BY <1>1 DEF Unended, Sent
  <1>4. \A i \in {IndexOf(k) : k \in BlockEvents} :
          LET all   == {k \in BlockEvents : IndexOf(k) = i}
              start == {k \in all : ctx.out[k].ev = "content_block_start"}
              stop  == {k \in all : ctx.out[k].ev = "content_block_stop"}
          IN  /\ start = {Min(all)}
              /\ stop \in {{}, {Max(all)}}
              /\ ctx.ended => stop # {}
    BY <1>1, BracketsShow, Zenon
  <1>5. \A d \in Sent("message_delta") :
          /\ Sent("message_delta") = {d} /\ Sent("message_stop") = {d + 1}
          /\ {k \in DOMAIN ctx.out : k > d + 1} = Sent("error")
    BY <1>3
  <1>6. BlocksBracketed
    BY <1>3, <1>4, <1>5, Zenon DEF BlocksBracketed
  <1> QED
    BY <1>2, <1>6 DEF BlocksWellFormed

LEMMA OverShows ==
    ASSUME Over(ctx), phase = "done"
    PROVE  BlocksWellFormed
  <1>1. PICK n : EndedAt(ctx.blocks, ctx.out, n)
    BY DEF Over
  <1>2. /\ IsSeq(ctx.out) /\ Bracketed(ctx.blocks, ctx.out) /\ Signed(ctx.blocks, ctx.out)
        /\ \A j \in DOMAIN ctx.blocks : ~ ctx.blocks[j].open
    BY <1>1 DEF EndedAt
  <1>3. ThinkingSigned
    BY <1>2, SignedShows
  <1>4. \A i \in {IndexOf(k) : k \in BlockEvents} :
          LET all   == {k \in BlockEvents : IndexOf(k) = i}
              start == {k \in all : ctx.out[k].ev = "content_block_start"}
              stop  == {k \in all : ctx.out[k].ev = "content_block_stop"}
          IN  /\ start = {Min(all)}
              /\ stop \in {{}, {Max(all)}}
              /\ ctx.ended => stop # {}
    BY <1>2, BracketsShow, Zenon
  <1>5. /\ Len(ctx.out) \in Nat /\ DOMAIN ctx.out = 1 .. Len(ctx.out)
        /\ n \in DOMAIN ctx.out /\ ctx.out[n].ev = "message_delta"
        /\ n + 1 \in DOMAIN ctx.out /\ ctx.out[n + 1].ev = "message_stop"
        /\ \A k \in DOMAIN ctx.out :
             /\ k < n => ctx.out[k].ev \notin {"message_delta", "message_stop", "error"}
             /\ k > n + 1 => ctx.out[k].ev = "error"
    BY <1>1, <1>2, IsSeqFacts DEF EndedAt
  <1>6. \A k \in DOMAIN ctx.out : k < n \/ k = n \/ k = n + 1 \/ k > n + 1
    BY <1>5
  <1>7. /\ \A k \in DOMAIN ctx.out : ctx.out[k].ev = "message_delta" => k = n
        /\ \A k \in DOMAIN ctx.out : ctx.out[k].ev = "message_stop" => k = n + 1
        /\ \A k \in DOMAIN ctx.out : ctx.out[k].ev = "error" <=> k > n + 1
    <2> SUFFICES ASSUME NEW k \in DOMAIN ctx.out
                 PROVE  /\ ctx.out[k].ev = "message_delta" => k = n
                        /\ ctx.out[k].ev = "message_stop" => k = n + 1
                        /\ ctx.out[k].ev = "error" <=> k > n + 1
      OBVIOUS
    <2>1. CASE k < n
      BY <1>5, <2>1
    <2>2. CASE k = n
      BY <1>5, <2>2
    <2>3. CASE k = n + 1
      BY <1>5, <2>3
    <2>4. CASE k > n + 1
      BY <1>5, <2>4
    <2> QED
      BY <1>6, <2>1, <2>2, <2>3, <2>4
  <1>8. Sent("message_delta") = {n} /\ Sent("message_stop") = {n + 1}
    BY <1>5, <1>7 DEF Sent
  <1>9. {k \in DOMAIN ctx.out : k > n + 1} = Sent("error")
    BY <1>7 DEF Sent
  <1>10. \A d \in Sent("message_delta") :
          /\ Sent("message_delta") = {d} /\ Sent("message_stop") = {d + 1}
          /\ {k \in DOMAIN ctx.out : k > d + 1} = Sent("error")
    BY <1>8, <1>9
  <1>11. BlocksBracketed
    BY <1>4, <1>8, <1>10, Zenon DEF BlocksBracketed
  <1> QED
    BY <1>3, <1>11 DEF BlocksWellFormed

-----------------------------------------------------------------------------
(* The order of blocks.                                                      *)

LEMMA NewContextGood ==
    ASSUME NEW thinking
    PROVE  Good(NewContext(thinking))
  <1> DEFINE e == [ev |-> "message_start"]
             c == [blocks |-> <<>>, stopReason |-> "none", hasTool |-> FALSE, ended |-> FALSE,
                   out |-> <<e>>, output |-> FALSE,
                   text |-> 0, thinking |-> 0, inThinking |-> FALSE, extracted |-> FALSE,
                   stripNewline |-> FALSE, signature |-> <<>>, buffer |-> <<>>, sniff |-> <<>>,
                   xml |-> XmlFilterInit, guard |-> [run |-> 0, tripped |-> FALSE],
                   fence |-> [open |-> FALSE, partial |-> FALSE], toolIndex |-> <<>>,
                   fragments |-> <<>>, toolError |-> FALSE, upstreamError |-> FALSE]
             b == [c EXCEPT !.text = 1]
             d == StartBlock(b, "text", "-")
  <1>1. NewContext(thinking) = IF thinking THEN c ELSE d
    BY Zenon DEF NewContext
  <1>2. e.ev = "message_start"
    OBVIOUS
  <1> HIDE DEF e
  <1>3. /\ DOMAIN c = Fields
        /\ c.blocks = <<>> /\ c.out = <<e>> /\ c.thinking = 0 /\ c.inThinking = FALSE
        /\ c.extracted = FALSE /\ c.stripNewline = FALSE /\ c.buffer = <<>> /\ c.sniff = <<>>
        /\ c.xml = XmlFilterInit /\ c.ended = FALSE /\ c.toolIndex = <<>>
    BY DEF Fields
  <1> HIDE DEF c
  <1>4. /\ <<>> \in Seq(Block) /\ <<>> \in Text /\ IsSeq(<<e>>)
        /\ XmlFilterInit.held \in Text /\ XmlFilterInit.stripping \in BOOLEAN
    <2>1. <<e>> \in Seq({e})
      OBVIOUS
    <2>2. IsSeq(<<e>>)
      BY <2>1, SeqIsSeq
    <2> QED
      BY <2>2, Tags DEF XmlFilterInit
  <1>5. Typed(c)
    <2>1. DOMAIN c = Fields /\ c.blocks \in Seq(Block)
      BY <1>3, <1>4, Zenon
    <2>2. IsSeq(c.out)
      BY <1>3, <1>4, Zenon
    <2>3. c.thinking \in Nat
      BY <1>3
    <2>4. c.inThinking \in BOOLEAN /\ c.extracted \in BOOLEAN /\ c.stripNewline \in BOOLEAN
      BY <1>3
    <2>5. c.buffer \in Text /\ c.sniff \in Text
      BY <1>3, <1>4, Zenon
    <2>6. c.xml.held \in Text /\ c.xml.stripping \in BOOLEAN
      BY <1>3, <1>4, Zenon
    <2> QED
      BY <2>1, <2>2, <2>3, <2>4, <2>5, <2>6, Zenon DEF Typed
  <1>6. DOMAIN c.blocks = {} /\ DOMAIN c.toolIndex = {}
    BY <1>3
  <1>7. DOMAIN c.out = {1} /\ c.out[1] = e
    BY <1>3
  <1>8. Bracketed(c.blocks, c.out) /\ Signed(c.blocks, c.out) /\ Unended(c.out)
    <2>1. ~ IsBlockEvent(e)
      BY <1>2 DEF IsBlockEvent
    <2>2. Bracketed(c.blocks, c.out)
      BY <1>6, <1>7, <2>1 DEF Bracketed
    <2> QED
      BY <1>2, <1>6, <1>7, <2>2 DEF Signed, Unended
  <1>9. Base(c)
    BY <1>3, <1>5, <1>6, <1>8 DEF Base, Core, Sound, Tools
  <1>10. NoThinking(c)
    BY <1>6 DEF NoThinking
  <1>11. Good(c)
    BY <1>3, <1>9, <1>10, GoodWithout
  <1>12. Same(c, b) /\ b.sniff = c.sniff /\ b.toolIndex = c.toolIndex
    BY <1>3 DEF Same, Frame, Fields
  <1> HIDE DEF b
  <1>13. Good(b)
    BY <1>11, <1>12, SameGood
  <1>14. Base(b)
    BY <1>13, GoodIs
  <1>15. Begins(b, d, "text")
    <2>1. Core(b) /\ "text" \in BlockTypes
      BY <1>14 DEF Base, BlockTypes
    <2> QED
      BY <2>1, StartBlockIs
  <1> HIDE DEF d
  <1>16. Moves(b, d)
    BY <1>15, BeginsMoves
  <1>17. Runs(b, d)
    BY <1>14, <1>16, MovesRuns
  <1>18. Good(d)
    BY <1>13, <1>17, RunsGood
  <1> QED
    BY <1>1, <1>11, <1>18

\* The menu's events are what EventGood assumes.
LEMMA MenuEvents ==
    ASSUME request \in DOMAIN Menu, NEW e \in Menu[request].events
    PROVE  /\ e.kind = "assistant" => e.content \in Text
           /\ e.kind = "reasoning" => e.text \in Text
  BY StreamAssumption DEF Text

LEMMA StreamInvInit ==
    StreamInit => StreamInv
  <1> SUFFICES ASSUME StreamInit PROVE StreamInv
    OBVIOUS
  <1>1. Good(ctx)
    BY NewContextGood DEF StreamInit
  <1> QED
    BY <1>1 DEF StreamInit, StreamInv

\* Good asks the scenario whether thinking is on: it means the same after a
\* step that keeps the scenario.
LEMMA GoodAfter ==
    ASSUME request' = request, NEW d, Good(d), ctx' = d
    PROVE  Good(ctx)'
  <1>1. Thinking' = Thinking
    BY DEF Thinking
  <1>2. Typed(d) /\ Sound(d) /\ Tools(d) /\ Thoughts(d)
    BY DEF Good
  <1>3. Typed(ctx)' /\ Sound(ctx)' /\ Tools(ctx)'
    BY <1>2 DEF Typed, Sound, Tools
  <1>4. Thoughts(ctx)'
    BY <1>1, <1>2 DEF Thoughts, ThinkingOpen, IsOpen
  <1> QED
    BY <1>3, <1>4 DEF Good

LEMMA StreamInvNext ==
    StreamInv /\ [StreamNext /\ ReasoningOutsideTags]_streamVars => StreamInv'
  <1> SUFFICES ASSUME StreamInv, [StreamNext /\ ReasoningOutsideTags]_streamVars
               PROVE  StreamInv'
    OBVIOUS
  <1>1. request \in DOMAIN Menu
    BY DEF StreamInv
  <1>2. phase # "done" => Good(ctx)
    BY DEF StreamInv
  <1>3. ASSUME NEW d, Good(d), ctx' = d, request' = request, phase' \in {"reading", "retrying"}
        PROVE  StreamInv'
    <2>1. Good(ctx)'
      BY <1>3, GoodAfter
    <2> QED
      BY <1>1, <1>3, <2>1 DEF StreamInv
  <1>4. ASSUME NEW c, Good(c), NEW status, Finish(c, status)
        PROVE  StreamInv'
    <2>1. Over(ctx')
      BY <1>4, FinalEventsOver DEF Finish
    <2>2. Over(ctx)'
      BY <2>1 DEF Over
    <2> QED
      BY <1>1, <1>4, <2>2 DEF StreamInv, Finish
  <1>5. ASSUME NEW e \in Menu[request].events, Receive(e), ReasoningOutsideTags
        PROVE  StreamInv'
    <2>1. Good(ctx)
      BY <1>2, <1>5 DEF Receive
    <2>2. e.kind = "reasoning" /\ ctx.inThinking => e.text = <<>> /\ ~ e.redacted
      BY <1>5 DEF ReasoningOutsideTags
    <2>3. Good(ProcessKiroEvent(ctx, e))
      BY <1>1, <2>1, <2>2, MenuEvents, EventGood
    <2>4. /\ ctx' = ProcessKiroEvent(ctx, e)
          /\ phase' = "reading" /\ request' = request
      BY <1>5 DEF Receive
    <2> QED
      BY <1>3, <2>3, <2>4
  <1>6. CASE EndOfStream
    BY <1>2, <1>4, <1>6 DEF EndOfStream
  <1>7. CASE Retry
    BY <1>2, <1>3, <1>7 DEF Retry
  <1>8. CASE TransportError
    BY <1>2, <1>4, <1>8, SetUpstreamErrorGood DEF TransportError
  <1>9. CASE RetryAnswers
    BY <1>3, <1>9, NewContextGood DEF RetryAnswers
  <1>10. CASE RetryFails
    BY <1>2, <1>4, <1>10 DEF RetryFails
  <1>11. CASE UNCHANGED streamVars
    <2>1. ctx' = ctx /\ request' = request /\ phase' = phase
      BY <1>11 DEF streamVars
    <2>2. CASE phase = "done"
      <3>1. Over(ctx)'
        BY <2>1, <2>2 DEF StreamInv, Over
      <3> QED
        BY <1>1, <2>1, <2>2, <3>1 DEF StreamInv
    <2>3. CASE phase # "done"
      <3>1. phase' \in {"reading", "retrying"}
        BY <2>1, <2>3 DEF StreamInv
      <3> QED
        BY <1>2, <1>3, <2>1, <2>3, <3>1
    <2> QED
      BY <2>2, <2>3
  <1> QED
    BY <1>5, <1>6, <1>7, <1>8, <1>9, <1>10, <1>11 DEF StreamNext

LEMMA StreamInvShows ==
    StreamInv => BlocksWellFormed
  BY GoodShows, OverShows DEF StreamInv

\* The blocks of the client's message are always ones it can take and send
\* back, whatever events come and whatever order they come in, as long as the
\* service sends no reasoning of its own while a tagged block of thinking is
\* open: each starts once and has stopped when the message ends, its deltas lie
\* between the two, thinking that says something is signed before it stops, and
\* the stop reason comes once (SseStateManager; create_thinking_delta_event and
\* create_signature_delta_event, which go around it).
THEOREM BlocksAreWellFormed ==
    StreamSpec /\ [][ReasoningOutsideTags]_streamVars => []BlocksWellFormed
  BY StreamInvInit, StreamInvNext, StreamInvShows, PTL DEF StreamSpec
=============================================================================
