--------------------------- MODULE Request_proofs ---------------------------
(* What a request asks of the upstream, and what it is billed.               *)
(*                                                                           *)
(* Thinking is asked for once whatever model, way, budget and effort the     *)
(* client combines (ThinkingIsAskedOnce).  What the simulated cache of       *)
(* prompts remembers is what was recorded and what a restart brings back is  *)
(* what it remembered (CacheIsTrue), and a call is billed for what it sent,  *)
(* in a split that is fair for every answer of the cache, every total the    *)
(* upstream reports and every setting of a key (BillsAddUp, FairBill).       *)
(* The filters of a key take nothing but noise from a system prompt          *)
(* (FilterTakesOnlyNoise), and in every request of a conversation a call the *)
(* model makes comes back to the client as one that it can send again        *)
(* (CallsComeBack).                                                          *)
EXTENDS Conversation, PromptCache, Answer_proofs

-----------------------------------------------------------------------------
(* Thinking.                                                                 *)

LEMMA ModelId ==
    ASSUME NEW m \in AvailableModels
    PROVE  /\ MapModel(m) = [family |-> m.family, version |-> m.version]
           /\ MapModel(m) # NoModel
           /\ m.thinking \in BOOLEAN
  <1>1. CASE m \in Named("opus", {"5", "4.8", "4.7", "4.6", "4.5"})
    <2>1. /\ m.family = "opus" /\ m.version \in {"5", "4.8", "4.7", "4.6", "4.5"}
          /\ m.thinking \in BOOLEAN
      BY <1>1 DEF Named
    <2> QED
      BY <2>1 DEF MapModel, NoModel, PassthroughModels
  <1>2. CASE m \in Named("sonnet", {"5", "4.8", "4.6", "4.5"})
    <2>1. /\ m.family = "sonnet" /\ m.version \in {"5", "4.8", "4.6", "4.5"}
          /\ m.thinking \in BOOLEAN
      BY <1>2 DEF Named
    <2> QED
      BY <2>1 DEF MapModel, NoModel, PassthroughModels
  <1>3. CASE m \in Named("fable", {"5"}) \union Named("haiku", {"4.5"})
    <2>1. /\ \/ m.family = "fable" /\ m.version = "5"
             \/ m.family = "haiku" /\ m.version = "4.5"
          /\ m.thinking \in BOOLEAN
      BY <1>3 DEF Named
    <2> QED
      BY <2>1 DEF MapModel, NoModel, PassthroughModels
  <1>4. CASE m \in AvailableOthers
    <2>1. PICK f \in PassthroughModels : m = [family |-> f, version |-> "", thinking |-> FALSE]
      BY <1>4 DEF AvailableOthers
    <2> QED
      BY <2>1 DEF MapModel, NoModel, PassthroughModels
  <1> QED
    BY <1>1, <1>2, <1>3, <1>4 DEF AvailableModels, AvailableClaude

(* The request after override_thinking_from_model_name.                      *)
LEMMA Overridden ==
    ASSUME NEW m, m.thinking \in BOOLEAN, NEW t, NEW b \in Int, NEW e,
           NEW head, head = Override([model |-> m, thinking |-> t, budget |-> b, effort |-> e])
    PROVE  /\ head.model = m
           /\ head.thinking = IF ~m.thinking THEN t
                              ELSE IF m.family = "opus" /\ m.version = "4.6"
                              THEN "adaptive" ELSE "enabled"
           /\ head.effort = IF m.thinking /\ m.family = "opus" /\ m.version = "4.6"
                            THEN "high" ELSE e
  BY DEF Override

LEMMA Normalized ==
    ASSUME NEW id, NEW effort
    PROVE  /\ NormalizeEffort(id, effort) \in Tiers
           /\ NormalizeEffort(id, effort) = "xhigh" => SupportsXHigh(id)
  BY DEF NormalizeEffort, Tiers

(* Of a text of one note or of two, and of two messages.                    *)
LEMMA OneNote ==
    ASSUME NEW x, NEW y
    PROVE  Contains(<<x>>, y) <=> x = y
  <1>1. Len(<<x>>) = 1 /\ <<x>>[1] = x
    OBVIOUS
  <1> QED
    BY <1>1 DEF Contains

LEMMA FirstNote ==
    ASSUME NEW x, NEW y
    PROVE  Contains(<<x, y>>, x)
  <1>1. Len(<<x, y>>) = 2 /\ <<x, y>>[1] = x
    OBVIOUS
  <1> QED
    BY <1>1 DEF Contains

LEMMA PairShows ==
    ASSUME NEW u, NEW a, NEW note, NEW pair,
           pair = <<KiroMessage("user", u, <<>>, <<>>, <<>>),
                    KiroMessage("assistant", a, <<>>, <<>>, <<>>)>>
    PROVE  ShownIn(pair, note) <=> Contains(u, note) \/ Contains(a, note)
  <1>1. KiroMessage("user", u, <<>>, <<>>, <<>>).texts = u
        /\ KiroMessage("assistant", a, <<>>, <<>>, <<>>).texts = a
    BY DEF KiroMessage
  <1>2. /\ DOMAIN pair = 1 .. 2
        /\ pair[1] = KiroMessage("user", u, <<>>, <<>>, <<>>)
        /\ pair[2] = KiroMessage("assistant", a, <<>>, <<>>, <<>>)
    OBVIOUS
  <1> QED
    BY <1>1, <1>2 DEF ShownIn

LEMMA NothingShows ==
    ASSUME NEW note
    PROVE  ~ShownIn(<<>>, note)
  BY DEF ShownIn

(* The prefix is shown to the model just when there is one and the system    *)
(* prompt lets it in.                                                        *)
LEMMA NoteIsShown ==
    ASSUME NEW thinking \in ThinkingWays, NEW prefix \in {"", thinking},
           NEW system \in {"none", "empty", "tagged", "text"}
    PROVE  ShownIn(SystemPair(system, prefix), Note(thinking))
             <=> prefix # "" /\ system \in {"none", "text"}
  <1>1. Note(thinking) # Note("system") /\ Note(thinking) # Note("I will follow")
    BY DEF Note, ThinkingWays
  <1>2. CASE (system = "none" /\ prefix = "") \/ system = "empty"
    <2>1. SystemPair(system, prefix) = <<>>
      BY <1>2 DEF SystemPair
    <2> QED
      BY <1>2, <2>1, NothingShows
  <1>3. ASSUME NEW texts,
               SystemPair(system, prefix)
                 = <<KiroMessage("user", texts, <<>>, <<>>, <<>>),
                     KiroMessage("assistant", <<Note("I will follow")>>, <<>>, <<>>, <<>>)>>
        PROVE  ShownIn(SystemPair(system, prefix), Note(thinking))
                 <=> Contains(texts, Note(thinking))
    <2>1. ~Contains(<<Note("I will follow")>>, Note(thinking))
      BY <1>1, OneNote
    <2>2. ShownIn(SystemPair(system, prefix), Note(thinking))
            <=> \/ Contains(texts, Note(thinking))
                \/ Contains(<<Note("I will follow")>>, Note(thinking))
      BY <1>3, PairShows, Zenon
    <2> QED
      BY <2>1, <2>2
  <1>4. CASE (system = "text" /\ prefix = "") \/ system = "tagged"
    <2>1. SystemPair(system, prefix)
            = <<KiroMessage("user", <<Note("system")>>, <<>>, <<>>, <<>>),
                KiroMessage("assistant", <<Note("I will follow")>>, <<>>, <<>>, <<>>)>>
      BY <1>4 DEF SystemPair
    <2> QED
      BY <1>1, <1>3, <1>4, <2>1, OneNote
  <1>5. CASE system = "none" /\ prefix # ""
    <2>1. prefix = thinking
      BY <1>5
    <2>2. SystemPair(system, prefix)
            = <<KiroMessage("user", <<Note(prefix)>>, <<>>, <<>>, <<>>),
                KiroMessage("assistant", <<Note("I will follow")>>, <<>>, <<>>, <<>>)>>
      BY <1>5 DEF SystemPair
    <2> QED
      BY <1>3, <1>5, <2>1, <2>2, OneNote
  <1>6. CASE system = "text" /\ prefix # ""
    <2>1. prefix = thinking
      BY <1>6
    <2>2. SystemPair(system, prefix)
            = <<KiroMessage("user", <<Note(prefix), Note("system")>>, <<>>, <<>>, <<>>),
                KiroMessage("assistant", <<Note("I will follow")>>, <<>>, <<>>, <<>>)>>
      BY <1>6 DEF SystemPair
    <2> QED
      BY <1>3, <1>6, <2>1, <2>2, FirstNote
  <1> QED
    BY <1>2, <1>4, <1>5, <1>6

(* Of every model offered, with every way of asking, every budget and every  *)
(* effort a client may name.                                                 *)
THEOREM EveryRequestAsksOnce ==
    ASSUME NEW m \in AvailableModels, NEW t \in ThinkingWays, NEW b \in Int, NEW e
    PROVE  AskedOnce(m, t, b, e)
  <1> DEFINE head == Override([model |-> m, thinking |-> t, budget |-> b, effort |-> e])
             id    == MapModel(m)
             field == ReasoningField(head)
             opus46 == m.family = "opus" /\ m.version = "4.6"
  <1>1. id = [family |-> m.family, version |-> m.version] /\ id # NoModel
        /\ m.thinking \in BOOLEAN
    BY ModelId
  <1>2. /\ head.model = m
        /\ head.thinking = IF ~m.thinking THEN t ELSE IF opus46 THEN "adaptive" ELSE "enabled"
    BY <1>1, Overridden
  <1>3. head.thinking \in ThinkingWays /\ MapModel(head.model) = id
    BY <1>1, <1>2 DEF ThinkingWays
  <1>4. opus46 <=> id = [family |-> "opus", version |-> "4.6"]
    BY <1>1
  <1> HIDE DEF head, id, opus46
  <1>5. /\ field # "" => SupportsReasoning(id) /\ head.thinking # "disabled"
        /\ field = "xhigh" => SupportsXHigh(id)
    BY <1>3, Normalized DEF ReasoningField, SelectEffort
  <1>6. PrefixEffort(head) = "xhigh" => SupportsXHigh(id)
    BY <1>3, Normalized DEF PrefixEffort
  <1>7. m.thinking => Thinks(head)
    BY <1>2 DEF Thinks
  <1>8. Thinks(head) /\ SupportsReasoning(id)
          => field # "" \/ (~m.thinking /\ head.thinking = "enabled" /\ opus46)
    <2>1. SUFFICES ASSUME Thinks(head), SupportsReasoning(id)
                   PROVE  field # "" \/ (~m.thinking /\ head.thinking = "enabled" /\ opus46)
      OBVIOUS
    <2>2. head.thinking # "disabled"
      BY <2>1 DEF Thinks
    <2>3. ReasoningRequested(head, id) \/ (~m.thinking /\ head.thinking = "enabled" /\ opus46)
      BY <1>1, <1>2, <1>4, <2>1 DEF ReasoningRequested, Thinks
    <2>4. SelectEffort(head, id) # ""
      BY Normalized DEF SelectEffort, Tiers
    <2> QED
      BY <1>3, <2>1, <2>2, <2>3, <2>4 DEF ReasoningField
  <1>9. /\ ThinkingPrefix(head) \in {"", head.thinking}
        /\ ThinkingPrefix(head) # "" <=> Thinks(head) /\ ~SupportsReasoning(id)
    BY <1>3 DEF ThinkingPrefix, Thinks
  <1>10. ASSUME NEW system \in {"none", "empty", "tagged", "text"}
         PROVE  ShownIn(SystemPair(system, ThinkingPrefix(head)), Note(head.thinking))
                  <=> Thinks(head) /\ ~SupportsReasoning(id) /\ system \in {"none", "text"}
    <2>1. ShownIn(SystemPair(system, ThinkingPrefix(head)), Note(head.thinking))
            <=> ThinkingPrefix(head) # "" /\ system \in {"none", "text"}
      BY <1>3, <1>9, NoteIsShown
    <2> QED
      BY <1>9, <2>1
  <1>11. "xhigh" \in {field, PrefixEffort(head)} => SupportsXHigh(id)
    BY <1>5, <1>6
  <1> QED
    BY <1>1, <1>5, <1>7, <1>8, <1>10, <1>11, Zenon DEF AskedOnce, head, id, field, opus46

(* ThinkingIsAskedOnce, which the run checks for three budgets: it holds of  *)
(* every budget and effort, whatever the conversation is.                    *)
THEOREM ThinkingIsAlwaysAskedOnce == ConvSpec => []ThinkingIsAskedOnce
  <1>1. \A b \in SomeBudgets : b \in Int
    BY DEF SomeBudgets
  <1>2. ASSUME NEW m \in AvailableModels, NEW t \in ThinkingWays,
               NEW b \in SomeBudgets, NEW e \in Tiers \union {"", "other"}
        PROVE  AskedOnce(m, t, b, e)
    BY <1>1, EveryRequestAsksOnce, Zenon
  <1>3. ThinkingIsAskedOnce
    BY <1>2, Zenon DEF ThinkingIsAskedOnce
  <1> QED
    BY <1>3, PTL

-----------------------------------------------------------------------------
(* The inductive invariant.  What the two properties leave out is the flush:  *)
(* the dirty flag is cleared before the file is written, so that while the    *)
(* file is old or torn it is the task's snapshot that has what was recorded;  *)
(* and what the file has comes back at a restart, so it must have been        *)
(* recorded as well.                                                          *)

\* An entry of the cache.
Entry == [exp : Nat, hit : Nat]

\* e is a table of entries.
IsTable(e) == \A k \in DOMAIN e : e[k] \in Entry

CacheTypeOK ==
    /\ now \in Nat
    /\ IsTable(entries) /\ IsTable(file.entries) /\ IsTable(task.snapshot)
    /\ file = [whole |-> file.whole, entries |-> file.entries]
    /\ file.whole \in BOOLEAN
    /\ task = [at |-> task.at, snapshot |-> task.snapshot]
    /\ task.at \in {"sleep", "flush", "write", "writing"}
    /\ \A k \in DOMAIN recorded : recorded[k] \in Nat
    /\ calls \in [Callers -> [at : {"idle", "found"}, prompt : Prompts \union {NoPrompt},
                              read : Nat]]

\* The entries e have all that a restart may bring back at the time t.
Saves(e, saved, t) ==
    \A k \in DOMAIN e : e[k].exp > t => k \in DOMAIN saved /\ saved[k].exp = e[k].exp

\* What is not to be saved any more is in the file, or on its way there: while
\* the file is written, and torn, the snapshot has it.
SavedInv ==
    /\ (~dirty /\ ~failed /\ task.at \in {"sleep", "flush"}) =>
         /\ Saves(entries, file.entries, now)
         /\ \A k \in DOMAIN entries : entries[k].exp > now => file.whole
    /\ (~dirty /\ task.at \in {"write", "writing"}) => Saves(entries, task.snapshot, now)

\* What the file and the snapshot have was recorded.
RecordedInv ==
    /\ DOMAIN file.entries \subseteq DOMAIN recorded
    /\ DOMAIN task.snapshot \subseteq DOMAIN recorded

\* A call reads a prefix that was recorded, and no more than it marks.
ReadsRecorded(q, done) ==
    q.read > 0 =>
        /\ \E i \in Segments(q.prompt) : /\ q.read = Tokens(q.prompt, i)
                                         /\ KeyOf(q.prompt, i) \in done
        /\ q.read <= DeepestTokens(q.prompt, Segments(q.prompt))

ReadInv == \A c \in Callers : ReadsRecorded(calls[c], DOMAIN recorded)

CacheInv == CacheTypeOK /\ CacheIsWhatWasRecorded /\ RecordedInv /\ SavedInv /\ ReadInv

-----------------------------------------------------------------------------
\* Some cuts of a prompt have a deepest one.
LEMMA DeepestCut ==
    ASSUME NEW n \in Nat, NEW S \in SUBSET (0..n), S # {}
    PROVE  /\ Deepest(S) \in S
           /\ \A i \in S : i <= Deepest(S)
  <1> DEFINE T == {n - i : i \in S}
  <1>1. \A i \in S : i \in Nat /\ n - i \in Nat
    OBVIOUS
  <1>2. T \in SUBSET Nat /\ T # {}
    BY <1>1
  <1>3. PICK x \in T : \A y \in T : x <= y
    BY <1>2, LeastNumber
  <1>4. PICK m \in S : x = n - m
    OBVIOUS
  <1>5. \A i \in S : i <= m
    <2>1. \A i \in S : /\ n - m <= n - i
                       /\ i \in Nat /\ m \in Nat
      BY <1>1, <1>3, <1>4
    <2> QED
      BY <2>1
  <1> QED
    BY <1>5 DEF Deepest

\* The cuts of a prompt are places in it.
LEMMA CutsInside ==
    ASSUME NEW p \in Prompts
    PROVE  /\ Len(p.blocks) \in Nat
           /\ Segments(p) \in SUBSET (0..Len(p.blocks))
  <1>1. p.blocks \in Seq(Range(p.blocks))
    BY CacheAssumption
  <1>2. Len(p.blocks) \in Nat /\ DOMAIN p.blocks = 1..Len(p.blocks)
    BY <1>1
  <1>3. Cuts(p) \subseteq 0..Len(p.blocks)
    <2>1. \A i \in 1..Len(p.blocks) : i \in 0..Len(p.blocks)
      BY <1>2
    <2>2. 0 \in 0..Len(p.blocks)
      BY <1>2
    <2> QED
      BY <1>2, <2>1, <2>2 DEF Cuts
  <1> QED
    BY <1>2, <1>3 DEF Segments

\* The deepest of some cuts of a prompt is one of them, and no deeper than the
\* deepest of all.
LEMMA HitIsACut ==
    ASSUME NEW p \in Prompts, NEW hits \in SUBSET Segments(p)
    PROVE  /\ DeepestTokens(p, hits) \in Nat
           /\ hits = {} => DeepestTokens(p, hits) = 0
           /\ hits # {} => \E i \in hits : DeepestTokens(p, hits) = Tokens(p, i)
           /\ DeepestTokens(p, hits) <= DeepestTokens(p, Segments(p))
  <1> DEFINE n == Len(p.blocks)
             base == IF p.base THEN 2 ELSE 0
  <1>1. n \in Nat /\ Segments(p) \in SUBSET (0..n) /\ hits \in SUBSET (0..n)
    BY CutsInside
  <1>2. base \in Nat /\ \A i : Tokens(p, i) = base + i
    BY DEF Tokens
  <1> HIDE DEF n, base
  <1>3. CASE hits = {}
    <2>1. DeepestTokens(p, hits) = 0
      BY <1>3 DEF DeepestTokens
    <2>2. DeepestTokens(p, Segments(p)) \in Nat
      <3>1. CASE Segments(p) = {}
        BY <3>1 DEF DeepestTokens
      <3>2. CASE Segments(p) # {}
        <4>1. Deepest(Segments(p)) \in 0..n
          BY <1>1, <3>2, DeepestCut
        <4> QED
          BY <1>1, <1>2, <3>2, <4>1 DEF DeepestTokens
      <3> QED
        BY <3>1, <3>2
    <2> QED
      BY <1>3, <2>1, <2>2
  <1>4. CASE hits # {}
    <2>1. Segments(p) # {}
      BY <1>4
    <2>2. Deepest(hits) \in hits
      BY <1>1, <1>4, DeepestCut
    <2>3. /\ Deepest(Segments(p)) \in Segments(p)
          /\ \A i \in Segments(p) : i <= Deepest(Segments(p))
      BY <1>1, <2>1, DeepestCut
    <2>4. Deepest(hits) <= Deepest(Segments(p))
      BY <2>2, <2>3
    <2>5. Deepest(hits) \in Nat /\ Deepest(Segments(p)) \in Nat
      <3>1. \A i \in 0..n : i \in Nat
        OBVIOUS
      <3> QED
        BY <1>1, <2>2, <2>3, <3>1
    <2>6. /\ DeepestTokens(p, hits) = base + Deepest(hits)
          /\ DeepestTokens(p, Segments(p)) = base + Deepest(Segments(p))
      BY <1>2, <1>4, <2>1 DEF DeepestTokens
    <2>7. DeepestTokens(p, hits) = Tokens(p, Deepest(hits))
      BY <1>2, <2>6
    <2> QED
      BY <1>2, <1>4, <2>2, <2>4, <2>5, <2>6, <2>7
  <1> QED
    BY <1>3, <1>4

-----------------------------------------------------------------------------

-----------------------------------------------------------------------------
(* Every step keeps the invariant.                                           *)

\* The cache starts empty, and so does its file.
LEMMA CacheStart == CacheInit => CacheInv
  <1> SUFFICES ASSUME CacheInit PROVE CacheInv
    OBVIOUS
  <1> DEFINE none == <<>>
  <1>0. DOMAIN none = {}
    OBVIOUS
  <1>1. /\ entries = none /\ recorded = none
        /\ file.whole = TRUE /\ file.entries = none
        /\ file = [whole |-> TRUE, entries |-> none]
        /\ task = [at |-> "sleep", snapshot |-> none]
        /\ task.at = "sleep" /\ task.snapshot = none
        /\ dirty = FALSE /\ now = 0
    BY DEF CacheInit
  <1>2. calls = [c \in Callers |-> Idle]
    BY DEF CacheInit
  <1> HIDE DEF none
  <1>3. CacheTypeOK
    <2>1. calls \in [Callers -> [at : {"idle", "found"}, prompt : Prompts \union {NoPrompt},
                                 read : Nat]]
      BY <1>2 DEF Idle
    <2> QED
      BY <1>0, <1>1, <2>1 DEF CacheTypeOK, IsTable
  <1>4. CacheIsWhatWasRecorded /\ RecordedInv /\ SavedInv
    BY <1>0, <1>1 DEF CacheIsWhatWasRecorded, RecordedInv, SavedInv, Saves
  <1>5. ReadInv
    <2>1. \A c \in Callers : calls[c].read = 0
      BY <1>2 DEF Idle
    <2> QED
      BY <2>1 DEF ReadInv, ReadsRecorded
  <1> QED
    BY <1>3, <1>4, <1>5 DEF CacheInv

\* Looking up changes when entries were hit, not what they are.
LEMMA LookupStep ==
    ASSUME CacheInv, NEW c \in Callers, Lookup(c)
    PROVE  CacheInv'
  <1>1. PICK p \in Prompts :
        LET hits == {i \in Segments(p) : /\ KeyOf(p, i) \in DOMAIN entries
                                         /\ Alive(entries[KeyOf(p, i)])}
        IN  /\ calls' = [calls EXCEPT ![c] =
                            IF Segments(p) = {} THEN Idle
                            ELSE [at |-> "found", prompt |-> p,
                                  read |-> DeepestTokens(p, hits)]]
            /\ entries' = [k \in DOMAIN entries |->
                              IF k \in {KeyOf(p, i) : i \in hits}
                              THEN [entries[k] EXCEPT !.hit = now] ELSE entries[k]]
    BY DEF Lookup
  <1> DEFINE hits == {i \in Segments(p) : /\ KeyOf(p, i) \in DOMAIN entries
                                          /\ Alive(entries[KeyOf(p, i)])}
             q == IF Segments(p) = {} THEN Idle
                  ELSE [at |-> "found", prompt |-> p, read |-> DeepestTokens(p, hits)]
  <1>2. UNCHANGED <<dirty, file, task, now, restarts, recorded, forgot, failed>>
    BY DEF Lookup
  <1>3. calls' = [calls EXCEPT ![c] = q]
    BY <1>1
  <1>4. /\ DOMAIN entries' = DOMAIN entries
        /\ \A k \in DOMAIN entries : entries'[k] \in Entry /\ entries'[k].exp = entries[k].exp
    <2>1. \A k \in DOMAIN entries : entries[k] \in Entry
      BY DEF CacheInv, CacheTypeOK, IsTable
    <2>2. DOMAIN entries' = DOMAIN entries
      BY <1>1
    <2>3. ASSUME NEW k \in DOMAIN entries
          PROVE  entries'[k] \in Entry /\ entries'[k].exp = entries[k].exp
      <3>1. entries[k] \in Entry /\ now \in Nat
        BY <2>1 DEF CacheInv, CacheTypeOK
      <3>2. entries'[k] = [entries[k] EXCEPT !.hit = now] \/ entries'[k] = entries[k]
        BY <1>1
      <3> QED
        BY <3>1, <3>2 DEF Entry
    <2> QED
      BY <2>2, <2>3
  <1>5. hits \in SUBSET Segments(p) /\ \A i \in hits : KeyOf(p, i) \in DOMAIN recorded
    BY DEF CacheInv, CacheIsWhatWasRecorded
  <1> HIDE DEF hits
  <1>6. /\ q \in [at : {"idle", "found"}, prompt : Prompts \union {NoPrompt}, read : Nat]
        /\ ReadsRecorded(q, DOMAIN recorded)
    <2>1. CASE Segments(p) = {}
      BY <2>1 DEF Idle, ReadsRecorded
    <2>2. CASE Segments(p) # {}
      <3>1. q = [at |-> "found", prompt |-> p, read |-> DeepestTokens(p, hits)]
        BY <2>2
      <3>2. /\ DeepestTokens(p, hits) \in Nat
            /\ hits = {} => DeepestTokens(p, hits) = 0
            /\ hits # {} => \E i \in hits : DeepestTokens(p, hits) = Tokens(p, i)
            /\ DeepestTokens(p, hits) <= DeepestTokens(p, Segments(p))
        BY <1>5, HitIsACut
      <3>3. q.read = DeepestTokens(p, hits) /\ q.prompt = p
        BY <3>1
      <3>4. q \in [at : {"idle", "found"}, prompt : Prompts \union {NoPrompt}, read : Nat]
        BY <3>1, <3>2
      <3>5. ASSUME q.read > 0
            PROVE  \E i \in Segments(p) : q.read = Tokens(p, i) /\ KeyOf(p, i) \in DOMAIN recorded
        <4>1. hits # {}
          BY <3>2, <3>3, <3>5
        <4> QED
          BY <1>5, <3>2, <3>3, <4>1
      <3> HIDE DEF q
      <3> QED
        BY <3>2, <3>3, <3>4, <3>5 DEF ReadsRecorded
    <2> QED
      BY <2>1, <2>2
  <1> HIDE DEF q
  <1>7. CacheTypeOK'
    BY <1>2, <1>3, <1>4, <1>6 DEF CacheInv, CacheTypeOK, IsTable
  <1>8. CacheIsWhatWasRecorded'
    BY <1>2, <1>4 DEF CacheInv, CacheIsWhatWasRecorded
  <1>9. RecordedInv' /\ SavedInv'
    BY <1>2, <1>4 DEF CacheInv, RecordedInv, SavedInv, Saves
  <1>10. ReadInv'
    <2>1. \A d \in Callers : calls'[d] = IF d = c THEN q ELSE calls[d]
      BY <1>3 DEF CacheInv, CacheTypeOK
    <2> QED
      BY <1>2, <1>6, <2>1 DEF CacheInv, ReadInv
  <1> QED
    BY <1>7, <1>8, <1>9, <1>10 DEF CacheInv

\* Recording: what the request marks is there with its new expiry, everything
\* else as it was, and what goes is forgotten.
LEMMA RecordStep ==
    ASSUME CacheInv, NEW c \in Callers, Record(c)
    PROVE  CacheInv'
  <1> DEFINE p   == calls[c].prompt
             exp == now + (IF p.long THEN LongTtl ELSE ShortTtl)
             all == [k \in DOMAIN entries \union Keys(p) |->
                       IF k \in Keys(p) THEN [exp |-> exp, hit |-> now] ELSE entries[k]]
  <1>1. PICK victims \in SUBSET DOMAIN all :
            /\ entries' = Restrict(all, DOMAIN all \ victims)
            /\ forgot' = (forgot \/ victims # {})
    BY DEF Record
  <1>2. /\ calls' = [calls EXCEPT ![c] = Idle]
        /\ dirty' = TRUE
        /\ recorded' = [k \in DOMAIN recorded \union Keys(p) |->
                          IF k \in Keys(p) THEN exp ELSE recorded[k]]
        /\ UNCHANGED <<file, task, now, served, restarts, failed>>
    BY DEF Record
  <1>3. exp \in Nat /\ now \in Nat
    BY CacheAssumption DEF CacheInv, CacheTypeOK
  <1> DEFINE marked == Keys(p)
  <1>4. /\ DOMAIN all = DOMAIN entries \union marked
        /\ \A k \in marked : all[k] = [exp |-> exp, hit |-> now]
        /\ \A k \in DOMAIN entries : k \notin marked => all[k] = entries[k]
    OBVIOUS
  <1>5. /\ DOMAIN recorded' = DOMAIN recorded \union marked
        /\ \A k \in marked : recorded'[k] = exp
        /\ \A k \in DOMAIN recorded : k \notin marked => recorded'[k] = recorded[k]
    BY <1>2
  <1>6. /\ DOMAIN entries' = DOMAIN all \ victims
        /\ \A k \in DOMAIN entries' : entries'[k] = all[k]
    BY <1>1 DEF Restrict
  <1> HIDE DEF p, exp, all, marked
  <1>7. \A k \in DOMAIN all : all[k] \in Entry
    <2>1. \A k \in marked : all[k] \in Entry
      BY <1>3, <1>4 DEF Entry
    <2>2. \A k \in DOMAIN entries : entries[k] \in Entry
      BY DEF CacheInv, CacheTypeOK, IsTable
    <2> QED
      BY <1>4, <2>1, <2>2
  <1>8. CacheTypeOK'
    <2>1. Idle \in [at : {"idle", "found"}, prompt : Prompts \union {NoPrompt}, read : Nat]
      BY DEF Idle
    <2>2. IsTable(entries)'
      BY <1>6, <1>7 DEF IsTable
    <2>3. \A k \in DOMAIN recorded' : recorded'[k] \in Nat
      BY <1>3, <1>5 DEF CacheInv, CacheTypeOK
    <2>4. calls' \in [Callers -> [at : {"idle", "found"}, prompt : Prompts \union {NoPrompt},
                                  read : Nat]]
      BY <1>2, <2>1 DEF CacheInv, CacheTypeOK
    <2>5. /\ file' = file /\ task' = task /\ now' = now
      BY <1>2
    <2> QED
      BY <2>2, <2>3, <2>4, <2>5 DEF CacheInv, CacheTypeOK, IsTable
  <1>9. CacheIsWhatWasRecorded'
    <2>1. DOMAIN entries \subseteq DOMAIN recorded
      BY DEF CacheInv, CacheIsWhatWasRecorded
    <2>2. DOMAIN entries' \subseteq DOMAIN recorded'
      BY <1>4, <1>5, <1>6, <2>1
    <2>3. ASSUME ~forgot', NEW k \in DOMAIN recorded', now' - recorded'[k] < Grace
          PROVE  k \in DOMAIN entries' /\ entries'[k].exp = recorded'[k]
      <3>1. ~forgot /\ victims = {} /\ now' = now
        BY <1>1, <1>2, <2>3
      <3>2. DOMAIN entries' = DOMAIN all
        BY <1>6, <3>1
      <3>3. CASE k \in marked
        <4>1. entries'[k].exp = exp
          BY <1>4, <1>6, <3>2, <3>3
        <4> QED
          BY <1>4, <1>5, <3>2, <3>3, <4>1
      <3>4. CASE k \notin marked
        <4>1. k \in DOMAIN recorded /\ recorded'[k] = recorded[k]
          BY <1>5, <2>3, <3>4
        <4>2. k \in DOMAIN entries /\ entries[k].exp = recorded[k]
          BY <2>3, <3>1, <4>1 DEF CacheInv, CacheIsWhatWasRecorded
        <4> QED
          BY <1>4, <1>6, <3>2, <3>4, <4>1, <4>2
      <3> QED
        BY <3>3, <3>4
    <2> QED
      BY <2>2, <2>3 DEF CacheIsWhatWasRecorded
  <1>10. RecordedInv' /\ SavedInv'
    BY <1>2, <1>5 DEF CacheInv, RecordedInv, SavedInv
  <1>11. ReadInv'
    <2>1. \A d \in Callers : calls'[d] = IF d = c THEN Idle ELSE calls[d]
      BY <1>2 DEF CacheInv, CacheTypeOK
    <2>2. ReadsRecorded(Idle, DOMAIN recorded')
      BY DEF Idle, ReadsRecorded
    <2>3. \A d \in Callers : ReadsRecorded(calls[d], DOMAIN recorded')
      BY <1>5 DEF CacheInv, ReadInv, ReadsRecorded
    <2> QED
      BY <2>1, <2>2, <2>3 DEF ReadInv
  <1> QED
    BY <1>8, <1>9, <1>10, <1>11 DEF CacheInv

\* Evicting changes nothing that is still within its grace period, and is to
\* be saved when it dropped anything.
LEMMA EvictStep ==
    ASSUME CacheInv, Evict
    PROVE  CacheInv'
  <1> DEFINE kept == {k \in DOMAIN entries : now - entries[k].exp < Grace}
  <1>1. /\ task.at = "sleep" /\ task' = [task EXCEPT !.at = "flush"]
        /\ entries' = Restrict(entries, kept)
        /\ dirty' = (dirty \/ kept # DOMAIN entries)
        /\ UNCHANGED <<file, now, calls, served, restarts, recorded, forgot, failed>>
    BY DEF Evict, TaskAt
  <1>2. /\ DOMAIN entries' = kept /\ kept \subseteq DOMAIN entries
        /\ \A k \in kept : entries'[k] = entries[k]
    BY <1>1 DEF Restrict
  <1>3. task' = [at |-> "flush", snapshot |-> task.snapshot]
    BY <1>1 DEF CacheInv, CacheTypeOK
  <1>4. CacheTypeOK'
    BY <1>1, <1>2, <1>3 DEF CacheInv, CacheTypeOK, IsTable
  <1>5. CacheIsWhatWasRecorded'
    BY <1>1, <1>2 DEF CacheInv, CacheIsWhatWasRecorded
  <1>6. RecordedInv' /\ SavedInv'
    BY <1>1, <1>2, <1>3 DEF CacheInv, RecordedInv, SavedInv, Saves
  <1>7. ReadInv'
    BY <1>1 DEF CacheInv, ReadInv
  <1> QED
    BY <1>4, <1>5, <1>6, <1>7 DEF CacheInv

\* The snapshot has what the cache has when the flag is cleared.
LEMMA SnapshotStep ==
    ASSUME CacheInv, Snapshot
    PROVE  CacheInv'
  <1>1. /\ task.at = "flush"
        /\ UNCHANGED <<entries, file, now, calls, served, restarts, recorded, forgot, failed>>
    BY DEF Snapshot
  <1>2. CASE dirty
    <2>1. task' = [at |-> "write", snapshot |-> entries] /\ dirty' = FALSE
      BY <1>2 DEF Snapshot
    <2>2. CacheTypeOK'
      BY <1>1, <2>1 DEF CacheInv, CacheTypeOK, IsTable
    <2>3. CacheIsWhatWasRecorded' /\ ReadInv'
      BY <1>1 DEF CacheInv, CacheIsWhatWasRecorded, ReadInv
    <2>4. RecordedInv' /\ SavedInv'
      BY <1>1, <2>1 DEF CacheInv, CacheIsWhatWasRecorded, RecordedInv, SavedInv, Saves
    <2> QED
      BY <2>2, <2>3, <2>4 DEF CacheInv
  <1>3. CASE ~dirty
    <2>1. task' = [at |-> "sleep", snapshot |-> task.snapshot] /\ dirty' = dirty
      BY <1>3 DEF Snapshot, CacheInv, CacheTypeOK
    <2>2. CacheTypeOK'
      BY <1>1, <2>1 DEF CacheInv, CacheTypeOK, IsTable
    <2>3. CacheIsWhatWasRecorded' /\ ReadInv'
      BY <1>1 DEF CacheInv, CacheIsWhatWasRecorded, ReadInv
    <2>4. RecordedInv' /\ SavedInv'
      BY <1>1, <2>1 DEF CacheInv, RecordedInv, SavedInv, Saves
    <2> QED
      BY <2>2, <2>3, <2>4 DEF CacheInv
  <1> QED
    BY <1>2, <1>3

\* The file is torn until it is written, or left as it was when that fails.
LEMMA BeginWriteStep ==
    ASSUME CacheInv, BeginWrite
    PROVE  CacheInv'
  <1>1. /\ task.at = "write"
        /\ UNCHANGED <<entries, dirty, now, calls, served, restarts, recorded, forgot>>
    BY DEF BeginWrite
  <1>2. CacheIsWhatWasRecorded' /\ ReadInv'
    BY <1>1 DEF CacheInv, CacheIsWhatWasRecorded, ReadInv
  <1>3. CASE /\ TaskAt("write", "writing") /\ file' = [file EXCEPT !.whole = FALSE]
             /\ UNCHANGED failed
    <2>1. task' = [at |-> "writing", snapshot |-> task.snapshot]
      BY <1>3 DEF TaskAt, CacheInv, CacheTypeOK
    <2>2. file' = [whole |-> FALSE, entries |-> file.entries]
      BY <1>3 DEF CacheInv, CacheTypeOK
    <2>3. CacheTypeOK'
      BY <1>1, <2>1, <2>2 DEF CacheInv, CacheTypeOK, IsTable
    <2>4. RecordedInv' /\ SavedInv'
      BY <1>1, <2>1, <2>2 DEF CacheInv, RecordedInv, SavedInv, Saves
    <2> QED
      BY <1>2, <2>3, <2>4 DEF CacheInv
  <1>4. CASE TaskAt("write", "sleep") /\ failed' = TRUE /\ UNCHANGED file
    <2>1. task' = [at |-> "sleep", snapshot |-> task.snapshot]
      BY <1>4 DEF TaskAt, CacheInv, CacheTypeOK
    <2>2. CacheTypeOK'
      BY <1>1, <1>4, <2>1 DEF CacheInv, CacheTypeOK, IsTable
    <2>3. RecordedInv' /\ SavedInv'
      BY <1>1, <1>4, <2>1 DEF CacheInv, RecordedInv, SavedInv
    <2> QED
      BY <1>2, <2>2, <2>3 DEF CacheInv
  <1> QED
    BY <1>3, <1>4 DEF BeginWrite

\* The write ends with the snapshot in the file, or fails and says so.
LEMMA EndWriteStep ==
    ASSUME CacheInv, EndWrite
    PROVE  CacheInv'
  <1>1. /\ task.at = "writing"
        /\ UNCHANGED <<entries, dirty, now, calls, served, restarts, recorded, forgot>>
    BY DEF EndWrite, TaskAt
  <1>2. CacheIsWhatWasRecorded' /\ ReadInv'
    BY <1>1 DEF CacheInv, CacheIsWhatWasRecorded, ReadInv
  <1>3. task' = [at |-> "sleep", snapshot |-> task.snapshot]
    BY DEF EndWrite, TaskAt, CacheInv, CacheTypeOK
  <1>4. CASE file' = [whole |-> TRUE, entries |-> task.snapshot] /\ failed' = FALSE
    <2>1. CacheTypeOK'
      BY <1>1, <1>3, <1>4 DEF CacheInv, CacheTypeOK, IsTable
    <2>2. RecordedInv' /\ SavedInv'
      BY <1>1, <1>3, <1>4 DEF CacheInv, RecordedInv, SavedInv, Saves
    <2> QED
      BY <1>2, <2>1, <2>2 DEF CacheInv
  <1>5. CASE failed' = TRUE /\ UNCHANGED file
    <2>1. CacheTypeOK'
      BY <1>1, <1>3, <1>5 DEF CacheInv, CacheTypeOK, IsTable
    <2>2. RecordedInv' /\ SavedInv'
      BY <1>1, <1>3, <1>5 DEF CacheInv, RecordedInv, SavedInv
    <2> QED
      BY <1>2, <2>1, <2>2 DEF CacheInv
  <1> QED
    BY <1>4, <1>5 DEF EndWrite

\* A restart brings back what the file has, and forgets the rest.
LEMMA RestartStep ==
    ASSUME CacheInv, Restart
    PROVE  CacheInv'
  <1> DEFINE none == <<>>
             saved == IF file.whole THEN file.entries ELSE none
             fresh == {k \in DOMAIN saved : saved[k].exp > now}
  <1>1. /\ entries' = Restrict(saved, fresh)
        /\ dirty' = FALSE /\ forgot' = TRUE
        /\ task' = [at |-> "sleep", snapshot |-> none]
        /\ calls' = [c \in Callers |-> Idle]
        /\ UNCHANGED <<file, now, served, recorded, failed>>
    BY DEF Restart
  <1>2. DOMAIN none = {}
    OBVIOUS
  <1>3. /\ DOMAIN entries' = fresh
        /\ \A k \in fresh : entries'[k] = saved[k]
    BY <1>1 DEF Restrict
  <1>4. \A k \in fresh : /\ file.whole /\ k \in DOMAIN file.entries
                         /\ saved[k] = file.entries[k]
    BY <1>2
  <1> HIDE DEF none, saved, fresh
  <1>5. Idle \in [at : {"idle", "found"}, prompt : Prompts \union {NoPrompt}, read : Nat]
    BY DEF Idle
  <1>6. CacheTypeOK'
    BY <1>1, <1>2, <1>3, <1>4, <1>5 DEF CacheInv, CacheTypeOK, IsTable
  <1>7. CacheIsWhatWasRecorded'
    BY <1>1, <1>3, <1>4 DEF CacheInv, CacheIsWhatWasRecorded, RecordedInv
  <1>8. RecordedInv' /\ SavedInv'
    BY <1>1, <1>2, <1>3, <1>4 DEF CacheInv, RecordedInv, SavedInv, Saves
  <1>9. ReadInv'
    <2>1. \A c \in Callers : calls'[c].read = 0
      BY <1>1 DEF Idle
    <2> QED
      BY <2>1 DEF ReadInv, ReadsRecorded
  <1> QED
    BY <1>6, <1>7, <1>8, <1>9 DEF CacheInv

\* Time only makes entries expire.
LEMMA TickStep ==
    ASSUME CacheInv, Tick
    PROVE  CacheInv'
  <1>1. /\ now' = now + 1 /\ now \in Nat
        /\ UNCHANGED <<entries, dirty, file, task, calls, served, restarts, recorded, forgot,
                        failed>>
    BY DEF Tick, CacheInv, CacheTypeOK
  <1>2. CacheTypeOK'
    BY <1>1 DEF CacheInv, CacheTypeOK, IsTable
  <1>3. CacheIsWhatWasRecorded'
    <2>1. \A k \in DOMAIN recorded : recorded[k] \in Nat
      BY DEF CacheInv, CacheTypeOK
    <2>2. \A k \in DOMAIN recorded : now' - recorded[k] < Grace => now - recorded[k] < Grace
      BY <1>1, <2>1, CacheAssumption
    <2> QED
      BY <1>1, <2>2 DEF CacheInv, CacheIsWhatWasRecorded
  <1>4. RecordedInv' /\ SavedInv'
    <2>1. \A k \in DOMAIN entries : entries[k].exp \in Nat
      BY DEF CacheInv, CacheTypeOK, IsTable, Entry
    <2>2. \A k \in DOMAIN entries : entries[k].exp > now' => entries[k].exp > now
      BY <1>1, <2>1
    <2> QED
      BY <1>1, <2>2 DEF CacheInv, RecordedInv, SavedInv, Saves
  <1>5. ReadInv'
    BY <1>1 DEF CacheInv, ReadInv
  <1> QED
    BY <1>2, <1>3, <1>4, <1>5 DEF CacheInv

\* Every step of the cache keeps the invariant.
LEMMA CacheStep == CacheInv /\ [CacheNext]_cacheVars => CacheInv'
  <1> SUFFICES ASSUME CacheInv, [CacheNext]_cacheVars
               PROVE  CacheInv'
    OBVIOUS
  <1>1. ASSUME NEW c \in Callers, Lookup(c)
        PROVE  CacheInv'
    BY <1>1, LookupStep
  <1>2. ASSUME NEW c \in Callers, Record(c)
        PROVE  CacheInv'
    BY <1>2, RecordStep
  <1>3. CASE Background
    BY <1>3, EvictStep, SnapshotStep, BeginWriteStep, EndWriteStep DEF Background
  <1>4. CASE Restart
    BY <1>4, RestartStep
  <1>5. CASE Tick
    BY <1>5, TickStep
  <1>6. CASE UNCHANGED cacheVars
    <2>1. UNCHANGED <<entries, dirty, file, task, now, calls, recorded, forgot, failed>>
      BY <1>6 DEF cacheVars
    <2>2. CacheTypeOK' /\ CacheIsWhatWasRecorded'
      BY <2>1 DEF CacheInv, CacheTypeOK, CacheIsWhatWasRecorded, IsTable
    <2>3. RecordedInv' /\ SavedInv' /\ ReadInv'
      BY <2>1 DEF CacheInv, RecordedInv, SavedInv, ReadInv, Saves
    <2> QED
      BY <2>2, <2>3 DEF CacheInv
  <1> QED
    BY <1>1, <1>2, <1>3, <1>4, <1>5, <1>6 DEF CacheNext

\* However lookups, records, eviction, flushes and restarts interleave, every
\* prefix recorded within its time is there with its expiry as long as nothing
\* was forgotten, and what is not to be saved any more is in the file.
THEOREM CacheIsAlwaysTrue == CacheSpec => []CacheIsTrue
  <1>1. CacheInv => CacheIsTrue
    <2> SUFFICES ASSUME CacheInv PROVE CacheIsTrue
      OBVIOUS
    <2>1. CleanMeansSaved
      BY DEF CacheInv, SavedInv, Saves, CleanMeansSaved
    <2> QED
      BY <2>1 DEF CacheInv, CacheIsTrue
  <1> QED
    BY <1>1, CacheStart, CacheStep, PTL DEF CacheSpec

-----------------------------------------------------------------------------
(* The split of a bill.  The roundings do not matter: each one is clamped to *)
(* what is left to be divided, and that is all the argument uses of it.      *)

\* What compute_cache_usage finds and apply_key_billing sets.
Usages ==
    [cache_read : Nat, cache_covered_est : Nat, prompt_total_est : Nat,
     creation_is_1h : BOOLEAN, read_ratio : 0..One,
     multiplier_cap : WeightRead..DefaultCap, billing_mode : BOOLEAN,
     creation_ratio : 0..One]

\* A value clamped to 0..high is there.
LEMMA ClampRange ==
    ASSUME NEW x \in Int, NEW high \in Nat
    PROVE  Clamp(x, 0, high) \in 0..high
  BY DEF Clamp

\* A rounded quotient is an integer.
LEMMA RoundInt ==
    ASSUME NEW n \in Int, NEW d \in Nat \ {0}
    PROVE  Round(n, d) \in Int
  <1>1. 2 * d \in Nat \ {0} /\ 2 * n + d \in Int
    OBVIOUS
  <1> QED
    BY <1>1 DEF Round

\* Rounding up gives a quotient that is enough.
LEMMA CeilEnough ==
    ASSUME NEW n \in Int
    PROVE  Ceil(n, WeightInput - WeightRead) \in Int
           /\ 18 * Ceil(n, WeightInput - WeightRead) >= n
  BY DEF Ceil, WeightInput, WeightRead

\* The covered part is part of the total.
LEMMA CoveredRange ==
    ASSUME NEW u \in Usages, NEW total \in Nat, u.prompt_total_est > 0
    PROVE  Covered(u, total) \in 0..total
  <1>1. total * u.cache_covered_est \in Int /\ u.prompt_total_est \in Nat \ {0}
    BY DEF Usages
  <1>2. Round(total * u.cache_covered_est, u.prompt_total_est) \in Int
    BY <1>1, RoundInt
  <1> QED
    BY <1>2, ClampRange DEF Covered

\* The split by hits, before the cap.
LEMMA HitsFair ==
    ASSUME NEW u \in Usages, NEW total \in Nat,
           u.prompt_total_est > 0, u.cache_covered_est > 0
    PROVE  LET s == SplitByHits(u, total)
           IN  /\ s.input \in Nat /\ s.creation \in Nat /\ s.read \in Nat
               /\ s.input + s.creation + s.read = total
  <1> DEFINE covered  == Covered(u, total)
             rounded  == Round(covered * u.cache_read, u.cache_covered_est)
             readBase == Clamp(rounded, 0, covered)
             damped   == Round(readBase * u.read_ratio, One)
             read     == Clamp(damped, 0, readBase)
  <1>1. covered \in 0..total
    BY CoveredRange
  <1>2. rounded \in Int
    <2>1. covered * u.cache_read \in Int /\ u.cache_covered_est \in Nat \ {0}
      BY <1>1 DEF Usages
    <2> QED
      BY <2>1, RoundInt
  <1>3. readBase \in 0..covered
    BY <1>1, <1>2, ClampRange
  <1>4. damped \in Int
    <2>1. readBase * u.read_ratio \in Int /\ One \in Nat \ {0}
      BY <1>1, <1>3 DEF Usages, One
    <2> QED
      BY <2>1, RoundInt
  <1>5. read \in 0..readBase
    BY <1>1, <1>3, <1>4, ClampRange
  <1>6. SplitByHits(u, total)
          = [input |-> total - covered + (readBase - read),
             creation |-> covered - readBase, read |-> read]
    BY DEF SplitByHits, Split
  <1> HIDE DEF covered, rounded, readBase, damped, read
  <1> QED
    BY <1>1, <1>3, <1>5, <1>6

\* The split by a fixed ratio of creation.
LEMMA StandardFair ==
    ASSUME NEW u \in Usages, NEW total \in Nat, u.prompt_total_est > 0
    PROVE  LET s == SplitStandard(u, total)
           IN  /\ s.input \in Nat /\ s.creation \in Nat /\ s.read \in Nat
               /\ s.input + s.creation + s.read = total
  <1> DEFINE covered  == Covered(u, total)
             shaped   == Round(covered * u.creation_ratio, One)
             creation == Clamp(shaped, 0, covered)
             damped   == Round((covered - creation) * u.read_ratio, One)
             read     == Clamp(damped, 0, covered - creation)
  <1>1. covered \in 0..total
    BY CoveredRange
  <1>2. shaped \in Int
    <2>1. covered * u.creation_ratio \in Int /\ One \in Nat \ {0}
      BY <1>1 DEF Usages, One
    <2> QED
      BY <2>1, RoundInt
  <1>3. creation \in 0..covered
    BY <1>1, <1>2, ClampRange
  <1>4. damped \in Int
    <2>1. (covered - creation) * u.read_ratio \in Int /\ One \in Nat \ {0}
      BY <1>1, <1>3 DEF Usages, One
    <2> QED
      BY <2>1, RoundInt
  <1>5. covered - creation \in Nat
    BY <1>1, <1>3
  <1>6. read \in 0..(covered - creation)
    BY <1>4, <1>5, ClampRange
  <1>7. SplitStandard(u, total)
          = [input |-> total - creation - read, creation |-> creation, read |-> read]
    BY DEF SplitStandard, Split
  <1> HIDE DEF covered, shaped, creation, damped, read
  <1> QED
    BY <1>1, <1>3, <1>6, <1>7

\* The cap moves input to read: the sum stays, and the weighted sum comes down
\* to the cap unless all of the input has moved.
LEMMA CapFair ==
    ASSUME NEW u \in Usages, NEW total \in Nat,
           NEW input \in Nat, NEW creation \in Nat, NEW read \in Nat,
           input + creation + read = total
    PROVE  LET s == ApplyCap(u, total, Split(input, creation, read))
           IN  /\ s.input + s.creation + s.read = total
               /\ s.input >= 0 /\ s.creation >= 0 /\ s.read >= 0
               /\ s.input = 0 \/ Weighted(u, s) <= u.multiplier_cap * total
  <1> DEFINE weight == CreationWeight(u) * creation
             most   == u.multiplier_cap * total
             excess == 20 * input + weight + 2 * read - most
             need   == Ceil(excess, WeightInput - WeightRead)
             moved  == Clamp(need, 0, input)
  <1>1. weight \in Nat /\ most \in Nat
    BY DEF Usages, CreationWeight, WeightCreation, WeightCreation1h,
           WeightRead, DefaultCap
  <1>2. excess \in Int
    BY <1>1
  <1>3. need \in Int /\ 18 * need >= excess
    BY <1>2, CeilEnough
  <1>4. moved \in 0..input /\ (moved >= need \/ moved = input)
    BY <1>3 DEF Clamp
  <1>5. \A i, r : Weighted(u, Split(i, creation, r)) = 20 * i + weight + 2 * r
    BY DEF Weighted, Split, WeightInput, WeightRead
  <1>6. ApplyCap(u, total, Split(input, creation, read))
          = IF u.multiplier_cap <= 0 \/ total <= 0 \/ excess <= 0
            THEN Split(input, creation, read)
            ELSE Split(input - moved, creation, read + moved)
    <2> DEFINE s == Split(input, creation, read)
    <2>1. s.input = input /\ s.creation = creation /\ s.read = read
      BY DEF Split
    <2>2. Weighted(u, s) - u.multiplier_cap * total = excess
      <3> DEFINE sum == Weighted(u, Split(input, creation, read))
      <3>1. sum = 20 * input + weight + 2 * read
        <4> HIDE DEF weight
        <4> QED
          BY <1>5
      <3> HIDE DEF sum, weight, most
      <3>2. sum - most = excess
        BY <3>1, <1>1
      <3> QED
        BY <3>2 DEF sum, most
    <2> HIDE DEF s, excess
    <2> QED
      BY <2>1, <2>2 DEF ApplyCap, s
  <1>7. u.multiplier_cap > 0 /\ u.multiplier_cap \in Nat
    BY DEF Usages, WeightRead, DefaultCap
  <1>8. CASE total <= 0 \/ excess <= 0
    <2>1. ApplyCap(u, total, Split(input, creation, read))
            = Split(input, creation, read)
      BY <1>6, <1>8
    <2>2. input = 0 \/ 20 * input + weight + 2 * read <= most
      BY <1>1, <1>8
    <2> HIDE DEF weight, most, excess, need, moved
    <2>3. input = 0 \/ Weighted(u, Split(input, creation, read)) <= most
      BY <2>2, <1>5
    <2> QED
      BY <2>1, <2>3 DEF Split, most
  <1>9. CASE ~(total <= 0 \/ excess <= 0)
    <2>1. ApplyCap(u, total, Split(input, creation, read))
            = Split(input - moved, creation, read + moved)
      BY <1>6, <1>7, <1>9
    <2>2. 20 * (input - moved) + weight + 2 * (read + moved)
            = excess + most - 18 * moved
      BY <1>1, <1>4
    <2> HIDE DEF weight, most, excess, need, moved
    <2>3. input - moved = 0
            \/ 20 * (input - moved) + weight + 2 * (read + moved) <= most
      BY <2>2, <1>1, <1>2, <1>3, <1>4
    <2>4. input - moved = 0
            \/ Weighted(u, Split(input - moved, creation, read + moved)) <= most
      BY <2>3, <1>5
    <2> QED
      BY <2>1, <2>4, <1>4 DEF Split, most
  <1> QED
    BY <1>8, <1>9

\* For every usage and total, split_final divides the total fairly: the
\* buckets add up to it, none is negative, and the multiplier cap holds
\* wherever it is applied and there was input to move
\* (cache_metering.rs:141, 186 and 226).
THEOREM FairBill ==
    ASSUME NEW u \in Usages, NEW totalReal \in Int
    PROVE  LET total == IF totalReal < 0 THEN 0 ELSE totalReal
           IN  FairSplit(u, total, SplitFinal(u, totalReal))
  <1> DEFINE total == IF totalReal < 0 THEN 0 ELSE totalReal
  <1> SUFFICES FairSplit(u, total, SplitFinal(u, totalReal))
    OBVIOUS
  <1>1. total \in Nat
    OBVIOUS
  <1>2. u.cache_covered_est \in Nat /\ u.prompt_total_est \in Nat
    BY DEF Usages
  <1>3. CASE u.cache_covered_est <= 0 \/ u.prompt_total_est <= 0
    BY <1>1, <1>2, <1>3 DEF SplitFinal, FairSplit, Split
  <1>4. CASE u.cache_covered_est > 0 /\ u.prompt_total_est > 0 /\ u.billing_mode
    <2>1. SplitFinal(u, totalReal) = SplitStandard(u, total)
      BY <1>2, <1>4 DEF SplitFinal
    <2> HIDE DEF total
    <2> QED
      BY <2>1, <1>1, <1>4, StandardFair DEF FairSplit
  <1>5. CASE u.cache_covered_est > 0 /\ u.prompt_total_est > 0 /\ ~u.billing_mode
    <2>1. SplitFinal(u, totalReal) = ApplyCap(u, total, SplitByHits(u, total))
      BY <1>2, <1>5 DEF SplitFinal
    <2> HIDE DEF total
    <2> DEFINE s == SplitByHits(u, total)
    <2>2. /\ s.input \in Nat /\ s.creation \in Nat /\ s.read \in Nat
          /\ s.input + s.creation + s.read = total
      BY <1>1, <1>5, HitsFair
    <2>3. s = Split(s.input, s.creation, s.read)
      BY DEF SplitByHits, Split
    <2> HIDE DEF s
    <2>4. LET t == ApplyCap(u, total, Split(s.input, s.creation, s.read))
          IN  /\ t.input + t.creation + t.read = total
              /\ t.input >= 0 /\ t.creation >= 0 /\ t.read >= 0
              /\ t.input = 0 \/ Weighted(u, t) <= u.multiplier_cap * total
      BY <1>1, <2>2, CapFair
    <2> QED
      BY <2>1, <2>3, <2>4 DEF FairSplit, s
  <1> QED
    BY <1>2, <1>3, <1>4, <1>5 DEF Usages

\* What the cache finds and a key's administrator sets, is a usage.
LEMMA UsageIsUsage ==
    ASSUME NEW read \in Nat, NEW covered \in Nat, NEW prompt \in Nat, NEW long \in BOOLEAN,
           NEW ratio \in Int, NEW cap \in Int, NEW mode \in BOOLEAN, NEW creation \in Int
    PROVE  ApplyKeyBilling(Usage(read, covered, prompt, long), ratio, cap, mode, creation)
             \in Usages
  <1> DEFINE r == Clamp(ratio, 0, One)
             m == Clamp(cap, WeightRead, DefaultCap)
             n == Clamp(creation, 0, One)
  <1>1. r \in 0..One /\ m \in WeightRead..DefaultCap /\ n \in 0..One
    BY DEF Clamp, One, WeightRead, DefaultCap
  <1> DEFINE u == Usage(read, covered, prompt, long)
  <1>2. ApplyKeyBilling(u, ratio, cap, mode, creation)
          = [u EXCEPT !.read_ratio = r, !.multiplier_cap = m, !.billing_mode = mode,
                      !.creation_ratio = n]
    BY DEF ApplyKeyBilling
  <1>3. u \in Usages
    <2>1. One \in 0..One /\ DefaultCap \in WeightRead..DefaultCap /\ 1 \in 0..One
      BY DEF One, WeightRead, DefaultCap
    <2> QED
      BY <2>1 DEF Usage, Usages
  <1> HIDE DEF u, r, m, n
  <1>4. [u EXCEPT !.read_ratio = r, !.multiplier_cap = m, !.billing_mode = mode,
                  !.creation_ratio = n] \in Usages
    BY <1>1, <1>3 DEF Usages
  <1> QED
    BY <1>2, <1>4 DEF u

\* A prefix that is read was recorded for the same seed and is no longer than
\* what the request marks as cached, and the split of a bill is fair.
THEOREM BillsAlwaysAddUp == CacheSpec => []BillsAddUp
  <1>1. CacheInv => BillsAddUp
    <2> SUFFICES ASSUME CacheInv PROVE BillsAddUp
      OBVIOUS
    <2>1. ASSUME NEW c \in Callers, calls[c].read > 0
          PROVE  /\ \E i \in Segments(calls[c].prompt) :
                      /\ calls[c].read = Tokens(calls[c].prompt, i)
                      /\ KeyOf(calls[c].prompt, i) \in DOMAIN recorded
                 /\ calls[c].read <= UsageOf(c).cache_covered_est
      <3>1. UsageOf(c).cache_covered_est
              = DeepestTokens(calls[c].prompt, Segments(calls[c].prompt))
        BY DEF UsageOf, Usage
      <3> QED
        BY <2>1, <3>1 DEF CacheInv, ReadInv, ReadsRecorded
    <2>2. ASSUME NEW total \in -1..6, NEW prompt \in 0..4, NEW long \in BOOLEAN,
                 NEW mode \in BOOLEAN, NEW ratio \in {-1, 0, 7, 20},
                 NEW creation \in {0, 7, 30}, NEW cap \in {0, 2, 21, 25},
                 NEW covered \in 0..(prompt + 1), NEW read \in 0..covered
          PROVE  LET u == ApplyKeyBilling(Usage(read, covered, prompt, long),
                                          ratio, cap, mode, creation)
                 IN  FairSplit(u, IF total < 0 THEN 0 ELSE total, SplitFinal(u, total))
      <3>1. ApplyKeyBilling(Usage(read, covered, prompt, long), ratio, cap, mode, creation)
              \in Usages
        <4>1. covered \in Nat /\ read \in Nat /\ prompt \in Nat
          OBVIOUS
        <4>2. ratio \in Int /\ cap \in Int /\ creation \in Int
          OBVIOUS
        <4> QED
          BY <4>1, <4>2, UsageIsUsage
      <3>2. total \in Int
        OBVIOUS
      <3> QED
        BY <3>1, <3>2, FairBill
    <2> QED
      BY <2>1, <2>2 DEF BillsAddUp
  <1> QED
    BY <1>1, CacheStart, CacheStep, PTL DEF CacheSpec

-----------------------------------------------------------------------------
(* The filter of system prompts.  Its folds over the lines are shown to      *)
(* follow their equations (CollapseIs, WalkIs), and each part of the filter  *)
(* to keep the lines that are instructions, at any place and in any section: *)
(* two prompts are the Same if they read the same whatever stands before     *)
(* them.  What is filtered is Clean, and the filter leaves alone what is.    *)

LastIsBlank(s) == s # <<>> /\ Last(s) = "blank"

Collapsed(acc, l) == IF l = "blank" /\ acc # <<>> /\ Last(acc) = "blank" THEN acc ELSE Append(acc, l)

Walked(lines) == FoldLeft(EnvLine, [skip |-> FALSE, out |-> <<>>], lines)

LEMMA CollapseIs ==
    ASSUME NEW U, NEW V,
           <<>> \in V, \A v \in V, x \in U : Collapsed(v, x) \in V
    PROVE  /\ CollapseBlank(<<>>) = <<>>
           /\ \A s \in Seq(U) : CollapseBlank(s) \in V
           /\ \A s \in Seq(U), x \in U : CollapseBlank(Append(s, x)) = Collapsed(CollapseBlank(s), x)
  <1> DEFINE next == [p \in V \X U |-> Collapsed(p[1], p[2])]
             base == <<>>
  <1>1. \A v \in V, x \in U : next[<<v, x>>] = Collapsed(v, x)
    OBVIOUS
  <1>2. next \in [V \X U -> V]
    <2>1. \A p \in V \X U : p[1] \in V /\ p[2] \in U
      OBVIOUS
    <2>2. \A p \in V \X U : Collapsed(p[1], p[2]) \in V
      BY <2>1
    <2> QED
      BY <2>2
  <1>3. base \in V
    OBVIOUS
  <1> HIDE DEF next
  <1>4. ASSUME NEW s \in Seq(U) PROVE Folded(next, base, s, CollapseBlank(s))
    <2> DEFINE iter[S \in SUBSET (DOMAIN s)] ==
                   IF S = {} THEN base ELSE Collapsed(iter[S \ {Max(S)}], s[Max(S)])
    <2>1. CollapseBlank(s) = iter[DOMAIN s]
      BY DEF CollapseBlank, Collapsed, FoldLeft, MapThenFoldSet
    <2> HIDE DEF base
    <2>3. /\ Len(s) \in Nat /\ DOMAIN s = 1 .. Len(s)
          /\ \A S \in SUBSET (DOMAIN s) : S # {} =>
                Max(S) \in DOMAIN s /\ s[Max(S)] \in U /\ S \ {Max(S)} \in SUBSET (DOMAIN s)
      <3>1. Len(s) \in Nat /\ DOMAIN s = 1 .. Len(s) /\ \A k \in DOMAIN s : s[k] \in U
        BY LenProperties, ElementOfSeq
      <3>2. \A S \in SUBSET (DOMAIN s) : S # {} => Max(S) \in DOMAIN s
        BY <3>1, MaxUpTo
      <3> QED
        BY <3>1, <3>2
    <2>4. PICK f \in [SUBSET (DOMAIN s) -> V] : Iterates(f, next, base, s)
      BY <1>2, <1>3, IteratesExists
    <2>5. f = [S \in SUBSET (DOMAIN s) |->
                 IF S = {} THEN base ELSE Collapsed(f[S \ {Max(S)}], s[Max(S)])]
      <3>1. ASSUME NEW S \in SUBSET (DOMAIN s)
            PROVE  (IF S = {} THEN base ELSE next[<<f[S \ {Max(S)}], s[Max(S)]>>])
                     = IF S = {} THEN base ELSE Collapsed(f[S \ {Max(S)}], s[Max(S)])
        BY <1>1, <2>3
      <3> QED
        BY <2>4, <3>1 DEF Iterates
    <2>6. iter = [S \in SUBSET (DOMAIN s) |->
                    IF S = {} THEN base ELSE Collapsed(iter[S \ {Max(S)}], s[Max(S)])]
      BY <2>5
    <2> HIDE DEF iter
    <2> DEFINE W == V \cup {iter[S] : S \in SUBSET (DOMAIN s)}
               other == [p \in W \X U |-> Collapsed(p[1], p[2])]
    <2>7. Agree(other, next, V, U)
      BY <1>1 DEF Agree
    <2>8. Iterates(iter, other, base, s)
      <3>1. ASSUME NEW S \in SUBSET (DOMAIN s)
            PROVE  (IF S = {} THEN base ELSE Collapsed(iter[S \ {Max(S)}], s[Max(S)]))
                     = IF S = {} THEN base ELSE other[<<iter[S \ {Max(S)}], s[Max(S)]>>]
        <4>1. CASE S # {}
          <5>1. iter[S \ {Max(S)}] \in W /\ s[Max(S)] \in U
            BY <2>3, <4>1
          <5> HIDE DEF W
          <5> QED
            BY <4>1, <5>1
        <4> QED
          BY <4>1
      <3> HIDE DEF other
      <3> QED
        BY <2>6, <3>1 DEF Iterates
    <2> HIDE DEF other
    <2>9. Folded(other, base, s, iter[DOMAIN s])
      BY <2>8, IteratesFolded
    <2>10. Folded(next, base, s, iter[DOMAIN s])
      BY <1>2, <1>3, <2>7, <2>9, FoldedSame
    <2> QED
      BY <2>1, <2>10
  <1>5. CollapseBlank(<<>>) = <<>>
    <2>1. Folded(next, base, <<>>, CollapseBlank(<<>>))
      <3>1. <<>> \in Seq(U)
        BY EmptySeq
      <3> QED
        BY <1>4, <3>1
    <2> QED
      BY <2>1, FoldedEmpty
  <1> HIDE DEF base
  <1>6. \A s \in Seq(U) : CollapseBlank(s) \in V
    BY <1>2, <1>3, <1>4, FoldedIn
  <1>7. ASSUME NEW s \in Seq(U), NEW x \in U
        PROVE  CollapseBlank(Append(s, x)) = Collapsed(CollapseBlank(s), x)
    <2>1. Append(s, x) \in Seq(U)
      BY AppendProperties
    <2>2. Folded(next, base, s, CollapseBlank(s)) /\ Folded(next, base, Append(s, x), CollapseBlank(Append(s, x)))
      BY <1>4, <2>1
    <2>3. CollapseBlank(Append(s, x)) = next[<<CollapseBlank(s), x>>]
      BY <2>2, FoldedAppend, Zenon
    <2> QED
      BY <1>1, <1>6, <2>3
  <1> QED
    BY <1>5, <1>6, <1>7

LEMMA WalkIs ==
    ASSUME NEW U, NEW V,
           [skip |-> FALSE, out |-> <<>>] \in V, \A v \in V, x \in U : EnvLine(v, x) \in V
    PROVE  /\ Walked(<<>>) = [skip |-> FALSE, out |-> <<>>]
           /\ \A s \in Seq(U) : Walked(s) \in V
           /\ \A s \in Seq(U), x \in U : Walked(Append(s, x)) = EnvLine(Walked(s), x)
  <1> DEFINE next == [p \in V \X U |-> EnvLine(p[1], p[2])]
             base == [skip |-> FALSE, out |-> <<>>]
  <1>1. \A v \in V, x \in U : next[<<v, x>>] = EnvLine(v, x)
    OBVIOUS
  <1>2. next \in [V \X U -> V]
    <2>1. \A p \in V \X U : p[1] \in V /\ p[2] \in U
      OBVIOUS
    <2>2. \A p \in V \X U : EnvLine(p[1], p[2]) \in V
      BY <2>1
    <2> QED
      BY <2>2
  <1>3. base \in V
    OBVIOUS
  <1> HIDE DEF next
  <1>4. ASSUME NEW s \in Seq(U) PROVE Folded(next, base, s, Walked(s))
    <2> DEFINE iter[S \in SUBSET (DOMAIN s)] ==
                   IF S = {} THEN base ELSE EnvLine(iter[S \ {Max(S)}], s[Max(S)])
    <2>1. Walked(s) = iter[DOMAIN s]
      BY DEF Walked, FoldLeft, MapThenFoldSet
    <2> HIDE DEF base
    <2>3. /\ Len(s) \in Nat /\ DOMAIN s = 1 .. Len(s)
          /\ \A S \in SUBSET (DOMAIN s) : S # {} =>
                Max(S) \in DOMAIN s /\ s[Max(S)] \in U /\ S \ {Max(S)} \in SUBSET (DOMAIN s)
      <3>1. Len(s) \in Nat /\ DOMAIN s = 1 .. Len(s) /\ \A k \in DOMAIN s : s[k] \in U
        BY LenProperties, ElementOfSeq
      <3>2. \A S \in SUBSET (DOMAIN s) : S # {} => Max(S) \in DOMAIN s
        BY <3>1, MaxUpTo
      <3> QED
        BY <3>1, <3>2
    <2>4. PICK f \in [SUBSET (DOMAIN s) -> V] : Iterates(f, next, base, s)
      BY <1>2, <1>3, IteratesExists
    <2>5. f = [S \in SUBSET (DOMAIN s) |->
                 IF S = {} THEN base ELSE EnvLine(f[S \ {Max(S)}], s[Max(S)])]
      <3>1. ASSUME NEW S \in SUBSET (DOMAIN s)
            PROVE  (IF S = {} THEN base ELSE next[<<f[S \ {Max(S)}], s[Max(S)]>>])
                     = IF S = {} THEN base ELSE EnvLine(f[S \ {Max(S)}], s[Max(S)])
        BY <1>1, <2>3
      <3> QED
        BY <2>4, <3>1 DEF Iterates
    <2>6. iter = [S \in SUBSET (DOMAIN s) |->
                    IF S = {} THEN base ELSE EnvLine(iter[S \ {Max(S)}], s[Max(S)])]
      BY <2>5
    <2> HIDE DEF iter
    <2> DEFINE W == V \cup {iter[S] : S \in SUBSET (DOMAIN s)}
               other == [p \in W \X U |-> EnvLine(p[1], p[2])]
    <2>7. Agree(other, next, V, U)
      BY <1>1 DEF Agree
    <2>8. Iterates(iter, other, base, s)
      <3>1. ASSUME NEW S \in SUBSET (DOMAIN s)
            PROVE  (IF S = {} THEN base ELSE EnvLine(iter[S \ {Max(S)}], s[Max(S)]))
                     = IF S = {} THEN base ELSE other[<<iter[S \ {Max(S)}], s[Max(S)]>>]
        <4>1. CASE S # {}
          <5>1. iter[S \ {Max(S)}] \in W /\ s[Max(S)] \in U
            BY <2>3, <4>1
          <5> HIDE DEF W
          <5> QED
            BY <4>1, <5>1
        <4> QED
          BY <4>1
      <3> HIDE DEF other
      <3> QED
        BY <2>6, <3>1 DEF Iterates
    <2> HIDE DEF other
    <2>9. Folded(other, base, s, iter[DOMAIN s])
      BY <2>8, IteratesFolded
    <2>10. Folded(next, base, s, iter[DOMAIN s])
      BY <1>2, <1>3, <2>7, <2>9, FoldedSame
    <2> QED
      BY <2>1, <2>10
  <1>5. Walked(<<>>) = [skip |-> FALSE, out |-> <<>>]
    <2>1. Folded(next, base, <<>>, Walked(<<>>))
      <3>1. <<>> \in Seq(U)
        BY EmptySeq
      <3> QED
        BY <1>4, <3>1
    <2> QED
      BY <2>1, FoldedEmpty
  <1> HIDE DEF base
  <1>6. \A s \in Seq(U) : Walked(s) \in V
    BY <1>2, <1>3, <1>4, FoldedIn
  <1>7. ASSUME NEW s \in Seq(U), NEW x \in U
        PROVE  Walked(Append(s, x)) = EnvLine(Walked(s), x)
    <2>1. Append(s, x) \in Seq(U)
      BY AppendProperties
    <2>2. Folded(next, base, s, Walked(s)) /\ Folded(next, base, Append(s, x), Walked(Append(s, x)))
      BY <1>4, <2>1
    <2>3. Walked(Append(s, x)) = next[<<Walked(s), x>>]
      BY <2>2, FoldedAppend, Zenon
    <2> QED
      BY <1>1, <1>6, <2>3
  <1> QED
    BY <1>5, <1>6, <1>7

Solid == {"text", "marker", "tags", "heading"}

\* A line added behind these is in a section of noise, unless it is a heading.
Noisy(s) == \E j \in DOMAIN s : s[j] = "env" /\ \A h \in (j + 1) .. Len(s) : s[h] # "heading"

OutsideNoise(s) == [i \in DOMAIN s |-> IF InNoiseSection(s, i) THEN "" ELSE s[i]]

LEMMA EmptyLines == ~Noisy(<<>>) /\ Instructions(<<>>) = <<>>
  <1>1. ~Noisy(<<>>)
    BY DEF Noisy
  <1>2. OutsideNoise(<<>>) = <<>>
    BY EmptySeq DEF OutsideNoise
  <1>3. Those(<<>>, Solid) = <<>>
    BY ThoseIs
  <1>4. Those(OutsideNoise(<<>>), Solid) = <<>>
    BY <1>2, <1>3
  <1> QED
    BY <1>1, <1>4 DEF Instructions, OutsideNoise, Solid

\* One more line.
LEMMA NextLine ==
    ASSUME NEW U, NEW s \in Seq(U), NEW l \in U
    PROVE  /\ Noisy(Append(s, l)) <=> l = "env" \/ (Noisy(s) /\ l # "heading")
           /\ Instructions(Append(s, l)) = IF l \in Solid /\ ~(Noisy(s) /\ l # "heading")
                                           THEN Append(Instructions(s), l) ELSE Instructions(s)
           /\ IsList(Instructions(s)) /\ ToSet(Instructions(s)) \in SUBSET Solid
  <1> DEFINE t == Append(s, l)
             n == Len(s)
             last == IF Noisy(s) /\ l # "heading" THEN "" ELSE l
  <1>1. /\ n \in Nat /\ DOMAIN s = 1 .. n /\ Len(t) = n + 1 /\ DOMAIN t = 1 .. (n + 1)
        /\ \A i \in 1 .. n : t[i] = s[i]
        /\ t[n + 1] = l
    BY AppendProperties, LenProperties
  <1> HIDE DEF t, n
  <1>2. Noisy(t) <=> l = "env" \/ (Noisy(s) /\ l # "heading")
    <2>1. CASE l = "env"
      <3>1. n + 1 \in DOMAIN t /\ (n + 1) + 1 > Len(t)
        BY <1>1
      <3>2. \A h \in ((n + 1) + 1) .. Len(t) : t[h] # "heading"
        BY <1>1, <3>1
      <3> QED
        BY <1>1, <2>1, <3>1, <3>2 DEF Noisy
    <2>2. CASE l # "env" /\ Noisy(s) /\ l # "heading"
      <3>1. PICK j \in 1 .. n : s[j] = "env" /\ \A h \in (j + 1) .. n : s[h] # "heading"
        BY <1>1, <2>2 DEF Noisy, n
      <3>2. j \in 1 .. (n + 1) /\ t[j] = "env"
        BY <1>1, <3>1
      <3>3. \A h \in (j + 1) .. (n + 1) : t[h] # "heading"
        <4> TAKE h \in (j + 1) .. (n + 1)
        <4>1. CASE h = n + 1
          BY <1>1, <2>2, <4>1
        <4>2. CASE h # n + 1
          <5>1. h \in (j + 1) .. n /\ h \in 1 .. n
            BY <1>1, <3>1, <4>2
          <5> QED
            BY <1>1, <3>1, <5>1
        <4> QED
          BY <4>1, <4>2
      <3> QED
        BY <1>1, <2>2, <3>2, <3>3 DEF Noisy
    <2>3. ASSUME l # "env", Noisy(t) PROVE Noisy(s) /\ l # "heading"
      <3>1. PICK j \in 1 .. (n + 1) : t[j] = "env" /\ \A h \in (j + 1) .. (n + 1) : t[h] # "heading"
        BY <1>1, <2>3 DEF Noisy
      <3>2. j \in 1 .. n
        BY <1>1, <2>3, <3>1
      <3>3. n + 1 \in (j + 1) .. (n + 1) /\ \A h \in (j + 1) .. n : h \in (j + 1) .. (n + 1) /\ h \in 1 .. n
        BY <1>1, <3>2
      <3>4. s[j] = "env" /\ \A h \in (j + 1) .. n : s[h] # "heading"
        BY <1>1, <3>1, <3>2, <3>3
      <3> QED
        BY <1>1, <3>1, <3>2, <3>3, <3>4 DEF Noisy, n
    <2> QED
      BY <2>1, <2>2, <2>3
  <1>3. ASSUME NEW i \in 1 .. n PROVE InNoiseSection(t, i) <=> InNoiseSection(s, i)
    <2>1. \A j \in 1 .. (i - 1) : j \in 1 .. n /\ \A h \in (j + 1) .. i : h \in 1 .. n
      BY <1>1
    <2>2. \A j \in 1 .. (i - 1) : t[j] = s[j] /\ \A h \in (j + 1) .. i : t[h] = s[h]
      BY <1>1, <2>1
    <2> QED
      BY <2>2 DEF InNoiseSection
  <1>4. InNoiseSection(t, n + 1) <=> Noisy(s) /\ l # "heading"
    <2>1. (n + 1) - 1 = n
      BY <1>1
    <2>2. ASSUME NEW j \in 1 .. n
          PROVE  (\A h \in (j + 1) .. (n + 1) : t[h] # "heading")
                   <=> (\A h \in (j + 1) .. n : s[h] # "heading") /\ l # "heading"
      <3>1. n + 1 \in (j + 1) .. (n + 1)
        BY <1>1
      <3>2. \A h \in (j + 1) .. n : h \in 1 .. n /\ h \in (j + 1) .. (n + 1)
        BY <1>1
      <3>3. \A h \in (j + 1) .. (n + 1) : h = n + 1 \/ h \in (j + 1) .. n
        BY <1>1
      <3> QED
        BY <1>1, <3>1, <3>2, <3>3
    <2>3. InNoiseSection(t, n + 1) <=> \E j \in 1 .. n : s[j] = "env" /\ \A h \in (j + 1) .. (n + 1) : t[h] # "heading"
      BY <1>1, <2>1 DEF InNoiseSection
    <2>4. Noisy(s) <=> \E j \in 1 .. n : s[j] = "env" /\ \A h \in (j + 1) .. n : s[h] # "heading"
      BY <1>1 DEF Noisy, n
    <2> QED
      BY <2>2, <2>3, <2>4
  <1>5. OutsideNoise(s) \in Seq(U \cup {""})
    <2>1. \A i \in 1 .. n : s[i] \in U
      BY <1>1, ElementOfSeq DEF n
    <2>2. \A i \in 1 .. n : OutsideNoise(s)[i] \in U \cup {""}
      BY <1>1, <2>1 DEF OutsideNoise
    <2>3. OutsideNoise(s) = [i \in 1 .. n |-> OutsideNoise(s)[i]]
      BY <1>1 DEF OutsideNoise
    <2> DEFINE f == OutsideNoise(s)
    <2>4. f = [i \in 1 .. n |-> f[i]] /\ \A i \in 1 .. n : f[i] \in U \cup {""}
      BY <2>2, <2>3
    <2> HIDE DEF f
    <2>5. IsList(f) /\ DOMAIN f = 1 .. n
      BY <1>1, <2>4, MapList
    <2>6. f \in Seq(U \cup {""})
      BY <2>4, <2>5, ListIn
    <2> QED
      BY <2>6 DEF f
  <1>6. OutsideNoise(t) = Append(OutsideNoise(s), last)
    <2>0. DOMAIN OutsideNoise(s) = 1 .. n
      BY <1>1 DEF OutsideNoise
    <2>1. Len(OutsideNoise(s)) = n /\ DOMAIN OutsideNoise(s) = 1 .. n
      <3> DEFINE f == OutsideNoise(s)
      <3>1. f \in Seq(U \cup {""}) /\ DOMAIN f = 1 .. n
        BY <1>5, <2>0
      <3> HIDE DEF f
      <3>2. Len(f) \in Nat /\ 1 .. Len(f) = 1 .. n
        BY <3>1, LenProperties
      <3>3. Len(f) = n
        BY <1>1, <3>2
      <3> QED
        BY <2>0, <3>3 DEF f
    <2>2. last \in U \cup {""}
      OBVIOUS
    <2> DEFINE a == Append(OutsideNoise(s), last)
    <2>3. /\ DOMAIN a = 1 .. (n + 1) /\ a[n + 1] = last /\ \A i \in 1 .. n : a[i] = OutsideNoise(s)[i]
      <3> DEFINE f == OutsideNoise(s)
                 W == U \cup {""}
      <3>1. f \in Seq(W) /\ Len(f) = n /\ DOMAIN f = 1 .. n /\ last \in W
        BY <1>5, <2>1, <2>2
      <3> HIDE DEF f, W, last
      <3>2. Append(f, last) \in Seq(W) /\ Len(Append(f, last)) = n + 1 /\ Append(f, last)[n + 1] = last
            /\ \A i \in 1 .. n : Append(f, last)[i] = f[i]
        BY <3>1, AppendProperties
      <3>3. DOMAIN Append(f, last) = 1 .. (n + 1)
        BY <3>2, LenProperties
      <3> QED
        BY <3>2, <3>3 DEF f
    <2>8. a = [i \in DOMAIN a |-> a[i]]
      <3>1. a \in Seq(U \cup {""})
        BY <1>5, <2>2, AppendProperties
      <3> HIDE DEF a
      <3>2. a \in [1 .. Len(a) -> U \cup {""}]
        BY <3>1, LenProperties
      <3> QED
        BY <3>2
    <2> HIDE DEF a, last
    <2>4. ASSUME NEW i \in 1 .. (n + 1) PROVE OutsideNoise(t)[i] = a[i]
      <3>1. OutsideNoise(t)[i] = IF InNoiseSection(t, i) THEN "" ELSE t[i]
        BY <1>1 DEF OutsideNoise
      <3>2. CASE i = n + 1
        BY <1>1, <1>4, <2>3, <3>1, <3>2 DEF last
      <3>3. CASE i # n + 1
        <4>1. i \in 1 .. n
          BY <1>1, <3>3
        <4>2. OutsideNoise(s)[i] = IF InNoiseSection(s, i) THEN "" ELSE s[i]
          BY <1>1, <4>1 DEF OutsideNoise
        <4> QED
          BY <1>1, <1>3, <2>3, <3>1, <4>1, <4>2
      <3> QED
        BY <3>2, <3>3
    <2>5. OutsideNoise(t) = [i \in 1 .. (n + 1) |-> OutsideNoise(t)[i]]
      BY <1>1 DEF OutsideNoise
    <2> DEFINE b == OutsideNoise(t)
    <2>6. /\ b = [i \in 1 .. (n + 1) |-> b[i]] /\ \A i \in 1 .. (n + 1) : b[i] = a[i]
          /\ a = [i \in 1 .. (n + 1) |-> a[i]]
      BY <2>3, <2>4, <2>5, <2>8
    <2> HIDE DEF b
    <2>7. b = a
      BY <2>6
    <2> QED
      BY <2>7 DEF a, b
  <1>7. Instructions(s) = Those(OutsideNoise(s), Solid) /\ Instructions(t) = Those(OutsideNoise(t), Solid)
    BY DEF Instructions, OutsideNoise, Solid
  <1>8. /\ Those(OutsideNoise(s), Solid) \in Seq(U \cup {""})
        /\ Those(Append(OutsideNoise(s), last), Solid)
             = IF last \in Solid THEN Append(Those(OutsideNoise(s), Solid), last) ELSE Those(OutsideNoise(s), Solid)
    <2> DEFINE f == OutsideNoise(s)
               W == U \cup {""}
    <2>1. last \in W /\ f \in Seq(W)
      BY <1>5
    <2> HIDE DEF last, f, W
    <2>2. Those(f, Solid) \in Seq(W)
      BY <2>1, ThoseIs
    <2>3. Those(Append(f, last), Solid) = IF last \in Solid THEN Append(Those(f, Solid), last) ELSE Those(f, Solid)
      <3>1. \A q \in Seq(W), x \in W :
               Those(Append(q, x), Solid) = IF x \in Solid THEN Append(Those(q, Solid), x) ELSE Those(q, Solid)
        BY ThoseIs
      <3> QED
        BY <2>1, <3>1
    <2> QED
      BY <2>2, <2>3 DEF f, W
  <1>9. IsList(Instructions(s)) /\ ToSet(Instructions(s)) \in SUBSET Solid
    <2>1. ToSet(Those(OutsideNoise(s), Solid)) = ToSet(OutsideNoise(s)) \cap Solid
      BY <1>5, ThoseRange
    <2> QED
      BY <1>7, <1>8, <2>1, SeqIsList
  <1>10. "" \notin Solid
    BY DEF Solid
  <1> QED
    BY <1>2, <1>6, <1>7, <1>8, <1>9, <1>10 DEF t

\* Two blocks say the same, also with the same line behind each.
Same(s, t) == (Noisy(s) <=> Noisy(t)) /\ Instructions(s) = Instructions(t)

LEMMA SameLine ==
    ASSUME NEW U, NEW s \in Seq(U), NEW t \in Seq(U), NEW l \in U, Same(s, t)
    PROVE  Same(Append(s, l), Append(t, l))
  <1>1. /\ Noisy(Append(s, l)) <=> l = "env" \/ (Noisy(s) /\ l # "heading")
        /\ Instructions(Append(s, l)) = IF l \in Solid /\ ~(Noisy(s) /\ l # "heading")
                                        THEN Append(Instructions(s), l) ELSE Instructions(s)
    BY NextLine
  <1>2. /\ Noisy(Append(t, l)) <=> l = "env" \/ (Noisy(t) /\ l # "heading")
        /\ Instructions(Append(t, l)) = IF l \in Solid /\ ~(Noisy(t) /\ l # "heading")
                                        THEN Append(Instructions(t), l) ELSE Instructions(t)
    BY NextLine
  <1> QED
    BY <1>1, <1>2 DEF Same

\* A line that is no instruction and begins no section may be left out.
LEMMA QuietLine ==
    ASSUME NEW U, NEW s \in Seq(U), NEW l \in U, l \notin Solid \cup {"env"}
    PROVE  Same(Append(s, l), s)
  <1>1. /\ Noisy(Append(s, l)) <=> l = "env" \/ (Noisy(s) /\ l # "heading")
        /\ Instructions(Append(s, l)) = IF l \in Solid /\ ~(Noisy(s) /\ l # "heading")
                                        THEN Append(Instructions(s), l) ELSE Instructions(s)
    BY NextLine
  <1> QED
    BY <1>1 DEF Same, Solid

LEMMA QuietLeftOut ==
    ASSUME NEW U, NEW s \in Seq(U), NEW T, \A l \in U : l \in T \/ l \notin Solid \cup {"env"}
    PROVE  Same(Those(s, T), s)
  <1> DEFINE V == {q \in Seq(U) : Same(Those(q, T), q)}
  <1>1. <<>> \in V
    BY ThoseIs, EmptySeq DEF Same
  <1>2. ASSUME NEW q \in Seq(U), NEW l \in U, q \in V PROVE Append(q, l) \in V
    <2>1. Same(Those(q, T), q) /\ Append(q, l) \in Seq(U) /\ Those(q, T) \in Seq(U)
      BY <1>2, ThoseIs, AppendProperties
    <2>5. \A p \in Seq(U), x \in U :
             Those(Append(p, x), T) = IF x \in T THEN Append(Those(p, T), x) ELSE Those(p, T)
      BY ThoseIs
    <2>2. Those(Append(q, l), T) = IF l \in T THEN Append(Those(q, T), l) ELSE Those(q, T)
      BY <2>5
    <2>3. CASE l \in T
      <3>1. Same(Append(Those(q, T), l), Append(q, l))
        BY <2>1, SameLine
      <3> QED
        BY <2>1, <2>2, <2>3, <3>1
    <2>4. CASE l \notin T
      <3>1. Same(Append(q, l), q)
        BY <2>4, QuietLine
      <3>2. Same(Those(q, T), Append(q, l))
        BY <2>1, <3>1 DEF Same
      <3> QED
        BY <2>1, <2>2, <2>4, <3>2
    <2> QED
      BY <2>3, <2>4
  <1> HIDE DEF V
  <1>3. s \in V
    BY <1>1, <1>2, SeqInduct
  <1> QED
    BY <1>3 DEF V

-----------------------------------------------------------------------------
(* strip_env_noise: the walk.                                                *)

WalksOver(U) == [skip : BOOLEAN, out : Seq(U)]

LEMMA WalkStep ==
    ASSUME NEW U, NEW a \in WalksOver(U), NEW l \in U
    PROVE  /\ EnvLine(a, l) \in WalksOver(U)
           /\ (EnvLine(a, l).skip <=> l = "env" \/ (a.skip /\ l # "heading"))
           /\ EnvLine(a, l).out = IF l \in {"env", "noise", "identity"} \/ (a.skip /\ l # "heading")
                                  THEN a.out ELSE Append(a.out, l)
  <1>1. Append(a.out, l) \in Seq(U) /\ a.skip \in BOOLEAN /\ a.out \in Seq(U)
        /\ a = [skip |-> a.skip, out |-> a.out]
    BY AppendProperties DEF WalksOver
  <1>2. CASE l = "env"
    <2>1. EnvLine(a, l) = [skip |-> TRUE, out |-> a.out]
      BY <1>1, <1>2 DEF EnvLine
    <2>2. EnvLine(a, l) \in WalksOver(U) /\ EnvLine(a, l).skip /\ EnvLine(a, l).out = a.out
      BY <1>1, <2>1 DEF WalksOver
    <2> QED
      BY <1>2, <2>2
  <1>3. CASE l = "heading"
    <2>1. EnvLine(a, l) = [skip |-> FALSE, out |-> Append(a.out, l)]
      BY <1>3 DEF EnvLine
    <2>2. EnvLine(a, l) \in WalksOver(U) /\ ~EnvLine(a, l).skip /\ EnvLine(a, l).out = Append(a.out, l)
      BY <1>1, <2>1 DEF WalksOver
    <2> QED
      BY <1>3, <2>2
  <1>4. CASE l \notin {"env", "heading"} /\ (a.skip \/ l \in {"noise", "identity"})
    <2>1. EnvLine(a, l) = a
      BY <1>1, <1>4 DEF EnvLine
    <2> QED
      BY <1>1, <1>4, <2>1
  <1>5. CASE l \notin {"env", "heading"} /\ ~a.skip /\ l \notin {"noise", "identity"}
    <2>1. EnvLine(a, l) = [skip |-> a.skip, out |-> Append(a.out, l)]
      BY <1>1, <1>5 DEF EnvLine
    <2> QED
      BY <1>1, <1>5, <2>1 DEF WalksOver
  <1> QED
    BY <1>2, <1>3, <1>4, <1>5

Noises == {"env", "noise", "identity"}

LEMMA WalkKeeps ==
    ASSUME NEW U, NEW s \in Seq(U)
    PROVE  /\ Walked(s).out \in Seq(U \ Noises)
           /\ Instructions(Walked(s).out) = Instructions(s)
           /\ ~Noisy(Walked(s).out)
  <1> DEFINE W == U \ Noises
             Ok(q, w) == /\ w \in WalksOver(U) /\ w.out \in Seq(W) /\ (w.skip <=> Noisy(q))
                         /\ Instructions(w.out) = Instructions(q) /\ ~Noisy(w.out)
             V == {q \in Seq(U) : Ok(q, Walked(q))}
             start == [skip |-> FALSE, out |-> <<>>]
  <1>1. start \in WalksOver(U) /\ Ok(<<>>, start)
    BY EmptySeq, EmptyLines DEF WalksOver
  <1>2. \A a \in WalksOver(U), l \in U : EnvLine(a, l) \in WalksOver(U)
    BY WalkStep
  <1>3. Walked(<<>>) = start /\ \A q \in Seq(U), l \in U : Walked(Append(q, l)) = EnvLine(Walked(q), l)
    BY <1>1, <1>2, WalkIs
  <1>4. <<>> \in V
    BY <1>1, <1>3, EmptySeq
  <1>5. ASSUME NEW q \in Seq(U), NEW l \in U, q \in V PROVE Append(q, l) \in V
    <2> DEFINE w == Walked(q)
               x == EnvLine(w, l)
    <2>1. Ok(q, w)
      BY <1>5
    <2>2. Walked(Append(q, l)) = x
      BY <1>3
    <2> HIDE DEF w
    <2>3. /\ x \in WalksOver(U) /\ (x.skip <=> l = "env" \/ (w.skip /\ l # "heading"))
          /\ x.out = IF l \in Noises \/ (w.skip /\ l # "heading") THEN w.out ELSE Append(w.out, l)
      BY <2>1, WalkStep DEF Noises
    <2>4. /\ Noisy(Append(q, l)) <=> l = "env" \/ (Noisy(q) /\ l # "heading")
          /\ Instructions(Append(q, l)) = IF l \in Solid /\ ~(Noisy(q) /\ l # "heading")
                                          THEN Append(Instructions(q), l) ELSE Instructions(q)
      BY NextLine
    <2> HIDE DEF x
    <2>5. CASE l \in Noises \/ (w.skip /\ l # "heading")
      <3>1. x.out = w.out
        BY <2>3, <2>5
      <3>2. Instructions(Append(q, l)) = Instructions(q)
        BY <2>1, <2>4, <2>5 DEF Noises, Solid
      <3>3. Ok(Append(q, l), x)
        BY <2>1, <2>3, <2>4, <3>1, <3>2
      <3> QED
        BY <2>2, <3>3, AppendProperties
    <2>6. CASE ~(l \in Noises \/ (w.skip /\ l # "heading"))
      <3>1. x.out = Append(w.out, l) /\ l \in W
        BY <2>3, <2>6
      <3>2. x.out \in Seq(W)
        BY <2>1, <3>1, AppendProperties
      <3>3. /\ Noisy(Append(w.out, l)) <=> l = "env" \/ (Noisy(w.out) /\ l # "heading")
            /\ Instructions(Append(w.out, l)) = IF l \in Solid /\ ~(Noisy(w.out) /\ l # "heading")
                                                THEN Append(Instructions(w.out), l) ELSE Instructions(w.out)
        <4>1. w.out \in Seq(U)
          BY <2>1 DEF WalksOver
        <4> QED
          BY <4>1, NextLine
      <3>4. l # "env"
        BY <2>6 DEF Noises
      <3>5. Ok(Append(q, l), x)
        BY <2>1, <2>3, <2>4, <2>6, <3>1, <3>2, <3>3, <3>4
      <3> QED
        BY <2>2, <3>5, AppendProperties
    <2> QED
      BY <2>5, <2>6
  <1> HIDE DEF V
  <1>6. s \in V
    BY <1>4, <1>5, SeqInduct
  <1> QED
    BY <1>6 DEF V

\* Nothing is taken where there is no noise.
LEMMA WalkSame ==
    ASSUME NEW U, NEW s \in Seq(U), U \cap Noises = {}
    PROVE  Walked(s).out = s
  <1> DEFINE V == {q \in Seq(U) : Walked(q) = [skip |-> FALSE, out |-> q]}
             start == [skip |-> FALSE, out |-> <<>>]
  <1>1. start \in WalksOver(U)
    BY EmptySeq DEF WalksOver
  <1>2. \A a \in WalksOver(U), l \in U : EnvLine(a, l) \in WalksOver(U)
    BY WalkStep
  <1>3. Walked(<<>>) = start /\ \A q \in Seq(U), l \in U : Walked(Append(q, l)) = EnvLine(Walked(q), l)
    BY <1>1, <1>2, WalkIs
  <1>4. <<>> \in V
    BY <1>3, EmptySeq
  <1>5. ASSUME NEW q \in Seq(U), NEW l \in U, q \in V PROVE Append(q, l) \in V
    <2>1. Walked(Append(q, l)) = EnvLine([skip |-> FALSE, out |-> q], l)
      BY <1>3, <1>5
    <2>2. EnvLine([skip |-> FALSE, out |-> q], l) = [skip |-> FALSE, out |-> Append(q, l)]
      BY DEF EnvLine, Noises
    <2> QED
      BY <2>1, <2>2, AppendProperties
  <1> HIDE DEF V
  <1>6. s \in V
    BY <1>4, <1>5, SeqInduct
  <1> QED
    BY <1>6 DEF V

-----------------------------------------------------------------------------
(* collapse_blank_lines.                                                     *)

NoDoubles(s) == \A k \in 1 .. (Len(s) - 1) : ~(s[k] = "blank" /\ s[k + 1] = "blank")

LEMMA CollapseStep ==
    ASSUME NEW U, NEW q \in Seq(U), NEW l \in U
    PROVE  /\ Collapsed(q, l) \in Seq(U)
           /\ NoDoubles(q) => NoDoubles(Collapsed(q, l))
           /\ NoDoubles(Append(q, l)) => NoDoubles(q) /\ Collapsed(q, l) = Append(q, l)
           /\ Collapsed(q, l) \in {q, Append(q, l)}
           /\ Collapsed(q, l) = q => l = "blank"
  <1> DEFINE t == Append(q, l)
             n == Len(q)
  <1>1. /\ n \in Nat /\ t \in Seq(U) /\ Len(t) = n + 1 /\ \A i \in 1 .. n : t[i] = q[i]
        /\ t[n + 1] = l /\ (q # <<>> => n > 0 /\ Last(q) = q[n])
    BY AppendProperties, LenProperties, EmptySeq DEF Last
  <1>2. t # q
    BY <1>1
  <1>3. Collapsed(q, l) = IF l = "blank" /\ q # <<>> /\ Last(q) = "blank" THEN q ELSE t
    BY DEF Collapsed
  <1> HIDE DEF t, n
  <1>4. ASSUME NoDoubles(q), ~(l = "blank" /\ q # <<>> /\ Last(q) = "blank") PROVE NoDoubles(t)
    <2> SUFFICES ASSUME NEW k \in 1 .. (Len(t) - 1), t[k] = "blank", t[k + 1] = "blank" PROVE FALSE
      BY DEF NoDoubles
    <2>1. k \in 1 .. n
      BY <1>1
    <2>2. CASE k = n
      <3>1. q # <<>>
        <4>1. q = <<>> => n = 0
          BY DEF n
        <4> QED
          BY <2>1, <4>1
      <3> QED
        BY <1>1, <1>4, <2>1, <2>2, <3>1
    <2>3. CASE k # n
      <3>1. k + 1 \in 1 .. n /\ k \in 1 .. (n - 1)
        BY <1>1, <2>1, <2>3
      <3> QED
        BY <1>1, <1>4, <2>1, <3>1 DEF NoDoubles, n
    <2> QED
      BY <2>2, <2>3
  <1>5. ASSUME NoDoubles(t) PROVE NoDoubles(q) /\ ~(l = "blank" /\ q # <<>> /\ Last(q) = "blank")
    <2>1. ASSUME NEW k \in 1 .. (n - 1) PROVE ~(q[k] = "blank" /\ q[k + 1] = "blank")
      <3>1. k \in 1 .. n /\ k + 1 \in 1 .. n /\ k \in 1 .. (Len(t) - 1)
        BY <1>1
      <3> QED
        BY <1>1, <1>5, <3>1 DEF NoDoubles
    <2>2. NoDoubles(q)
      BY <2>1 DEF NoDoubles, n
    <2>3. ASSUME l = "blank", q # <<>>, Last(q) = "blank" PROVE FALSE
      <3>1. n \in 1 .. (Len(t) - 1) /\ n \in 1 .. n
        BY <1>1, <2>3
      <3> QED
        BY <1>1, <1>5, <2>3, <3>1 DEF NoDoubles
    <2> QED
      BY <2>2, <2>3
  <1> QED
    BY <1>1, <1>2, <1>3, <1>4, <1>5 DEF t

LEMMA CollapseKeeps ==
    ASSUME NEW U, NEW s \in Seq(U)
    PROVE  /\ CollapseBlank(s) \in Seq(U) /\ NoDoubles(CollapseBlank(s))
           /\ Same(CollapseBlank(s), s)
           /\ NoDoubles(s) => CollapseBlank(s) = s
  <1> DEFINE Ok(q, c) == /\ c \in Seq(U) /\ NoDoubles(c) /\ Same(c, q)
                         /\ NoDoubles(q) => c = q
             V == {q \in Seq(U) : Ok(q, CollapseBlank(q))}
  <1>1. <<>> \in Seq(U) /\ \A q \in Seq(U), l \in U : Collapsed(q, l) \in Seq(U)
    BY EmptySeq, CollapseStep
  <1>2. /\ CollapseBlank(<<>>) = <<>>
        /\ \A q \in Seq(U), l \in U : CollapseBlank(Append(q, l)) = Collapsed(CollapseBlank(q), l)
    BY <1>1, CollapseIs
  <1>3. <<>> \in V
    <2>1. NoDoubles(<<>>)
      BY DEF NoDoubles
    <2> QED
      BY <1>1, <1>2, <2>1 DEF Same
  <1>4. ASSUME NEW q \in Seq(U), NEW l \in U, q \in V PROVE Append(q, l) \in V
    <2> DEFINE c == CollapseBlank(q)
    <2>1. Ok(q, c) /\ CollapseBlank(Append(q, l)) = Collapsed(c, l) /\ Append(q, l) \in Seq(U)
      BY <1>2, <1>4, AppendProperties
    <2> HIDE DEF c
    <2>2. /\ Collapsed(c, l) \in Seq(U) /\ NoDoubles(Collapsed(c, l))
          /\ Collapsed(c, l) \in {c, Append(c, l)}
          /\ Collapsed(c, l) = c => l = "blank"
      BY <2>1, CollapseStep
    <2>3. NoDoubles(Append(q, l)) => NoDoubles(q) /\ Collapsed(q, l) = Append(q, l)
      BY CollapseStep
    <2>4. Same(Append(c, l), Append(q, l))
      BY <2>1, SameLine
    <2>5. l = "blank" => Same(Append(q, l), q)
      BY QuietLine DEF Solid
    <2>6. Same(Collapsed(c, l), Append(q, l))
      BY <2>1, <2>2, <2>4, <2>5 DEF Same
    <2>7. Ok(Append(q, l), Collapsed(c, l))
      BY <2>1, <2>2, <2>3, <2>6
    <2> QED
      BY <2>1, <2>7
  <1> HIDE DEF V
  <1>5. s \in V
    BY <1>3, <1>4, SeqInduct
  <1> QED
    BY <1>5 DEF V

Blanks(s) == \A i \in DOMAIN s : s[i] = "blank"

LEMMA BlanksSayNothing ==
    ASSUME NEW U, NEW s \in Seq(U), Blanks(s)
    PROVE  Same(s, <<>>)
  <1> DEFINE V == {q \in Seq(U) : Blanks(q) => Same(q, <<>>)}
  <1>1. <<>> \in V
    BY EmptySeq DEF Same
  <1>2. ASSUME NEW q \in Seq(U), NEW l \in U, q \in V PROVE Append(q, l) \in V
    <2>1. Append(q, l) \in Seq(U)
      BY AppendProperties
    <2>2. ASSUME Blanks(Append(q, l)) PROVE Same(Append(q, l), <<>>)
      <3>1. /\ Len(q) \in Nat /\ DOMAIN q = 1 .. Len(q) /\ DOMAIN Append(q, l) = 1 .. (Len(q) + 1)
            /\ \A i \in 1 .. Len(q) : Append(q, l)[i] = q[i]
            /\ Append(q, l)[Len(q) + 1] = l
        BY AppendProperties, LenProperties
      <3>2. l = "blank" /\ Blanks(q)
        BY <2>2, <3>1 DEF Blanks
      <3>3. Same(Append(q, l), q)
        BY <3>2, QuietLine DEF Solid
      <3> QED
        BY <1>2, <3>2, <3>3 DEF Same
    <2> QED
      BY <2>1, <2>2
  <1> HIDE DEF V
  <1>3. s \in V
    BY <1>1, <1>2, SeqInduct
  <1> QED
    BY <1>3 DEF V

\* What begins alike stays alike as the same lines follow.
LEMMA SameOnward ==
    ASSUME NEW U, NEW s \in Seq(U), NEW t \in Seq(U), NEW r \in Seq(U), Same(s, t)
    PROVE  Same(s \o r, t \o r)
  <1> DEFINE V == {q \in Seq(U) : Same(s \o q, t \o q)}
  <1>1. <<>> \in V
    BY EmptySeq, ConcatEmptySeq
  <1>2. ASSUME NEW q \in Seq(U), NEW l \in U, q \in V PROVE Append(q, l) \in V
    <2>1. s \o q \in Seq(U) /\ t \o q \in Seq(U) /\ Append(q, l) \in Seq(U)
      BY ConcatProperties, AppendProperties
    <2>2. s \o Append(q, l) = Append(s \o q, l) /\ t \o Append(q, l) = Append(t \o q, l)
      BY ConcatAppend
    <2>3. Same(s \o q, t \o q)
      BY <1>2
    <2>4. Same(Append(s \o q, l), Append(t \o q, l))
      BY <2>1, <2>3, SameLine
    <2> QED
      BY <2>1, <2>2, <2>4
  <1> HIDE DEF V
  <1>3. r \in V
    BY <1>1, <1>2, SeqInduct
  <1> QED
    BY <1>3 DEF V

\* Blank lines behind change nothing.
LEMMA BlanksBehind ==
    ASSUME NEW U, NEW s \in Seq(U), NEW r \in Seq(U), Blanks(r)
    PROVE  Same(s \o r, s)
  <1> DEFINE V == {q \in Seq(U) : Blanks(q) => Same(s \o q, s)}
  <1>1. <<>> \in V
    BY EmptySeq, ConcatEmptySeq DEF Same
  <1>2. ASSUME NEW q \in Seq(U), NEW l \in U, q \in V PROVE Append(q, l) \in V
    <2>1. Append(q, l) \in Seq(U) /\ s \o q \in Seq(U) /\ s \o Append(q, l) = Append(s \o q, l)
      BY AppendProperties, ConcatProperties, ConcatAppend
    <2>2. ASSUME Blanks(Append(q, l)) PROVE Same(Append(s \o q, l), s)
      <3>1. /\ Len(q) \in Nat /\ DOMAIN q = 1 .. Len(q) /\ DOMAIN Append(q, l) = 1 .. (Len(q) + 1)
            /\ \A i \in 1 .. Len(q) : Append(q, l)[i] = q[i]
            /\ Append(q, l)[Len(q) + 1] = l
        BY AppendProperties, LenProperties
      <3>2. l = "blank" /\ Blanks(q)
        BY <2>2, <3>1 DEF Blanks
      <3>3. Same(Append(s \o q, l), s \o q)
        BY <2>1, <3>2, QuietLine DEF Solid
      <3> QED
        BY <1>2, <3>2, <3>3 DEF Same
    <2> QED
      BY <2>1, <2>2
  <1> HIDE DEF V
  <1>3. r \in V
    BY <1>1, <1>2, SeqInduct
  <1> QED
    BY <1>3 DEF V

LEMMA PartOf ==
    ASSUME NEW U, NEW s \in Seq(U), NEW a \in 1 .. (Len(s) + 1), NEW b \in (a - 1) .. Len(s)
    PROVE  /\ SubSeq(s, a, b) \in Seq(U) /\ Len(SubSeq(s, a, b)) = (b - a) + 1
           /\ \A i \in 1 .. ((b - a) + 1) : SubSeq(s, a, b)[i] = s[(a + i) - 1]
  <1>1. Len(s) \in Nat /\ \A i \in 1 .. Len(s) : s[i] \in U
    BY LenProperties, ElementOfSeq
  <1>2. a \in Int /\ b \in Int /\ \A i \in a .. b : i \in 1 .. Len(s)
    BY <1>1
  <1>3. \A i \in a .. b : s[i] \in U
    BY <1>1, <1>2
  <1>4. /\ SubSeq(s, a, b) \in Seq(U) /\ Len(SubSeq(s, a, b)) = IF a <= b THEN b - a + 1 ELSE 0
        /\ \A i \in 1 .. b - a + 1 : SubSeq(s, a, b)[i] = s[a + i - 1]
    <2>1. SubSeq(s, a, b) \in Seq(U)
      BY <1>2, <1>3, SubSeqProperties
    <2>2. Len(SubSeq(s, a, b)) = IF a <= b THEN b - a + 1 ELSE 0
      BY <1>2, <1>3, SubSeqProperties
    <2>3. \A i \in 1 .. b - a + 1 : SubSeq(s, a, b)[i] = s[a + i - 1]
      BY <1>2, <1>3, SubSeqProperties
    <2> QED
      BY <2>1, <2>2, <2>3
  <1>5. (IF a <= b THEN b - a + 1 ELSE 0) = (b - a) + 1
    BY <1>1, <1>2
  <1> QED
    BY <1>4, <1>5

\* trim: what it is.
Trimmed(s) == s # <<>> => s[1] # "blank" /\ s[Len(s)] # "blank"

LEMMA TrimIs ==
    ASSUME NEW U, NEW s \in Seq(U)
    PROVE  \/ Blanks(s) /\ Trim(s) = <<>>
           \/ \E m, n \in 1 .. Len(s) :
                /\ m <= n /\ s[m] # "blank" /\ s[n] # "blank"
                /\ \A i \in 1 .. (m - 1) : s[i] = "blank"
                /\ \A i \in (n + 1) .. Len(s) : s[i] = "blank"
                /\ Trim(s) = SubSeq(s, m, n)
  <1> DEFINE solid == {i \in DOMAIN s : s[i] # "blank"}
  <1>1. Len(s) \in Nat /\ DOMAIN s = 1 .. Len(s)
    BY LenProperties
  <1>2. CASE solid = {}
    BY <1>2 DEF Blanks, Trim
  <1>3. CASE solid # {}
    <2> DEFINE m == CHOOSE i \in solid : \A j \in solid : i <= j
               n == CHOOSE i \in solid : \A j \in solid : i >= j
    <2>1. solid \in SUBSET (1 .. Len(s)) /\ solid \in SUBSET Nat
      BY <1>1
    <2>2. Trim(s) = SubSeq(s, m, n)
      BY <1>3 DEF Trim
    <2> HIDE DEF solid
    <2>3. \E i \in solid : \A j \in solid : i <= j
      BY <1>3, <2>1, LeastNumber, Zenon
    <2>4. m \in solid /\ \A j \in solid : m <= j
      BY <2>3
    <2>5. \E i \in solid : \A j \in solid : i >= j
      <3>1. Max(solid) \in solid /\ \A j \in solid : Max(solid) >= j
        BY <1>1, <1>3, <2>1, MaxUpTo
      <3> QED
        BY <3>1
    <2>6. n \in solid /\ \A j \in solid : n >= j
      BY <2>5
    <2> HIDE DEF m, n
    <2>7. m \in 1 .. Len(s) /\ n \in 1 .. Len(s) /\ m <= n /\ s[m] # "blank" /\ s[n] # "blank"
      BY <2>1, <2>4, <2>6 DEF solid
    <2>8. ASSUME NEW i \in 1 .. Len(s), i < m \/ n < i PROVE s[i] = "blank"
      <3>1. i \notin solid
        BY <2>4, <2>6, <2>7, <2>8
      <3> QED
        BY <1>1, <3>1 DEF solid
    <2>9. /\ \A i \in 1 .. (m - 1) : i \in 1 .. Len(s) /\ i < m
          /\ \A i \in (n + 1) .. Len(s) : i \in 1 .. Len(s) /\ n < i
      BY <1>1, <2>7
    <2> QED
      BY <2>2, <2>7, <2>8, <2>9
  <1> QED
    BY <1>2, <1>3

LEMMA TrimKeeps ==
    ASSUME NEW U, NEW s \in Seq(U)
    PROVE  /\ Trim(s) \in Seq(U) /\ Trimmed(Trim(s)) /\ Same(Trim(s), s)
           /\ NoDoubles(s) => NoDoubles(Trim(s))
  <1>1. Len(s) \in Nat /\ DOMAIN s = 1 .. Len(s)
    BY LenProperties
  <1>2. CASE Blanks(s) /\ Trim(s) = <<>>
    <2>1. Same(s, <<>>)
      BY <1>2, BlanksSayNothing
    <2> QED
      BY <1>2, <2>1, EmptySeq DEF Trimmed, Same, NoDoubles
  <1>3. ASSUME NEW m \in 1 .. Len(s), NEW n \in 1 .. Len(s),
               m <= n, s[m] # "blank", s[n] # "blank",
               \A i \in 1 .. (m - 1) : s[i] = "blank",
               \A i \in (n + 1) .. Len(s) : s[i] = "blank",
               Trim(s) = SubSeq(s, m, n)
        PROVE  /\ Trim(s) \in Seq(U) /\ Trimmed(Trim(s)) /\ Same(Trim(s), s)
               /\ NoDoubles(s) => NoDoubles(Trim(s))
    <2> DEFINE front == SubSeq(s, 1, m - 1)
               mid   == SubSeq(s, m, n)
               back  == SubSeq(s, n + 1, Len(s))
    <2>1. /\ front \in Seq(U) /\ Len(front) = m - 1 /\ \A i \in 1 .. (m - 1) : front[i] = s[i]
      <3>1. 1 \in 1 .. (Len(s) + 1) /\ m - 1 \in (1 - 1) .. Len(s) /\ ((m - 1) - 1) + 1 = m - 1
        BY <1>1
      <3>2. /\ front \in Seq(U) /\ Len(front) = ((m - 1) - 1) + 1
            /\ \A i \in 1 .. (((m - 1) - 1) + 1) : front[i] = s[(1 + i) - 1]
        BY <3>1, PartOf
      <3>3. \A i \in 1 .. (m - 1) : (1 + i) - 1 = i
        BY <1>1
      <3> QED
        BY <3>1, <3>2, <3>3
    <2>2. /\ mid \in Seq(U) /\ Len(mid) = (n - m) + 1 /\ \A i \in 1 .. ((n - m) + 1) : mid[i] = s[(m + i) - 1]
      <3>1. m \in 1 .. (Len(s) + 1) /\ n \in (m - 1) .. Len(s)
        BY <1>1, <1>3
      <3> QED
        BY <3>1, PartOf
    <2>3. /\ back \in Seq(U) /\ Len(back) = Len(s) - n /\ \A i \in 1 .. (Len(s) - n) : back[i] = s[n + i]
      <3>1. n + 1 \in 1 .. (Len(s) + 1) /\ Len(s) \in ((n + 1) - 1) .. Len(s) /\ (Len(s) - (n + 1)) + 1 = Len(s) - n
        BY <1>1
      <3>2. /\ back \in Seq(U) /\ Len(back) = (Len(s) - (n + 1)) + 1
            /\ \A i \in 1 .. ((Len(s) - (n + 1)) + 1) : back[i] = s[((n + 1) + i) - 1]
        BY <3>1, PartOf
      <3>3. \A i \in 1 .. (Len(s) - n) : ((n + 1) + i) - 1 = n + i
        BY <1>1
      <3> QED
        BY <3>1, <3>2, <3>3
    <2>4. s = (front \o mid) \o back
      <3>1. /\ 1 \in 1 .. (Len(s) + 1) /\ m - 1 \in (1 - 1) .. Len(s) /\ n \in (m - 1) .. Len(s) /\ (m - 1) + 1 = m
            /\ n \in (1 - 1) .. Len(s) /\ Len(s) \in n .. Len(s)
        BY <1>1, <1>3
      <3>2. SubSeq(s, 1, m - 1) \o SubSeq(s, (m - 1) + 1, n) = SubSeq(s, 1, n)
        BY <3>1, ConcatAdjacentSubSeq
      <3>3. SubSeq(s, 1, n) \o SubSeq(s, n + 1, Len(s)) = SubSeq(s, 1, Len(s))
        BY <3>1, ConcatAdjacentSubSeq
      <3>4. SubSeq(s, 1, Len(s)) = s
        BY SubSeqFull
      <3> QED
        BY <3>1, <3>2, <3>3, <3>4
    <2> HIDE DEF front, mid, back
    <2>5. Blanks(front) /\ Blanks(back)
      <3>1. DOMAIN front = 1 .. (m - 1) /\ DOMAIN back = 1 .. (Len(s) - n)
        BY <2>1, <2>3, LenProperties
      <3>2. \A i \in 1 .. (Len(s) - n) : n + i \in (n + 1) .. Len(s)
        BY <1>1
      <3> QED
        BY <1>3, <2>1, <2>3, <3>1, <3>2 DEF Blanks
    <2>6. Same(front \o mid, mid)
      <3>1. Same(front, <<>>) /\ <<>> \in Seq(U)
        BY <2>1, <2>5, BlanksSayNothing, EmptySeq
      <3>2. Same(front \o mid, <<>> \o mid)
        BY <2>1, <2>2, <3>1, SameOnward
      <3> QED
        BY <2>2, <3>2, ConcatEmptySeq
    <2>7. Same((front \o mid) \o back, front \o mid)
      <3>1. front \o mid \in Seq(U)
        BY <2>1, <2>2, ConcatProperties
      <3> QED
        BY <2>3, <2>5, <3>1, BlanksBehind
    <2>8. Same(mid, s)
      BY <2>4, <2>6, <2>7 DEF Same
    <2>9. Trimmed(mid)
      <3>1. 1 \in 1 .. ((n - m) + 1) /\ (m + 1) - 1 = m /\ Len(mid) \in 1 .. ((n - m) + 1)
            /\ (m + Len(mid)) - 1 = n
        BY <1>1, <1>3, <2>2
      <3> QED
        BY <1>3, <2>2, <3>1 DEF Trimmed
    <2>10. ASSUME NoDoubles(s) PROVE NoDoubles(mid)
      <3> SUFFICES ASSUME NEW k \in 1 .. (Len(mid) - 1), mid[k] = "blank", mid[k + 1] = "blank" PROVE FALSE
        BY DEF NoDoubles
      <3>1. /\ k \in 1 .. ((n - m) + 1) /\ k + 1 \in 1 .. ((n - m) + 1)
            /\ (m + k) - 1 \in 1 .. (Len(s) - 1) /\ (m + (k + 1)) - 1 = ((m + k) - 1) + 1
        BY <1>1, <2>2
      <3> QED
        BY <2>2, <2>10, <3>1 DEF NoDoubles
    <2> QED
      BY <1>3, <2>2, <2>8, <2>9, <2>10 DEF mid
  <1>4. \/ Blanks(s) /\ Trim(s) = <<>>
        \/ \E m, n \in 1 .. Len(s) :
             /\ m <= n /\ s[m] # "blank" /\ s[n] # "blank"
             /\ \A i \in 1 .. (m - 1) : s[i] = "blank"
             /\ \A i \in (n + 1) .. Len(s) : s[i] = "blank"
             /\ Trim(s) = SubSeq(s, m, n)
    BY TrimIs
  <1> QED
    BY <1>2, <1>3, <1>4

\* What is trimmed stays.
LEMMA TrimSame ==
    ASSUME NEW U, NEW s \in Seq(U), Trimmed(s)
    PROVE  Trim(s) = s
  <1>1. Len(s) \in Nat /\ DOMAIN s = 1 .. Len(s)
    BY LenProperties
  <1>2. CASE s = <<>>
    <2>1. {i \in DOMAIN s : s[i] # "blank"} = {}
      BY <1>2
    <2> QED
      BY <1>2, <2>1 DEF Trim
  <1>3. CASE s # <<>>
    <2>1. Len(s) > 0
      BY <1>1, <1>3, EmptySeq
    <2>2. 1 \in DOMAIN s /\ s[1] # "blank" /\ s[Len(s)] # "blank"
      BY <1>1, <1>3, <2>1 DEF Trimmed
    <2>3. ~Blanks(s)
      BY <2>2 DEF Blanks
    <2>4. PICK m, n \in 1 .. Len(s) :
             /\ m <= n /\ s[m] # "blank" /\ s[n] # "blank"
             /\ \A i \in 1 .. (m - 1) : s[i] = "blank"
             /\ \A i \in (n + 1) .. Len(s) : s[i] = "blank"
             /\ Trim(s) = SubSeq(s, m, n)
      BY <2>3, TrimIs
    <2>6. m = 1
      <3>1. m # 1 => 1 \in 1 .. (m - 1)
        BY <1>1
      <3> QED
        BY <2>2, <2>4, <3>1
    <2>7. n = Len(s)
      <3> DEFINE e == Len(s)
      <3>0. n \in 1 .. e /\ e \in Nat
        BY <1>1
      <3> HIDE DEF e
      <3>2. n # e => e \in (n + 1) .. e
        BY <3>0
      <3>1. n # Len(s) => Len(s) \in (n + 1) .. Len(s)
        BY <3>2 DEF e
      <3> QED
        BY <2>2, <2>4, <3>1
    <2>5. m = 1 /\ n = Len(s)
      BY <2>6, <2>7
    <2> QED
      BY <2>4, <2>5, SubSeqFull
  <1> QED
    BY <1>2, <1>3

LineKinds == {"text", "heading", "env", "noise", "blank", "boundary"}

LEMMA NotClaudeCode ==
    ASSUME NEW s, ToSet(s) \in SUBSET LineKinds
    PROVE  ~IsClaudeCode(s)
  <1>1. DOMAIN Markers = {"identity", "marker"}
    BY DEF Markers
  <1>2. ToSet(s) \cap DOMAIN Markers = {}
    BY <1>1 DEF LineKinds
  <1>3. UNION {Markers[l] : l \in ToSet(s) \cap DOMAIN Markers} = {}
    BY <1>2
  <1>4. Cardinality({}) = 0
    BY FS_EmptySet
  <1> QED
    BY <1>3, <1>4 DEF IsClaudeCode

\* One block through the filter.
Stripped(s, flags) == IF flags.boundary THEN StripBoundary(s) ELSE s
Filtered(s, flags) == IF flags.env THEN StripEnvNoise(Stripped(s, flags)) ELSE Stripped(s, flags)

\* What a filtered block is like.
Clean(s, flags) ==
    /\ flags.boundary => s \in Seq(LineKinds \ {"boundary"})
    /\ flags.env => s \in Seq(LineKinds \ {"env", "noise"}) /\ NoDoubles(s)
    /\ flags.boundary \/ flags.env => Trimmed(s)

LEMMA StripKeeps ==
    ASSUME NEW s \in Seq(LineKinds)
    PROVE  /\ StripBoundary(s) \in Seq(LineKinds \ {"boundary"}) /\ Trimmed(StripBoundary(s))
           /\ Same(StripBoundary(s), s)
           /\ s \in Seq(LineKinds \ {"boundary"}) /\ Trimmed(s) => StripBoundary(s) = s
  <1> DEFINE K == LineKinds
             W == LineKinds \ {"boundary"}
             q == Those(s, W)
  <1>1. Those(s, ToSet(s) \ {"boundary"}) = q
    <2>1. ToSet(s) \in SUBSET K
      BY SeqIsList
    <2>2. ToSet(s) \cap (ToSet(s) \ {"boundary"}) = ToSet(s) \cap W
      BY <2>1
    <2> QED
      BY <2>2, ThoseSame
  <1>2. StripBoundary(s) = Trim(q)
    BY <1>1 DEF StripBoundary
  <1>3. q \in Seq(K) /\ ToSet(q) = ToSet(s) \cap W
    BY ThoseIs, ThoseRange
  <1>4. q \in Seq(W)
    <2>1. IsList(q)
      BY <1>3, SeqIsList
    <2>2. q \in Seq(ToSet(q)) /\ ToSet(q) \in SUBSET W
      BY <1>3, <2>1 DEF IsList
    <2> QED
      BY <2>2, SeqMonotonic
  <1>5. Same(q, s)
    <2>1. \A l \in K : l \in W \/ l \notin Solid \cup {"env"}
      BY DEF Solid
    <2> QED
      BY <2>1, QuietLeftOut
  <1>6. s \in Seq(W) => q = s
    BY ThoseAll
  <1> HIDE DEF q, W
  <1>7. Trim(q) \in Seq(W) /\ Trimmed(Trim(q)) /\ Same(Trim(q), q)
    BY <1>4, TrimKeeps
  <1>8. s \in Seq(W) /\ Trimmed(s) => Trim(q) = s
    BY <1>6, TrimSame
  <1> QED
    BY <1>2, <1>5, <1>7, <1>8 DEF Same, W

LEMMA StripNoiseKeeps ==
    ASSUME NEW U, NEW s \in Seq(U)
    PROVE  /\ StripEnvNoise(s) \in Seq(U \ Noises) /\ NoDoubles(StripEnvNoise(s)) /\ Trimmed(StripEnvNoise(s))
           /\ Instructions(StripEnvNoise(s)) = Instructions(s)
           /\ s \in Seq(U \ Noises) /\ NoDoubles(s) /\ Trimmed(s) => StripEnvNoise(s) = s
  <1> DEFINE W == U \ Noises
             w == Walked(s).out
             c == CollapseBlank(w)
  <1>1. StripEnvNoise(s) = Trim(c)
    BY DEF StripEnvNoise, Walked
  <1>2. w \in Seq(W) /\ Instructions(w) = Instructions(s)
    BY WalkKeeps
  <1>3. s \in Seq(W) => w = s
    BY WalkSame
  <1> HIDE DEF w, W
  <1>4. c \in Seq(W) /\ NoDoubles(c) /\ Same(c, w) /\ (NoDoubles(w) => c = w)
    BY <1>2, CollapseKeeps
  <1> HIDE DEF c
  <1>5. Trim(c) \in Seq(W) /\ Trimmed(Trim(c)) /\ Same(Trim(c), c) /\ NoDoubles(Trim(c))
    BY <1>4, TrimKeeps
  <1>6. s \in Seq(W) /\ Trimmed(s) => Trim(s) = s
    BY TrimSame
  <1> QED
    BY <1>1, <1>2, <1>3, <1>4, <1>5, <1>6 DEF Same, W

LEMMA FilteredIs ==
    ASSUME NEW s \in Seq(LineKinds), NEW flags
    PROVE  /\ Filtered(s, flags) \in Seq(LineKinds)
           /\ Instructions(Filtered(s, flags)) = Instructions(s)
           /\ Clean(Filtered(s, flags), flags)
           /\ Clean(s, flags) => Filtered(s, flags) = s
  <1> DEFINE K == LineKinds
             B == K \ {"boundary"}
             q == Stripped(s, flags)
  <1>1. B \in SUBSET K /\ Seq(B) \in SUBSET Seq(K)
    BY SeqMonotonic
  <1>2. /\ q \in Seq(K) /\ Instructions(q) = Instructions(s)
        /\ flags.boundary => q \in Seq(B) /\ Trimmed(q)
        /\ Clean(s, flags) => q = s
    BY <1>1, StripKeeps DEF Stripped, Same, Clean
  <1> HIDE DEF q
  <1>3. CASE ~flags.env
    <2>1. Filtered(s, flags) = q
      BY <1>3 DEF Filtered, q
    <2> QED
      BY <1>2, <1>3, <2>1 DEF Clean
  <1>4. CASE flags.env
    <2> DEFINE r == StripEnvNoise(q)
    <2>1. Filtered(s, flags) = r
      BY <1>4 DEF Filtered, q
    <2>2. /\ r \in Seq(K \ Noises) /\ NoDoubles(r) /\ Trimmed(r) /\ Instructions(r) = Instructions(q)
          /\ q \in Seq(K \ Noises) /\ NoDoubles(q) /\ Trimmed(q) => r = q
      BY <1>2, StripNoiseKeeps
    <2>3. flags.boundary => r \in Seq(B \ Noises)
      BY <1>2, StripNoiseKeeps
    <2> HIDE DEF r
    <2>4. /\ K \ Noises = K \ {"env", "noise"}
          /\ Seq(K \ Noises) \in SUBSET Seq(K) /\ Seq(B \ Noises) \in SUBSET Seq(B)
      BY SeqMonotonic DEF LineKinds, Noises
    <2>5. Clean(r, flags)
      BY <1>4, <2>2, <2>3, <2>4 DEF Clean
    <2>6. Clean(s, flags) => r = s
      BY <1>2, <1>4, <2>2, <2>4 DEF Clean
    <2> QED
      BY <1>2, <2>1, <2>2, <2>4, <2>5, <2>6
  <1> QED
    BY <1>3, <1>4

LEMMA OneBlock ==
    ASSUME NEW s \in Seq(LineKinds), NEW flags, flags.simplify
    PROVE  /\ FilterPrompt(<<s>>, flags) = IF Trim(Filtered(s, flags)) # <<>>
                                           THEN <<Filtered(s, flags)>> ELSE <<>>
           /\ FilterPrompt(<<>>, flags) = <<>>
           /\ FlattenSeq(<<s>>) = s
  <1> DEFINE f == Filtered(s, flags)
             one(lines) == LET stripped == IF flags.boundary THEN StripBoundary(lines) ELSE lines
                           IN  IF flags.env THEN StripEnvNoise(stripped) ELSE stripped
  <1>1. FlattenSeq(<<s>>) = s /\ FlattenSeq(<<>>) = <<>>
    <2>1. <<>> \in Seq(Seq(LineKinds)) /\ Append(<<>>, s) = <<s>>
      BY EmptySeq
    <2>2. FlattenSeq(<<>>) = <<>> /\ FlattenSeq(Append(<<>>, s)) = FlattenSeq(<<>>) \o s
      BY <2>1, FlattenIs
    <2> QED
      BY <2>1, <2>2, ConcatEmptySeq
  <1>2. ~IsClaudeCode(s) /\ ~IsClaudeCode(<<>>)
    BY NotClaudeCode, SeqIsList, EmptySeq
  <1>3. one(s) = f
    BY DEF Filtered, Stripped
  <1>4. [i \in DOMAIN <<s>> |-> one(<<s>>[i])] = <<f>>
    <2>1. DOMAIN <<s>> = {1} /\ <<s>>[1] = s
      OBVIOUS
    <2> HIDE DEF one, f
    <2>2. [i \in {1} |-> f] = <<f>>
      OBVIOUS
    <2>3. [i \in DOMAIN <<s>> |-> one(<<s>>[i])] = [i \in {1} |-> f]
      BY <1>3, <2>1
    <2> QED
      BY <2>2, <2>3
  <1>5. [i \in DOMAIN <<>> |-> one(<<>>[i])] = <<>>
    OBVIOUS
  <1>6. ToSet(<<f>>) = {f}
    <2>1. DOMAIN <<f>> = {1} /\ <<f>>[1] = f
      OBVIOUS
    <2> HIDE DEF f
    <2> QED
      BY <2>1 DEF ToSet
  <1>7. FilterPrompt(<<s>>, flags) = Those(<<f>>, {b \in ToSet(<<f>>) : Trim(b) # <<>>})
    BY <1>1, <1>2, <1>4 DEF FilterPrompt
  <1>8. FilterPrompt(<<>>, flags) = Those(<<>>, {b \in ToSet(<<>>) : Trim(b) # <<>>})
    BY <1>1, <1>2, <1>5 DEF FilterPrompt
  <1> HIDE DEF f, one
  <1>9. /\ Those(<<f>>, {b \in ToSet(<<f>>) : Trim(b) # <<>>})
             = IF f \in {b \in ToSet(<<f>>) : Trim(b) # <<>>} THEN <<f>> ELSE <<>>
        /\ Those(<<>>, {b \in ToSet(<<>>) : Trim(b) # <<>>}) = <<>>
    BY ThoseOne, ThoseIs
  <1> QED
    BY <1>1, <1>6, <1>7, <1>8, <1>9 DEF f

(* Whatever the lines of a prompt, filtering it takes nothing but noise, and *)
(* filtering it again changes nothing.                                       *)
THEOREM FilterTakesOnlyNoise ==
    \A lines \in Seq(LineKinds), boundary, env \in BOOLEAN :
        FilterKeeps(lines, [simplify |-> TRUE, boundary |-> boundary, env |-> env])
  <1> TAKE s \in Seq(LineKinds), boundary, env \in BOOLEAN
  <1> DEFINE flags == [simplify |-> TRUE, boundary |-> boundary, env |-> env]
             f == Filtered(s, flags)
             out == FilterPrompt(<<s>>, flags)
  <1>1. flags.simplify /\ flags.env = env
    OBVIOUS
  <1> HIDE DEF flags
  <1>2. f \in Seq(LineKinds) /\ Instructions(f) = Instructions(s) /\ Clean(f, flags)
    BY FilteredIs
  <1>3. out = IF Trim(f) # <<>> THEN <<f>> ELSE <<>>
    BY <1>1, OneBlock
  <1> HIDE DEF f
  <1>4. FlattenSeq(<<f>>) = f /\ FilterPrompt(<<>>, flags) = <<>>
    BY <1>1, <1>2, OneBlock
  <1>5. Filtered(f, flags) = f
    BY <1>2, FilteredIs
  <1>6. FilterPrompt(<<f>>, flags) = IF Trim(f) # <<>> THEN <<f>> ELSE <<>>
    BY <1>1, <1>2, <1>5, OneBlock
  <1>7. FlattenSeq(<<>>) = <<>> /\ ToSet(<<>>) = {} /\ Instructions(<<>>) = <<>>
    BY FlattenIs, EmptyLines DEF ToSet
  <1>8. Trim(f) = <<>> => Instructions(f) = <<>>
    BY <1>2, <1>7, TrimKeeps DEF Same
  <1>9. flags.env => ToSet(f) \cap {"env", "noise"} = {}
    <2>1. flags.env => f \in Seq(LineKinds \ {"env", "noise"})
      BY <1>2 DEF Clean
    <2>2. flags.env => ToSet(f) \in SUBSET (LineKinds \ {"env", "noise"})
      BY <2>1, SeqIsList
    <2> QED
      BY <2>2
  <1> HIDE DEF out
  <1>10. CASE Trim(f) # <<>>
    <2>1. out = <<f>> /\ FlattenSeq(out) = f /\ FilterPrompt(out, flags) = out
      BY <1>3, <1>4, <1>6, <1>10
    <2> QED
      BY <1>2, <1>9, <2>1 DEF FilterKeeps, out, flags
  <1>11. CASE Trim(f) = <<>>
    <2>1. out = <<>> /\ FlattenSeq(out) = <<>> /\ FilterPrompt(out, flags) = out
      BY <1>3, <1>4, <1>7, <1>11
    <2> QED
      BY <1>2, <1>7, <1>8, <1>11, <2>1 DEF FilterKeeps, out, flags
  <1> QED
    BY <1>10, <1>11

(* Nothing but noise is taken from a system prompt.                          *)
THEOREM FilterAlwaysKeepsInstructions == ConvSpec => []FilterKeepsInstructions
  <1>1. FilterKeepsInstructions
    <2> SUFFICES ASSUME NEW n \in 0 .. 4, NEW lines \in [1 .. n -> LineKinds],
                        NEW boundary \in BOOLEAN, NEW env \in BOOLEAN
                 PROVE  FilterKeeps(lines, [simplify |-> TRUE, boundary |-> boundary, env |-> env])
      BY DEF FilterKeepsInstructions, LineKinds
    <2>1. n \in Nat /\ lines = [k \in 1 .. n |-> lines[k]] /\ DOMAIN lines = 1 .. n
          /\ \A k \in DOMAIN lines : lines[k] \in LineKinds
      OBVIOUS
    <2>2. IsList(lines)
      BY <2>1, MapList
    <2>3. lines \in Seq(LineKinds)
      BY <2>1, <2>2, ListIn
    <2> QED
      BY <2>3, FilterTakesOnlyNoise
  <1> QED
    BY <1>1, PTL

-----------------------------------------------------------------------------
(* Tools.  An argument of a call has two names, the client's and Kiro's:      *)
(* KeyPairs.  The rules of the way in move a value from the one to the other *)
(* (RulesMove, PairsIn), those of the way out move it back (OutPairs), and   *)
(* no two arguments meet in one name (PairsAre).                             *)

LEMMA OverIs ==
    ASSUME NEW f, NEW g
    PROVE  /\ DOMAIN Over(f, g) = DOMAIN f \cup DOMAIN g
           /\ \A k \in DOMAIN f : Over(f, g)[k] = f[k]
           /\ \A k \in DOMAIN g \ DOMAIN f : Over(f, g)[k] = g[k]
           /\ Over(f, g) = [k \in DOMAIN Over(f, g) |-> Over(f, g)[k]]
  BY DEF Over

LEMMA OnlyIs ==
    ASSUME NEW k, NEW there, NEW v
    PROVE  /\ DOMAIN Only(k, there, v) = IF there THEN {k} ELSE {}
           /\ there => Only(k, there, v)[k] = v
  BY DEF Only

\* A rule that has a value to write.
Hit(obj, keys) == (\E i \in DOMAIN keys : keys[i] \in DOMAIN obj) /\ FirstKey(obj, keys) # Null

LEMMA RenameIs ==
    ASSUME NEW obj, NEW rules, \A i, j \in DOMAIN rules : rules[i][1] = rules[j][1] => rules[i] = rules[j]
    PROVE  /\ DOMAIN Rename(obj, rules) = {rules[i][1] : i \in {j \in DOMAIN rules : Hit(obj, rules[j][2])}}
           /\ \A i \in DOMAIN rules : Hit(obj, rules[i][2]) =>
                 Rename(obj, rules)[rules[i][1]] = FirstKey(obj, rules[i][2])
           /\ Rename(obj, rules) = [k \in DOMAIN Rename(obj, rules) |-> Rename(obj, rules)[k]]
  <1> DEFINE R == {rules[i] : i \in DOMAIN rules}
             hit == {r \in R : /\ \E i \in DOMAIN r[2] : r[2][i] \in DOMAIN obj
                               /\ FirstKey(obj, r[2]) # Null}
  <1>1. Rename(obj, rules) = [k \in {r[1] : r \in hit} |-> FirstKey(obj, (CHOOSE r \in hit : r[1] = k)[2])]
    BY DEF Rename
  <1>2. \A r \in R : r \in hit <=> Hit(obj, r[2])
    BY DEF Hit
  <1>3. \A r, s \in hit : r[1] = s[1] => r = s
    OBVIOUS
  <1>4. \A r \in hit : (CHOOSE s \in hit : s[1] = r[1]) = r
    BY <1>3
  <1> HIDE DEF hit
  <1>5. \A r \in hit : Rename(obj, rules)[r[1]] = FirstKey(obj, r[2])
    BY <1>1, <1>4
  <1>6. \A i \in DOMAIN rules : rules[i] \in R
    OBVIOUS
  <1>7. {r[1] : r \in hit} = {rules[i][1] : i \in {j \in DOMAIN rules : Hit(obj, rules[j][2])}}
    BY <1>2 DEF hit
  <1> QED
    BY <1>1, <1>2, <1>5, <1>6, <1>7

LEMMA FirstOfOne ==
    ASSUME NEW obj, NEW a
    PROVE  /\ a \in DOMAIN obj => FirstKey(obj, <<a>>) = obj[a]
           /\ Hit(obj, <<a>>) <=> a \in DOMAIN obj /\ obj[a] # Null
  <1>1. DOMAIN <<a>> = {1} /\ <<a>>[1] = a
    OBVIOUS
  <1>2. a \in DOMAIN obj => FirstKey(obj, <<a>>) = obj[a]
    BY <1>1 DEF FirstKey
  <1> QED
    BY <1>1, <1>2 DEF Hit

LEMMA FirstOfTwo ==
    ASSUME NEW obj, NEW a, NEW b
    PROVE  /\ a \in DOMAIN obj => FirstKey(obj, <<a, b>>) = obj[a]
           /\ a \notin DOMAIN obj /\ b \in DOMAIN obj => FirstKey(obj, <<a, b>>) = obj[b]
           /\ Hit(obj, <<a, b>>) <=> \/ a \in DOMAIN obj /\ obj[a] # Null
                                     \/ a \notin DOMAIN obj /\ b \in DOMAIN obj /\ obj[b] # Null
  <1> DEFINE keys == <<a, b>>
             good(i) == keys[i] \in DOMAIN obj /\ \A j \in 1 .. (i - 1) : keys[j] \notin DOMAIN obj
  <1>1. DOMAIN keys = {1, 2} /\ keys[1] = a /\ keys[2] = b
    OBVIOUS
  <1>2. FirstKey(obj, keys) = obj[keys[CHOOSE i \in DOMAIN keys : good(i)]]
    BY DEF FirstKey
  <1>3. good(1) <=> a \in DOMAIN obj
    BY <1>1
  <1>4. good(2) <=> b \in DOMAIN obj /\ a \notin DOMAIN obj
    <2>1. 1 .. (2 - 1) = {1}
      OBVIOUS
    <2> QED
      BY <1>1, <2>1
  <1> HIDE DEF keys, good
  <1>5. a \in DOMAIN obj => FirstKey(obj, keys) = obj[a]
    <2>1. a \in DOMAIN obj => (CHOOSE i \in DOMAIN keys : good(i)) = 1
      BY <1>1, <1>3, <1>4
    <2> QED
      BY <1>1, <1>2, <2>1
  <1>6. a \notin DOMAIN obj /\ b \in DOMAIN obj => FirstKey(obj, keys) = obj[b]
    <2>1. a \notin DOMAIN obj /\ b \in DOMAIN obj => (CHOOSE i \in DOMAIN keys : good(i)) = 2
      BY <1>1, <1>3, <1>4
    <2> QED
      BY <1>1, <1>2, <2>1
  <1>7. (\E i \in DOMAIN keys : keys[i] \in DOMAIN obj) <=> a \in DOMAIN obj \/ b \in DOMAIN obj
    BY <1>1
  <1> QED
    BY <1>5, <1>6, <1>7 DEF Hit, keys

\* What a call of a tool with a schema is.
IsModelCall(t, call) ==
    /\ Required[t] \subseteq DOMAIN call
    /\ DOMAIN call \subseteq Required[t] \cup Optional[t]
    /\ \A k \in DOMAIN call : call[k] \in Int \cup {Null}
    /\ \A k \in Required[t] : call[k] # Null
    /\ call = [k \in DOMAIN call |-> call[k]]

LEMMA CallsAre ==
    ASSUME NEW t, NEW V \in SUBSET Int, V # {}, NEW call \in ModelCalls(t, V),
           Required[t] \cap Optional[t] = {}
    PROVE  IsModelCall(t, call)
  <1> DEFINE g == [k \in Required[t] |-> CHOOSE v \in V : TRUE]
  <1>0. PICK o \in SUBSET Optional[t] : \E f \in [o -> V \cup {Null}] : call = Over(f, g)
    BY DEF ModelCalls
  <1>1. PICK f \in [o -> V \cup {Null}] : call = Over(f, g)
    BY <1>0
  <1>2. DOMAIN g = Required[t] /\ \A k \in Required[t] : g[k] \in V
    OBVIOUS
  <1>3. DOMAIN f = o /\ \A k \in o : f[k] \in V \cup {Null}
    OBVIOUS
  <1> HIDE DEF g
  <1>4. /\ DOMAIN call = o \cup Required[t]
        /\ \A k \in o : call[k] = f[k]
        /\ \A k \in Required[t] : call[k] = g[k]
        /\ call = [k \in DOMAIN call |-> call[k]]
    <2>1. DOMAIN Over(f, g) = DOMAIN f \cup DOMAIN g
      BY DEF Over
    <2>3. \A k \in DOMAIN f : Over(f, g)[k] = f[k]
      BY DEF Over
    <2>4. \A k \in DOMAIN g \ DOMAIN f : Over(f, g)[k] = g[k]
      BY DEF Over
    <2>5. Over(f, g) = [k \in DOMAIN Over(f, g) |-> Over(f, g)[k]]
      BY DEF Over
    <2>2. \A k \in Required[t] : k \notin o
      OBVIOUS
    <2> QED
      BY <1>1, <1>2, <1>3, <2>1, <2>2, <2>3, <2>4, <2>5
  <1> QED
    BY <1>2, <1>3, <1>4, NullAssumption DEF IsModelCall

\* The keys of a call that have a counterpart at the client, with it.
KeyPairs ==
    [fs_write |-> {<<"path", "file_path">>, <<"text", "content">>},
     str_replace |-> {<<"path", "file_path">>, <<"oldStr", "old_string">>, <<"newStr", "new_string">>},
     execute_bash |-> {<<"command", "command">>, <<"timeout", "timeout">>},
     read_file |-> {<<"path", "file_path">>},
     file_search |-> {<<"query", "pattern">>},
     grep_search |-> {<<"query", "pattern">>, <<"includePattern", "glob">>, <<"caseSensitive", "case_sensitive">>},
     list_directory |-> {<<"path", "path">>},
     web_search |-> {<<"query", "query">>}]

\* r is what obj has under the first key of the pairs, under the second one.
Moves(obj, r, pairs) ==
    /\ DOMAIN r = {p[2] : p \in {q \in pairs : HasNumber(obj, q[1])}}
    /\ \A p \in pairs : HasNumber(obj, p[1]) => r[p[2]] = obj[p[1]]
    /\ r = [k \in DOMAIN r |-> r[k]]

LEMMA RulesMove ==
    ASSUME NEW obj, NEW rules, NEW pairs,
           \A i, j \in DOMAIN rules : rules[i][1] = rules[j][1] => rules[i] = rules[j],
           \A i \in DOMAIN rules : Hit(obj, rules[i][2]) =>
              \E p \in pairs : p[2] = rules[i][1] /\ HasNumber(obj, p[1]),
           \A p \in pairs : HasNumber(obj, p[1]) =>
              \E i \in DOMAIN rules : /\ p[2] = rules[i][1] /\ Hit(obj, rules[i][2])
                                       /\ FirstKey(obj, rules[i][2]) = obj[p[1]]
    PROVE  Moves(obj, Rename(obj, rules), pairs)
  <1> DEFINE r == Rename(obj, rules)
  <1>1. /\ DOMAIN r = {rules[i][1] : i \in {j \in DOMAIN rules : Hit(obj, rules[j][2])}}
        /\ \A i \in DOMAIN rules : Hit(obj, rules[i][2]) => r[rules[i][1]] = FirstKey(obj, rules[i][2])
        /\ r = [k \in DOMAIN r |-> r[k]]
    BY RenameIs
  <1> HIDE DEF r
  <1>2. DOMAIN r = {p[2] : p \in {q \in pairs : HasNumber(obj, q[1])}}
    BY <1>1
  <1>3. \A p \in pairs : HasNumber(obj, p[1]) => r[p[2]] = obj[p[1]]
    BY <1>1
  <1> QED
    BY <1>1, <1>2, <1>3 DEF Moves, r

LEMMA PairsIn ==
    ASSUME NEW t \in DOMAIN Required, NEW obj, DOMAIN obj \subseteq Required[t] \cup Optional[t]
    PROVE  Moves(obj, Rename(obj, Inbound[t]), KeyPairs[t])
  <1>1. CASE t = "fs_write"
    <2> DEFINE rules == Inbound["fs_write"]
    <2>1. rules = <<<<"file_path", <<"path", "file_path">>>>, <<"content", <<"text", "content">>>>>>
      BY DEF Inbound
    <2>2. /\ DOMAIN rules = {1, 2}
          /\ rules[1][1] = "file_path" /\ rules[1][2] = <<"path", "file_path">>
          /\ rules[2][1] = "content" /\ rules[2][2] = <<"text", "content">>
      BY <2>1
    <2> HIDE DEF rules
    <2>3. \A i, j \in DOMAIN rules : rules[i][1] = rules[j][1] => rules[i] = rules[j]
      BY <2>2
    <2>5. DOMAIN obj \cap {"content", "file_path"} = {}
      BY <1>1 DEF Required, Optional
    <2>4. /\ Hit(obj, <<"path", "file_path">>) <=> HasNumber(obj, "path")
          /\ HasNumber(obj, "path") => FirstKey(obj, <<"path", "file_path">>) = obj["path"]
          /\ Hit(obj, <<"text", "content">>) <=> HasNumber(obj, "text")
          /\ HasNumber(obj, "text") => FirstKey(obj, <<"text", "content">>) = obj["text"]
      BY <2>5, FirstOfOne, FirstOfTwo DEF HasNumber
    <2>6. KeyPairs[t] = {<<"path", "file_path">>, <<"text", "content">>} /\ Inbound[t] = rules
      BY <1>1 DEF KeyPairs, rules
    <2> QED
      BY <2>2, <2>3, <2>4, <2>6, RulesMove
  <1>2. CASE t = "str_replace"
    <2> DEFINE rules == Inbound["str_replace"]
    <2>1. rules = <<<<"file_path", <<"path", "file_path">>>>, <<"old_string", <<"oldStr", "old_string">>>>, <<"new_string", <<"newStr", "new_string">>>>>>
      BY DEF Inbound
    <2>2. /\ DOMAIN rules = {1, 2, 3}
          /\ rules[1][1] = "file_path" /\ rules[1][2] = <<"path", "file_path">>
          /\ rules[2][1] = "old_string" /\ rules[2][2] = <<"oldStr", "old_string">>
          /\ rules[3][1] = "new_string" /\ rules[3][2] = <<"newStr", "new_string">>
      BY <2>1
    <2> HIDE DEF rules
    <2>3. \A i, j \in DOMAIN rules : rules[i][1] = rules[j][1] => rules[i] = rules[j]
      BY <2>2
    <2>5. DOMAIN obj \cap {"file_path", "new_string", "old_string"} = {}
      BY <1>2 DEF Required, Optional
    <2>4. /\ Hit(obj, <<"path", "file_path">>) <=> HasNumber(obj, "path")
          /\ HasNumber(obj, "path") => FirstKey(obj, <<"path", "file_path">>) = obj["path"]
          /\ Hit(obj, <<"oldStr", "old_string">>) <=> HasNumber(obj, "oldStr")
          /\ HasNumber(obj, "oldStr") => FirstKey(obj, <<"oldStr", "old_string">>) = obj["oldStr"]
          /\ Hit(obj, <<"newStr", "new_string">>) <=> HasNumber(obj, "newStr")
          /\ HasNumber(obj, "newStr") => FirstKey(obj, <<"newStr", "new_string">>) = obj["newStr"]
      BY <2>5, FirstOfOne, FirstOfTwo DEF HasNumber
    <2>6. KeyPairs[t] = {<<"path", "file_path">>, <<"oldStr", "old_string">>, <<"newStr", "new_string">>} /\ Inbound[t] = rules
      BY <1>2 DEF KeyPairs, rules
    <2> QED
      BY <2>2, <2>3, <2>4, <2>6, RulesMove
  <1>3. CASE t = "execute_bash"
    <2> DEFINE rules == Inbound["execute_bash"]
    <2>1. rules = <<<<"command", <<"command">>>>, <<"timeout", <<"timeout">>>>>>
      BY DEF Inbound
    <2>2. /\ DOMAIN rules = {1, 2}
          /\ rules[1][1] = "command" /\ rules[1][2] = <<"command">>
          /\ rules[2][1] = "timeout" /\ rules[2][2] = <<"timeout">>
      BY <2>1
    <2> HIDE DEF rules
    <2>3. \A i, j \in DOMAIN rules : rules[i][1] = rules[j][1] => rules[i] = rules[j]
      BY <2>2
    <2>5. DOMAIN obj \cap {} = {}
      BY <1>3 DEF Required, Optional
    <2>4. /\ Hit(obj, <<"command">>) <=> HasNumber(obj, "command")
          /\ HasNumber(obj, "command") => FirstKey(obj, <<"command">>) = obj["command"]
          /\ Hit(obj, <<"timeout">>) <=> HasNumber(obj, "timeout")
          /\ HasNumber(obj, "timeout") => FirstKey(obj, <<"timeout">>) = obj["timeout"]
      BY <2>5, FirstOfOne, FirstOfTwo DEF HasNumber
    <2>6. KeyPairs[t] = {<<"command", "command">>, <<"timeout", "timeout">>} /\ Inbound[t] = rules
      BY <1>3 DEF KeyPairs, rules
    <2>7. /\ Hit(obj, rules[1][2]) <=> HasNumber(obj, "command")
          /\ HasNumber(obj, "command") => FirstKey(obj, rules[1][2]) = obj["command"]
          /\ Hit(obj, rules[2][2]) <=> HasNumber(obj, "timeout")
          /\ HasNumber(obj, "timeout") => FirstKey(obj, rules[2][2]) = obj["timeout"]
      BY <2>2, <2>4
    <2> DEFINE pairs == KeyPairs[t]
    <2>8. \A i \in DOMAIN rules : Hit(obj, rules[i][2]) =>
              \E p \in pairs : p[2] = rules[i][1] /\ HasNumber(obj, p[1])
      BY <2>2, <2>6, <2>7
    <2>9. \A p \in pairs : HasNumber(obj, p[1]) =>
              \E i \in DOMAIN rules : /\ p[2] = rules[i][1] /\ Hit(obj, rules[i][2])
                                       /\ FirstKey(obj, rules[i][2]) = obj[p[1]]
      BY <2>2, <2>6, <2>7
    <2> HIDE DEF pairs
    <2>10. Moves(obj, Rename(obj, rules), pairs)
      BY <2>3, <2>8, <2>9, RulesMove
    <2> QED
      BY <2>6, <2>10 DEF pairs
  <1>4. CASE t = "read_file"
    <2> DEFINE rules == Inbound["read_file"]
    <2>1. rules = <<<<"file_path", <<"path", "file_path">>>>>>
      BY DEF Inbound
    <2>2. /\ DOMAIN rules = {1}
          /\ rules[1][1] = "file_path" /\ rules[1][2] = <<"path", "file_path">>
      BY <2>1
    <2> HIDE DEF rules
    <2>3. \A i, j \in DOMAIN rules : rules[i][1] = rules[j][1] => rules[i] = rules[j]
      BY <2>2
    <2>5. DOMAIN obj \cap {"file_path"} = {}
      BY <1>4 DEF Required, Optional
    <2>4. /\ Hit(obj, <<"path", "file_path">>) <=> HasNumber(obj, "path")
          /\ HasNumber(obj, "path") => FirstKey(obj, <<"path", "file_path">>) = obj["path"]
      BY <2>5, FirstOfOne, FirstOfTwo DEF HasNumber
    <2>6. KeyPairs[t] = {<<"path", "file_path">>} /\ Inbound[t] = rules
      BY <1>4 DEF KeyPairs, rules
    <2> QED
      BY <2>2, <2>3, <2>4, <2>6, RulesMove
  <1>5. CASE t = "file_search"
    <2> DEFINE rules == Inbound["file_search"]
    <2>1. rules = <<<<"pattern", <<"query", "pattern">>>>>>
      BY DEF Inbound
    <2>2. /\ DOMAIN rules = {1}
          /\ rules[1][1] = "pattern" /\ rules[1][2] = <<"query", "pattern">>
      BY <2>1
    <2> HIDE DEF rules
    <2>3. \A i, j \in DOMAIN rules : rules[i][1] = rules[j][1] => rules[i] = rules[j]
      BY <2>2
    <2>5. DOMAIN obj \cap {"pattern"} = {}
      BY <1>5 DEF Required, Optional
    <2>4. /\ Hit(obj, <<"query", "pattern">>) <=> HasNumber(obj, "query")
          /\ HasNumber(obj, "query") => FirstKey(obj, <<"query", "pattern">>) = obj["query"]
      BY <2>5, FirstOfOne, FirstOfTwo DEF HasNumber
    <2>6. KeyPairs[t] = {<<"query", "pattern">>} /\ Inbound[t] = rules
      BY <1>5 DEF KeyPairs, rules
    <2> QED
      BY <2>2, <2>3, <2>4, <2>6, RulesMove
  <1>6. CASE t = "grep_search"
    <2> DEFINE rules == Inbound["grep_search"]
    <2>1. rules = <<<<"pattern", <<"query", "pattern">>>>, <<"glob", <<"includePattern", "glob">>>>, <<"case_sensitive", <<"caseSensitive", "case_sensitive">>>>>>
      BY DEF Inbound
    <2>2. /\ DOMAIN rules = {1, 2, 3}
          /\ rules[1][1] = "pattern" /\ rules[1][2] = <<"query", "pattern">>
          /\ rules[2][1] = "glob" /\ rules[2][2] = <<"includePattern", "glob">>
          /\ rules[3][1] = "case_sensitive" /\ rules[3][2] = <<"caseSensitive", "case_sensitive">>
      BY <2>1
    <2> HIDE DEF rules
    <2>3. \A i, j \in DOMAIN rules : rules[i][1] = rules[j][1] => rules[i] = rules[j]
      BY <2>2
    <2>5. DOMAIN obj \cap {"case_sensitive", "glob", "pattern"} = {}
      BY <1>6 DEF Required, Optional
    <2>4. /\ Hit(obj, <<"query", "pattern">>) <=> HasNumber(obj, "query")
          /\ HasNumber(obj, "query") => FirstKey(obj, <<"query", "pattern">>) = obj["query"]
          /\ Hit(obj, <<"includePattern", "glob">>) <=> HasNumber(obj, "includePattern")
          /\ HasNumber(obj, "includePattern") => FirstKey(obj, <<"includePattern", "glob">>) = obj["includePattern"]
          /\ Hit(obj, <<"caseSensitive", "case_sensitive">>) <=> HasNumber(obj, "caseSensitive")
          /\ HasNumber(obj, "caseSensitive") => FirstKey(obj, <<"caseSensitive", "case_sensitive">>) = obj["caseSensitive"]
      BY <2>5, FirstOfOne, FirstOfTwo DEF HasNumber
    <2>6. KeyPairs[t] = {<<"query", "pattern">>, <<"includePattern", "glob">>, <<"caseSensitive", "case_sensitive">>} /\ Inbound[t] = rules
      BY <1>6 DEF KeyPairs, rules
    <2> QED
      BY <2>2, <2>3, <2>4, <2>6, RulesMove
  <1>7. CASE t = "list_directory"
    <2> DEFINE rules == Inbound["list_directory"]
    <2>1. rules = <<<<"path", <<"path">>>>>>
      BY DEF Inbound
    <2>2. /\ DOMAIN rules = {1}
          /\ rules[1][1] = "path" /\ rules[1][2] = <<"path">>
      BY <2>1
    <2> HIDE DEF rules
    <2>3. \A i, j \in DOMAIN rules : rules[i][1] = rules[j][1] => rules[i] = rules[j]
      BY <2>2
    <2>5. DOMAIN obj \cap {} = {}
      BY <1>7 DEF Required, Optional
    <2>4. /\ Hit(obj, <<"path">>) <=> HasNumber(obj, "path")
          /\ HasNumber(obj, "path") => FirstKey(obj, <<"path">>) = obj["path"]
      BY <2>5, FirstOfOne, FirstOfTwo DEF HasNumber
    <2>6. KeyPairs[t] = {<<"path", "path">>} /\ Inbound[t] = rules
      BY <1>7 DEF KeyPairs, rules
    <2>7. /\ Hit(obj, rules[1][2]) <=> HasNumber(obj, "path")
          /\ HasNumber(obj, "path") => FirstKey(obj, rules[1][2]) = obj["path"]
      BY <2>2, <2>4
    <2> DEFINE pairs == KeyPairs[t]
    <2>8. \A i \in DOMAIN rules : Hit(obj, rules[i][2]) =>
              \E p \in pairs : p[2] = rules[i][1] /\ HasNumber(obj, p[1])
      BY <2>2, <2>6, <2>7
    <2>9. \A p \in pairs : HasNumber(obj, p[1]) =>
              \E i \in DOMAIN rules : /\ p[2] = rules[i][1] /\ Hit(obj, rules[i][2])
                                       /\ FirstKey(obj, rules[i][2]) = obj[p[1]]
      BY <2>2, <2>6, <2>7
    <2> HIDE DEF pairs
    <2>10. Moves(obj, Rename(obj, rules), pairs)
      BY <2>3, <2>8, <2>9, RulesMove
    <2> QED
      BY <2>6, <2>10 DEF pairs
  <1>8. CASE t = "web_search"
    <2> DEFINE rules == Inbound["web_search"]
    <2>1. rules = <<<<"query", <<"query">>>>>>
      BY DEF Inbound
    <2>2. /\ DOMAIN rules = {1}
          /\ rules[1][1] = "query" /\ rules[1][2] = <<"query">>
      BY <2>1
    <2> HIDE DEF rules
    <2>3. \A i, j \in DOMAIN rules : rules[i][1] = rules[j][1] => rules[i] = rules[j]
      BY <2>2
    <2>5. DOMAIN obj \cap {} = {}
      BY <1>8 DEF Required, Optional
    <2>4. /\ Hit(obj, <<"query">>) <=> HasNumber(obj, "query")
          /\ HasNumber(obj, "query") => FirstKey(obj, <<"query">>) = obj["query"]
      BY <2>5, FirstOfOne, FirstOfTwo DEF HasNumber
    <2>6. KeyPairs[t] = {<<"query", "query">>} /\ Inbound[t] = rules
      BY <1>8 DEF KeyPairs, rules
    <2>7. /\ Hit(obj, rules[1][2]) <=> HasNumber(obj, "query")
          /\ HasNumber(obj, "query") => FirstKey(obj, rules[1][2]) = obj["query"]
      BY <2>2, <2>4
    <2> DEFINE pairs == KeyPairs[t]
    <2>8. \A i \in DOMAIN rules : Hit(obj, rules[i][2]) =>
              \E p \in pairs : p[2] = rules[i][1] /\ HasNumber(obj, p[1])
      BY <2>2, <2>6, <2>7
    <2>9. \A p \in pairs : HasNumber(obj, p[1]) =>
              \E i \in DOMAIN rules : /\ p[2] = rules[i][1] /\ Hit(obj, rules[i][2])
                                       /\ FirstKey(obj, rules[i][2]) = obj[p[1]]
      BY <2>2, <2>6, <2>7
    <2> HIDE DEF pairs
    <2>10. Moves(obj, Rename(obj, rules), pairs)
      BY <2>3, <2>8, <2>9, RulesMove
    <2> QED
      BY <2>6, <2>10 DEF pairs
  <1> QED
    BY <1>1, <1>2, <1>3, <1>4, <1>5, <1>6, <1>7, <1>8 DEF Required

Swapped(pairs) == {<<p[2], p[1]>> : p \in pairs}

LEMMA OutPairs ==
    ASSUME NEW name \in DOMAIN KiroName, NEW obj,
           DOMAIN obj \subseteq {p[2] : p \in KeyPairs[KiroName[name]]} \cup {"offset", "limit"}
    PROVE  Moves(obj, Rename(obj, Outbound[name]), Swapped(KeyPairs[KiroName[name]]))
  <1>1. CASE name = "Write"
    <2> DEFINE rules == Outbound["Write"]
    <2>1. rules = <<<<"path", <<"file_path", "path">>>>, <<"text", <<"content", "text">>>>>>
      BY DEF Outbound
    <2>2. /\ DOMAIN rules = {1, 2}
          /\ rules[1][1] = "path" /\ rules[1][2] = <<"file_path", "path">>
          /\ rules[2][1] = "text" /\ rules[2][2] = <<"content", "text">>
      BY <2>1
    <2> HIDE DEF rules
    <2>3. \A i, j \in DOMAIN rules : rules[i][1] = rules[j][1] => rules[i] = rules[j]
      BY <2>2
    <2>5. KeyPairs[KiroName[name]] = {<<"path", "file_path">>, <<"text", "content">>}
      BY <1>1 DEF KeyPairs, KiroName
    <2>6. /\ Swapped(KeyPairs[KiroName[name]]) = {<<"file_path", "path">>, <<"content", "text">>}
          /\ DOMAIN obj \subseteq {"file_path", "content"} \cup {"offset", "limit"} /\ Outbound[name] = rules
      BY <1>1, <2>5 DEF rules, Swapped
    <2>4. /\ Hit(obj, <<"file_path", "path">>) <=> HasNumber(obj, "file_path")
          /\ HasNumber(obj, "file_path") => FirstKey(obj, <<"file_path", "path">>) = obj["file_path"]
          /\ Hit(obj, <<"content", "text">>) <=> HasNumber(obj, "content")
          /\ HasNumber(obj, "content") => FirstKey(obj, <<"content", "text">>) = obj["content"]
      BY <2>6, FirstOfOne, FirstOfTwo DEF HasNumber
    <2> QED
      BY <2>2, <2>3, <2>4, <2>6, RulesMove
  <1>2. CASE name = "Edit"
    <2> DEFINE rules == Outbound["Edit"]
    <2>1. rules = <<<<"path", <<"file_path", "path">>>>, <<"oldStr", <<"old_string", "oldStr">>>>, <<"newStr", <<"new_string", "newStr">>>>>>
      BY DEF Outbound
    <2>2. /\ DOMAIN rules = {1, 2, 3}
          /\ rules[1][1] = "path" /\ rules[1][2] = <<"file_path", "path">>
          /\ rules[2][1] = "oldStr" /\ rules[2][2] = <<"old_string", "oldStr">>
          /\ rules[3][1] = "newStr" /\ rules[3][2] = <<"new_string", "newStr">>
      BY <2>1
    <2> HIDE DEF rules
    <2>3. \A i, j \in DOMAIN rules : rules[i][1] = rules[j][1] => rules[i] = rules[j]
      BY <2>2
    <2>5. KeyPairs[KiroName[name]] = {<<"path", "file_path">>, <<"oldStr", "old_string">>, <<"newStr", "new_string">>}
      BY <1>2 DEF KeyPairs, KiroName
    <2>6. /\ Swapped(KeyPairs[KiroName[name]]) = {<<"file_path", "path">>, <<"old_string", "oldStr">>, <<"new_string", "newStr">>}
          /\ DOMAIN obj \subseteq {"file_path", "old_string", "new_string"} \cup {"offset", "limit"} /\ Outbound[name] = rules
      BY <1>2, <2>5 DEF rules, Swapped
    <2>4. /\ Hit(obj, <<"file_path", "path">>) <=> HasNumber(obj, "file_path")
          /\ HasNumber(obj, "file_path") => FirstKey(obj, <<"file_path", "path">>) = obj["file_path"]
          /\ Hit(obj, <<"old_string", "oldStr">>) <=> HasNumber(obj, "old_string")
          /\ HasNumber(obj, "old_string") => FirstKey(obj, <<"old_string", "oldStr">>) = obj["old_string"]
          /\ Hit(obj, <<"new_string", "newStr">>) <=> HasNumber(obj, "new_string")
          /\ HasNumber(obj, "new_string") => FirstKey(obj, <<"new_string", "newStr">>) = obj["new_string"]
      BY <2>6, FirstOfOne, FirstOfTwo DEF HasNumber
    <2> QED
      BY <2>2, <2>3, <2>4, <2>6, RulesMove
  <1>3. CASE name = "Bash"
    <2> DEFINE rules == Outbound["Bash"]
    <2>1. rules = <<<<"command", <<"command">>>>, <<"timeout", <<"timeout">>>>>>
      BY DEF Outbound
    <2>2. /\ DOMAIN rules = {1, 2}
          /\ rules[1][1] = "command" /\ rules[1][2] = <<"command">>
          /\ rules[2][1] = "timeout" /\ rules[2][2] = <<"timeout">>
      BY <2>1
    <2> HIDE DEF rules
    <2>3. \A i, j \in DOMAIN rules : rules[i][1] = rules[j][1] => rules[i] = rules[j]
      BY <2>2
    <2>5. KeyPairs[KiroName[name]] = {<<"command", "command">>, <<"timeout", "timeout">>}
      BY <1>3 DEF KeyPairs, KiroName
    <2>6. /\ Swapped(KeyPairs[KiroName[name]]) = {<<"command", "command">>, <<"timeout", "timeout">>}
          /\ DOMAIN obj \subseteq {"command", "timeout"} \cup {"offset", "limit"} /\ Outbound[name] = rules
      BY <1>3, <2>5 DEF rules, Swapped
    <2>4. /\ Hit(obj, <<"command">>) <=> HasNumber(obj, "command")
          /\ HasNumber(obj, "command") => FirstKey(obj, <<"command">>) = obj["command"]
          /\ Hit(obj, <<"timeout">>) <=> HasNumber(obj, "timeout")
          /\ HasNumber(obj, "timeout") => FirstKey(obj, <<"timeout">>) = obj["timeout"]
      BY <2>6, FirstOfOne, FirstOfTwo DEF HasNumber
    <2>7. /\ Hit(obj, rules[1][2]) <=> HasNumber(obj, "command")
          /\ HasNumber(obj, "command") => FirstKey(obj, rules[1][2]) = obj["command"]
          /\ Hit(obj, rules[2][2]) <=> HasNumber(obj, "timeout")
          /\ HasNumber(obj, "timeout") => FirstKey(obj, rules[2][2]) = obj["timeout"]
      BY <2>2, <2>4
    <2> DEFINE pairs == Swapped(KeyPairs[KiroName[name]])
    <2>11. pairs = {<<"command", "command">>, <<"timeout", "timeout">>}
      BY <2>6
    <2> HIDE DEF pairs
    <2>8. \A i \in DOMAIN rules : Hit(obj, rules[i][2]) =>
              \E p \in pairs : p[2] = rules[i][1] /\ HasNumber(obj, p[1])
      BY <2>2, <2>7, <2>11
    <2>9. \A p \in pairs : HasNumber(obj, p[1]) =>
              \E i \in DOMAIN rules : /\ p[2] = rules[i][1] /\ Hit(obj, rules[i][2])
                                       /\ FirstKey(obj, rules[i][2]) = obj[p[1]]
      BY <2>2, <2>7, <2>11
    <2>10. Moves(obj, Rename(obj, rules), pairs)
      BY <2>3, <2>8, <2>9, RulesMove
    <2> QED
      BY <2>6, <2>10 DEF pairs
  <1>4. CASE name = "Read"
    <2> DEFINE rules == Outbound["Read"]
    <2>1. rules = <<<<"path", <<"file_path", "path">>>>, <<"explanation", <<"explanation">>>>>>
      BY DEF Outbound
    <2>2. /\ DOMAIN rules = {1, 2}
          /\ rules[1][1] = "path" /\ rules[1][2] = <<"file_path", "path">>
          /\ rules[2][1] = "explanation" /\ rules[2][2] = <<"explanation">>
      BY <2>1
    <2> HIDE DEF rules
    <2>3. \A i, j \in DOMAIN rules : rules[i][1] = rules[j][1] => rules[i] = rules[j]
      BY <2>2
    <2>5. KeyPairs[KiroName[name]] = {<<"path", "file_path">>}
      BY <1>4 DEF KeyPairs, KiroName
    <2>6. /\ Swapped(KeyPairs[KiroName[name]]) = {<<"file_path", "path">>}
          /\ DOMAIN obj \subseteq {"file_path"} \cup {"offset", "limit"} /\ Outbound[name] = rules
      BY <1>4, <2>5 DEF rules, Swapped
    <2>4. /\ Hit(obj, <<"file_path", "path">>) <=> HasNumber(obj, "file_path")
          /\ HasNumber(obj, "file_path") => FirstKey(obj, <<"file_path", "path">>) = obj["file_path"]
          /\ ~Hit(obj, <<"explanation">>)
      BY <2>6, FirstOfOne, FirstOfTwo DEF HasNumber
    <2> QED
      BY <2>2, <2>3, <2>4, <2>6, RulesMove
  <1>5. CASE name = "Glob"
    <2> DEFINE rules == Outbound["Glob"]
    <2>1. rules = <<<<"query", <<"pattern", "query">>>>, <<"excludePattern", <<"excludePattern", "exclude">>>>, <<"explanation", <<"explanation">>>>>>
      BY DEF Outbound
    <2>2. /\ DOMAIN rules = {1, 2, 3}
          /\ rules[1][1] = "query" /\ rules[1][2] = <<"pattern", "query">>
          /\ rules[2][1] = "excludePattern" /\ rules[2][2] = <<"excludePattern", "exclude">>
          /\ rules[3][1] = "explanation" /\ rules[3][2] = <<"explanation">>
      BY <2>1
    <2> HIDE DEF rules
    <2>3. \A i, j \in DOMAIN rules : rules[i][1] = rules[j][1] => rules[i] = rules[j]
      BY <2>2
    <2>5. KeyPairs[KiroName[name]] = {<<"query", "pattern">>}
      BY <1>5 DEF KeyPairs, KiroName
    <2>6. /\ Swapped(KeyPairs[KiroName[name]]) = {<<"pattern", "query">>}
          /\ DOMAIN obj \subseteq {"pattern"} \cup {"offset", "limit"} /\ Outbound[name] = rules
      BY <1>5, <2>5 DEF rules, Swapped
    <2>4. /\ Hit(obj, <<"pattern", "query">>) <=> HasNumber(obj, "pattern")
          /\ HasNumber(obj, "pattern") => FirstKey(obj, <<"pattern", "query">>) = obj["pattern"]
          /\ ~Hit(obj, <<"excludePattern", "exclude">>)
          /\ ~Hit(obj, <<"explanation">>)
      BY <2>6, FirstOfOne, FirstOfTwo DEF HasNumber
    <2> QED
      BY <2>2, <2>3, <2>4, <2>6, RulesMove
  <1>6. CASE name = "Grep"
    <2> DEFINE rules == Outbound["Grep"]
    <2>1. rules = <<<<"query", <<"pattern", "query">>>>, <<"includePattern", <<"glob", "includePattern">>>>, <<"excludePattern", <<"excludePattern", "exclude">>>>, <<"caseSensitive", <<"caseSensitive", "case_sensitive">>>>, <<"explanation", <<"explanation">>>>>>
      BY DEF Outbound
    <2>2. /\ DOMAIN rules = {1, 2, 3, 4, 5}
          /\ rules[1][1] = "query" /\ rules[1][2] = <<"pattern", "query">>
          /\ rules[2][1] = "includePattern" /\ rules[2][2] = <<"glob", "includePattern">>
          /\ rules[3][1] = "excludePattern" /\ rules[3][2] = <<"excludePattern", "exclude">>
          /\ rules[4][1] = "caseSensitive" /\ rules[4][2] = <<"caseSensitive", "case_sensitive">>
          /\ rules[5][1] = "explanation" /\ rules[5][2] = <<"explanation">>
      BY <2>1
    <2> HIDE DEF rules
    <2>3. \A i, j \in DOMAIN rules : rules[i][1] = rules[j][1] => rules[i] = rules[j]
      BY <2>2
    <2>5. KeyPairs[KiroName[name]] = {<<"query", "pattern">>, <<"includePattern", "glob">>, <<"caseSensitive", "case_sensitive">>}
      BY <1>6 DEF KeyPairs, KiroName
    <2>6. /\ Swapped(KeyPairs[KiroName[name]]) = {<<"pattern", "query">>, <<"glob", "includePattern">>, <<"case_sensitive", "caseSensitive">>}
          /\ DOMAIN obj \subseteq {"pattern", "glob", "case_sensitive"} \cup {"offset", "limit"} /\ Outbound[name] = rules
      BY <1>6, <2>5 DEF rules, Swapped
    <2>4. /\ Hit(obj, <<"pattern", "query">>) <=> HasNumber(obj, "pattern")
          /\ HasNumber(obj, "pattern") => FirstKey(obj, <<"pattern", "query">>) = obj["pattern"]
          /\ Hit(obj, <<"glob", "includePattern">>) <=> HasNumber(obj, "glob")
          /\ HasNumber(obj, "glob") => FirstKey(obj, <<"glob", "includePattern">>) = obj["glob"]
          /\ ~Hit(obj, <<"excludePattern", "exclude">>)
          /\ Hit(obj, <<"caseSensitive", "case_sensitive">>) <=> HasNumber(obj, "case_sensitive")
          /\ HasNumber(obj, "case_sensitive") => FirstKey(obj, <<"caseSensitive", "case_sensitive">>) = obj["case_sensitive"]
          /\ ~Hit(obj, <<"explanation">>)
      BY <2>6, FirstOfOne, FirstOfTwo DEF HasNumber
    <2>7. /\ Hit(obj, rules[1][2]) <=> HasNumber(obj, "pattern")
          /\ HasNumber(obj, "pattern") => FirstKey(obj, rules[1][2]) = obj["pattern"]
          /\ Hit(obj, rules[2][2]) <=> HasNumber(obj, "glob")
          /\ HasNumber(obj, "glob") => FirstKey(obj, rules[2][2]) = obj["glob"]
          /\ ~Hit(obj, rules[3][2])
          /\ Hit(obj, rules[4][2]) <=> HasNumber(obj, "case_sensitive")
          /\ HasNumber(obj, "case_sensitive") => FirstKey(obj, rules[4][2]) = obj["case_sensitive"]
          /\ ~Hit(obj, rules[5][2])
      BY <2>2, <2>4
    <2> DEFINE pairs == Swapped(KeyPairs[KiroName[name]])
    <2>11. pairs = {<<"pattern", "query">>, <<"glob", "includePattern">>, <<"case_sensitive", "caseSensitive">>}
      BY <2>6
    <2> HIDE DEF pairs
    <2>8. \A i \in DOMAIN rules : Hit(obj, rules[i][2]) =>
              \E p \in pairs : p[2] = rules[i][1] /\ HasNumber(obj, p[1])
      BY <2>2, <2>7, <2>11
    <2>9. \A p \in pairs : HasNumber(obj, p[1]) =>
              \E i \in DOMAIN rules : /\ p[2] = rules[i][1] /\ Hit(obj, rules[i][2])
                                       /\ FirstKey(obj, rules[i][2]) = obj[p[1]]
      BY <2>2, <2>7, <2>11
    <2>10. Moves(obj, Rename(obj, rules), pairs)
      BY <2>3, <2>8, <2>9, RulesMove
    <2> QED
      BY <2>6, <2>10 DEF pairs
  <1>7. CASE name = "LS"
    <2> DEFINE rules == Outbound["LS"]
    <2>1. rules = <<<<"path", <<"path">>>>, <<"depth", <<"depth">>>>, <<"explanation", <<"explanation">>>>>>
      BY DEF Outbound
    <2>2. /\ DOMAIN rules = {1, 2, 3}
          /\ rules[1][1] = "path" /\ rules[1][2] = <<"path">>
          /\ rules[2][1] = "depth" /\ rules[2][2] = <<"depth">>
          /\ rules[3][1] = "explanation" /\ rules[3][2] = <<"explanation">>
      BY <2>1
    <2> HIDE DEF rules
    <2>3. \A i, j \in DOMAIN rules : rules[i][1] = rules[j][1] => rules[i] = rules[j]
      BY <2>2
    <2>5. KeyPairs[KiroName[name]] = {<<"path", "path">>}
      BY <1>7 DEF KeyPairs, KiroName
    <2>6. /\ Swapped(KeyPairs[KiroName[name]]) = {<<"path", "path">>}
          /\ DOMAIN obj \subseteq {"path"} \cup {"offset", "limit"} /\ Outbound[name] = rules
      BY <1>7, <2>5 DEF rules, Swapped
    <2>4. /\ Hit(obj, <<"path">>) <=> HasNumber(obj, "path")
          /\ HasNumber(obj, "path") => FirstKey(obj, <<"path">>) = obj["path"]
          /\ ~Hit(obj, <<"depth">>)
          /\ ~Hit(obj, <<"explanation">>)
      BY <2>6, FirstOfOne, FirstOfTwo DEF HasNumber
    <2>7. /\ Hit(obj, rules[1][2]) <=> HasNumber(obj, "path")
          /\ HasNumber(obj, "path") => FirstKey(obj, rules[1][2]) = obj["path"]
          /\ ~Hit(obj, rules[2][2])
          /\ ~Hit(obj, rules[3][2])
      BY <2>2, <2>4
    <2> DEFINE pairs == Swapped(KeyPairs[KiroName[name]])
    <2>11. pairs = {<<"path", "path">>}
      BY <2>6
    <2> HIDE DEF pairs
    <2>8. \A i \in DOMAIN rules : Hit(obj, rules[i][2]) =>
              \E p \in pairs : p[2] = rules[i][1] /\ HasNumber(obj, p[1])
      BY <2>2, <2>7, <2>11
    <2>9. \A p \in pairs : HasNumber(obj, p[1]) =>
              \E i \in DOMAIN rules : /\ p[2] = rules[i][1] /\ Hit(obj, rules[i][2])
                                       /\ FirstKey(obj, rules[i][2]) = obj[p[1]]
      BY <2>2, <2>7, <2>11
    <2>10. Moves(obj, Rename(obj, rules), pairs)
      BY <2>3, <2>8, <2>9, RulesMove
    <2> QED
      BY <2>6, <2>10 DEF pairs
  <1>8. CASE name = "WebSearch"
    <2> DEFINE rules == Outbound["WebSearch"]
    <2>1. rules = <<<<"query", <<"query">>>>>>
      BY DEF Outbound
    <2>2. /\ DOMAIN rules = {1}
          /\ rules[1][1] = "query" /\ rules[1][2] = <<"query">>
      BY <2>1
    <2> HIDE DEF rules
    <2>3. \A i, j \in DOMAIN rules : rules[i][1] = rules[j][1] => rules[i] = rules[j]
      BY <2>2
    <2>5. KeyPairs[KiroName[name]] = {<<"query", "query">>}
      BY <1>8 DEF KeyPairs, KiroName
    <2>6. /\ Swapped(KeyPairs[KiroName[name]]) = {<<"query", "query">>}
          /\ DOMAIN obj \subseteq {"query"} \cup {"offset", "limit"} /\ Outbound[name] = rules
      BY <1>8, <2>5 DEF rules, Swapped
    <2>4. /\ Hit(obj, <<"query">>) <=> HasNumber(obj, "query")
          /\ HasNumber(obj, "query") => FirstKey(obj, <<"query">>) = obj["query"]
      BY <2>6, FirstOfOne, FirstOfTwo DEF HasNumber
    <2>7. /\ Hit(obj, rules[1][2]) <=> HasNumber(obj, "query")
          /\ HasNumber(obj, "query") => FirstKey(obj, rules[1][2]) = obj["query"]
      BY <2>2, <2>4
    <2> DEFINE pairs == Swapped(KeyPairs[KiroName[name]])
    <2>11. pairs = {<<"query", "query">>}
      BY <2>6
    <2> HIDE DEF pairs
    <2>8. \A i \in DOMAIN rules : Hit(obj, rules[i][2]) =>
              \E p \in pairs : p[2] = rules[i][1] /\ HasNumber(obj, p[1])
      BY <2>2, <2>7, <2>11
    <2>9. \A p \in pairs : HasNumber(obj, p[1]) =>
              \E i \in DOMAIN rules : /\ p[2] = rules[i][1] /\ Hit(obj, rules[i][2])
                                       /\ FirstKey(obj, rules[i][2]) = obj[p[1]]
      BY <2>2, <2>7, <2>11
    <2>10. Moves(obj, Rename(obj, rules), pairs)
      BY <2>3, <2>8, <2>9, RulesMove
    <2> QED
      BY <2>6, <2>10 DEF pairs
  <1> QED
    BY <1>1, <1>2, <1>3, <1>4, <1>5, <1>6, <1>7, <1>8 DEF KiroName

LEMMA PairsAre ==
    ASSUME NEW name \in DOMAIN KiroName, NEW t, t = KiroName[name]
    PROVE  /\ t \in DOMAIN Required /\ t \in DOMAIN Inbound
           /\ Required[t] \cap Optional[t] = {}
           /\ \A p, q \in KeyPairs[t] : p[1] = q[1] <=> p[2] = q[2]
           /\ \A p \in KeyPairs[t] : p[1] \in Required[t] \cup Optional[t] /\ p[1] # "explanation"
           /\ \A k \in Required[t] : k = "explanation" \/ \E p \in KeyPairs[t] : p[1] = k
           /\ name \in Explains => "explanation" \in Required[t]
           /\ "explanation" \in Required[t] => name \in Explains
           /\ t = "read_file" <=> name = "Read"
  <1>1. CASE name = "Write"
    <2>1. t = "fs_write" /\ t \in DOMAIN Required /\ t \in DOMAIN Inbound
      BY <1>1 DEF KiroName, Required, Inbound
    <2>2. Required[t] = {"path", "text"} /\ Optional[t] = {}
      BY <2>1 DEF Required, Optional
    <2>3. KeyPairs[t] = {<<"path", "file_path">>, <<"text", "content">>}
      BY <2>1 DEF KeyPairs
    <2>4. \A p, q \in KeyPairs[t] : p[1] = q[1] <=> p[2] = q[2]
      BY <2>3
    <2>5. \A p \in KeyPairs[t] : p[1] \in Required[t] \cup Optional[t] /\ p[1] # "explanation"
      BY <2>2, <2>3
    <2>6. /\ <<"path", "file_path">> \in KeyPairs[t] /\ <<"path", "file_path">>[1] = "path"
          /\ <<"text", "content">> \in KeyPairs[t] /\ <<"text", "content">>[1] = "text"
      BY <2>3
    <2>7. \A k \in Required[t] : k = "explanation" \/ \E p \in KeyPairs[t] : p[1] = k
      BY <2>2, <2>6
    <2>8. /\ name \in Explains <=> "explanation" \in Required[t]
          /\ t = "read_file" <=> name = "Read"
      BY <1>1, <2>1, <2>2 DEF Explains
    <2> QED
      BY <2>1, <2>2, <2>4, <2>5, <2>7, <2>8
  <1>2. CASE name = "Edit"
    <2>1. t = "str_replace" /\ t \in DOMAIN Required /\ t \in DOMAIN Inbound
      BY <1>2 DEF KiroName, Required, Inbound
    <2>2. Required[t] = {"path", "oldStr", "newStr"} /\ Optional[t] = {}
      BY <2>1 DEF Required, Optional
    <2>3. KeyPairs[t] = {<<"path", "file_path">>, <<"oldStr", "old_string">>, <<"newStr", "new_string">>}
      BY <2>1 DEF KeyPairs
    <2>4. \A p, q \in KeyPairs[t] : p[1] = q[1] <=> p[2] = q[2]
      BY <2>3
    <2>5. \A p \in KeyPairs[t] : p[1] \in Required[t] \cup Optional[t] /\ p[1] # "explanation"
      BY <2>2, <2>3
    <2>6. /\ <<"path", "file_path">> \in KeyPairs[t] /\ <<"path", "file_path">>[1] = "path"
          /\ <<"oldStr", "old_string">> \in KeyPairs[t] /\ <<"oldStr", "old_string">>[1] = "oldStr"
          /\ <<"newStr", "new_string">> \in KeyPairs[t] /\ <<"newStr", "new_string">>[1] = "newStr"
      BY <2>3
    <2>7. \A k \in Required[t] : k = "explanation" \/ \E p \in KeyPairs[t] : p[1] = k
      BY <2>2, <2>6
    <2>8. /\ name \in Explains <=> "explanation" \in Required[t]
          /\ t = "read_file" <=> name = "Read"
      BY <1>2, <2>1, <2>2 DEF Explains
    <2> QED
      BY <2>1, <2>2, <2>4, <2>5, <2>7, <2>8
  <1>3. CASE name = "Bash"
    <2>1. t = "execute_bash" /\ t \in DOMAIN Required /\ t \in DOMAIN Inbound
      BY <1>3 DEF KiroName, Required, Inbound
    <2>2. Required[t] = {"command"} /\ Optional[t] = {"timeout"}
      BY <2>1 DEF Required, Optional
    <2>3. KeyPairs[t] = {<<"command", "command">>, <<"timeout", "timeout">>}
      BY <2>1 DEF KeyPairs
    <2>4. \A p, q \in KeyPairs[t] : p[1] = q[1] <=> p[2] = q[2]
      BY <2>3
    <2>5. \A p \in KeyPairs[t] : p[1] \in Required[t] \cup Optional[t] /\ p[1] # "explanation"
      BY <2>2, <2>3
    <2>6. /\ <<"command", "command">> \in KeyPairs[t] /\ <<"command", "command">>[1] = "command"
          /\ <<"timeout", "timeout">> \in KeyPairs[t] /\ <<"timeout", "timeout">>[1] = "timeout"
      BY <2>3
    <2>7. \A k \in Required[t] : k = "explanation" \/ \E p \in KeyPairs[t] : p[1] = k
      BY <2>2, <2>6
    <2>8. /\ name \in Explains <=> "explanation" \in Required[t]
          /\ t = "read_file" <=> name = "Read"
      BY <1>3, <2>1, <2>2 DEF Explains
    <2> QED
      BY <2>1, <2>2, <2>4, <2>5, <2>7, <2>8
  <1>4. CASE name = "Read"
    <2>1. t = "read_file" /\ t \in DOMAIN Required /\ t \in DOMAIN Inbound
      BY <1>4 DEF KiroName, Required, Inbound
    <2>2. Required[t] = {"path", "explanation"} /\ Optional[t] = {"start_line", "end_line"}
      BY <2>1 DEF Required, Optional
    <2>3. KeyPairs[t] = {<<"path", "file_path">>}
      BY <2>1 DEF KeyPairs
    <2>4. \A p, q \in KeyPairs[t] : p[1] = q[1] <=> p[2] = q[2]
      BY <2>3
    <2>5. \A p \in KeyPairs[t] : p[1] \in Required[t] \cup Optional[t] /\ p[1] # "explanation"
      BY <2>2, <2>3
    <2>6. /\ <<"path", "file_path">> \in KeyPairs[t] /\ <<"path", "file_path">>[1] = "path"
      BY <2>3
    <2>7. \A k \in Required[t] : k = "explanation" \/ \E p \in KeyPairs[t] : p[1] = k
      BY <2>2, <2>6
    <2>8. /\ name \in Explains <=> "explanation" \in Required[t]
          /\ t = "read_file" <=> name = "Read"
      BY <1>4, <2>1, <2>2 DEF Explains
    <2> QED
      BY <2>1, <2>2, <2>4, <2>5, <2>7, <2>8
  <1>5. CASE name = "Glob"
    <2>1. t = "file_search" /\ t \in DOMAIN Required /\ t \in DOMAIN Inbound
      BY <1>5 DEF KiroName, Required, Inbound
    <2>2. Required[t] = {"query", "explanation"} /\ Optional[t] = {"excludePattern", "includeIgnoredFiles"}
      BY <2>1 DEF Required, Optional
    <2>3. KeyPairs[t] = {<<"query", "pattern">>}
      BY <2>1 DEF KeyPairs
    <2>4. \A p, q \in KeyPairs[t] : p[1] = q[1] <=> p[2] = q[2]
      BY <2>3
    <2>5. \A p \in KeyPairs[t] : p[1] \in Required[t] \cup Optional[t] /\ p[1] # "explanation"
      BY <2>2, <2>3
    <2>6. /\ <<"query", "pattern">> \in KeyPairs[t] /\ <<"query", "pattern">>[1] = "query"
      BY <2>3
    <2>7. \A k \in Required[t] : k = "explanation" \/ \E p \in KeyPairs[t] : p[1] = k
      BY <2>2, <2>6
    <2>8. /\ name \in Explains <=> "explanation" \in Required[t]
          /\ t = "read_file" <=> name = "Read"
      BY <1>5, <2>1, <2>2 DEF Explains
    <2> QED
      BY <2>1, <2>2, <2>4, <2>5, <2>7, <2>8
  <1>6. CASE name = "Grep"
    <2>1. t = "grep_search" /\ t \in DOMAIN Required /\ t \in DOMAIN Inbound
      BY <1>6 DEF KiroName, Required, Inbound
    <2>2. Required[t] = {"query"} /\ Optional[t] = {"caseSensitive", "includePattern", "excludePattern", "explanation"}
      BY <2>1 DEF Required, Optional
    <2>3. KeyPairs[t] = {<<"query", "pattern">>, <<"includePattern", "glob">>, <<"caseSensitive", "case_sensitive">>}
      BY <2>1 DEF KeyPairs
    <2>4. \A p, q \in KeyPairs[t] : p[1] = q[1] <=> p[2] = q[2]
      BY <2>3
    <2>5. \A p \in KeyPairs[t] : p[1] \in Required[t] \cup Optional[t] /\ p[1] # "explanation"
      BY <2>2, <2>3
    <2>6. /\ <<"query", "pattern">> \in KeyPairs[t] /\ <<"query", "pattern">>[1] = "query"
          /\ <<"includePattern", "glob">> \in KeyPairs[t] /\ <<"includePattern", "glob">>[1] = "includePattern"
          /\ <<"caseSensitive", "case_sensitive">> \in KeyPairs[t] /\ <<"caseSensitive", "case_sensitive">>[1] = "caseSensitive"
      BY <2>3
    <2>7. \A k \in Required[t] : k = "explanation" \/ \E p \in KeyPairs[t] : p[1] = k
      BY <2>2, <2>6
    <2>8. /\ name \in Explains <=> "explanation" \in Required[t]
          /\ t = "read_file" <=> name = "Read"
      BY <1>6, <2>1, <2>2 DEF Explains
    <2> QED
      BY <2>1, <2>2, <2>4, <2>5, <2>7, <2>8
  <1>7. CASE name = "LS"
    <2>1. t = "list_directory" /\ t \in DOMAIN Required /\ t \in DOMAIN Inbound
      BY <1>7 DEF KiroName, Required, Inbound
    <2>2. Required[t] = {"path", "explanation"} /\ Optional[t] = {"depth"}
      BY <2>1 DEF Required, Optional
    <2>3. KeyPairs[t] = {<<"path", "path">>}
      BY <2>1 DEF KeyPairs
    <2>4. \A p, q \in KeyPairs[t] : p[1] = q[1] <=> p[2] = q[2]
      BY <2>3
    <2>5. \A p \in KeyPairs[t] : p[1] \in Required[t] \cup Optional[t] /\ p[1] # "explanation"
      BY <2>2, <2>3
    <2>6. /\ <<"path", "path">> \in KeyPairs[t] /\ <<"path", "path">>[1] = "path"
      BY <2>3
    <2>7. \A k \in Required[t] : k = "explanation" \/ \E p \in KeyPairs[t] : p[1] = k
      BY <2>2, <2>6
    <2>8. /\ name \in Explains <=> "explanation" \in Required[t]
          /\ t = "read_file" <=> name = "Read"
      BY <1>7, <2>1, <2>2 DEF Explains
    <2> QED
      BY <2>1, <2>2, <2>4, <2>5, <2>7, <2>8
  <1>8. CASE name = "WebSearch"
    <2>1. t = "web_search" /\ t \in DOMAIN Required /\ t \in DOMAIN Inbound
      BY <1>8 DEF KiroName, Required, Inbound
    <2>2. Required[t] = {"query"} /\ Optional[t] = {}
      BY <2>1 DEF Required, Optional
    <2>3. KeyPairs[t] = {<<"query", "query">>}
      BY <2>1 DEF KeyPairs
    <2>4. \A p, q \in KeyPairs[t] : p[1] = q[1] <=> p[2] = q[2]
      BY <2>3
    <2>5. \A p \in KeyPairs[t] : p[1] \in Required[t] \cup Optional[t] /\ p[1] # "explanation"
      BY <2>2, <2>3
    <2>6. /\ <<"query", "query">> \in KeyPairs[t] /\ <<"query", "query">>[1] = "query"
      BY <2>3
    <2>7. \A k \in Required[t] : k = "explanation" \/ \E p \in KeyPairs[t] : p[1] = k
      BY <2>2, <2>6
    <2>8. /\ name \in Explains <=> "explanation" \in Required[t]
          /\ t = "read_file" <=> name = "Read"
      BY <1>8, <2>1, <2>2 DEF Explains
    <2> QED
      BY <2>1, <2>2, <2>4, <2>5, <2>7, <2>8
  <1> QED
    BY <1>1, <1>2, <1>3, <1>4, <1>5, <1>6, <1>7, <1>8 DEF KiroName

\* input has what call has under the paired key.
Carries(call, input, pairs) ==
    \A p \in pairs : /\ HasNumber(input, p[2]) <=> HasNumber(call, p[1])
                     /\ HasNumber(call, p[1]) => input[p[2]] = call[p[1]]

\* Renaming there and back: what comes out has the values it had.
LEMMA MovedBack ==
    ASSUME NEW call, NEW input, NEW out, NEW pairs, Carries(call, input, pairs),
           Moves(input, out, Swapped(pairs))
    PROVE  /\ \A k \in DOMAIN out : \E p \in pairs : k = p[1] /\ HasNumber(call, p[1])
           /\ \A p \in pairs : HasNumber(call, p[1]) => p[1] \in DOMAIN out
           /\ \A p \in pairs : HasNumber(call, p[1]) => out[p[1]] = call[p[1]]
  <1> DEFINE S == Swapped(pairs)
  <1>1. \A p \in pairs : <<p[2], p[1]>> \in S /\ <<p[2], p[1]>>[1] = p[2] /\ <<p[2], p[1]>>[2] = p[1]
    BY DEF Swapped
  <1>2. \A s \in S : \E p \in pairs : s[1] = p[2] /\ s[2] = p[1]
    BY DEF Swapped
  <1>3. /\ DOMAIN out = {s[2] : s \in {z \in S : HasNumber(input, z[1])}}
        /\ \A s \in S : HasNumber(input, s[1]) => out[s[2]] = input[s[1]]
    BY DEF Moves
  <1> HIDE DEF S
  <1>4. ASSUME NEW p \in pairs, HasNumber(call, p[1])
        PROVE  p[1] \in DOMAIN out /\ out[p[1]] = call[p[1]]
    <2> DEFINE s == <<p[2], p[1]>>
    <2>1. s \in S /\ s[1] = p[2] /\ s[2] = p[1]
      BY <1>1
    <2> HIDE DEF s
    <2>2. HasNumber(input, s[1]) /\ input[p[2]] = call[p[1]]
      BY <1>4, <2>1 DEF Carries
    <2>3. s[2] \in DOMAIN out /\ out[s[2]] = input[s[1]]
      BY <1>3, <2>1, <2>2
    <2> QED
      BY <2>1, <2>2, <2>3
  <1>5. \A k \in DOMAIN out : \E p \in pairs : k = p[1] /\ HasNumber(call, p[1])
    BY <1>2, <1>3 DEF Carries
  <1> QED
    BY <1>4, <1>5

\* A moved key is there when it has a value.
LEMMA MovedHas ==
    ASSUME NEW obj, NEW r, NEW pairs, Moves(obj, r, pairs),
           \A p, q \in pairs : p[1] = q[1] <=> p[2] = q[2]
    PROVE  /\ \A p \in pairs : p[2] \in DOMAIN r <=> HasNumber(obj, p[1])
           /\ \A p \in pairs : HasNumber(r, p[2]) <=> HasNumber(obj, p[1])
           /\ \A p \in pairs : HasNumber(obj, p[1]) => r[p[2]] = obj[p[1]]
           /\ DOMAIN r \subseteq {p[2] : p \in pairs}
  <1>1. \A p \in pairs : p[2] \in DOMAIN r <=> HasNumber(obj, p[1])
    BY DEF Moves
  <1>2. \A p \in pairs : HasNumber(obj, p[1]) => r[p[2]] = obj[p[1]]
    BY DEF Moves
  <1>3. \A p \in pairs : HasNumber(r, p[2]) <=> HasNumber(obj, p[1])
    BY <1>1, <1>2 DEF HasNumber
  <1>4. DOMAIN r \subseteq {p[2] : p \in pairs}
    BY DEF Moves
  <1> QED
    BY <1>1, <1>2, <1>3, <1>4

LEMMA SameMoved ==
    ASSUME NEW a, NEW b, NEW r, NEW s, NEW pairs, Moves(a, r, pairs), Moves(b, s, pairs),
           \A p \in pairs : HasNumber(a, p[1]) <=> HasNumber(b, p[1]),
           \A p \in pairs : HasNumber(a, p[1]) => a[p[1]] = b[p[1]]
    PROVE  r = s
  <1>1. DOMAIN r = DOMAIN s
    BY DEF Moves
  <1>2. \A k \in DOMAIN r : r[k] = s[k]
    BY DEF Moves
  <1>3. r = [k \in DOMAIN r |-> r[k]] /\ s = [k \in DOMAIN s |-> s[k]]
    BY DEF Moves
  <1> QED
    BY <1>1, <1>2, <1>3

LEMMA OverNothing ==
    ASSUME NEW r, r = [k \in DOMAIN r |-> r[k]], NEW g, DOMAIN g = {}
    PROVE  Over(r, g) = r
  <1>1. Over(r, g) = [k \in DOMAIN r |-> r[k]]
    BY DEF Over
  <1> QED
    BY <1>1

\* A built-in tool's call, but for Read's, means what it meant when the client
\* sends it again.
LEMMA OthersComeBack ==
    ASSUME NEW name \in DOMAIN KiroName, name # "Read", NEW t, t = KiroName[name],
           NEW call, IsModelCall(t, call),
           NEW input, input = InputFromKiro(t, call),
           NEW replay, replay = InputToKiro(name, input, "ClaudeCode")
    PROVE  FitsSchema(t, replay) /\ InputFromKiro(t, replay) = input
  <1> DEFINE P == KeyPairs[t]
             out == Rename(input, Outbound[name])
             X == CASE name = "Read" -> LinesToKiro(input)
                    [] name = "Glob" -> IgnoredToKiro(input)
                    [] OTHER         -> <<>>
             E == Only("explanation", name \in Explains, Explained)
  <1>1. /\ t \in DOMAIN Required /\ t \in DOMAIN Inbound /\ t # "read_file"
        /\ \A p, q \in P : p[1] = q[1] <=> p[2] = q[2]
        /\ \A p \in P : p[1] \in Required[t] \cup Optional[t] /\ p[1] # "explanation"
        /\ \A k \in Required[t] : k = "explanation" \/ \E p \in P : p[1] = k
        /\ name \in Explains <=> "explanation" \in Required[t]
    BY PairsAre
  <1>2. ASSUME NEW obj, DOMAIN obj \subseteq Required[t] \cup Optional[t]
        PROVE  Moves(obj, InputFromKiro(t, obj), P)
    <2> DEFINE r == Rename(obj, Inbound[t])
    <2>1. Moves(obj, r, P)
      BY <1>1, <1>2, PairsIn
    <2>2. InputFromKiro(t, obj) = Over(r, <<>>)
      BY <1>1 DEF InputFromKiro
    <2> HIDE DEF r
    <2>3. Over(r, <<>>) = r
      BY <2>1, OverNothing DEF Moves
    <2> QED
      BY <2>1, <2>2, <2>3
  <1>3. Moves(call, input, P)
    BY <1>2 DEF IsModelCall
  <1> HIDE DEF P
  <1>4. /\ \A p \in P : HasNumber(input, p[2]) <=> HasNumber(call, p[1])
        /\ \A p \in P : HasNumber(call, p[1]) => input[p[2]] = call[p[1]]
        /\ DOMAIN input \subseteq {p[2] : p \in P}
    BY <1>1, <1>3, MovedHas
  <1>5. Moves(input, out, Swapped(P))
    BY <1>4, OutPairs DEF P
  <1>6. DOMAIN X = {}
    <2>1. CASE name = "Glob"
      <3>1. P = {<<"query", "pattern">>}
        BY <2>1 DEF P, KeyPairs, KiroName
      <3>2. DOMAIN input \subseteq {"pattern"}
        BY <1>4, <3>1
      <3>3. DOMAIN input \cap {"includeIgnoredFiles", "include_ignored"} = {}
        BY <3>2
      <3>4. X = IgnoredToKiro(input)
        BY <2>1
      <3> QED
        BY <3>3, <3>4 DEF IgnoredToKiro, Only
    <2>2. CASE name # "Glob"
      <3>1. X = <<>>
        BY <2>2
      <3> QED
        BY <3>1
    <2> QED
      BY <2>1, <2>2
  <1>7. replay = Over(Over(out, X), E)
    BY DEF InputToKiro, BuiltIn
  <1>8. Over(out, X) = out
    BY <1>5, <1>6, OverNothing DEF Moves
  <1>9. /\ DOMAIN E = IF name \in Explains THEN {"explanation"} ELSE {}
        /\ name \in Explains => E["explanation"] = Explained
    BY OnlyIs
  <1> HIDE DEF out, X, E
  <1>10. /\ DOMAIN out = {p[1] : p \in {q \in P : HasNumber(call, q[1])}}
         /\ \A p \in P : HasNumber(call, p[1]) => out[p[1]] = call[p[1]]
    <2>1. Carries(call, input, P)
      BY <1>4 DEF Carries
    <2>2. \A p \in P : HasNumber(call, p[1]) => out[p[1]] = call[p[1]]
      BY <1>5, <2>1, MovedBack
    <2>3. \A k \in DOMAIN out : \E p \in P : k = p[1] /\ HasNumber(call, p[1])
      BY <1>5, <2>1, MovedBack
    <2>4. \A p \in P : HasNumber(call, p[1]) => p[1] \in DOMAIN out
      BY <1>5, <2>1, MovedBack
    <2> QED
      BY <2>2, <2>3, <2>4
  <1>11. DOMAIN replay = DOMAIN out \cup DOMAIN E
    BY <1>7, <1>8 DEF Over
  <1>12. \A k \in DOMAIN out : replay[k] = out[k]
    BY <1>7, <1>8 DEF Over
  <1>13. \A k \in DOMAIN E \ DOMAIN out : replay[k] = E[k]
    BY <1>7, <1>8 DEF Over
  <1>14. "explanation" \notin DOMAIN out
    BY <1>1, <1>10
  <1>15. DOMAIN replay \subseteq Required[t] \cup Optional[t]
    BY <1>1, <1>9, <1>10, <1>11
  <1>16. \A p \in P : HasNumber(call, p[1]) => p[1] \in DOMAIN out /\ replay[p[1]] = call[p[1]]
    BY <1>10, <1>12
  <1>17. \A p \in P : HasNumber(replay, p[1]) <=> HasNumber(call, p[1])
    <2>1. \A p \in P : p[1] \in DOMAIN replay => HasNumber(call, p[1])
      BY <1>1, <1>9, <1>10, <1>11
    <2> QED
      BY <1>11, <1>16, <2>1 DEF HasNumber
  <1>18. \A k \in Required[t] : k \in DOMAIN replay /\ replay[k] # Null
    <2> SUFFICES ASSUME NEW k \in Required[t] PROVE k \in DOMAIN replay /\ replay[k] # Null
      OBVIOUS
    <2>1. CASE k = "explanation"
      BY <1>1, <1>9, <1>11, <1>13, <1>14, <2>1, NullAssumption
    <2>2. CASE k # "explanation"
      <3>1. PICK p \in P : p[1] = k
        BY <1>1, <2>2
      <3>2. HasNumber(call, k)
        BY DEF IsModelCall, HasNumber
      <3> QED
        BY <1>17, <3>1, <3>2 DEF HasNumber
    <2> QED
      BY <2>1, <2>2
  <1>19. Moves(replay, InputFromKiro(t, replay), P)
    BY <1>2, <1>15
  <1>20. InputFromKiro(t, replay) = input
    <2>1. \A p \in P : HasNumber(call, p[1]) => replay[p[1]] = call[p[1]]
      BY <1>16
    <2> DEFINE j == InputFromKiro(t, replay)
    <2>2. Moves(replay, j, P)
      BY <1>19
    <2> HIDE DEF j
    <2>3. j = input
      BY <1>3, <1>17, <2>1, <2>2, SameMoved
    <2> QED
      BY <2>3 DEF j
  <1> QED
    BY <1>15, <1>18, <1>20 DEF FitsSchema

-----------------------------------------------------------------------------
(* Read: its start and its end are an offset and a limit at the client's.    *)

\* The number of lines a call of Read asks for, and whether it asks for one.
LinesOf(obj) == IF HasNumber(obj, "start_line")
                THEN obj["end_line"] - obj["start_line"] + 1 ELSE obj["end_line"]
AsksLines(obj) == HasNumber(obj, "end_line") /\ LinesOf(obj) > 0

\* What the client gets of a call of Read.
LEMMA ReadInput ==
    ASSUME NEW obj, DOMAIN obj \subseteq Required["read_file"] \cup Optional["read_file"],
           HasNumber(obj, "path"), NEW input, input = InputFromKiro("read_file", obj)
    PROVE  /\ DOMAIN input = {"file_path"} \cup (IF HasNumber(obj, "start_line") THEN {"offset"} ELSE {})
                             \cup (IF AsksLines(obj) THEN {"limit"} ELSE {})
           /\ input["file_path"] = obj["path"]
           /\ HasNumber(obj, "start_line") => input["offset"] = obj["start_line"]
           /\ AsksLines(obj) => input["limit"] = LinesOf(obj)
           /\ input = [k \in DOMAIN input |-> input[k]]
  <1> DEFINE r == Rename(obj, Inbound["read_file"])
             a == Only("offset", HasNumber(obj, "start_line"), obj["start_line"])
             b == Only("limit", AsksLines(obj), LinesOf(obj))
  <1>1. input = Over(r, Over(a, b))
    <2>1. "read_file" \in DOMAIN Inbound
      BY DEF Inbound
    <2>2. LinesFromKiro(obj) = Over(a, b)
      BY DEF LinesFromKiro, LinesOf, AsksLines
    <2> QED
      BY <2>1, <2>2 DEF InputFromKiro
  <1>2. DOMAIN r = {"file_path"} /\ r["file_path"] = obj["path"]
    <2>1. KeyPairs["read_file"] = {<<"path", "file_path">>} /\ "read_file" \in DOMAIN Required
      BY DEF KeyPairs, Required
    <2> DEFINE S == KeyPairs["read_file"]
    <2>2. Moves(obj, r, S)
      BY <2>1, PairsIn
    <2>3. <<"path", "file_path">> \in S /\ \A q \in S : q = <<"path", "file_path">>
      BY <2>1
    <2> DEFINE p == <<"path", "file_path">>
    <2>7. p \in S /\ p[1] = "path" /\ p[2] = "file_path" /\ \A q \in S : q = p
      BY <2>3
    <2> HIDE DEF r, S
    <2>8. /\ DOMAIN r = {q[2] : q \in {z \in S : HasNumber(obj, z[1])}}
          /\ \A q \in S : HasNumber(obj, q[1]) => r[q[2]] = obj[q[1]]
      BY <2>2 DEF Moves
    <2> HIDE DEF p
    <2> QED
      BY <2>7, <2>8
  <1>3. /\ DOMAIN a = IF HasNumber(obj, "start_line") THEN {"offset"} ELSE {}
        /\ HasNumber(obj, "start_line") => a["offset"] = obj["start_line"]
    BY DEF Only
  <1>4. /\ DOMAIN b = IF AsksLines(obj) THEN {"limit"} ELSE {}
        /\ AsksLines(obj) => b["limit"] = LinesOf(obj)
    BY DEF Only
  <1> HIDE DEF r, a, b
  <1> DEFINE c == Over(a, b)
  <1>5. /\ DOMAIN c = DOMAIN a \cup DOMAIN b
        /\ \A k \in DOMAIN a : c[k] = a[k]
        /\ \A k \in DOMAIN b \ DOMAIN a : c[k] = b[k]
    BY DEF Over
  <1> HIDE DEF c
  <1>6. /\ DOMAIN input = DOMAIN r \cup DOMAIN c
        /\ \A k \in DOMAIN r : input[k] = r[k]
        /\ \A k \in DOMAIN c \ DOMAIN r : input[k] = c[k]
        /\ input = [k \in DOMAIN input |-> input[k]]
    BY <1>1 DEF Over, c
  <1>7. DOMAIN input = {"file_path"} \cup (IF HasNumber(obj, "start_line") THEN {"offset"} ELSE {})
                       \cup (IF AsksLines(obj) THEN {"limit"} ELSE {})
    BY <1>2, <1>3, <1>4, <1>5, <1>6
  <1>8. input["file_path"] = obj["path"]
    BY <1>2, <1>6
  <1>9. HasNumber(obj, "start_line") => input["offset"] = obj["start_line"]
    BY <1>2, <1>3, <1>5, <1>6
  <1>10. AsksLines(obj) => input["limit"] = LinesOf(obj)
    <2>1. AsksLines(obj) => "limit" \in DOMAIN b \ DOMAIN a
      BY <1>3, <1>4
    <2>2. AsksLines(obj) => "limit" \in DOMAIN c \ DOMAIN r /\ c["limit"] = b["limit"]
      BY <1>2, <1>5, <2>1
    <2> QED
      BY <1>4, <1>6, <2>2
  <1> QED
    BY <1>6, <1>7, <1>8, <1>9, <1>10

\* What Kiro gets of a call of Read.
LEMMA ReadOutput ==
    ASSUME NEW obj, DOMAIN obj \subseteq {"file_path", "offset", "limit"},
           HasNumber(obj, "file_path"), NEW out, out = InputToKiro("Read", obj, "ClaudeCode")
    PROVE  /\ DOMAIN out = {"path", "explanation"}
                           \cup (IF HasNumber(obj, "offset") THEN {"start_line"} ELSE {})
                           \cup (IF HasNumber(obj, "limit") THEN {"end_line"} ELSE {})
           /\ out["path"] = obj["file_path"] /\ out["explanation"] = Explained
           /\ HasNumber(obj, "offset") => out["start_line"] = obj["offset"]
           /\ HasNumber(obj, "limit") =>
                 out["end_line"] = IF HasNumber(obj, "offset")
                                   THEN obj["offset"] + obj["limit"] - 1 ELSE obj["limit"]
  <1> DEFINE last == IF HasNumber(obj, "offset")
                     THEN obj["offset"] + obj["limit"] - 1 ELSE obj["limit"]
             r == Rename(obj, Outbound["Read"])
             a == Only("start_line", HasNumber(obj, "offset"), obj["offset"])
             b == Only("end_line", HasNumber(obj, "limit"), last)
             E == Only("explanation", TRUE, Explained)
  <1>1. out = Over(Over(r, Over(a, b)), E)
    <2>1. "Read" \in DOMAIN KiroName /\ "Read" \in Explains
      BY DEF KiroName, Explains
    <2>2. LinesToKiro(obj) = Over(a, b)
      BY DEF LinesToKiro
    <2> HIDE DEF a, b, r
    <2> QED
      BY <2>1, <2>2 DEF InputToKiro, BuiltIn, r
  <1>2. DOMAIN r = {"path"} /\ r["path"] = obj["file_path"]
    <2>1. /\ KiroName["Read"] = "read_file" /\ "Read" \in DOMAIN KiroName
          /\ KeyPairs["read_file"] = {<<"path", "file_path">>}
      BY DEF KeyPairs, KiroName
    <2>2. Swapped({<<"path", "file_path">>}) = {<<"file_path", "path">>}
      BY DEF Swapped
    <2>3. DOMAIN obj \subseteq {p[2] : p \in KeyPairs[KiroName["Read"]]} \cup {"offset", "limit"}
      BY <2>1
    <2>4. Moves(obj, r, Swapped(KeyPairs[KiroName["Read"]]))
      BY <2>1, <2>3, OutPairs
    <2> DEFINE S == Swapped(KeyPairs[KiroName["Read"]])
    <2>5. <<"file_path", "path">> \in S /\ \A q \in S : q = <<"file_path", "path">>
      BY <2>1, <2>2
    <2>6. Moves(obj, r, S)
      BY <2>4
    <2> DEFINE p == <<"file_path", "path">>
    <2>7. p \in S /\ p[1] = "file_path" /\ p[2] = "path" /\ \A q \in S : q = p
      BY <2>5
    <2> HIDE DEF r, S
    <2>8. /\ DOMAIN r = {q[2] : q \in {z \in S : HasNumber(obj, z[1])}}
          /\ \A q \in S : HasNumber(obj, q[1]) => r[q[2]] = obj[q[1]]
      BY <2>6 DEF Moves
    <2> HIDE DEF p
    <2> QED
      BY <2>7, <2>8
  <1>3. /\ DOMAIN a = IF HasNumber(obj, "offset") THEN {"start_line"} ELSE {}
        /\ HasNumber(obj, "offset") => a["start_line"] = obj["offset"]
    BY DEF Only
  <1>4. /\ DOMAIN b = IF HasNumber(obj, "limit") THEN {"end_line"} ELSE {}
        /\ HasNumber(obj, "limit") => b["end_line"] = last
    BY DEF Only
  <1>5. DOMAIN E = {"explanation"} /\ E["explanation"] = Explained
    BY DEF Only
  <1> HIDE DEF r, a, b, E, last
  <1> DEFINE c == Over(a, b)
             d == Over(r, c)
  <1>6. /\ DOMAIN c = DOMAIN a \cup DOMAIN b
        /\ \A k \in DOMAIN a : c[k] = a[k]
        /\ \A k \in DOMAIN b \ DOMAIN a : c[k] = b[k]
    BY DEF Over
  <1> HIDE DEF c
  <1>7. /\ DOMAIN d = DOMAIN r \cup DOMAIN c
        /\ \A k \in DOMAIN r : d[k] = r[k]
        /\ \A k \in DOMAIN c \ DOMAIN r : d[k] = c[k]
    BY DEF Over
  <1> HIDE DEF d
  <1>8. /\ DOMAIN out = DOMAIN d \cup DOMAIN E
        /\ \A k \in DOMAIN d : out[k] = d[k]
        /\ \A k \in DOMAIN E \ DOMAIN d : out[k] = E[k]
    BY <1>1 DEF Over, d, c
  <1>9. DOMAIN c = (IF HasNumber(obj, "offset") THEN {"start_line"} ELSE {})
                   \cup (IF HasNumber(obj, "limit") THEN {"end_line"} ELSE {})
    BY <1>3, <1>4, <1>6
  <1>10. "path" \notin DOMAIN c /\ "explanation" \notin DOMAIN d
    BY <1>2, <1>7, <1>9
  <1>11. DOMAIN out = {"path", "explanation"} \cup DOMAIN c
    BY <1>2, <1>5, <1>7, <1>8
  <1>12. out["path"] = obj["file_path"] /\ out["explanation"] = Explained
    BY <1>2, <1>5, <1>7, <1>8, <1>10
  <1>13. \A k \in DOMAIN c : out[k] = c[k]
    BY <1>2, <1>7, <1>8, <1>10
  <1>14. HasNumber(obj, "offset") => out["start_line"] = obj["offset"]
    BY <1>3, <1>6, <1>13
  <1>15. HasNumber(obj, "limit") => out["end_line"] = last
    <2>1. "end_line" \notin DOMAIN a
      BY <1>3
    <2> QED
      BY <1>4, <1>6, <1>13, <2>1
  <1> QED
    BY <1>9, <1>11, <1>12, <1>14, <1>15 DEF last

LEMMA ReadsComeBack ==
    ASSUME NEW call, IsModelCall("read_file", call),
           NEW input, input = InputFromKiro("read_file", call),
           NEW replay, replay = InputToKiro("Read", input, "ClaudeCode")
    PROVE  FitsSchema("read_file", replay) /\ InputFromKiro("read_file", replay) = input
  <1>1. /\ Required["read_file"] = {"path", "explanation"}
        /\ Optional["read_file"] = {"start_line", "end_line"}
    BY DEF Required, Optional
  <1>2. /\ DOMAIN call \subseteq {"path", "explanation", "start_line", "end_line"}
        /\ HasNumber(call, "path")
        /\ HasNumber(call, "start_line") => call["start_line"] \in Int
        /\ HasNumber(call, "end_line") => call["end_line"] \in Int
    BY <1>1 DEF IsModelCall, HasNumber
  <1>3. AsksLines(call) => LinesOf(call) \in Int /\ HasNumber(call, "end_line")
    BY <1>2 DEF AsksLines, LinesOf
  <1>4. /\ DOMAIN input = {"file_path"} \cup (IF HasNumber(call, "start_line") THEN {"offset"} ELSE {})
                          \cup (IF AsksLines(call) THEN {"limit"} ELSE {})
        /\ input["file_path"] = call["path"]
        /\ HasNumber(call, "start_line") => input["offset"] = call["start_line"]
        /\ AsksLines(call) => input["limit"] = LinesOf(call)
        /\ input = [k \in DOMAIN input |-> input[k]]
    BY <1>1, <1>2, ReadInput
  <1>5. HasNumber(input, "file_path")
    BY <1>2, <1>4 DEF HasNumber
  <1>6. HasNumber(input, "offset") <=> HasNumber(call, "start_line")
    BY <1>2, <1>4, NullAssumption DEF HasNumber
  <1>7. HasNumber(input, "limit") <=> AsksLines(call)
    BY <1>3, <1>4, NullAssumption DEF HasNumber
  <1>8. DOMAIN input \subseteq {"file_path", "offset", "limit"}
    BY <1>4
  <1>9. /\ DOMAIN replay = {"path", "explanation"}
                           \cup (IF HasNumber(input, "offset") THEN {"start_line"} ELSE {})
                           \cup (IF HasNumber(input, "limit") THEN {"end_line"} ELSE {})
        /\ replay["path"] = input["file_path"] /\ replay["explanation"] = Explained
        /\ HasNumber(input, "offset") => replay["start_line"] = input["offset"]
        /\ HasNumber(input, "limit") =>
              replay["end_line"] = IF HasNumber(input, "offset")
                                   THEN input["offset"] + input["limit"] - 1 ELSE input["limit"]
    BY <1>5, <1>8, ReadOutput
  <1>10. HasNumber(replay, "path")
    BY <1>2, <1>4, <1>9 DEF HasNumber
  <1>11. /\ HasNumber(replay, "start_line") <=> HasNumber(call, "start_line")
         /\ HasNumber(call, "start_line") => replay["start_line"] = call["start_line"]
    BY <1>4, <1>6, <1>9 DEF HasNumber
  <1>12. AsksLines(call) => replay["end_line"] = call["end_line"] /\ replay["end_line"] \in Int
    <2> SUFFICES ASSUME AsksLines(call)
                 PROVE  replay["end_line"] = call["end_line"] /\ replay["end_line"] \in Int
      OBVIOUS
    <2>1. input["limit"] = LinesOf(call) /\ call["end_line"] \in Int
      BY <1>2, <1>3, <1>4
    <2>2. replay["end_line"] = IF HasNumber(call, "start_line")
                               THEN call["start_line"] + LinesOf(call) - 1 ELSE LinesOf(call)
      BY <1>4, <1>6, <1>7, <1>9, <2>1
    <2> QED
      BY <1>2, <2>1, <2>2 DEF LinesOf
  <1>13. HasNumber(replay, "end_line") <=> AsksLines(call)
    BY <1>7, <1>9, <1>12, NullAssumption DEF HasNumber
  <1>14. AsksLines(replay) <=> AsksLines(call)
    BY <1>11, <1>12, <1>13 DEF AsksLines, LinesOf
  <1>15. AsksLines(call) => LinesOf(replay) = LinesOf(call)
    BY <1>11, <1>12 DEF LinesOf
  <1>16. DOMAIN replay \subseteq Required["read_file"] \cup Optional["read_file"]
    BY <1>1, <1>9
  <1> DEFINE again == InputFromKiro("read_file", replay)
  <1>17. /\ DOMAIN again = {"file_path"} \cup (IF HasNumber(replay, "start_line") THEN {"offset"} ELSE {})
                           \cup (IF AsksLines(replay) THEN {"limit"} ELSE {})
         /\ again["file_path"] = replay["path"]
         /\ HasNumber(replay, "start_line") => again["offset"] = replay["start_line"]
         /\ AsksLines(replay) => again["limit"] = LinesOf(replay)
         /\ again = [k \in DOMAIN again |-> again[k]]
    BY <1>10, <1>16, ReadInput
  <1> HIDE DEF again
  <1>18. DOMAIN again = DOMAIN input
    BY <1>4, <1>11, <1>14, <1>17
  <1>19. \A k \in DOMAIN input : again[k] = input[k]
    <2>1. again["file_path"] = input["file_path"]
      BY <1>4, <1>9, <1>17
    <2>2. HasNumber(call, "start_line") => again["offset"] = input["offset"]
      BY <1>4, <1>11, <1>17
    <2>3. AsksLines(call) => again["limit"] = input["limit"]
      BY <1>4, <1>14, <1>15, <1>17
    <2> QED
      BY <1>4, <2>1, <2>2, <2>3
  <1>20. again = input
    BY <1>4, <1>17, <1>18, <1>19
  <1>21. FitsSchema("read_file", replay)
    BY <1>1, <1>9, <1>10, <1>16, NullAssumption DEF FitsSchema, HasNumber
  <1> QED
    BY <1>20, <1>21 DEF again

-----------------------------------------------------------------------------
(* What the folds of the converter return: nothing, one more element, and    *)
(* everything they keep.                                                     *)

OneName(acc, n) == IF \E i \in DOMAIN acc : Lower(acc[i]) = Lower(n) THEN acc ELSE Append(acc, n)

OneMet(acc, u) == IF Contains(acc, u.x) THEN acc ELSE Append(acc, u.x)

Met(uses) == FoldLeft(LAMBDA acc, u : IF Contains(acc, u.x) THEN acc ELSE Append(acc, u.x), <<>>, uses)

NoHistory(mode) ==
    [history |-> <<>>, users |-> <<>>, assistants |-> <<>>, seen |-> {}, mode |-> mode]

HistoryOf(ms, mode) == FoldLeft(HistoryStep, NoHistory(mode), ms)

LEMMA NamesIs ==
    ASSUME NEW U, NEW V,
           <<>> \in V, \A v \in V, x \in U : OneName(v, x) \in V
    PROVE  /\ FirstOfEachName(<<>>) = <<>>
           /\ \A s \in Seq(U) : FirstOfEachName(s) \in V
           /\ \A s \in Seq(U), x \in U : FirstOfEachName(Append(s, x)) = OneName(FirstOfEachName(s), x)
  <1> DEFINE next == [p \in V \X U |-> OneName(p[1], p[2])]
             base == <<>>
  <1>1. \A v \in V, x \in U : next[<<v, x>>] = OneName(v, x)
    OBVIOUS
  <1>2. next \in [V \X U -> V]
    <2>1. \A p \in V \X U : p[1] \in V /\ p[2] \in U
      OBVIOUS
    <2>2. \A p \in V \X U : OneName(p[1], p[2]) \in V
      BY <2>1
    <2> QED
      BY <2>2
  <1>3. base \in V
    OBVIOUS
  <1> HIDE DEF next
  <1>4. ASSUME NEW s \in Seq(U) PROVE Folded(next, base, s, FirstOfEachName(s))
    <2> DEFINE iter[S \in SUBSET (DOMAIN s)] ==
                   IF S = {} THEN base ELSE OneName(iter[S \ {Max(S)}], s[Max(S)])
    <2>1. FirstOfEachName(s) = iter[DOMAIN s]
      BY DEF FirstOfEachName, OneName, FoldLeft, MapThenFoldSet
    <2> HIDE DEF base
    <2>3. /\ Len(s) \in Nat /\ DOMAIN s = 1 .. Len(s)
          /\ \A S \in SUBSET (DOMAIN s) : S # {} =>
                Max(S) \in DOMAIN s /\ s[Max(S)] \in U /\ S \ {Max(S)} \in SUBSET (DOMAIN s)
      <3>1. Len(s) \in Nat /\ DOMAIN s = 1 .. Len(s) /\ \A k \in DOMAIN s : s[k] \in U
        BY LenProperties, ElementOfSeq
      <3>2. \A S \in SUBSET (DOMAIN s) : S # {} => Max(S) \in DOMAIN s
        BY <3>1, MaxUpTo
      <3> QED
        BY <3>1, <3>2
    <2>4. PICK f \in [SUBSET (DOMAIN s) -> V] : Iterates(f, next, base, s)
      BY <1>2, <1>3, IteratesExists
    <2>5. f = [S \in SUBSET (DOMAIN s) |->
                 IF S = {} THEN base ELSE OneName(f[S \ {Max(S)}], s[Max(S)])]
      <3>1. ASSUME NEW S \in SUBSET (DOMAIN s)
            PROVE  (IF S = {} THEN base ELSE next[<<f[S \ {Max(S)}], s[Max(S)]>>])
                     = IF S = {} THEN base ELSE OneName(f[S \ {Max(S)}], s[Max(S)])
        BY <1>1, <2>3
      <3> QED
        BY <2>4, <3>1 DEF Iterates
    <2>6. iter = [S \in SUBSET (DOMAIN s) |->
                    IF S = {} THEN base ELSE OneName(iter[S \ {Max(S)}], s[Max(S)])]
      BY <2>5
    <2> HIDE DEF iter
    <2> DEFINE W == V \cup {iter[S] : S \in SUBSET (DOMAIN s)}
               other == [p \in W \X U |-> OneName(p[1], p[2])]
    <2>7. Agree(other, next, V, U)
      BY <1>1 DEF Agree
    <2>8. Iterates(iter, other, base, s)
      <3>1. ASSUME NEW S \in SUBSET (DOMAIN s)
            PROVE  (IF S = {} THEN base ELSE OneName(iter[S \ {Max(S)}], s[Max(S)]))
                     = IF S = {} THEN base ELSE other[<<iter[S \ {Max(S)}], s[Max(S)]>>]
        <4>1. CASE S # {}
          <5>1. iter[S \ {Max(S)}] \in W /\ s[Max(S)] \in U
            BY <2>3, <4>1
          <5> HIDE DEF W
          <5> QED
            BY <4>1, <5>1
        <4> QED
          BY <4>1
      <3> HIDE DEF other
      <3> QED
        BY <2>6, <3>1 DEF Iterates
    <2> HIDE DEF other
    <2>9. Folded(other, base, s, iter[DOMAIN s])
      BY <2>8, IteratesFolded
    <2>10. Folded(next, base, s, iter[DOMAIN s])
      BY <1>2, <1>3, <2>7, <2>9, FoldedSame
    <2> QED
      BY <2>1, <2>10
  <1>5. FirstOfEachName(<<>>) = <<>>
    <2>1. Folded(next, base, <<>>, FirstOfEachName(<<>>))
      <3>1. <<>> \in Seq(U)
        BY EmptySeq
      <3> QED
        BY <1>4, <3>1
    <2> QED
      BY <2>1, FoldedEmpty
  <1> HIDE DEF base
  <1>6. \A s \in Seq(U) : FirstOfEachName(s) \in V
    BY <1>2, <1>3, <1>4, FoldedIn
  <1>7. ASSUME NEW s \in Seq(U), NEW x \in U
        PROVE  FirstOfEachName(Append(s, x)) = OneName(FirstOfEachName(s), x)
    <2>1. Append(s, x) \in Seq(U)
      BY AppendProperties
    <2>2. Folded(next, base, s, FirstOfEachName(s)) /\ Folded(next, base, Append(s, x), FirstOfEachName(Append(s, x)))
      BY <1>4, <2>1
    <2>3. FirstOfEachName(Append(s, x)) = next[<<FirstOfEachName(s), x>>]
      BY <2>2, FoldedAppend, Zenon
    <2> QED
      BY <1>1, <1>6, <2>3
  <1> QED
    BY <1>5, <1>6, <1>7

LEMMA MetIs ==
    ASSUME NEW U, NEW V,
           <<>> \in V, \A v \in V, x \in U : OneMet(v, x) \in V
    PROVE  /\ Met(<<>>) = <<>>
           /\ \A s \in Seq(U) : Met(s) \in V
           /\ \A s \in Seq(U), x \in U : Met(Append(s, x)) = OneMet(Met(s), x)
  <1> DEFINE next == [p \in V \X U |-> OneMet(p[1], p[2])]
             base == <<>>
  <1>1. \A v \in V, x \in U : next[<<v, x>>] = OneMet(v, x)
    OBVIOUS
  <1>2. next \in [V \X U -> V]
    <2>1. \A p \in V \X U : p[1] \in V /\ p[2] \in U
      OBVIOUS
    <2>2. \A p \in V \X U : OneMet(p[1], p[2]) \in V
      BY <2>1
    <2> QED
      BY <2>2
  <1>3. base \in V
    OBVIOUS
  <1> HIDE DEF next
  <1>4. ASSUME NEW s \in Seq(U) PROVE Folded(next, base, s, Met(s))
    <2> DEFINE iter[S \in SUBSET (DOMAIN s)] ==
                   IF S = {} THEN base ELSE OneMet(iter[S \ {Max(S)}], s[Max(S)])
    <2>1. Met(s) = iter[DOMAIN s]
      BY DEF Met, OneMet, FoldLeft, MapThenFoldSet
    <2> HIDE DEF base
    <2>3. /\ Len(s) \in Nat /\ DOMAIN s = 1 .. Len(s)
          /\ \A S \in SUBSET (DOMAIN s) : S # {} =>
                Max(S) \in DOMAIN s /\ s[Max(S)] \in U /\ S \ {Max(S)} \in SUBSET (DOMAIN s)
      <3>1. Len(s) \in Nat /\ DOMAIN s = 1 .. Len(s) /\ \A k \in DOMAIN s : s[k] \in U
        BY LenProperties, ElementOfSeq
      <3>2. \A S \in SUBSET (DOMAIN s) : S # {} => Max(S) \in DOMAIN s
        BY <3>1, MaxUpTo
      <3> QED
        BY <3>1, <3>2
    <2>4. PICK f \in [SUBSET (DOMAIN s) -> V] : Iterates(f, next, base, s)
      BY <1>2, <1>3, IteratesExists
    <2>5. f = [S \in SUBSET (DOMAIN s) |->
                 IF S = {} THEN base ELSE OneMet(f[S \ {Max(S)}], s[Max(S)])]
      <3>1. ASSUME NEW S \in SUBSET (DOMAIN s)
            PROVE  (IF S = {} THEN base ELSE next[<<f[S \ {Max(S)}], s[Max(S)]>>])
                     = IF S = {} THEN base ELSE OneMet(f[S \ {Max(S)}], s[Max(S)])
        BY <1>1, <2>3
      <3> QED
        BY <2>4, <3>1 DEF Iterates
    <2>6. iter = [S \in SUBSET (DOMAIN s) |->
                    IF S = {} THEN base ELSE OneMet(iter[S \ {Max(S)}], s[Max(S)])]
      BY <2>5
    <2> HIDE DEF iter
    <2> DEFINE W == V \cup {iter[S] : S \in SUBSET (DOMAIN s)}
               other == [p \in W \X U |-> OneMet(p[1], p[2])]
    <2>7. Agree(other, next, V, U)
      BY <1>1 DEF Agree
    <2>8. Iterates(iter, other, base, s)
      <3>1. ASSUME NEW S \in SUBSET (DOMAIN s)
            PROVE  (IF S = {} THEN base ELSE OneMet(iter[S \ {Max(S)}], s[Max(S)]))
                     = IF S = {} THEN base ELSE other[<<iter[S \ {Max(S)}], s[Max(S)]>>]
        <4>1. CASE S # {}
          <5>1. iter[S \ {Max(S)}] \in W /\ s[Max(S)] \in U
            BY <2>3, <4>1
          <5> HIDE DEF W
          <5> QED
            BY <4>1, <5>1
        <4> QED
          BY <4>1
      <3> HIDE DEF other
      <3> QED
        BY <2>6, <3>1 DEF Iterates
    <2> HIDE DEF other
    <2>9. Folded(other, base, s, iter[DOMAIN s])
      BY <2>8, IteratesFolded
    <2>10. Folded(next, base, s, iter[DOMAIN s])
      BY <1>2, <1>3, <2>7, <2>9, FoldedSame
    <2> QED
      BY <2>1, <2>10
  <1>5. Met(<<>>) = <<>>
    <2>1. Folded(next, base, <<>>, Met(<<>>))
      <3>1. <<>> \in Seq(U)
        BY EmptySeq
      <3> QED
        BY <1>4, <3>1
    <2> QED
      BY <2>1, FoldedEmpty
  <1> HIDE DEF base
  <1>6. \A s \in Seq(U) : Met(s) \in V
    BY <1>2, <1>3, <1>4, FoldedIn
  <1>7. ASSUME NEW s \in Seq(U), NEW x \in U
        PROVE  Met(Append(s, x)) = OneMet(Met(s), x)
    <2>1. Append(s, x) \in Seq(U)
      BY AppendProperties
    <2>2. Folded(next, base, s, Met(s)) /\ Folded(next, base, Append(s, x), Met(Append(s, x)))
      BY <1>4, <2>1
    <2>3. Met(Append(s, x)) = next[<<Met(s), x>>]
      BY <2>2, FoldedAppend, Zenon
    <2> QED
      BY <1>1, <1>6, <2>3
  <1> QED
    BY <1>5, <1>6, <1>7

LEMMA HistoryIs ==
    ASSUME NEW U, NEW V, NEW mode,
           NoHistory(mode) \in V, \A v \in V, x \in U : HistoryStep(v, x) \in V
    PROVE  /\ HistoryOf(<<>>, mode) = NoHistory(mode)
           /\ \A s \in Seq(U) : HistoryOf(s, mode) \in V
           /\ \A s \in Seq(U), x \in U : HistoryOf(Append(s, x), mode) = HistoryStep(HistoryOf(s, mode), x)
  <1> DEFINE next == [p \in V \X U |-> HistoryStep(p[1], p[2])]
             base == NoHistory(mode)
  <1>1. \A v \in V, x \in U : next[<<v, x>>] = HistoryStep(v, x)
    OBVIOUS
  <1>2. next \in [V \X U -> V]
    <2>1. \A p \in V \X U : p[1] \in V /\ p[2] \in U
      OBVIOUS
    <2>2. \A p \in V \X U : HistoryStep(p[1], p[2]) \in V
      BY <2>1
    <2> QED
      BY <2>2
  <1>3. base \in V
    OBVIOUS
  <1> HIDE DEF next
  <1>4. ASSUME NEW s \in Seq(U) PROVE Folded(next, base, s, HistoryOf(s, mode))
    <2> DEFINE iter[S \in SUBSET (DOMAIN s)] ==
                   IF S = {} THEN base ELSE HistoryStep(iter[S \ {Max(S)}], s[Max(S)])
    <2>1. HistoryOf(s, mode) = iter[DOMAIN s]
      BY DEF HistoryOf, NoHistory, FoldLeft, MapThenFoldSet
    <2> HIDE DEF base
    <2>3. /\ Len(s) \in Nat /\ DOMAIN s = 1 .. Len(s)
          /\ \A S \in SUBSET (DOMAIN s) : S # {} =>
                Max(S) \in DOMAIN s /\ s[Max(S)] \in U /\ S \ {Max(S)} \in SUBSET (DOMAIN s)
      <3>1. Len(s) \in Nat /\ DOMAIN s = 1 .. Len(s) /\ \A k \in DOMAIN s : s[k] \in U
        BY LenProperties, ElementOfSeq
      <3>2. \A S \in SUBSET (DOMAIN s) : S # {} => Max(S) \in DOMAIN s
        BY <3>1, MaxUpTo
      <3> QED
        BY <3>1, <3>2
    <2>4. PICK f \in [SUBSET (DOMAIN s) -> V] : Iterates(f, next, base, s)
      BY <1>2, <1>3, IteratesExists
    <2>5. f = [S \in SUBSET (DOMAIN s) |->
                 IF S = {} THEN base ELSE HistoryStep(f[S \ {Max(S)}], s[Max(S)])]
      <3>1. ASSUME NEW S \in SUBSET (DOMAIN s)
            PROVE  (IF S = {} THEN base ELSE next[<<f[S \ {Max(S)}], s[Max(S)]>>])
                     = IF S = {} THEN base ELSE HistoryStep(f[S \ {Max(S)}], s[Max(S)])
        BY <1>1, <2>3
      <3> QED
        BY <2>4, <3>1 DEF Iterates
    <2>6. iter = [S \in SUBSET (DOMAIN s) |->
                    IF S = {} THEN base ELSE HistoryStep(iter[S \ {Max(S)}], s[Max(S)])]
      BY <2>5
    <2> HIDE DEF iter
    <2> DEFINE W == V \cup {iter[S] : S \in SUBSET (DOMAIN s)}
               other == [p \in W \X U |-> HistoryStep(p[1], p[2])]
    <2>7. Agree(other, next, V, U)
      BY <1>1 DEF Agree
    <2>8. Iterates(iter, other, base, s)
      <3>1. ASSUME NEW S \in SUBSET (DOMAIN s)
            PROVE  (IF S = {} THEN base ELSE HistoryStep(iter[S \ {Max(S)}], s[Max(S)]))
                     = IF S = {} THEN base ELSE other[<<iter[S \ {Max(S)}], s[Max(S)]>>]
        <4>1. CASE S # {}
          <5>1. iter[S \ {Max(S)}] \in W /\ s[Max(S)] \in U
            BY <2>3, <4>1
          <5> HIDE DEF W
          <5> QED
            BY <4>1, <5>1
        <4> QED
          BY <4>1
      <3> HIDE DEF other
      <3> QED
        BY <2>6, <3>1 DEF Iterates
    <2> HIDE DEF other
    <2>9. Folded(other, base, s, iter[DOMAIN s])
      BY <2>8, IteratesFolded
    <2>10. Folded(next, base, s, iter[DOMAIN s])
      BY <1>2, <1>3, <2>7, <2>9, FoldedSame
    <2> QED
      BY <2>1, <2>10
  <1>5. HistoryOf(<<>>, mode) = NoHistory(mode)
    <2>1. Folded(next, base, <<>>, HistoryOf(<<>>, mode))
      <3>1. <<>> \in Seq(U)
        BY EmptySeq
      <3> QED
        BY <1>4, <3>1
    <2> QED
      BY <2>1, FoldedEmpty
  <1> HIDE DEF base
  <1>6. \A s \in Seq(U) : HistoryOf(s, mode) \in V
    BY <1>2, <1>3, <1>4, FoldedIn
  <1>7. ASSUME NEW s \in Seq(U), NEW x \in U
        PROVE  HistoryOf(Append(s, x), mode) = HistoryStep(HistoryOf(s, mode), x)
    <2>1. Append(s, x) \in Seq(U)
      BY AppendProperties
    <2>2. Folded(next, base, s, HistoryOf(s, mode)) /\ Folded(next, base, Append(s, x), HistoryOf(Append(s, x), mode))
      BY <1>4, <2>1
    <2>3. HistoryOf(Append(s, x), mode) = next[<<HistoryOf(s, mode), x>>]
      BY <2>2, FoldedAppend, Zenon
    <2> QED
      BY <1>1, <1>6, <2>3
  <1> QED
    BY <1>5, <1>6, <1>7

-----------------------------------------------------------------------------
(* The tools a client declares are shown under their Kiro names, and a Kiro  *)
(* name is given back as one of the names that were mapped to it (NameBack). *)

(* A name given back.                                                        *)
LEMMA NameBack ==
    ASSUME NEW D, NEW mode, NEW d \in D, NEW t, t = ToKiroName(d, mode),
           NEW call, NEW client, client = RestoreToolUse(t, call, NameMap(D, mode)).name
    PROVE  client \in D /\ ToKiroName(client, mode) = t
  <1> DEFINE changed == {n \in D : ToKiroName(n, mode) # n}
             nm == NameMap(D, mode)
  <1>1. nm = [k \in {ToKiroName(n, mode) : n \in changed} |->
                 CHOOSE n \in changed : ToKiroName(n, mode) = k]
    BY DEF NameMap
  <1>2. client = IF t \in DOMAIN nm THEN nm[t] ELSE t
    BY DEF RestoreToolUse
  <1> HIDE DEF nm
  <1>3. CASE t \in DOMAIN nm
    <2>1. \E n \in changed : ToKiroName(n, mode) = t
      BY <1>1, <1>3
    <2>2. client = CHOOSE n \in changed : ToKiroName(n, mode) = t
      BY <1>1, <1>2, <1>3
    <2>3. client \in changed /\ ToKiroName(client, mode) = t
      BY <2>1, <2>2
    <2> QED
      BY <2>3
  <1>4. CASE t \notin DOMAIN nm
    <2>1. d \notin changed
      BY <1>1, <1>4
    <2>2. t = d
      BY <2>1
    <2> QED
      BY <1>2, <1>4, <2>2
  <1> QED
    BY <1>3, <1>4

(* The tools shown are declared ones, under Kiro's names.                    *)
LEMMA ShownTools ==
    ASSUME NEW offered, IsList(offered), NEW mode
    PROVE  LET c == ConvertTools(offered, mode)
           IN  IsList(c) /\ \A x \in ToSet(c) : \E d \in ToSet(offered) : x = ToKiroName(d, mode)
  <1> DEFINE hidden == IF mode = "ClaudeCode" THEN {"fs_append"} ELSE {}
             W == ToSet(offered) \ hidden
             shown == Those(offered, W)
             names == [i \in DOMAIN shown |-> ToKiroName(shown[i], mode)]
             U == {ToKiroName(d, mode) : d \in ToSet(offered)}
  <1>1. ConvertTools(offered, mode) = FirstOfEachName(names)
    BY DEF ConvertTools
  <1> HIDE DEF W
  <1>2. offered \in Seq(ToSet(offered))
    BY DEF IsList
  <1>3. shown \in Seq(ToSet(offered))
    BY <1>2, ThoseIs
  <1> HIDE DEF shown
  <1>4. Len(shown) \in Nat /\ DOMAIN shown = 1 .. Len(shown) /\ \A i \in DOMAIN shown : shown[i] \in ToSet(offered)
    BY <1>3, LenProperties, ElementOfSeq
  <1>5. names \in Seq(U)
    <2>1. DOMAIN names = 1 .. Len(shown) /\ names = [k \in 1 .. Len(shown) |-> names[k]]
      BY <1>4
    <2>2. \A k \in 1 .. Len(shown) : names[k] \in U
      BY <1>4
    <2> HIDE DEF names, U
    <2> QED
      BY <1>4, <2>1, <2>2, PlacesIn
  <1> HIDE DEF names
  <1>6. FirstOfEachName(names) \in Seq(U)
    <2>1. <<>> \in Seq(U) /\ \A v \in Seq(U), x \in U : OneName(v, x) \in Seq(U)
      BY AppendProperties, EmptySeq DEF OneName
    <2> HIDE DEF U
    <2> QED
      BY <1>5, <2>1, NamesIs
  <1>7. IsList(FirstOfEachName(names)) /\ ToSet(FirstOfEachName(names)) \in SUBSET U
    BY <1>6, SeqIsList
  <1> QED
    BY <1>1, <1>7

\* One step of FirstOfEachId, and what it says of the whole.
OneId(acc, u) == IF \E i \in DOMAIN acc : acc[i].v = u.v THEN acc ELSE Append(acc, u)

LEMMA IdsIs ==
    ASSUME NEW U, NEW V,
           <<>> \in V, \A v \in V, x \in U : OneId(v, x) \in V
    PROVE  /\ FirstOfEachId(<<>>) = <<>>
           /\ \A s \in Seq(U) : FirstOfEachId(s) \in V
           /\ \A s \in Seq(U), x \in U : FirstOfEachId(Append(s, x)) = OneId(FirstOfEachId(s), x)
  <1> DEFINE next == [p \in V \X U |-> OneId(p[1], p[2])]
             base == <<>>
  <1>1. \A v \in V, x \in U : next[<<v, x>>] = OneId(v, x)
    OBVIOUS
  <1>2. next \in [V \X U -> V]
    <2>1. \A p \in V \X U : p[1] \in V /\ p[2] \in U
      OBVIOUS
    <2>2. \A p \in V \X U : OneId(p[1], p[2]) \in V
      BY <2>1
    <2> QED
      BY <2>2
  <1>3. base \in V
    OBVIOUS
  <1> HIDE DEF next
  <1>4. ASSUME NEW s \in Seq(U) PROVE Folded(next, base, s, FirstOfEachId(s))
    <2> DEFINE iter[S \in SUBSET (DOMAIN s)] ==
                   IF S = {} THEN base ELSE OneId(iter[S \ {Max(S)}], s[Max(S)])
    <2>1. FirstOfEachId(s) = iter[DOMAIN s]
      BY DEF FirstOfEachId, OneId, FoldLeft, MapThenFoldSet
    <2> HIDE DEF base
    <2>3. /\ Len(s) \in Nat /\ DOMAIN s = 1 .. Len(s)
          /\ \A S \in SUBSET (DOMAIN s) : S # {} =>
                Max(S) \in DOMAIN s /\ s[Max(S)] \in U /\ S \ {Max(S)} \in SUBSET (DOMAIN s)
      <3>1. Len(s) \in Nat /\ DOMAIN s = 1 .. Len(s) /\ \A k \in DOMAIN s : s[k] \in U
        BY LenProperties, ElementOfSeq
      <3>2. \A S \in SUBSET (DOMAIN s) : S # {} => Max(S) \in DOMAIN s
        BY <3>1, MaxUpTo
      <3> QED
        BY <3>1, <3>2
    <2>4. PICK f \in [SUBSET (DOMAIN s) -> V] : Iterates(f, next, base, s)
      BY <1>2, <1>3, IteratesExists
    <2>5. f = [S \in SUBSET (DOMAIN s) |->
                 IF S = {} THEN base ELSE OneId(f[S \ {Max(S)}], s[Max(S)])]
      <3>1. ASSUME NEW S \in SUBSET (DOMAIN s)
            PROVE  (IF S = {} THEN base ELSE next[<<f[S \ {Max(S)}], s[Max(S)]>>])
                     = IF S = {} THEN base ELSE OneId(f[S \ {Max(S)}], s[Max(S)])
        BY <1>1, <2>3
      <3> QED
        BY <2>4, <3>1 DEF Iterates
    <2>6. iter = [S \in SUBSET (DOMAIN s) |->
                    IF S = {} THEN base ELSE OneId(iter[S \ {Max(S)}], s[Max(S)])]
      BY <2>5
    <2> HIDE DEF iter
    <2> DEFINE W == V \cup {iter[S] : S \in SUBSET (DOMAIN s)}
               other == [p \in W \X U |-> OneId(p[1], p[2])]
    <2>7. Agree(other, next, V, U)
      BY <1>1 DEF Agree
    <2>8. Iterates(iter, other, base, s)
      <3>1. ASSUME NEW S \in SUBSET (DOMAIN s)
            PROVE  (IF S = {} THEN base ELSE OneId(iter[S \ {Max(S)}], s[Max(S)]))
                     = IF S = {} THEN base ELSE other[<<iter[S \ {Max(S)}], s[Max(S)]>>]
        <4>1. CASE S # {}
          <5>1. iter[S \ {Max(S)}] \in W /\ s[Max(S)] \in U
            BY <2>3, <4>1
          <5> HIDE DEF W
          <5> QED
            BY <4>1, <5>1
        <4> QED
          BY <4>1
      <3> HIDE DEF other
      <3> QED
        BY <2>6, <3>1 DEF Iterates
    <2> HIDE DEF other
    <2>9. Folded(other, base, s, iter[DOMAIN s])
      BY <2>8, IteratesFolded
    <2>10. Folded(next, base, s, iter[DOMAIN s])
      BY <1>2, <1>3, <2>7, <2>9, FoldedSame
    <2> QED
      BY <2>1, <2>10
  <1>5. FirstOfEachId(<<>>) = <<>>
    <2>1. Folded(next, base, <<>>, FirstOfEachId(<<>>))
      <3>1. <<>> \in Seq(U)
        BY EmptySeq
      <3> QED
        BY <1>4, <3>1
    <2> QED
      BY <2>1, FoldedEmpty
  <1> HIDE DEF base
  <1>6. \A s \in Seq(U) : FirstOfEachId(s) \in V
    BY <1>2, <1>3, <1>4, FoldedIn
  <1>7. ASSUME NEW s \in Seq(U), NEW x \in U
        PROVE  FirstOfEachId(Append(s, x)) = OneId(FirstOfEachId(s), x)
    <2>1. Append(s, x) \in Seq(U)
      BY AppendProperties
    <2>2. Folded(next, base, s, FirstOfEachId(s)) /\ Folded(next, base, Append(s, x), FirstOfEachId(Append(s, x)))
      BY <1>4, <2>1
    <2>3. FirstOfEachId(Append(s, x)) = next[<<FirstOfEachId(s), x>>]
      BY <2>2, FoldedAppend, Zenon
    <2> QED
      BY <1>1, <1>6, <2>3
  <1> QED
    BY <1>5, <1>6, <1>7

-----------------------------------------------------------------------------
(* What a request shows of tools: those declared, and those its messages     *)
(* have called, under their Kiro names (ToolsShown).                         *)

IsBlock(b) == b = [k |-> b.k, v |-> b.v, x |-> b.x]

IsMessage(m) == IsList(m.blocks) /\ \A b \in ToSet(m.blocks) : IsBlock(b)

\* The calls in the messages of a set, and as the upstream sees them.
CallsOf(U) == UNION {{b \in ToSet(m.blocks) : b.k = "tool_use"} : m \in U}

KiroCalls(U, mode) == {[b EXCEPT !.x = ToKiroName(b.x, mode)] : b \in CallsOf(U)}

LEMMA UsedIs ==
    ASSUME NEW ms, IsList(ms)
    PROVE  Used(ms) = {b.x : b \in CallsOf(ToSet(ms))}
  <1>1. ToSet(ms) = {ms[i] : i \in DOMAIN ms}
    BY DEF ToSet
  <1> QED
    BY <1>1 DEF Used, CallsOf

LEMMA Converted ==
    ASSUME NEW U, NEW mode, NEW m \in U, IsMessage(m)
    PROVE  ConvertAssistant(m, mode).uses \in Seq(KiroCalls(U, mode))
  <1> DEFINE o == OfKind(m.blocks, "tool_use")
             uses == [i \in DOMAIN o |-> [o[i] EXCEPT !.x = ToKiroName(o[i].x, mode)]]
             T == {b \in ToSet(m.blocks) : b.k = "tool_use"}
             K == KiroCalls(U, mode)
  <1>1. ConvertAssistant(m, mode).uses = uses
    BY DEF ConvertAssistant, KiroMessage
  <1>2. o = Those(m.blocks, T)
    BY DEF OfKind
  <1>3. m.blocks \in Seq(ToSet(m.blocks))
    BY DEF IsMessage, IsList
  <1>4. T \in SUBSET ToSet(m.blocks) /\ \A b \in T : b \in CallsOf(U)
    BY DEF CallsOf
  <1> HIDE DEF o, T
  <1>5. o \in Seq(ToSet(m.blocks)) /\ ToSet(o) = ToSet(m.blocks) \cap T
    BY <1>2, <1>3, ThoseIs, ThoseRange
  <1>6. IsList(o) /\ ToSet(o) \in SUBSET CallsOf(U)
    BY <1>4, <1>5, SeqIsList
  <1>7. Len(o) \in Nat /\ DOMAIN o = 1 .. Len(o) /\ \A i \in 1 .. Len(o) : o[i] \in CallsOf(U)
    BY <1>6, ListIsSeq
  <1>8. \A i \in 1 .. Len(o) : uses[i] \in K
    BY <1>7 DEF KiroCalls
  <1>9. DOMAIN uses = 1 .. Len(o) /\ uses = [i \in 1 .. Len(o) |-> uses[i]]
    BY <1>7
  <1> HIDE DEF uses, K
  <1>10. uses \in Seq(K)
    BY <1>7, <1>8, <1>9, PlacesIn
  <1> QED
    BY <1>1, <1>10 DEF K

LEMMA Merged ==
    ASSUME NEW U, \A m \in U : IsMessage(m), NEW mode, NEW s \in Seq(U)
    PROVE  MergeAssistants(s, mode).uses \in Seq(KiroCalls(U, mode))
  <1> DEFINE K == KiroCalls(U, mode)
             all == [i \in DOMAIN s |-> ConvertAssistant(s[i], mode)]
             each == [i \in DOMAIN all |-> all[i].uses]
  <1>1. Len(s) \in Nat /\ DOMAIN s = 1 .. Len(s) /\ \A i \in DOMAIN s : s[i] \in U
    BY LenProperties, ElementOfSeq
  <1>2. \A i \in DOMAIN s : ConvertAssistant(s[i], mode).uses \in Seq(K)
    BY <1>1, Converted
  <1>3. CASE Len(s) = 1
    BY <1>1, <1>2, <1>3 DEF MergeAssistants
  <1>4. CASE Len(s) # 1
    <2>1. DOMAIN each = 1 .. Len(s) /\ each = [i \in 1 .. Len(s) |-> each[i]]
      BY <1>1
    <2>2. \A i \in 1 .. Len(s) : each[i] \in Seq(K)
      BY <1>1, <1>2
    <2>3. MergeAssistants(s, mode).uses = FirstOfEachId(FlattenSeq(each))
      BY <1>4 DEF MergeAssistants, JoinAssistants, KiroMessage
    <2> HIDE DEF each, K
    <2>4. each \in Seq(Seq(K))
      <3> DEFINE W == Seq(K)
      <3>1. \A i \in 1 .. Len(s) : each[i] \in W
        BY <2>2
      <3> HIDE DEF W
      <3>2. each \in Seq(W)
        BY <1>1, <2>1, <3>1, PlacesIn
      <3> QED
        BY <3>2 DEF W
    <2>5. FlattenSeq(each) \in Seq(K)
      BY <2>4, FlattenIs
    <2>6. \A q \in Seq(K) : FirstOfEachId(q) \in Seq(K)
      <3> DEFINE V == Seq(K)
      <3>1. <<>> \in V /\ \A v \in V, x \in K : OneId(v, x) \in V
        BY AppendProperties, EmptySeq DEF OneId
      <3> HIDE DEF V
      <3>2. \A q \in Seq(K) : FirstOfEachId(q) \in V
        BY <3>1, IdsIs
      <3> QED
        BY <3>2 DEF V
    <2> QED
      BY <2>3, <2>5, <2>6 DEF K
  <1> QED
    BY <1>3, <1>4

\* A message of the Kiro request that calls nothing but calls in K.
CallsOnly(m, K) == "uses" \in DOMAIN m /\ m.uses \in Seq(K)

\* The strings in the messages of a set, digests among them.
StringsOf(U) == UNION {{b.x : b \in ToSet(m.blocks)} : m \in U}

\* The messages a history can have that is made of messages in U.
HistoryMessages(U, mode) ==
    {MergeUsers(s, seen) : s \in Seq(U), seen \in SUBSET StringsOf(U)}
    \cup {MergeAssistants(s, mode) : s \in Seq(U)}
    \cup {KiroMessage("assistant", <<Note("OK")>>, <<>>, <<>>, <<>>)}

LEMMA HistoryCalls ==
    ASSUME NEW U, \A m \in U : IsMessage(m), NEW mode, NEW m \in HistoryMessages(U, mode)
    PROVE  CallsOnly(m, KiroCalls(U, mode))
  <1>1. ASSUME NEW role, NEW a, NEW b, NEW c, NEW uses, m = KiroMessage(role, a, b, c, uses)
        PROVE  "uses" \in DOMAIN m /\ m.uses = uses
    BY <1>1 DEF KiroMessage
  <1>2. CASE \E s \in Seq(U), seen \in SUBSET StringsOf(U) : m = MergeUsers(s, seen)
    <2>1. "uses" \in DOMAIN m /\ m.uses = <<>>
      BY <1>2 DEF MergeUsers, KiroMessage
    <2> QED
      BY <2>1, EmptySeq DEF CallsOnly
  <1>3. CASE \E s \in Seq(U) : m = MergeAssistants(s, mode)
    <2>1. PICK s \in Seq(U) : m = MergeAssistants(s, mode)
      BY <1>3
    <2>2. m.uses \in Seq(KiroCalls(U, mode))
      BY <2>1, Merged
    <2>3. "uses" \in DOMAIN m
      BY <2>1 DEF MergeAssistants, ConvertAssistant, JoinAssistants, KiroMessage
    <2> QED
      BY <2>2, <2>3 DEF CallsOnly
  <1>4. CASE m = KiroMessage("assistant", <<Note("OK")>>, <<>>, <<>>, <<>>)
    <2>1. "uses" \in DOMAIN m /\ m.uses = <<>>
      BY <1>1, <1>4
    <2> QED
      BY <2>1, EmptySeq DEF CallsOnly
  <1> QED
    BY <1>2, <1>3, <1>4 DEF HistoryMessages

LEMMA LiftedIn ==
    ASSUME NEW U, NEW s \in Seq(U)
    PROVE  Lifted(s) \in SUBSET StringsOf(U)
  <1>1. \A i \in DOMAIN s : s[i] \in U
    BY LenProperties, ElementOfSeq
  <1> QED
    BY <1>1 DEF Lifted, StringsOf

\* The history as it is built.
Building(U, mode) ==
    [history : Seq(HistoryMessages(U, mode)), users : Seq(U), assistants : Seq(U),
     seen : SUBSET StringsOf(U), mode : {mode}]

LEMMA RewriteState ==
    ASSUME NEW H, NEW U, NEW S, NEW M,
           NEW v \in [history : H, users : U, assistants : U, seen : S, mode : M],
           NEW X \in H, NEW Y \in S, NEW Z \in U
    PROVE  /\ [v EXCEPT !.history = X, !.seen = Y, !.users = Z]
                \in [history : H, users : U, assistants : U, seen : S, mode : M]
           /\ [v EXCEPT !.history = X, !.assistants = Z]
                \in [history : H, users : U, assistants : U, seen : S, mode : M]
  OBVIOUS

LEMMA FlushStays ==
    ASSUME NEW U, NEW mode, NEW v \in Building(U, mode)
    PROVE  FlushUsers(v) \in Building(U, mode) /\ FlushAssistants(v) \in Building(U, mode)
  <1> DEFINE H == HistoryMessages(U, mode)
             D == StringsOf(U)
             W == [history : Seq(H), users : Seq(U), assistants : Seq(U),
                   seen : SUBSET D, mode : {mode}]
  <1>1. Building(U, mode) = W
    BY DEF Building
  <1>2. /\ v.history \in Seq(H) /\ v.users \in Seq(U) /\ v.assistants \in Seq(U)
        /\ v.seen \in SUBSET D /\ v.mode = mode
    BY <1>1
  <1>3. MergeUsers(v.users, v.seen) \in H /\ MergeAssistants(v.assistants, v.mode) \in H
    BY <1>2 DEF HistoryMessages
  <1>4. v.seen \cup Lifted(v.users) \in SUBSET D
    BY <1>2, LiftedIn
  <1> HIDE DEF H, D
  <1>5. /\ Append(v.history, MergeUsers(v.users, v.seen)) \in Seq(H)
        /\ Append(v.history, MergeAssistants(v.assistants, v.mode)) \in Seq(H)
        /\ <<>> \in Seq(U)
    BY <1>2, <1>3, AppendProperties, EmptySeq
  <1>6. v \in W
    BY <1>1
  <1>7. FlushUsers(v) \in W
    BY <1>4, <1>5, <1>6, RewriteState DEF FlushUsers
  <1>8. FlushAssistants(v) \in W
    BY <1>4, <1>5, <1>6, RewriteState DEF FlushAssistants
  <1> QED
    BY <1>1, <1>7, <1>8

LEMMA BuiltHistory ==
    ASSUME NEW ms, IsList(Front(ms)), NEW mode
    PROVE  RegularHistory(ms, mode) \in Seq(HistoryMessages(ToSet(Front(ms)), mode))
  <1> DEFINE U == ToSet(Front(ms))
             V == Building(U, mode)
             M == HistoryMessages(U, mode)
  <1>1. Front(ms) \in Seq(U)
    BY DEF IsList
  <1> HIDE DEF U
  <1>2. NoHistory(mode) \in V
    BY EmptySeq DEF NoHistory, Building
  <1>3. ASSUME NEW v \in V, NEW x \in U PROVE HistoryStep(v, x) \in V
    <2>1. FlushUsers(v) \in V /\ FlushAssistants(v) \in V
      BY FlushStays
    <2>2. ASSUME NEW w \in V
          PROVE  /\ [w EXCEPT !.users = Append(@, x)] \in V
                 /\ [w EXCEPT !.assistants = Append(@, x)] \in V
      <3>1. Append(w.users, x) \in Seq(U) /\ Append(w.assistants, x) \in Seq(U)
        BY AppendProperties DEF Building
      <3> QED
        BY <3>1 DEF Building
    <2> HIDE DEF V
    <2> QED
      BY <2>1, <2>2 DEF HistoryStep
  <1> HIDE DEF V
  <1>4. \A s \in Seq(U) : HistoryOf(s, mode) \in V
    BY <1>2, <1>3, HistoryIs
  <1>5. HistoryOf(Front(ms), mode) \in V
    BY <1>1, <1>4
  <1> DEFINE acc == FlushAssistants(HistoryOf(Front(ms), mode))
  <1>6. RegularHistory(ms, mode) = CloseHistory(acc)
    BY DEF RegularHistory, HistoryOf, NoHistory
  <1>7. acc \in V /\ FlushUsers(acc) \in V
    BY <1>5, FlushStays DEF V
  <1> HIDE DEF acc
  <1>8. acc.history \in Seq(M) /\ FlushUsers(acc).history \in Seq(M)
    BY <1>7 DEF V, Building
  <1>9. KiroMessage("assistant", <<Note("OK")>>, <<>>, <<>>, <<>>) \in M
    BY DEF HistoryMessages
  <1> HIDE DEF M
  <1> QED
    BY <1>6, <1>8, <1>9, AppendProperties DEF CloseHistory, M, U

\* A list of messages that call nothing but calls in K.
AllCallOnly(h, K) == IsList(h) /\ \A i \in DOMAIN h : CallsOnly(h[i], K)

LEMMA PairCallsNothing ==
    ASSUME NEW system, NEW prefix, NEW K
    PROVE  AllCallOnly(SystemPair(system, prefix), K)
  <1> DEFINE a(texts) == KiroMessage("user", texts, <<>>, <<>>, <<>>)
             b == KiroMessage("assistant", <<Note("I will follow")>>, <<>>, <<>>, <<>>)
             p == SystemPair(system, prefix)
  <1>1. \A texts : CallsOnly(a(texts), K)
    BY EmptySeq DEF CallsOnly, KiroMessage
  <1>2. CallsOnly(b, K)
    BY EmptySeq DEF CallsOnly, KiroMessage
  <1>3. \/ p = <<a(<<Note(prefix)>>), b>> \/ p = <<a(<<Note(prefix), Note("system")>>), b>>
        \/ p = <<a(<<Note("system")>>), b>> \/ p = <<>>
    BY DEF SystemPair
  <1> HIDE DEF a, b, p
  <1>4. ASSUME NEW x, CallsOnly(x, K), NEW y, CallsOnly(y, K), p = <<x, y>>
        PROVE  AllCallOnly(p, K)
    <2>1. p \in Seq({x, y}) /\ DOMAIN p = {1, 2} /\ p[1] = x /\ p[2] = y
      BY <1>4
    <2> QED
      BY <1>4, <2>1, SeqIsList DEF AllCallOnly
  <1>5. AllCallOnly(<<>>, K)
    <2>1. <<>> \in Seq({}) /\ DOMAIN <<>> = {}
      OBVIOUS
    <2>2. IsList(<<>>)
      BY <2>1, SeqIsList
    <2> QED
      BY <2>1, <2>2 DEF AllCallOnly
  <1>6. CASE p = <<>>
    BY <1>5, <1>6 DEF p
  <1>7. CASE p # <<>>
    <2>1. PICK texts : p = <<a(texts), b>>
      BY <1>3, <1>7
    <2>2. AllCallOnly(p, K)
      BY <1>1, <1>2, <1>4, <2>1
    <2> QED
      BY <2>2 DEF p
  <1> QED
    BY <1>6, <1>7

LEMMA BothCallOnly ==
    ASSUME NEW K, NEW g, AllCallOnly(g, K), NEW h, AllCallOnly(h, K)
    PROVE  AllCallOnly(g \o h, K)
  <1>1. IsList(g) /\ IsList(h)
    BY DEF AllCallOnly
  <1>2. IsList(g \o h) /\ ToSet(g \o h) = ToSet(g) \cup ToSet(h)
    BY <1>1, ListConcat
  <1>3. \A x \in ToSet(g) \cup ToSet(h) : CallsOnly(x, K)
    BY DEF AllCallOnly, ToSet
  <1>4. \A i \in DOMAIN (g \o h) : (g \o h)[i] \in ToSet(g \o h)
    BY DEF ToSet
  <1> QED
    BY <1>2, <1>3, <1>4 DEF AllCallOnly

\* Orphans taken out.
LEMMA OrphansGone ==
    ASSUME NEW K, NEW h, AllCallOnly(h, K), NEW orphans
    PROVE  AllCallOnly(RemoveUses(h, orphans), K)
  <1> DEFINE left == RemoveUses(h, orphans)
  <1>1. IsList(h) /\ Len(h) \in Nat /\ DOMAIN h = 1 .. Len(h)
    BY ListIsSeq DEF AllCallOnly
  <1>2. left = [i \in DOMAIN h |->
                  [h[i] EXCEPT !.uses = Those(@, {u \in ToSet(@) : u.v \notin orphans})]]
    BY DEF RemoveUses
  <1> HIDE DEF left
  <1>3. ASSUME NEW i \in DOMAIN h PROVE CallsOnly(left[i], K)
    <2>1. "uses" \in DOMAIN h[i] /\ h[i].uses \in Seq(K)
      BY DEF AllCallOnly, CallsOnly
    <2>2. /\ "uses" \in DOMAIN left[i]
          /\ left[i].uses = Those(h[i].uses, {u \in ToSet(h[i].uses) : u.v \notin orphans})
      BY <1>2, <2>1
    <2>3. \A T : Those(h[i].uses, T) \in Seq(K)
      BY <2>1, ThoseIs
    <2> QED
      BY <2>2, <2>3 DEF CallsOnly
  <1>4. left = [k \in 1 .. Len(h) |-> left[k]]
    BY <1>1, <1>2
  <1>5. IsList(left) /\ DOMAIN left = DOMAIN h
    BY <1>1, <1>4, MapList
  <1>6. AllCallOnly(left, K)
    BY <1>3, <1>5 DEF AllCallOnly
  <1> QED
    BY <1>6 DEF left

LEMMA NamesMet ==
    ASSUME NEW K, NEW h, AllCallOnly(h, K)
    PROVE  HistoryToolNames(h) \in Seq({u.x : u \in K})
  <1> DEFINE each == [i \in DOMAIN h |-> h[i].uses]
             W == Seq(K)
             N == {u.x : u \in K}
             V == Seq(N)
  <1>1. Len(h) \in Nat /\ DOMAIN h = 1 .. Len(h)
    BY ListIsSeq DEF AllCallOnly
  <1>2. DOMAIN each = 1 .. Len(h) /\ each = [i \in 1 .. Len(h) |-> each[i]]
    BY <1>1
  <1>3. \A i \in 1 .. Len(h) : each[i] \in W
    BY <1>1 DEF AllCallOnly, CallsOnly
  <1>4. HistoryToolNames(h) = Met(FlattenSeq(each))
    BY DEF HistoryToolNames, Met
  <1>5. \A u \in K : u.x \in N
    OBVIOUS
  <1> HIDE DEF each, W, N
  <1>6. each \in Seq(W)
    BY <1>1, <1>2, <1>3, PlacesIn
  <1>7. FlattenSeq(each) \in Seq(K)
    BY <1>6, FlattenIs DEF W
  <1>8. <<>> \in V /\ \A v \in V, x \in K : OneMet(v, x) \in V
    BY <1>5, AppendProperties, EmptySeq DEF OneMet
  <1> HIDE DEF V
  <1>9. \A s \in Seq(K) : Met(s) \in V
    BY <1>8, MetIs
  <1> QED
    BY <1>4, <1>7, <1>9 DEF V, N

LEMMA WithPlaceholdersIs ==
    ASSUME NEW tools, IsList(tools), NEW h, NEW N, HistoryToolNames(h) \in Seq(N)
    PROVE  /\ IsList(WithPlaceholders(tools, h))
           /\ \A x \in ToSet(WithPlaceholders(tools, h)) : x \in ToSet(tools) \cup N
  <1> DEFINE names == HistoryToolNames(h)
             there == {Lower(tools[i]) : i \in DOMAIN tools}
             T == {n \in ToSet(names) : Lower(n) \notin there}
  <1>1. WithPlaceholders(tools, h) = tools \o Those(names, T)
    BY DEF WithPlaceholders
  <1> HIDE DEF T, names
  <1>2. Those(names, T) \in Seq(N)
    BY ThoseIs DEF names
  <1>3. IsList(Those(names, T)) /\ ToSet(Those(names, T)) \in SUBSET N
    BY <1>2, SeqIsList
  <1>4. /\ IsList(tools \o Those(names, T))
        /\ ToSet(tools \o Those(names, T)) = ToSet(tools) \cup ToSet(Those(names, T))
    BY <1>3, ListConcat
  <1> QED
    BY <1>1, <1>3, <1>4

\* What is converted, and what of it is history.
LEMMA PartsOf ==
    ASSUME NEW ms, IsList(ms)
    PROVE  /\ IsList(UpToLastUser(ms)) /\ IsList(Front(UpToLastUser(ms)))
           /\ ToSet(Front(UpToLastUser(ms))) \in SUBSET ToSet(ms)
  <1> DEFINE U == ToSet(ms)
             I == {i \in 1 .. Len(ms) : ms[i].role = "user"}
             last == IF I # {} THEN Max(I) ELSE 0
             kept == UpToLastUser(ms)
  <1>1. ms \in Seq(U) /\ Len(ms) \in Nat /\ \A i \in 1 .. Len(ms) : ms[i] \in U
    BY ListIsSeq DEF IsList
  <1>2. kept = SubSeq(ms, 1, last)
    BY DEF UpToLastUser, SelectLastInSeq
  <1>3. last \in 0 .. Len(ms)
    <2>1. I \in SUBSET (1 .. Len(ms))
      OBVIOUS
    <2> HIDE DEF I
    <2>2. I # {} => Max(I) \in 1 .. Len(ms)
      BY <1>1, <2>1, MaxUpTo
    <2> QED
      BY <1>1, <2>2
  <1> HIDE DEF last, U, I
  <1>4. kept \in Seq(U)
    <2>1. \A i \in 1 .. last : ms[i] \in U
      BY <1>1, <1>3
    <2> QED
      BY <1>2, <1>3, <2>1, SubSeqProperties
  <1> HIDE DEF kept
  <1>5. Front(kept) \in Seq(U)
    <2>1. Len(kept) \in Nat /\ \A i \in 1 .. Len(kept) : kept[i] \in U
      BY <1>4, LenProperties, ElementOfSeq
    <2>2. \A i \in 1 .. (Len(kept) - 1) : kept[i] \in U
      BY <2>1
    <2>3. Front(kept) = SubSeq(kept, 1, Len(kept) - 1)
      BY DEF Front
    <2> QED
      BY <2>1, <2>2, <2>3, SubSeqProperties
  <1> QED
    BY <1>4, <1>5, SeqIsList DEF kept, U

\* The tools of a result, and the names it gives back: those of the tools in D.
ShowsTools(res, r, D) ==
    /\ IsList(res.tools)
    /\ \A x \in ToSet(res.tools) : \E d \in D : x = ToKiroName(d, r.mode)
    /\ res.nameMap = NameMap(D, r.mode)
    /\ res.known = ToSet(r.tools) \cup DOMAIN NameMap(ToSet(r.tools), r.mode)

Messages(ms) == IsList(ms) /\ \A m \in ToSet(ms) : IsMessage(m)

LEMMA ToolsShown ==
    ASSUME NEW r, IsList(r.tools), NEW ms, Messages(ms), NEW res, res = Convert(r, ms)
    PROVE  \E D : /\ ToSet(r.tools) \subseteq D /\ D \subseteq ToSet(r.tools) \cup Used(ms)
                  /\ ShowsTools(res, r, D)
  <1> DEFINE mode == r.mode
             kept == UpToLastUser(ms)
             before == Front(kept)
             U == ToSet(before)
             K == KiroCalls(U, mode)
             N == {u.x : u \in K}
             D == ToSet(r.tools) \cup Used(before)
             current == Content(Last(kept).blocks, FALSE, {})
             p == SystemPair(System(r), ThinkingPrefix(Override(r.head)))
             reg == RegularHistory(kept, mode)
             pairing == Pair(p \o reg, current.results)
             left == RemoveUses(p \o reg, pairing.unpaired)
             tools == ConvertTools(r.tools, mode)
  <1>0. IsList(ms) /\ \A m \in ToSet(ms) : IsMessage(m)
    BY DEF Messages
  <1>1. IsList(before) /\ U \in SUBSET ToSet(ms)
    BY <1>0, PartsOf
  <1>2. res = Paired(r, Used(before), current, left, pairing)
    BY DEF Convert, ConvertKept, WithHistory
  <1> HIDE DEF pairing, current
  <1>3. /\ res.tools = WithPlaceholders(tools, left)
        /\ res.nameMap = NameMap(D, mode)
        /\ res.known = ToSet(r.tools) \cup DOMAIN NameMap(ToSet(r.tools), r.mode)
    BY <1>2 DEF Paired
  <1>4. Used(before) = {b.x : b \in CallsOf(U)} /\ Used(before) \subseteq Used(ms)
    <2>1. Used(before) = {b.x : b \in CallsOf(U)} /\ Used(ms) = {b.x : b \in CallsOf(ToSet(ms))}
      BY <1>0, <1>1, UsedIs
    <2>2. CallsOf(U) \subseteq CallsOf(ToSet(ms))
      BY <1>1 DEF CallsOf
    <2> QED
      BY <2>1, <2>2
  <1>5. \A n \in N : \E d \in D : n = ToKiroName(d, mode)
    <2>1. \A m \in U : \A b \in ToSet(m.blocks) : IsBlock(b)
      BY <1>0, <1>1 DEF IsMessage
    <2>2. \A b \in CallsOf(U) : IsBlock(b) /\ b.x \in Used(before)
      BY <1>4, <2>1 DEF CallsOf
    <2>3. ASSUME NEW b \in CallsOf(U)
          PROVE  [b EXCEPT !.x = ToKiroName(b.x, mode)].x = ToKiroName(b.x, mode)
      BY <2>2 DEF IsBlock
    <2> QED
      BY <2>2, <2>3 DEF KiroCalls
  <1>6. AllCallOnly(reg, K)
    <2>1. reg \in Seq(HistoryMessages(U, mode))
      BY <1>1, BuiltHistory
    <2>2. IsList(reg) /\ ToSet(reg) \in SUBSET HistoryMessages(U, mode)
      BY <2>1, SeqIsList
    <2>3. \A m \in U : IsMessage(m)
      BY <1>0, <1>1
    <2> HIDE DEF reg, U
    <2>4. \A m \in HistoryMessages(U, mode) : CallsOnly(m, K)
      BY <2>3, HistoryCalls
    <2>5. \A i \in DOMAIN reg : reg[i] \in ToSet(reg)
      BY DEF ToSet
    <2> QED
      BY <2>2, <2>4, <2>5 DEF AllCallOnly
  <1> HIDE DEF K, reg
  <1>7. AllCallOnly(p, K)
    BY PairCallsNothing
  <1> HIDE DEF p
  <1>8. AllCallOnly(left, K)
    BY <1>6, <1>7, BothCallOnly, OrphansGone
  <1> HIDE DEF left
  <1>9. HistoryToolNames(left) \in Seq(N)
    BY <1>8, NamesMet
  <1> HIDE DEF N
  <1>10. IsList(tools) /\ \A x \in ToSet(tools) : \E d \in ToSet(r.tools) : x = ToKiroName(d, mode)
    BY ShownTools
  <1> HIDE DEF tools
  <1>11. /\ IsList(WithPlaceholders(tools, left))
         /\ \A x \in ToSet(WithPlaceholders(tools, left)) : x \in ToSet(tools) \cup N
    BY <1>9, <1>10, WithPlaceholdersIs
  <1>12. \A x \in ToSet(res.tools) : \E d \in D : x = ToKiroName(d, mode)
    BY <1>3, <1>5, <1>10, <1>11
  <1>13. ShowsTools(res, r, D)
    BY <1>3, <1>11, <1>12 DEF ShowsTools
  <1>14. ToSet(r.tools) \subseteq D /\ D \subseteq ToSet(r.tools) \cup Used(ms)
    BY <1>4
  <1> HIDE DEF D
  <1> QED
    BY <1>13, <1>14

-----------------------------------------------------------------------------
(* A call of a tool of the client's own.  It goes through map_tool_input_    *)
(* from_kiro too, which leaves it alone unless the tool has the name of one  *)
(* of Kiro's (OwnInput); then it is left alone if it has no argument but     *)
(* those the rules write (RenameStays).                                      *)

WrittenBy(rules) == {rules[i][1] : i \in DOMAIN rules}

\* Every rule takes what is there under the name it writes, after at most one
\* other name, that no rule writes.
TakesItsOwn(rules) ==
    /\ \A i, j \in DOMAIN rules : rules[i][1] = rules[j][1] => rules[i] = rules[j]
    /\ \A i \in DOMAIN rules :
          \/ rules[i][2] = <<rules[i][1]>>
          \/ \E a : a \notin WrittenBy(rules) /\ rules[i][2] = <<a, rules[i][1]>>

LEMMA RenameStays ==
    ASSUME NEW obj, obj = [k \in DOMAIN obj |-> obj[k]], NEW rules, TakesItsOwn(rules)
    PROVE  Rename(obj, rules) = obj
             <=> DOMAIN obj \subseteq WrittenBy(rules) /\ \A k \in DOMAIN obj : obj[k] # Null
  <1> DEFINE r == Rename(obj, rules)
             W == WrittenBy(rules)
  <1>1. \A i \in DOMAIN rules : rules[i][1] \in W
    BY DEF WrittenBy
  <1>2. \A i, j \in DOMAIN rules : rules[i][1] = rules[j][1] => rules[i] = rules[j]
    BY DEF TakesItsOwn
  <1>3. /\ DOMAIN r = {rules[i][1] : i \in {j \in DOMAIN rules : Hit(obj, rules[j][2])}}
        /\ \A i \in DOMAIN rules : Hit(obj, rules[i][2]) => r[rules[i][1]] = FirstKey(obj, rules[i][2])
        /\ r = [k \in DOMAIN r |-> r[k]]
    BY <1>2, RenameIs
  <1>4. \A w \in W : \E i \in DOMAIN rules : w = rules[i][1]
    BY DEF WrittenBy
  <1> HIDE DEF r, W
  <1>5. ASSUME r = obj
        PROVE  DOMAIN obj \subseteq W /\ \A k \in DOMAIN obj : obj[k] # Null
    <2>1. \A k \in DOMAIN obj : \E i \in DOMAIN rules :
             /\ k = rules[i][1] /\ Hit(obj, rules[i][2])
             /\ obj[k] = FirstKey(obj, rules[i][2])
      BY <1>3, <1>5
    <2>2. \A i \in DOMAIN rules : Hit(obj, rules[i][2]) => FirstKey(obj, rules[i][2]) # Null
      BY DEF Hit
    <2> QED
      BY <1>1, <2>1, <2>2
  <1>6. ASSUME DOMAIN obj \subseteq W, \A k \in DOMAIN obj : obj[k] # Null
        PROVE  r = obj
    <2>1. ASSUME NEW i \in DOMAIN rules
          PROVE  /\ Hit(obj, rules[i][2]) <=> rules[i][1] \in DOMAIN obj
                 /\ rules[i][1] \in DOMAIN obj => FirstKey(obj, rules[i][2]) = obj[rules[i][1]]
      <3> DEFINE w == rules[i][1]
                 keys == rules[i][2]
      <3>1. keys = <<w>> \/ \E a : a \notin DOMAIN obj /\ keys = <<a, w>>
        BY <1>6 DEF TakesItsOwn, W
      <3> HIDE DEF w, keys
      <3>2. CASE keys = <<w>>
        <4>1. /\ w \in DOMAIN obj => FirstKey(obj, <<w>>) = obj[w]
              /\ Hit(obj, <<w>>) <=> w \in DOMAIN obj /\ obj[w] # Null
          BY FirstOfOne
        <4> QED
          BY <1>6, <3>2, <4>1 DEF w, keys
      <3>3. CASE \E a : a \notin DOMAIN obj /\ keys = <<a, w>>
        <4>1. PICK a : a \notin DOMAIN obj /\ keys = <<a, w>>
          BY <3>3
        <4>2. /\ w \in DOMAIN obj => FirstKey(obj, <<a, w>>) = obj[w]
              /\ Hit(obj, <<a, w>>) <=> w \in DOMAIN obj /\ obj[w] # Null
          BY <4>1, FirstOfTwo
        <4> QED
          BY <1>6, <4>1, <4>2 DEF w, keys
      <3> QED
        BY <3>1, <3>2, <3>3
    <2>2. DOMAIN r = DOMAIN obj
      <3>1. \A k \in DOMAIN obj : \E i \in DOMAIN rules : k = rules[i][1] /\ Hit(obj, rules[i][2])
        BY <1>4, <1>6, <2>1
      <3>2. \A k \in DOMAIN r : k \in DOMAIN obj
        BY <1>3, <2>1
      <3> QED
        BY <1>3, <3>1, <3>2
    <2>3. \A k \in DOMAIN obj : r[k] = obj[k]
      BY <1>3, <1>4, <1>6, <2>1
    <2> QED
      BY <1>3, <2>2, <2>3
  <1> QED
    BY <1>5, <1>6 DEF r, W

LEMMA KiroRules ==
    ASSUME NEW t \in DOMAIN Inbound
    PROVE  TakesItsOwn(Inbound[t])
  <1>1. ASSUME NEW w, NEW rules, rules = <<<<w, <<w>>>>>>
        PROVE  TakesItsOwn(rules)
    BY <1>1 DEF TakesItsOwn, WrittenBy
  <1>2. ASSUME NEW w, NEW a, a # w, NEW rules, rules = <<<<w, <<a, w>>>>>>
        PROVE  TakesItsOwn(rules)
    <2>1. /\ DOMAIN rules = {1} /\ rules[1][1] = w /\ rules[1][2] = <<a, w>>
          /\ WrittenBy(rules) = {w}
      BY <1>2 DEF WrittenBy
    <2> QED
      BY <1>2, <2>1 DEF TakesItsOwn
  <1>3. ASSUME NEW w, NEW v, w # v, NEW rules, rules = <<<<w, <<w>>>>, <<v, <<v>>>>>>
        PROVE  TakesItsOwn(rules)
    <2>1. /\ DOMAIN rules = {1, 2} /\ rules[1][1] = w /\ rules[1][2] = <<w>>
          /\ rules[2][1] = v /\ rules[2][2] = <<v>>
      BY <1>3
    <2> QED
      BY <1>3, <2>1 DEF TakesItsOwn
  <1>4. ASSUME NEW w, NEW a, NEW v, NEW b, w # v, a \notin {w, v}, b \notin {w, v},
               NEW rules, rules = <<<<w, <<a, w>>>>, <<v, <<b, v>>>>>>
        PROVE  TakesItsOwn(rules)
    <2>1. /\ DOMAIN rules = {1, 2} /\ rules[1][1] = w /\ rules[1][2] = <<a, w>>
          /\ rules[2][1] = v /\ rules[2][2] = <<b, v>>
      BY <1>4
    <2>2. WrittenBy(rules) = {w, v}
      BY <2>1 DEF WrittenBy
    <2> QED
      BY <1>4, <2>1, <2>2 DEF TakesItsOwn
  <1>5. ASSUME NEW w, NEW a, NEW v, NEW b, NEW u, NEW c, w # v, v # u, w # u,
               a \notin {w, v, u}, b \notin {w, v, u}, c \notin {w, v, u},
               NEW rules, rules = <<<<w, <<a, w>>>>, <<v, <<b, v>>>>, <<u, <<c, u>>>>>>
        PROVE  TakesItsOwn(rules)
    <2>1. /\ DOMAIN rules = {1, 2, 3} /\ rules[1][1] = w /\ rules[1][2] = <<a, w>>
          /\ rules[2][1] = v /\ rules[2][2] = <<b, v>>
          /\ rules[3][1] = u /\ rules[3][2] = <<c, u>>
      BY <1>5
    <2>2. WrittenBy(rules) = {w, v, u}
      BY <2>1 DEF WrittenBy
    <2>3. \A i \in DOMAIN rules :
             \E x : x \notin WrittenBy(rules) /\ rules[i][2] = <<x, rules[i][1]>>
      BY <1>5, <2>1, <2>2
    <2>4. ASSUME NEW i \in DOMAIN rules, NEW j \in DOMAIN rules, rules[i][1] = rules[j][1]
          PROVE  rules[i] = rules[j]
      <3>1. i \in {1, 2, 3} /\ j \in {1, 2, 3}
        BY <2>1
      <3>2. i = j
        BY <1>5, <2>1, <2>4, <3>1
      <3> QED
        BY <3>2
    <2> QED
      BY <2>3, <2>4 DEF TakesItsOwn
  <1>6. t \in {"fs_write", "str_replace", "execute_bash", "read_file", "file_search",
               "grep_search", "list_directory", "web_search"}
    BY DEF Inbound
  <1>7. CASE t = "fs_write"
    <2>1. Inbound[t] = <<<<"file_path", <<"path", "file_path">>>>, <<"content", <<"text", "content">>>>>>
      BY <1>7 DEF Inbound
    <2> QED
      BY <1>4, <2>1
  <1>8. CASE t = "str_replace"
    <2>1. Inbound[t] = <<<<"file_path", <<"path", "file_path">>>>,
                         <<"old_string", <<"oldStr", "old_string">>>>,
                         <<"new_string", <<"newStr", "new_string">>>>>>
      BY <1>8 DEF Inbound
    <2> QED
      BY <1>5, <2>1
  <1>9. CASE t = "execute_bash"
    <2>1. Inbound[t] = <<<<"command", <<"command">>>>, <<"timeout", <<"timeout">>>>>>
      BY <1>9 DEF Inbound
    <2> QED
      BY <1>3, <2>1
  <1>10. CASE t = "read_file"
    <2>1. Inbound[t] = <<<<"file_path", <<"path", "file_path">>>>>>
      BY <1>10 DEF Inbound
    <2> QED
      BY <1>2, <2>1
  <1>11. CASE t = "file_search"
    <2>1. Inbound[t] = <<<<"pattern", <<"query", "pattern">>>>>>
      BY <1>11 DEF Inbound
    <2> QED
      BY <1>2, <2>1
  <1>12. CASE t = "grep_search"
    <2>1. Inbound[t] = <<<<"pattern", <<"query", "pattern">>>>,
                         <<"glob", <<"includePattern", "glob">>>>,
                         <<"case_sensitive", <<"caseSensitive", "case_sensitive">>>>>>
      BY <1>12 DEF Inbound
    <2> QED
      BY <1>5, <2>1
  <1>13. CASE t = "list_directory"
    <2>1. Inbound[t] = <<<<"path", <<"path">>>>>>
      BY <1>13 DEF Inbound
    <2> QED
      BY <1>1, <2>1
  <1>14. CASE t = "web_search"
    <2>1. Inbound[t] = <<<<"query", <<"query">>>>>>
      BY <1>14 DEF Inbound
    <2> QED
      BY <1>1, <2>1
  <1> QED
    BY <1>6, <1>7, <1>8, <1>9, <1>10, <1>11, <1>12, <1>13, <1>14

LEMMA OwnInput ==
    ASSUME NEW t, NEW call \in SomeArguments
    PROVE  InputFromKiro(t, call) = call <=> ComesBackAsItWas(t, call)
  <1>1. /\ call = [k \in DOMAIN call |-> call[k]]
        /\ DOMAIN call \subseteq {"path", "depth", "file_path"}
    BY DEF SomeArguments
  <1>2. CASE t \notin DOMAIN Inbound
    BY <1>2 DEF InputFromKiro, ComesBackAsItWas
  <1>3. CASE t \in DOMAIN Inbound
    <2> DEFINE r == Rename(call, Inbound[t])
               g == IF t = "read_file" THEN LinesFromKiro(call) ELSE <<>>
    <2>1. InputFromKiro(t, call) = Over(r, g)
      BY <1>3 DEF InputFromKiro
    <2>2. DOMAIN g = {}
      <3>1. ~HasNumber(call, "start_line") /\ ~HasNumber(call, "end_line")
        BY <1>1 DEF HasNumber
      <3>2. DOMAIN LinesFromKiro(call) = {}
        <4> DEFINE lines == IF HasNumber(call, "start_line")
                            THEN call["end_line"] - call["start_line"] + 1 ELSE call["end_line"]
                   a == Only("offset", HasNumber(call, "start_line"), call["start_line"])
                   b == Only("limit", HasNumber(call, "end_line") /\ lines > 0, lines)
        <4>1. LinesFromKiro(call) = Over(a, b)
          BY DEF LinesFromKiro
        <4> HIDE DEF lines
        <4>2. DOMAIN a = {} /\ DOMAIN b = {}
          BY <3>1 DEF Only
        <4> HIDE DEF a, b
        <4>3. DOMAIN Over(a, b) = DOMAIN a \cup DOMAIN b
          BY DEF Over
        <4> QED
          BY <4>1, <4>2, <4>3
      <3> QED
        BY <3>2
    <2>3. r = [k \in DOMAIN r |-> r[k]]
      BY DEF Rename
    <2> HIDE DEF r, g
    <2>4. InputFromKiro(t, call) = r
      BY <2>1, <2>2, <2>3, OverNothing
    <2>5. r = call <=> /\ DOMAIN call \subseteq WrittenBy(Inbound[t])
                       /\ \A k \in DOMAIN call : call[k] # Null
      BY <1>1, <1>3, KiroRules, RenameStays DEF r
    <2>6. WrittenBy(Inbound[t]) = {Inbound[t][i][1] : i \in DOMAIN Inbound[t]}
      BY DEF WrittenBy
    <2> QED
      BY <1>3, <2>4, <2>5, <2>6 DEF ComesBackAsItWas
  <1> QED
    BY <1>2, <1>3

-----------------------------------------------------------------------------
(* Whatever is converted is made of the conversation's messages and the      *)
(* placeholder of a cut (ConvInv), whose blocks the client's actions build   *)
(* (ContinueStays).                                                          *)

IsBlocks(bs) == IsList(bs) /\ \A b \in ToSet(bs) : IsBlock(b)

IsPiece(ms) == IsList(ms) /\ ToSet(ms) \subseteq ToSet(conv) \cup {Placeholder}

ConvInv ==
    /\ IsList(conv) /\ \A m \in ToSet(conv) : IsBlocks(m.blocks)
    /\ req \in Requests
    /\ IsPiece(messages)
    /\ pc \in {"estimate", "correct", "sent"} =>
          \E ms : IsPiece(ms) /\ result = Convert(req, ms)

LEMMA MadeBlocks ==
    /\ \A k, v, x : IsBlock([k |-> k, v |-> v, x |-> x])
    /\ \A v : IsBlock(Text(v)) /\ IsBlock(Thinking(v))
    /\ \A v : IsBlock(Image(v)) /\ IsBlock(Note(v))
    /\ \A v, x : IsBlock(ToolUse(v, x)) /\ IsBlock(ToolResult(v, x))
  <1>1. \A k, v, x : IsBlock([k |-> k, v |-> v, x |-> x])
    BY DEF IsBlock
  <1>2. \A v : IsBlock(Text(v)) /\ IsBlock(Thinking(v))
    BY <1>1 DEF Text, Thinking
  <1>3. \A v : IsBlock(Image(v)) /\ IsBlock(Note(v))
    BY <1>1 DEF Image, Note
  <1>4. \A v, x : IsBlock(ToolUse(v, x)) /\ IsBlock(ToolResult(v, x))
    BY <1>1 DEF ToolUse, ToolResult
  <1> QED
    BY <1>1, <1>2, <1>3, <1>4

LEMMA OneBlockIs ==
    ASSUME NEW a, IsBlock(a)
    PROVE  IsBlocks(<<a>>) /\ <<a>> # <<>>
  <1>1. <<a>> \in Seq({a})
    OBVIOUS
  <1>2. IsList(<<a>>) /\ ToSet(<<a>>) \in SUBSET {a}
    BY <1>1, SeqIsList
  <1> QED
    BY <1>2 DEF IsBlocks

LEMMA TwoBlocksAre ==
    ASSUME NEW a, NEW b, IsBlock(a), IsBlock(b)
    PROVE  IsBlocks(<<a, b>>)
  <1>1. <<a, b>> \in Seq({a, b})
    OBVIOUS
  <1>2. IsList(<<a, b>>) /\ ToSet(<<a, b>>) \in SUBSET {a, b}
    BY <1>1, SeqIsList
  <1> QED
    BY <1>2 DEF IsBlocks

LEMMA BothAreBlocks ==
    ASSUME NEW s, IsBlocks(s), NEW t, IsBlocks(t)
    PROVE  IsBlocks(s \o t)
  BY ListConcat DEF IsBlocks

LEMMA EachIsBlock ==
    ASSUME NEW n \in Nat, NEW f, f = [j \in 1 .. n |-> f[j]], \A j \in 1 .. n : IsBlock(f[j])
    PROVE  IsBlocks(f)
  <1>1. IsList(f) /\ DOMAIN f = 1 .. n
    BY MapList
  <1>2. ToSet(f) = {f[j] : j \in DOMAIN f}
    BY DEF ToSet
  <1> QED
    BY <1>1, <1>2 DEF IsBlocks

LEMMA ResultsAre ==
    ASSUME NEW m, IsBlocks(m.blocks)
    PROVE  IsBlocks(Results(m))
  <1> DEFINE uses == OfKind(m.blocks, "tool_use")
             T == {b \in ToSet(m.blocks) : b.k = "tool_use"}
  <1>1. m.blocks \in Seq(ToSet(m.blocks))
    BY DEF IsBlocks, IsList
  <1>2. uses = Those(m.blocks, T)
    BY DEF OfKind
  <1> HIDE DEF T
  <1>3. uses \in Seq(ToSet(m.blocks))
    BY <1>1, <1>2, ThoseIs
  <1>4. Results(m) = [i \in DOMAIN uses |-> ToolResult(uses[i].v, "")]
    BY DEF Results
  <1> HIDE DEF uses
  <1>5. Len(uses) \in Nat /\ DOMAIN uses = 1 .. Len(uses)
    BY <1>3, LenProperties
  <1>6. Results(m) = [i \in 1 .. Len(uses) |-> Results(m)[i]]
    BY <1>4, <1>5
  <1>7. \A i \in 1 .. Len(uses) : IsBlock(Results(m)[i])
    <2> SUFFICES ASSUME NEW i \in 1 .. Len(uses) PROVE IsBlock(Results(m)[i])
      OBVIOUS
    <2>1. Results(m)[i] = ToolResult(uses[i].v, "")
      BY <1>4, <1>5
    <2>2. IsBlock(ToolResult(uses[i].v, ""))
      BY MadeBlocks
    <2> QED
      BY <2>1, <2>2
  <1> QED
    BY <1>5, <1>6, <1>7, EachIsBlock

LEMMA WithFirst ==
    ASSUME NEW all, IsBlocks(all), NEW d
    PROVE  IsBlocks([all EXCEPT ![1].x = d])
  <1> DEFINE f == [all EXCEPT ![1].x = d]
  <1>1. Len(all) \in Nat /\ DOMAIN all = 1 .. Len(all) /\ \A i \in 1 .. Len(all) : all[i] \in ToSet(all)
    BY ListIsSeq DEF IsBlocks
  <1>2. f = [i \in 1 .. Len(all) |-> IF i = 1 THEN [all[1] EXCEPT !.x = d] ELSE all[i]]
    BY <1>1
  <1>3. ASSUME NEW i \in 1 .. Len(all) PROVE IsBlock(f[i])
    <2>1. IsBlock(all[i])
      BY <1>1 DEF IsBlocks
    <2>2. CASE i = 1
      <3>1. f[i] = [all[i] EXCEPT !.x = d]
        BY <1>2, <2>2
      <3>2. [all[i] EXCEPT !.x = d] = [k |-> all[i].k, v |-> all[i].v, x |-> d]
        BY <2>1 DEF IsBlock
      <3> QED
        BY <3>1, <3>2, MadeBlocks
    <2>3. CASE i # 1
      BY <1>2, <2>1, <2>3
    <2> QED
      BY <2>2, <2>3
  <1>4. f = [i \in 1 .. Len(all) |-> f[i]]
    BY <1>2
  <1> HIDE DEF f
  <1>5. IsBlocks(f)
    BY <1>1, <1>3, <1>4, EachIsBlock
  <1> QED
    BY <1>5 DEF f

LEMMA ContinueStays ==
    ASSUME ConvInv, NEW role, NEW blocks, IsBlocks(blocks), Continue(role, blocks)
    PROVE  ConvInv'
  <1> DEFINE e == [role |-> role, blocks |-> blocks]
  <1>1. conv' = Append(conv, e) /\ pc' = "client" /\ req' = req /\ messages' = <<>>
    BY DEF Continue
  <1>2. e.blocks = blocks
    OBVIOUS
  <1> HIDE DEF e
  <1>3. conv' \in Seq(ToSet(conv) \cup {e})
    <2>1. conv \in Seq(ToSet(conv) \cup {e})
      BY SeqMonotonic DEF ConvInv, IsList
    <2> QED
      BY <1>1, <2>1, AppendProperties
  <1>4. IsList(conv') /\ ToSet(conv') \in SUBSET (ToSet(conv) \cup {e})
    BY <1>3, SeqIsList
  <1>5. IsList(<<>>) /\ ToSet(<<>>) = {}
    <2>1. <<>> \in Seq({})
      OBVIOUS
    <2>2. IsList(<<>>) /\ ToSet(<<>>) \in SUBSET {}
      BY <2>1, SeqIsList
    <2> QED
      BY <2>2
  <1>6. \A m \in ToSet(conv') : IsBlocks(m.blocks)
    BY <1>2, <1>4 DEF ConvInv
  <1>7. req' \in Requests
    BY <1>1 DEF ConvInv
  <1>8. IsList(messages') /\ ToSet(messages') \subseteq ToSet(conv') \cup {Placeholder}
    BY <1>1, <1>5
  <1> QED
    BY <1>1, <1>4, <1>6, <1>7, <1>8 DEF ConvInv, IsPiece

\* What the client says and what it is answered.
LEMMA UserStays ==
    ASSUME ConvInv, UserSpeaks
    PROVE  ConvInv'
  <1>1. IsBlocks(<<Said>>)
    BY MadeBlocks, OneBlockIs DEF Said
  <1>2. \A p, o : IsBlocks(<<Image(p), Image(o)>> \o SaidAtLength)
    <2>1. IsBlocks(SaidAtLength)
      <3>1. MaxField + 2 \in Nat
        <4>1. MaxField \in Nat
          BY FieldAssumption, Zenon
        <4> QED
          BY <4>1
      <3>2. SaidAtLength = [j \in 1 .. (MaxField + 2) |-> SaidAtLength[j]]
        BY DEF SaidAtLength
      <3>3. ASSUME NEW j \in 1 .. (MaxField + 2) PROVE IsBlock(SaidAtLength[j])
        <4>1. SaidAtLength[j] = Text(10 * Now + j)
          BY DEF SaidAtLength
        <4>2. IsBlock(Text(10 * Now + j))
          BY MadeBlocks
        <4> QED
          BY <4>1, <4>2
      <3> QED
        BY <3>1, <3>2, <3>3, EachIsBlock
    <2>2. \A p, o : IsBlocks(<<Image(p), Image(o)>>)
      BY MadeBlocks, TwoBlocksAre
    <2> QED
      BY <2>1, <2>2, BothAreBlocks
  <1>3. CASE Continue("user", <<Said>>)
    BY <1>1, <1>3, ContinueStays
  <1>4. CASE \E p \in Pictures, o \in OtherPictures :
               Continue("user", <<Image(p), Image(o)>> \o SaidAtLength)
    BY <1>2, <1>4, ContinueStays
  <1> QED
    BY <1>3, <1>4 DEF UserSpeaks

LEMMA AnswerStays ==
    ASSUME ConvInv, AssistantAnswers
    PROVE  ConvInv'
  <1>1. IsBlocks(<<Thinking(10 * Now), Said>>)
    BY MadeBlocks, TwoBlocksAre DEF Said
  <1>2. \A n : IsBlocks(<<ToolUse(10 * Now, n)>>)
    BY MadeBlocks, OneBlockIs
  <1> DEFINE callBlocks == [i \in DOMAIN req.tools |-> ToolUse(10 * Now + i - 1, req.tools[i])]
  <1>3. IsBlocks(<<Said>> \o callBlocks)
    <2>1. IsList(req.tools)
      BY ConversationAssumption DEF ConvInv
    <2>2. Len(req.tools) \in Nat /\ DOMAIN req.tools = 1 .. Len(req.tools)
      BY <2>1, ListIsSeq
    <2>3. callBlocks = [i \in 1 .. Len(req.tools) |-> callBlocks[i]]
      BY <2>2
    <2>4. ASSUME NEW i \in 1 .. Len(req.tools) PROVE IsBlock(callBlocks[i])
      <3>1. callBlocks[i] = ToolUse(10 * Now + i - 1, req.tools[i])
        BY <2>2
      <3>2. IsBlock(ToolUse(10 * Now + i - 1, req.tools[i]))
        BY MadeBlocks
      <3> QED
        BY <3>1, <3>2
    <2> HIDE DEF callBlocks
    <2>5. IsBlocks(callBlocks)
      BY <2>2, <2>3, <2>4, EachIsBlock
    <2>6. IsBlocks(<<Said>>)
      BY MadeBlocks, OneBlockIs DEF Said
    <2> QED
      BY <2>5, <2>6, BothAreBlocks
  <1>4. CASE Continue("assistant", <<Thinking(10 * Now), Said>>)
    BY <1>1, <1>4, ContinueStays
  <1>5. CASE \E n \in ToSet(req.tools) \union req.past :
               Continue("assistant", <<ToolUse(10 * Now, n)>>)
    BY <1>2, <1>5, ContinueStays
  <1>6. CASE Continue("assistant", <<Said>> \o callBlocks)
    BY <1>3, <1>6, ContinueStays
  <1> QED
    BY <1>4, <1>5, <1>6 DEF AssistantAnswers

\* The blocks of a message of the conversation.
LEMMA ThereAreBlocks ==
    ASSUME ConvInv, NEW i \in 1 .. Len(conv)
    PROVE  IsBlocks(conv[i].blocks)
  BY ListIsSeq DEF ConvInv

LEMMA ReturnStays ==
    ASSUME ConvInv, ClientReturns
    PROVE  ConvInv'
  <1> DEFINE all == Results(LastMessage)
  <1>1. IsBlocks(all)
    <2>1. Len(conv) \in Nat /\ conv # <<>> /\ IsSeq(conv) /\ conv \in Seq(ToSet(conv))
      BY ListIsSeq DEF ConvInv, ClientReturns, IsList
    <2>2. Len(conv) \in 1 .. Len(conv)
      BY <2>1, EmptySeq
    <2>3. IsBlocks(LastMessage.blocks)
      BY <2>2, ThereAreBlocks DEF LastMessage, Last
    <2> QED
      BY <2>3, ResultsAre
  <1>2. all # <<>>
    BY DEF ClientReturns
  <1> HIDE DEF all
  <1>3. 1 \in DOMAIN all /\ IsBlock(all[1])
    <2>1. all \in Seq(ToSet(all))
      BY <1>1 DEF IsBlocks, IsList
    <2>2. Len(all) \in Nat /\ DOMAIN all = 1 .. Len(all) /\ Len(all) # 0
      BY <1>2, <2>1, LenProperties, EmptySeq
    <2>3. all[1] \in ToSet(all)
      BY <2>2 DEF ToSet
    <2> QED
      BY <1>1, <2>2, <2>3 DEF IsBlocks
  <1>4. \A p : IsBlocks([all EXCEPT ![1].x = p])
    BY <1>1, WithFirst
  <1>5. IsBlocks(<<[all[1] EXCEPT !.x = LongText], Said>>)
    <2>1. [all[1] EXCEPT !.x = LongText] = [k |-> all[1].k, v |-> all[1].v, x |-> LongText]
      BY <1>3 DEF IsBlock
    <2>2. IsBlock([all[1] EXCEPT !.x = LongText]) /\ IsBlock(Said)
      BY <2>1, MadeBlocks DEF Said
    <2> QED
      BY <2>2, TwoBlocksAre
  <1>6. \A o : IsBlocks(all \o [all EXCEPT ![1].x = o])
    BY <1>1, <1>4, BothAreBlocks
  <1>7. PICK p \in Pictures, o \in OtherPictures :
            \E blocks \in {[all EXCEPT ![1].x = p],
                           <<[all[1] EXCEPT !.x = LongText], Said>>,
                           all \o [all EXCEPT ![1].x = o]} :
               Continue("user", blocks)
    BY DEF ClientReturns, all
  <1>8. PICK blocks : IsBlocks(blocks) /\ Continue("user", blocks)
    BY <1>4, <1>5, <1>6, <1>7
  <1> QED
    BY <1>8, ContinueStays

LEMMA LateStays ==
    ASSUME ConvInv, ClientReturnsLate
    PROVE  ConvInv'
  <1> DEFINE all == Results(conv[Len(conv) - 1])
  <1>1. Len(conv) \in Nat /\ Len(conv) > 1 /\ all # <<>> /\ Continue("user", <<Last(all)>>)
    BY ListIsSeq DEF ConvInv, ClientReturnsLate
  <1>2. Len(conv) - 1 \in 1 .. Len(conv)
    BY <1>1
  <1>3. IsBlocks(all)
    BY <1>2, ThereAreBlocks, ResultsAre
  <1> HIDE DEF all
  <1>4. IsBlock(Last(all))
    <2>1. all \in Seq(ToSet(all))
      BY <1>3 DEF IsBlocks, IsList
    <2>2. Len(all) \in Nat /\ DOMAIN all = 1 .. Len(all) /\ Len(all) # 0
      BY <1>1, <2>1, LenProperties, EmptySeq
    <2>3. all[Len(all)] \in ToSet(all)
      BY <2>2 DEF ToSet
    <2> QED
      BY <1>3, <2>3 DEF IsBlocks, Last
  <1> QED
    BY <1>1, <1>4, OneBlockIs, ContinueStays

LEMMA CompactedStays ==
    ASSUME ConvInv, ClientCompacted
    PROVE  ConvInv'
  <1>1. IsBlocks(<<ToolResult(10, "")>>) /\ IsBlocks(<<ToolResult(10, ""), Said>>)
    BY MadeBlocks, OneBlockIs, TwoBlocksAre DEF Said
  <1>2. PICK blocks \in {<<ToolResult(10, "")>>, <<ToolResult(10, ""), Said>>} :
            Continue("user", blocks)
    BY DEF ClientCompacted
  <1> QED
    BY <1>1, <1>2, ContinueStays

LEMMA ReplayStays ==
    ASSUME ConvInv, ClientReplays
    PROVE  ConvInv'
  <1>1. Len(conv) \in Nat /\ Len(conv) > 1 /\ Continue("assistant", conv[Len(conv)].blocks)
    BY ListIsSeq DEF ConvInv, ClientReplays, LastMessage, Last
  <1>2. IsBlocks(conv[Len(conv)].blocks)
    BY <1>1, ThereAreBlocks
  <1> QED
    BY <1>1, <1>2, ContinueStays

-----------------------------------------------------------------------------
(* What the gateway cuts off is a number of messages (CutIs), so that what   *)
(* it converts again is a piece (CutStays).                                  *)

LEMMA MaxOfTwo ==
    ASSUME NEW a \in Int, NEW b \in Int
    PROVE  Max({a, b}) \in Int /\ Max({a, b}) >= a /\ Max({a, b}) >= b
  <1>1. \E x \in {a, b} : \A y \in {a, b} : x >= y
    <2>1. CASE a >= b
      BY <2>1
    <2>2. CASE ~(a >= b)
      BY <2>2
    <2> QED
      BY <2>1, <2>2
  <1>2. Max({a, b}) \in {a, b} /\ \A y \in {a, b} : Max({a, b}) >= y
    BY <1>1 DEF Max
  <1> QED
    BY <1>2

LEMMA MinIs ==
    ASSUME NEW T \in SUBSET Nat, T # {}
    PROVE  Min(T) \in T /\ \A y \in T : Min(T) <= y
  <1>1. \E x \in T : \A y \in T : x <= y
    BY LeastNumber
  <1> QED
    BY <1>1 DEF Min

LEMMA EstimateIs ==
    ASSUME NEW ms, Len(ms) \in Nat, NEW bytes
    PROVE  Estimate(ms, bytes) \in Nat
  <1> DEFINE excess == ((bytes - limit) * Max({1, SumSeq([i \in DOMAIN ms |-> MessageBytes(ms[i])])})) \div Max({1, bytes})
             trimmable == Max({0, Len(ms) - MinRecentTurns})
             enough == {n \in 0 .. trimmable :
                          SumSeq([i \in 1 .. n |-> MessageBytes(ms[i])]) >= excess}
             n == IF enough = {} THEN trimmable ELSE Min(enough)
  <1>1. Estimate(ms, bytes) = Max({1, n})
    BY DEF Estimate
  <1>2. trimmable \in Nat
    <2> DEFINE d == Len(ms) - MinRecentTurns
    <2>1. d \in Int
      BY ConversationAssumption
    <2> HIDE DEF d
    <2>2. Max({0, d}) \in Int /\ Max({0, d}) >= 0
      <3>1. ASSUME NEW a \in Int PROVE Max({a, d}) \in Int /\ Max({a, d}) >= a
        BY <2>1, MaxOfTwo
      <3> QED
        BY <3>1
    <2> QED
      BY <2>2 DEF d
  <1>3. enough \in SUBSET (0 .. trimmable)
    OBVIOUS
  <1> HIDE DEF enough, trimmable
  <1>4. n \in Nat
    <2>1. enough \in SUBSET Nat
      BY <1>2, <1>3
    <2> QED
      BY <1>2, <2>1, MinIs
  <1> HIDE DEF n
  <1>5. Max({1, n}) \in Nat
    <2>1. Max({1, n}) \in Int /\ Max({1, n}) >= 1
      BY <1>4, MaxOfTwo
    <2> QED
      BY <2>1
  <1> QED
    BY <1>1, <1>5

LEMMA WantIs ==
    ASSUME NEW ms, Len(ms) \in Nat, NEW bytes
    PROVE  Want(ms, bytes) \in Nat
  <1> DEFINE most == Max({1, Len(ms) - MinRecentTurns})
             enough == {n \in 1 .. most : n * Max({1, bytes \div Max({1, Len(ms)})}) > bytes - limit}
  <1>1. Want(ms, bytes) = IF enough = {} THEN most ELSE Min(enough)
    BY DEF Want
  <1>2. most \in Nat
    <2> DEFINE d == Len(ms) - MinRecentTurns
    <2>1. d \in Int
      BY ConversationAssumption
    <2> HIDE DEF d
    <2>2. Max({1, d}) \in Int /\ Max({1, d}) >= 1
      BY <2>1, MaxOfTwo
    <2> QED
      BY <2>2 DEF d
  <1>3. enough \in SUBSET (1 .. most)
    OBVIOUS
  <1> HIDE DEF enough, most
  <1>4. enough \in SUBSET Nat
    BY <1>2, <1>3
  <1> QED
    BY <1>1, <1>2, <1>4, MinIs

LEMMA CutIs ==
    ASSUME NEW ms, Len(ms) \in Nat, NEW count \in Nat
    PROVE  CutOf(ms, count) \in 0 .. Len(ms)
  <1> DEFINE maxDrop == Len(ms) - MinRecentTurns
             first == IF count < maxDrop THEN count ELSE maxDrop
             good(cut) == /\ cut = maxDrop \/ ~IsPureToolResult(ms[cut + 1])
                          /\ \A c \in first .. (cut - 1) : IsPureToolResult(ms[c + 1])
             stops == {cut \in first .. maxDrop : cut = maxDrop \/ ~IsPureToolResult(ms[cut + 1])}
  <1>1. CASE Len(ms) <= MinRecentTurns \/ count = 0
    BY <1>1 DEF CutOf
  <1>2. CASE ~(Len(ms) <= MinRecentTurns \/ count = 0)
    <2>1. maxDrop \in Nat /\ first \in 0 .. maxDrop /\ maxDrop <= Len(ms)
      BY <1>2, ConversationAssumption
    <2>2. CutOf(ms, count) = CHOOSE cut \in first .. maxDrop : good(cut)
      BY <1>2 DEF CutOf
    <2>3. stops \in SUBSET Nat /\ maxDrop \in stops /\ stops \in SUBSET (first .. maxDrop)
      BY <2>1
    <2>4. PICK cut \in stops : \A y \in stops : cut <= y
      BY <2>3, LeastNumber
    <2>5. good(cut)
      <3>1. cut = maxDrop \/ ~IsPureToolResult(ms[cut + 1])
        BY <2>4
      <3>2. ASSUME NEW c \in first .. (cut - 1) PROVE IsPureToolResult(ms[c + 1])
        <4>1. c \in first .. maxDrop /\ c < cut /\ cut \in Int
          BY <2>1, <2>3, <2>4
        <4>2. c \notin stops
          BY <2>4, <4>1
        <4> QED
          BY <4>1, <4>2
      <3> QED
        BY <3>1, <3>2
    <2>6. cut \in first .. maxDrop
      BY <2>3, <2>4
    <2> HIDE DEF good
    <2>7. (CHOOSE x \in first .. maxDrop : good(x)) \in first .. maxDrop
      BY <2>5, <2>6
    <2> QED
      BY <2>1, <2>2, <2>7
  <1> QED
    BY <1>1, <1>2

LEMMA CutStays ==
    ASSUME NEW ms, IsPiece(ms), NEW cut \in 0 .. Len(ms)
    PROVE  IsPiece(Cut(ms, cut))
  <1> DEFINE U == ToSet(conv) \cup {Placeholder}
             rest == SubSeq(ms, cut + 1, Len(ms))
  <1>1. Len(ms) \in Nat /\ \A i \in 1 .. Len(ms) : ms[i] \in U
    BY ListIsSeq DEF IsPiece
  <1>2. <<Placeholder>> \in Seq(U)
    <2>1. Placeholder \in U
      OBVIOUS
    <2> HIDE DEF U
    <2> QED
      BY <2>1
  <1> HIDE DEF U
  <1>3. rest \in Seq(U)
    <2>1. \A i \in (cut + 1) .. Len(ms) : ms[i] \in U
      BY <1>1
    <2> QED
      BY <1>1, <2>1, SubSeqProperties
  <1>4. Cut(ms, cut) = <<Placeholder>> \o rest
    BY DEF Cut
  <1> HIDE DEF rest
  <1>5. Cut(ms, cut) \in Seq(U)
    BY <1>2, <1>3, <1>4, ConcatProperties
  <1>6. IsList(Cut(ms, cut)) /\ ToSet(Cut(ms, cut)) \in SUBSET U
    BY <1>5, SeqIsList
  <1> QED
    BY <1>6 DEF IsPiece, U

\* A step of the gateway's, which leaves the conversation alone.
LEMMA GatewayStays ==
    ASSUME ConvInv, conv' = conv, req' = req,
           IsPiece(messages'),
           pc' \in {"estimate", "correct", "sent"} =>
              \E ms : IsPiece(ms) /\ result' = Convert(req, ms)
    PROVE  ConvInv'
  <1>1. \A ms : IsPiece(ms) <=> (IsList(ms) /\ ToSet(ms) \subseteq ToSet(conv') \cup {Placeholder})
    BY DEF IsPiece
  <1>2. IsList(messages') /\ ToSet(messages') \subseteq ToSet(conv') \cup {Placeholder}
    BY <1>1
  <1>3. pc' \in {"estimate", "correct", "sent"} =>
          \E ms : /\ IsList(ms) /\ ToSet(ms) \subseteq ToSet(conv') \cup {Placeholder}
                  /\ result' = Convert(req', ms)
    BY <1>1
  <1>4. IsList(conv') /\ (\A m \in ToSet(conv') : IsBlocks(m.blocks)) /\ req' \in Requests
    BY DEF ConvInv
  <1> QED
    BY <1>2, <1>3, <1>4 DEF ConvInv, IsPiece

LEMMA ConvStep == ConvInv /\ [ConvNext]_convVars => ConvInv'
  <1> SUFFICES ASSUME ConvInv, [ConvNext]_convVars PROVE ConvInv'
    OBVIOUS
  <1>0. /\ Len(messages) \in Nat /\ IsPiece(messages) /\ IsPiece(conv)
    <2>1. IsPiece(messages) /\ IsList(conv)
      BY DEF ConvInv
    <2>2. Len(messages) \in Nat
      BY <2>1, ListIsSeq DEF IsPiece
    <2> QED
      BY <2>1, <2>2 DEF IsPiece
  <1>1. CASE Submit
    <2>1. conv' = conv /\ req' = req /\ messages' = conv
      BY <1>1 DEF Submit
    <2>2. pc' \in {"estimate", "correct", "sent"} => result' = Convert(req, conv)
      BY <1>1 DEF Submit
    <2> QED
      BY <1>0, <2>1, <2>2, GatewayStays
  <1>2. CASE CutEstimate
    <2> DEFINE cut == CutOf(messages, Estimate(messages, PayloadBytes(result)))
    <2>1. cut \in 0 .. Len(messages)
      BY <1>0, EstimateIs, CutIs
    <2>2. IsPiece(Cut(messages, cut))
      BY <1>0, <2>1, CutStays
    <2>3. /\ conv' = conv /\ req' = req /\ pc = "estimate" /\ pc' = "correct"
          /\ \/ messages' = messages /\ result' = result
             \/ messages' = Cut(messages, cut) /\ result' = Convert(req, Cut(messages, cut))
      BY <1>2 DEF CutEstimate
    <2>4. \E ms : IsPiece(ms) /\ result = Convert(req, ms)
      BY <2>3 DEF ConvInv
    <2> HIDE DEF cut
    <2>5. \E ms : IsPiece(ms) /\ result' = Convert(req, ms)
      BY <2>2, <2>3, <2>4
    <2>6. IsPiece(messages')
      <3>1. messages' = messages \/ messages' = Cut(messages, cut)
        BY <2>3
      <3> QED
        BY <1>0, <2>2, <3>1
    <2> QED
      BY <2>3, <2>5, <2>6, GatewayStays
  <1>3. CASE CutMore
    <2> DEFINE cut == CutOf(messages, Want(messages, PayloadBytes(result)))
    <2>1. cut \in 0 .. Len(messages)
      BY <1>0, WantIs, CutIs
    <2>2. IsPiece(Cut(messages, cut))
      BY <1>0, <2>1, CutStays
    <2>3. /\ conv' = conv /\ req' = req /\ pc = "correct"
          /\ messages' = messages \/ messages' = Cut(messages, cut)
          /\ result' = result \/ (messages' = Cut(messages, cut) /\ result' = Convert(req, messages'))
      <3> DEFINE bytes == PayloadBytes(result)
                 stop == \/ bytes <= limit
                         \/ iters >= MaxTrimIters
                         \/ Len(messages) <= MinRecentTurns + 1
                         \/ cut = 0
      <3>1. /\ pc = "correct" /\ conv' = conv /\ req' = req
            /\ IF stop THEN pc' = "sent" /\ UNCHANGED <<messages, result, iters>>
               ELSE /\ messages' = Cut(messages, cut)
                    /\ IF Len(messages') >= Len(messages)
                       THEN pc' = "sent" /\ UNCHANGED <<result, iters>>
                       ELSE /\ result' = Convert(req, messages')
                            /\ iters' = iters + 1 /\ UNCHANGED pc
        BY <1>3 DEF CutMore
      <3> HIDE DEF stop, cut
      <3>2. CASE stop
        BY <3>1, <3>2
      <3>3. CASE ~stop
        BY <3>1, <3>3
      <3> QED
        BY <3>2, <3>3
    <2>4. \E ms : IsPiece(ms) /\ result = Convert(req, ms)
      BY <2>3 DEF ConvInv
    <2> HIDE DEF cut
    <2>5. \E ms : IsPiece(ms) /\ result' = Convert(req, ms)
      <3>1. result' = result \/ result' = Convert(req, Cut(messages, cut))
        BY <2>3
      <3> QED
        BY <2>2, <2>4, <3>1
    <2>6. IsPiece(messages')
      <3>1. messages' = messages \/ messages' = Cut(messages, cut)
        BY <2>3
      <3> QED
        BY <1>0, <2>2, <3>1
    <2> QED
      BY <2>3, <2>5, <2>6, GatewayStays
  <1>4. CASE Client
    BY <1>4, UserStays, AnswerStays, ReturnStays, LateStays, CompactedStays, ReplayStays DEF Client
  <1>5. CASE UNCHANGED convVars
    <2>1. /\ conv' = conv /\ req' = req /\ messages' = messages /\ result' = result /\ pc' = pc
      BY <1>5 DEF convVars
    <2>2. pc' \in {"estimate", "correct", "sent"} => \E ms : IsPiece(ms) /\ result' = Convert(req, ms)
      BY <2>1 DEF ConvInv
    <2> QED
      BY <1>0, <2>1, <2>2, GatewayStays
  <1> QED
    BY <1>1, <1>2, <1>3, <1>4, <1>5 DEF ConvNext, Gateway

-----------------------------------------------------------------------------
(* Every call, of every request.                                             *)

\* The names that are given back are the client's, and the gateway knows them.
LEMMA NamesComeBack ==
    ASSUME ConvInv, pc = "sent", NEW i \in DOMAIN result.tools,
           NEW t, t = result.tools[i],
           NEW client, client = RestoreToolUse(t, <<>>, result.nameMap).name
    PROVE  /\ client \in ToSet(req.tools) \cup Used(conv)
           /\ client \in ToSet(req.tools) => client \in result.known /\ t \in result.known
           /\ ToKiroName(client, req.mode) = t
  <1>1. PICK ms : IsPiece(ms) /\ result = Convert(req, ms)
    BY DEF ConvInv
  <1>2. IsList(req.tools)
    BY ConversationAssumption DEF ConvInv
  <1>3. IsList(ms) /\ \A m \in ToSet(ms) : IsMessage(m)
    <2>1. IsMessage(Placeholder)
      <3>1. IsBlocks(<<Note("truncated")>>)
        BY MadeBlocks, OneBlockIs
      <3> QED
        BY <3>1 DEF Placeholder, IsMessage, IsBlocks
    <2>2. \A m \in ToSet(conv) : IsMessage(m)
      BY DEF ConvInv, IsMessage, IsBlocks
    <2> QED
      BY <1>1, <2>1, <2>2 DEF IsPiece
  <1>4. PICK D : /\ ToSet(req.tools) \subseteq D /\ D \subseteq ToSet(req.tools) \cup Used(ms)
                 /\ ShowsTools(result, req, D)
    <2>1. Messages(ms)
      BY <1>3 DEF Messages
    <2> QED
      BY <1>1, <1>2, <2>1, ToolsShown
  <1>5. PICK d \in D : t = ToKiroName(d, req.mode)
    <2>1. t \in ToSet(result.tools)
      BY DEF ToSet
    <2> QED
      BY <1>4, <2>1 DEF ShowsTools
  <1>6. client \in D /\ ToKiroName(client, req.mode) = t
    <2>1. client = RestoreToolUse(t, <<>>, NameMap(D, req.mode)).name
      BY <1>4 DEF ShowsTools
    <2> QED
      BY <1>5, <2>1, NameBack
  <1>7. Used(ms) \subseteq Used(conv)
    <2>1. /\ Used(ms) = {b.x : b \in CallsOf(ToSet(ms))}
          /\ Used(conv) = {b.x : b \in CallsOf(ToSet(conv))}
      BY <1>3, UsedIs DEF ConvInv
    <2>2. CallsOf({Placeholder}) = {}
      <3>1. ToSet(Placeholder.blocks) = {Note("truncated")}
        BY DEF Placeholder, ToSet
      <3>2. Note("truncated").k = "text"
        BY DEF Note
      <3> QED
        BY <3>1, <3>2 DEF CallsOf
    <2>3. CallsOf(ToSet(ms)) \subseteq CallsOf(ToSet(conv)) \cup CallsOf({Placeholder})
      BY <1>1 DEF IsPiece, CallsOf
    <2> QED
      BY <2>1, <2>2, <2>3
  <1>8. ASSUME client \in ToSet(req.tools) PROVE client \in result.known /\ t \in result.known
    <2>1. client # t => t \in DOMAIN NameMap(ToSet(req.tools), req.mode)
      BY <1>6, <1>8 DEF NameMap
    <2> QED
      BY <1>4, <1>8, <2>1 DEF ShowsTools
  <1> QED
    BY <1>4, <1>6, <1>7, <1>8

\* A call of a built-in tool, sent again.
LEMMA BuiltInsComeBack ==
    ASSUME NEW client, NEW mode, BuiltIn(client, mode), NEW t, ToKiroName(client, mode) = t,
           NEW call \in ModelCalls(t, 1 .. 3), NEW input, input = InputFromKiro(t, call),
           NEW replay, replay = InputToKiro(client, input, mode)
    PROVE  FitsSchema(t, replay) /\ InputFromKiro(t, replay) = input
  <1>1. client \in DOMAIN KiroName /\ mode = "ClaudeCode" /\ t = KiroName[client]
    BY DEF BuiltIn, ToKiroName
  <1>2. replay = InputToKiro(client, input, "ClaudeCode")
    BY <1>1
  <1>3. Required[t] \cap Optional[t] = {} /\ (t = "read_file" <=> client = "Read")
    BY <1>1, PairsAre
  <1>4. IsModelCall(t, call)
    <2>1. 1 .. 3 \in SUBSET Int /\ 1 .. 3 # {}
      OBVIOUS
    <2> QED
      BY <1>3, <2>1, CallsAre
  <1>5. CASE client = "Read"
    BY <1>2, <1>3, <1>4, <1>5, ReadsComeBack
  <1>6. CASE client # "Read"
    BY <1>1, <1>2, <1>4, <1>6, OthersComeBack
  <1> QED
    BY <1>5, <1>6

(* In every request of a conversation, whatever was declared, called, cut    *)
(* off, replayed or compacted before and in whatever mode: a call the model  *)
(* makes of a tool it was shown comes back under a name the client declared  *)
(* or has called; of a built-in tool with arguments that mean the same when  *)
(* they are sent again, of another one as it was just when the tool has no   *)
(* name of Kiro's or only the arguments Claude Code's tool is given.         *)
THEOREM CallsAlwaysComeBack == ConvSpec => []CallsComeBack
  <1>1. ConvInit => ConvInv
    <2>1. <<>> \in Seq({})
      OBVIOUS
    <2>2. IsList(<<>>) /\ ToSet(<<>>) \in SUBSET {}
      BY <2>1, SeqIsList
    <2> QED
      BY <2>2 DEF ConvInit, ConvInv, IsPiece
  <1>2. ConvInv => CallsComeBack
    <2> SUFFICES ASSUME ConvInv, pc = "sent", NEW i \in DOMAIN result.tools
                 PROVE  LET t      == result.tools[i]
                            client == RestoreToolUse(t, <<>>, result.nameMap).name
                            input(call) == RestoreToolUse(t, call, result.nameMap).input
                        IN  /\ client \in ToSet(req.tools) \union Used(conv)
                            /\ client \in ToSet(req.tools) => {client, t} \subseteq result.known
                            /\ Lower(ToKiroName(client, req.mode)) = Lower(t)
                            /\ BuiltIn(client, req.mode) =>
                                 \A call \in ModelCalls(t, 1..3) :
                                    LET replay == InputToKiro(client, input(call), req.mode)
                                    IN  /\ FitsSchema(t, replay)
                                        /\ InputFromKiro(t, replay) = input(call)
                            /\ ~BuiltIn(client, req.mode) =>
                                 \A call \in SomeArguments :
                                    input(call) = call <=> ComesBackAsItWas(t, call)
      BY DEF CallsComeBack
    <2> DEFINE t == result.tools[i]
               client == RestoreToolUse(t, <<>>, result.nameMap).name
    <2>1. /\ client \in ToSet(req.tools) \cup Used(conv)
          /\ client \in ToSet(req.tools) => client \in result.known /\ t \in result.known
          /\ ToKiroName(client, req.mode) = t
      BY NamesComeBack
    <2>2. \A call : RestoreToolUse(t, call, result.nameMap).input = InputFromKiro(t, call)
      BY DEF RestoreToolUse
    <2> HIDE DEF t, client
    <2>3. BuiltIn(client, req.mode) =>
            \A call \in ModelCalls(t, 1..3) :
               LET replay == InputToKiro(client, InputFromKiro(t, call), req.mode)
               IN  /\ FitsSchema(t, replay)
                   /\ InputFromKiro(t, replay) = InputFromKiro(t, call)
      BY <2>1, BuiltInsComeBack
    <2>4. \A call \in SomeArguments :
             InputFromKiro(t, call) = call <=> ComesBackAsItWas(t, call)
      BY OwnInput
    <2> QED
      BY <2>1, <2>2, <2>3, <2>4 DEF t, client
  <1> QED
    BY <1>1, <1>2, ConvStep, PTL DEF ConvSpec
=============================================================================
