----------------------------- MODULE PromptCache -----------------------------
(* The prompt cache the gateway simulates to bill cached prompts             *)
(* (src/src/anthropic/cache_metering.rs).  It remembers, by hash, the        *)
(* prefixes of the prompts it saw; the longest one of a new prompt that is   *)
(* remembered counts as read from the cache.  Looking up and recording are   *)
(* two critical sections of a request, between which other requests and the  *)
(* background task run; the background task drops what expired and writes    *)
(* the rest to a file it does not replace atomically.                        *)
(*                                                                           *)
(* A prompt is [seed, base, blocks, long, id]: isolation seed, whether there *)
(* are tools or a system prompt, its content blocks [s, first, mark], and    *)
(* whether some cache_control asks for an hour.  s is the block's signature, *)
(* first marks the first block of a message, mark a cache_control.           *)
EXTENDS CacheBilling, Sequences, FiniteSets, Functions

CONSTANTS
    Callers,         \* requests being served at a time
    Prompts,         \* prompts clients send
    NoSeed,          \* the seed of a prompt that must not be cached
    ShortTtl, LongTtl, Grace,   \* 5m, 1h and GRACE_PERIOD_SECS
    Capacity,        \* DEFAULT_CAPACITY
    MaxTime,         \* bound: the clock
    MaxCalls,        \* bound: requests served
    MaxRestarts      \* bound: restarts

ASSUME CacheAssumption ==
    /\ Grace \in Nat /\ Capacity \in Nat \ {0}
    /\ ShortTtl \in Nat /\ LongTtl \in Nat /\ ShortTtl <= LongTtl
    /\ \A p \in Prompts : p.blocks \in Seq(Range(p.blocks))

VARIABLES
    entries,         \* Inner.entries: key |-> [exp, hit]
    dirty,           \* Inner.dirty
    file,            \* the file: its entries, and whether it is whole
    task,            \* the background task: [at, snapshot]
    now,             \* the clock
    calls,           \* per caller: [at, prompt, read]
    served,          \* number of calls so far
    restarts,        \* number of restarts so far
    recorded,        \* history: key |-> the expiry last recorded for it
    forgot,          \* history: a restart or the capacity took entries away
    failed           \* history: the last write failed

cacheVars == <<entries, dirty, file, task, now, calls, served, restarts, recorded, forgot,
               failed>>

\* extract_segments: the blocks after which a segment ends, the end of every
\* message but the last one and every cache_control; 0 is the base.
Cuts(p) ==
    (IF p.base THEN {0} ELSE {})
    \union {i \in DOMAIN p.blocks :
              \/ p.blocks[i].mark
              \/ i < Len(p.blocks) /\ p.blocks[i + 1].first}

\* A segment's key: everything hashed so far (mark is not).
KeyOf(p, i) ==
    <<p.seed, p.base, [j \in 1..i |-> <<p.blocks[j].s, p.blocks[j].first>>]>>

Segments(p) == IF p.seed = NoSeed THEN {} ELSE Cuts(p)
Keys(p) == {KeyOf(p, i) : i \in Segments(p)}

\* Estimated tokens of a prefix: two for the base, one for a block.
Tokens(p, i) == (IF p.base THEN 2 ELSE 0) + i

Deepest(S) == CHOOSE i \in S : \A j \in S : j <= i

\* The prefix of p that ends at the deepest of the cuts, in tokens.
DeepestTokens(p, cuts) == IF cuts = {} THEN 0 ELSE Tokens(p, Deepest(cuts))

Alive(e) == e.exp > now \/ now - e.exp < Grace

\* compute_cache_usage, the usage of a call.
UsageOf(c) ==
    LET p == calls[c].prompt
    IN  Usage(calls[c].read, DeepestTokens(p, Segments(p)),
              IF p.seed = NoSeed THEN 0 ELSE Tokens(p, Len(p.blocks)), p.long)

-----------------------------------------------------------------------------
NoPrompt == [seed |-> NoSeed, base |-> FALSE, blocks |-> <<>>, long |-> FALSE]
Idle == [at |-> "idle", prompt |-> NoPrompt, read |-> 0]

CacheInit ==
    /\ entries = <<>> /\ recorded = <<>>
    /\ file = [whole |-> TRUE, entries |-> <<>>]
    /\ dirty = FALSE /\ forgot = FALSE /\ failed = FALSE
    /\ task = [at |-> "sleep", snapshot |-> <<>>]
    /\ now = 0 /\ served = 0 /\ restarts = 0
    /\ calls = [c \in Callers |-> Idle]

\* CacheMeter::lookup: the deepest segment that is remembered is read, and
\* every remembered one was hit now.  A prompt without segments is done.
Lookup(c) ==
    /\ calls[c].at = "idle" /\ served < MaxCalls
    /\ served' = served + 1
    /\ \E p \in Prompts :
        LET hits == {i \in Segments(p) : /\ KeyOf(p, i) \in DOMAIN entries
                                         /\ Alive(entries[KeyOf(p, i)])}
        IN  /\ calls' = [calls EXCEPT ![c] =
                            IF Segments(p) = {} THEN Idle
                            ELSE [at |-> "found", prompt |-> p,
                                  read |-> DeepestTokens(p, hits)]]
            /\ entries' = [k \in DOMAIN entries |->
                              IF k \in {KeyOf(p, i) : i \in hits}
                              THEN [entries[k] EXCEPT !.hit = now] ELSE entries[k]]
    /\ UNCHANGED <<dirty, file, task, now, restarts, recorded, forgot, failed>>

\* CacheMeter::record: every segment gets the request's time to live, and the
\* least recently hit entries go when there are too many.
Record(c) ==
    LET p   == calls[c].prompt
        exp == now + (IF p.long THEN LongTtl ELSE ShortTtl)
        all == [k \in DOMAIN entries \union Keys(p) |->
                  IF k \in Keys(p) THEN [exp |-> exp, hit |-> now] ELSE entries[k]]
        surplus == Cardinality(DOMAIN all) - Capacity
    IN  /\ calls[c].at = "found"
        /\ calls' = [calls EXCEPT ![c] = Idle]
        /\ dirty' = TRUE
        /\ recorded' = [k \in DOMAIN recorded \union Keys(p) |->
                          IF k \in Keys(p) THEN exp ELSE recorded[k]]
        /\ \E victims \in SUBSET DOMAIN all :
            /\ Cardinality(victims) = IF surplus > 0 THEN surplus ELSE 0
            /\ \A v \in victims, k \in DOMAIN all \ victims : all[v].hit <= all[k].hit
            /\ entries' = Restrict(all, DOMAIN all \ victims)
            /\ forgot' = (forgot \/ victims # {})
        /\ UNCHANGED <<file, task, now, served, restarts, failed>>

-----------------------------------------------------------------------------
(* The background task: sleep, evict_expired, flush_to_disk.                 *)

TaskAt(from, to) == task.at = from /\ task' = [task EXCEPT !.at = to]

\* Mutant: entries go as soon as they expire, without the grace period.
Evict_AtOnce ==
    LET kept == {k \in DOMAIN entries : entries[k].exp > now}
    IN  /\ TaskAt("sleep", "flush")
        /\ entries' = Restrict(entries, kept)
        /\ dirty' = (dirty \/ kept # DOMAIN entries)
        /\ UNCHANGED <<file, now, calls, served, restarts, recorded, forgot, failed>>

Evict ==
    LET kept == {k \in DOMAIN entries : now - entries[k].exp < Grace}
    IN  /\ TaskAt("sleep", "flush")
        /\ entries' = Restrict(entries, kept)
        /\ dirty' = (dirty \/ kept # DOMAIN entries)
        /\ UNCHANGED <<file, now, calls, served, restarts, recorded, forgot, failed>>

\* The snapshot is taken and the flag cleared under the lock, the file is
\* written without it.
Snapshot ==
    /\ task.at = "flush"
    /\ IF dirty THEN task' = [at |-> "write", snapshot |-> entries] /\ dirty' = FALSE
       ELSE task' = [task EXCEPT !.at = "sleep"] /\ UNCHANGED dirty
    /\ UNCHANGED <<entries, file, now, calls, served, restarts, recorded, forgot, failed>>

\* fs::write truncates the file and may fail before or after that; the error
\* is logged, dirty stays cleared.
BeginWrite ==
    /\ task.at = "write"
    /\ \/ TaskAt("write", "writing") /\ file' = [file EXCEPT !.whole = FALSE]
          /\ UNCHANGED failed
       \/ TaskAt("write", "sleep") /\ failed' = TRUE /\ UNCHANGED file
    /\ UNCHANGED <<entries, dirty, now, calls, served, restarts, recorded, forgot>>

EndWrite ==
    /\ TaskAt("writing", "sleep")
    /\ \/ file' = [whole |-> TRUE, entries |-> task.snapshot] /\ failed' = FALSE
       \/ failed' = TRUE /\ UNCHANGED file
    /\ UNCHANGED <<entries, dirty, now, calls, served, restarts, recorded, forgot>>

Background == Evict \/ Snapshot \/ BeginWrite \/ EndWrite

\* The process ends at any point and starts again (CacheMeter::new): what the
\* file has and did not expire is back, nothing when the file is torn.
Restart ==
    /\ restarts < MaxRestarts /\ restarts' = restarts + 1
    /\ LET saved == IF file.whole THEN file.entries ELSE <<>>
       IN  entries' = Restrict(saved, {k \in DOMAIN saved : saved[k].exp > now})
    /\ dirty' = FALSE /\ forgot' = TRUE
    /\ task' = [at |-> "sleep", snapshot |-> <<>>]
    /\ calls' = [c \in Callers |-> Idle]
    /\ UNCHANGED <<file, now, served, recorded, failed>>

Tick == now < MaxTime /\ now' = now + 1
        /\ UNCHANGED <<entries, dirty, file, task, calls, served, restarts, recorded, forgot,
                        failed>>

CacheNext == \/ \E c \in Callers : Lookup(c) \/ Record(c)
             \/ Background \/ Restart \/ Tick

CacheSpec == CacheInit /\ [][CacheNext]_cacheVars

-----------------------------------------------------------------------------
(* Properties.                                                               *)

\* The cache is what was recorded: however lookups, records, eviction and the
\* task interleave, as long as nothing was forgotten every prefix recorded
\* within its time and the grace period is there with the expiry of the last
\* request that had it, so that a conversation that goes on reads its whole
\* recorded prefix (cache_metering.rs:667-671).
CacheIsWhatWasRecorded ==
    /\ DOMAIN entries \subseteq DOMAIN recorded
    /\ ~forgot => \A k \in DOMAIN recorded :
          now - recorded[k] < Grace => /\ k \in DOMAIN entries
                                       /\ entries[k].exp = recorded[k]

\* Once the task sleeps and nothing is to be saved, a restart brings back every
\* entry that has not expired, with its expiry (unless the last write failed).
CleanMeansSaved ==
    task.at = "sleep" /\ ~dirty /\ ~failed =>
        \A k \in DOMAIN entries : entries[k].exp > now =>
            /\ file.whole /\ k \in DOMAIN file.entries
            /\ file.entries[k].exp = entries[k].exp

\* In memory and, once it is saved, in the file.
CacheIsTrue == CacheIsWhatWasRecorded /\ CleanMeansSaved

\* A call is billed for what it sent: a prefix that is read was recorded for
\* the same seed and is no longer than what the request marks as cached.  And
\* whatever the cache answers, the total the upstream reports and a key's
\* billing settings are, the split of the bill is fair.
BillsAddUp ==
    /\ \A c \in Callers :
          LET p == calls[c].prompt
          IN  calls[c].read > 0 =>
                /\ \E i \in Segments(p) : /\ calls[c].read = Tokens(p, i)
                                          /\ KeyOf(p, i) \in DOMAIN recorded
                /\ calls[c].read <= UsageOf(c).cache_covered_est
    /\ served = 0 =>
          \A total \in -1..6, prompt \in 0..4, long, mode \in BOOLEAN,
             ratio \in {-1, 0, 7, 20}, creation \in {0, 7, 30}, cap \in {0, 2, 21, 25} :
            \A covered \in 0..(prompt + 1) : \A read \in 0..covered :
              LET u == ApplyKeyBilling(Usage(read, covered, prompt, long),
                                       ratio, cap, mode, creation)
              IN  FairSplit(u, IF total < 0 THEN 0 ELSE total, SplitFinal(u, total))
=============================================================================
