---------------------------- MODULE ReplyCache ----------------------------
(***************************************************************************)
(* The cache of whole answers (src/src/anthropic/response_cache.rs): a map *)
(* from the digest of a request to the answer that was sent for it, with a *)
(* time to live and eviction of the least recently used entry.  It lives   *)
(* in memory only.                                                         *)
(***************************************************************************)
EXTENDS Naturals, Sequences, SequencesExt, Functions

CONSTANTS Capacity,    \* entries the cache holds
          Ttl,         \* default_ttl_secs, in clock ticks
          CacheOn      \* response_cache_enabled of config.json

ASSUME TtlAssumption == Ttl \in Nat

VARIABLES cache,      \* digest -> [body, expires]
          lru         \* the digests, least recently used first: last_seq

cacheVars == <<cache, lru>>

CacheInit == cache = << >> /\ lru = << >>

Touch(d) == Append(SelectSeq(lru, LAMBDA x : x # d), d)

(* isolation_seed: the session of the metadata if there is one; a request  *)
(* with the shared master key (id 0) and no session has none; otherwise    *)
(* the key and the first message of the conversation.                      *)
Unshared == <<"no seed">>
IsolationSeed(conv, key) ==
    IF conv.session # "none" THEN <<"sess", conv.session>>
    ELSE IF key = 0 THEN Unshared
    ELSE <<"key", key, conv.root>>

(* compute_key digests the seed, the model, the stream flag, the messages  *)
(* and the tools.                                                          *)
Digest(conv, key, streamed) == <<IsolationSeed(conv, key), streamed, conv>>

(* effective_config and resolve_response_cache: the key's override first,  *)
(* then the global switch; a request without a seed is not cached.         *)
Enabled(override) == IF override = "unset" THEN CacheOn ELSE override = "on"
Cacheable(conv, key, override) == Enabled(override) /\ IsolationSeed(conv, key) # Unshared

(* Mutant: an entry is still used when its time is up. *)
Fresh_Late(d, now) == d \in DOMAIN cache /\ now <= cache[d].expires

Fresh(d, now) == d \in DOMAIN cache /\ now < cache[d].expires

(* get: a hit becomes the most recently used; an expired entry is removed. *)
Hit(d, now) ==
    /\ Fresh(d, now)
    /\ lru' = Touch(d)
    /\ UNCHANGED cache

Drop(ds) ==
    /\ cache' = Restrict(cache, DOMAIN cache \ ds)
    /\ lru' = SelectSeq(lru, LAMBDA x : x \notin ds)

Miss(d, now) ==
    /\ ~Fresh(d, now)
    /\ Drop({d})

(* put: stored with the time to live resolved when the request began, then *)
(* the least recently used entries go while there are too many.            *)
Put(d, body, now) ==
    LET all == [x \in DOMAIN cache \union {d} |->
                   IF x = d THEN [body |-> body, expires |-> now + Ttl] ELSE cache[x]]
        order == Touch(d)
        excess == IF Len(order) > Capacity THEN Len(order) - Capacity ELSE 0
    IN  /\ lru' = SubSeq(order, excess + 1, Len(order))
        /\ cache' = Restrict(all, DOMAIN all \ ToSet(SubSeq(order, 1, excess)))

EvictExpired(now) == Drop({d \in DOMAIN cache : ~Fresh(d, now)})

=============================================================================
