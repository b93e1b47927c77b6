------------------------------ MODULE Gateway ------------------------------
(***************************************************************************)
(* The life of a request to /v1/messages and /cc/v1/messages, from the     *)
(* authentication middleware to the books it leaves behind                 *)
(* (src/src/anthropic/middleware.rs, handlers.rs): the keys, the cache of  *)
(* answers, the upstream call, the usage log with its statistics, the      *)
(* totals of the key and the trace.  The handlers touch these one after    *)
(* the other, each under a lock of its own; other requests, the            *)
(* administrator, the cleanup tasks and a crash come in between.           *)
(*                                                                         *)
(* The upstream call itself is the module Provider and what a stream turns *)
(* into is SseStream; here a call fails or names the account that          *)
(* answered, and an answer is one of Results.                              *)
(***************************************************************************)
EXTENDS ClientKeys, UsageLog, TraceStore, ReplyCache

CONSTANTS Requests,     \* requests, each made once
          Accounts,     \* upstream accounts
          GroupsOf,     \* account -> the groups it is in
          Convs,        \* conversations: [session, root]
          MayAsk,       \* request -> what it may be: [secret, kind, conv]
          StartAt,      \* the hour of the first start
          MaxNow,       \* bound on the clock, in hours
          EditedKeys,   \* bound on the keys the administrator events
          MaxEvents     \* bound on what disturbs a run, see `events`

(* An account has an id, which is not 0; the records in the log at the     *)
(* start are of earlier requests, in a file of their day or a later one.   *)
ASSUME GatewayAssumption ==
    /\ StartAt \in Nat /\ 0 \notin Accounts
    /\ Retention \subseteq Nat
    /\ \A d \in DOMAIN LogsAtStart : d \in Nat /\ \A rec \in LogsAtStart[d] :
          rec.id \notin Requests /\ rec.ts \in 0 .. StartAt /\ Day(rec.ts) <= d

VARIABLES now, accounts, req,
          events   \* edits, cleanups, restarts, failed log writes, and requests
                   \* that began while another was under way

vars == <<keyVars, usageVars, traceVars, cacheVars, now, accounts, req, events>>

Kinds == {"json", "sse", "buffered"}
Results == {"clean", "other", "empty", "broken", "cut"}

Fail(c) == [cred |-> c, outcome |-> "transient"]
Success(c) == [cred |-> c, outcome |-> "success"]
NoReply == [by |-> "none"]

Fresh0 == [pc |-> "idle", key |-> 0, group |-> NoGroup, bound |-> NoGroup, rcache |-> "unset",
           kind |-> "json", conv |-> CHOOSE c \in Convs : TRUE, start |-> 0, stamp |-> 0,
           cred |-> 0, attempts |-> << >>, status |-> "none", trace |-> "none",
           store |-> FALSE, clean |-> FALSE, retried |-> FALSE, reply |-> NoReply]

Done == [Fresh0 EXCEPT !.pc = "done"]
Gone == [Fresh0 EXCEPT !.pc = "gone"]

Init ==
    /\ now = StartAt
    /\ KeysInit /\ UsageInit(now) /\ TraceInit /\ CacheInit
    /\ accounts = Accounts
    /\ req = [r \in Requests |-> Fresh0]
    /\ events = 0

Event == events < MaxEvents /\ events' = events + 1
Open(r) == req[r].pc \notin {"idle", "done", "gone"}
Go(r, pc) == req' = [req EXCEPT ![r].pc = pc]
Streamed(r) == req[r].kind # "json"
DigestOf(r) == Digest(req[r].conv, req[r].key, Streamed(r))

(* credential_matches_request: a request without a group may use any       *)
(* account.                                                                *)
InGroup(c, g) == g = NoGroup \/ g \in GroupsOf[c]
Usable(g) == {c \in accounts : InGroup(c, g)}

-----------------------------------------------------------------------------
(* Authentication, then the settings of the key, read one getter at a time *)
(* under locks of their own.                                               *)

(* auth_middleware: a plaintext that is no enabled key's is answered 401   *)
(* and touches nothing.                                                    *)
Authenticate(r) ==
    /\ req[r].pc = "idle"
    /\ events' = events + Cardinality({q \in Requests : Open(q)})
    /\ events' <= MaxEvents
    /\ \E ask \in MayAsk[r] : \E id \in Valid(ask.secret) :
          /\ VerifyAndTouch(id, r)
          /\ req' = [req EXCEPT ![r] = [@ EXCEPT !.pc = "verified", !.key = id, !.kind = ask.kind,
                                                 !.conv = ask.conv, !.start = now,
                                                 !.bound = GroupOf(id)]]
    /\ UNCHANGED <<usageVars, traceVars, cacheVars, now, accounts>>

ReadGroup(r) ==
    /\ req[r].pc = "verified" /\ ~saving
    /\ req' = [req EXCEPT ![r].pc = "bound", ![r].group = GroupOf(req[r].key)]
    /\ UNCHANGED <<keyVars, usageVars, traceVars, cacheVars, now, accounts, events>>

ReadSettings(r) ==
    /\ req[r].pc = "bound" /\ ~saving
    /\ req' = [req EXCEPT ![r].pc = "ready", ![r].rcache = OverrideOf(req[r].key)]
    /\ UNCHANGED <<keyVars, usageVars, traceVars, cacheVars, now, accounts, events>>

-----------------------------------------------------------------------------
(* The handler.  `Close` is the point at which a branch calls hook.record: *)
(* the record is stamped, and the steps of the books follow.  What a       *)
(* request no longer needs is put back to its initial value.               *)

Close(r, q) ==
    req' = [req EXCEPT ![r] = [q EXCEPT !.pc = "log", !.stamp = now, !.group = NoGroup,
                                        !.bound = NoGroup, !.rcache = "unset",
                                        !.retried = FALSE]]

Books == UNCHANGED <<keyVars, usageVars, traceVars, now, accounts, events>>

(* No provider, a request that does not convert, or one that does not      *)
(* serialize: an error without an account and without a trace.             *)
Reject(r) ==
    /\ req[r].pc = "ready"
    /\ Close(r, [req[r] EXCEPT !.status = "error"])
    /\ Books /\ UNCHANGED cacheVars

(* A request with nothing but the web-search tool is answered by the MCP   *)
(* endpoint: no account in the books, and no trace.                        *)
WebSearchOnly(r) ==
    /\ req[r].pc = "ready"
    /\ \E ok \in {"success", "error"} : Close(r, [req[r] EXCEPT !.status = ok])
    /\ Books /\ UNCHANGED cacheVars

Replay(r) ==
    /\ req[r].pc = "ready"
    /\ Cacheable(req[r].conv, req[r].key, req[r].rcache)
    /\ Hit(DigestOf(r), now)
    /\ Close(r, [req[r] EXCEPT !.status = "success", !.reply = cache[DigestOf(r)].body])
    /\ Books

AskUpstream(r) ==
    /\ req[r].pc = "ready"
    /\ IF Cacheable(req[r].conv, req[r].key, req[r].rcache)
       THEN Miss(DigestOf(r), now) /\ req' = [req EXCEPT ![r].pc = "calling", ![r].store = TRUE]
       ELSE UNCHANGED cacheVars /\ Go(r, "calling")
    /\ Books

(* The attempts a failed call leaves: none when no account could be taken. *)
(* Those that failed before an answer are left out: the books look at the  *)
(* last one and at the one that succeeded.                                 *)
Failed(g) == {<< >>} \union {<<Fail(c)>> : c \in Usable(g)}

CallFails(r) ==
    /\ req[r].pc = "calling"
    /\ \E as \in Failed(req[r].group) :
          Close(r, [req[r] EXCEPT !.status = "error", !.trace = "error", !.attempts = as])
    /\ Books /\ UNCHANGED cacheVars

CallAnswers(r) ==
    /\ req[r].pc \in {"calling", "retrying"}
    /\ \E c \in Usable(req[r].group) :
          req' = [req EXCEPT ![r].pc = "answering", ![r].cred = c,
                             ![r].attempts = Append(@, Success(c))]
    /\ Books /\ UNCHANGED cacheVars

(* The end of the body, by what it carried: an answer that ends its turn,  *)
(* another whole answer (a tool call, a limit), nothing, an error frame or *)
(* broken tool JSON, a body cut short (a transport error; in an answer     *)
(* that is not streamed an error frame counts as one).                     *)
(* Mutant: a transport error is booked as a success. *)
StatusOf_Cut(result) == IF result = "broken" THEN "error" ELSE "success"

StatusOf(result) == IF result \in {"broken", "cut"} THEN "error" ELSE "success"

TraceOf(result) == IF result = "cut" THEN "interrupted" ELSE StatusOf(result)

Answer(r) ==
    /\ req[r].pc = "answering"
    /\ \E result \in Results :
          /\ ~(req[r].kind = "buffered" /\ result = "empty" /\ ~req[r].retried)
          /\ Close(r, [req[r] EXCEPT !.status = StatusOf(result), !.trace = TraceOf(result),
                                   !.clean = (result = "clean")])
    /\ Books /\ UNCHANGED cacheVars

(* The buffered stream asks again once when the answer was empty; when     *)
(* that fails or takes too long it sends the empty answer as a success.    *)
EmptyAnswer(r) ==
    /\ req[r].pc = "answering" /\ req[r].kind = "buffered" /\ ~req[r].retried
    /\ req' = [req EXCEPT ![r].pc = "retrying", ![r].retried = TRUE]
    /\ Books /\ UNCHANGED cacheVars

RetryFails(r) ==
    /\ req[r].pc = "retrying"
    /\ \E as \in Failed(req[r].group) :
          Close(r, [req[r] EXCEPT !.status = "success", !.trace = "success",
                                !.attempts = @ \o as])
    /\ Books /\ UNCHANGED cacheVars

(* The client hangs up: the future is dropped where it waits, with its     *)
(* books unwritten.                                                        *)
HangUp(r) ==
    /\ req[r].pc \in {"calling", "answering", "retrying"}
    /\ req' = [req EXCEPT ![r] = Gone]
    /\ Books /\ UNCHANGED cacheVars

-----------------------------------------------------------------------------
(* The books: UsageRecordHook::record, RequestTracer::finalize, the cache. *)

RecordOf(r) == [id |-> r, ts |-> req[r].stamp, key |-> req[r].key, cred |-> req[r].cred,
                ok |-> req[r].status = "success"]

WriteLog(r) ==
    /\ req[r].pc = "log"
    /\ \/ RecordLine(RecordOf(r), now) /\ UNCHANGED events
       \/ LineFails(RecordOf(r)) /\ Event
    /\ Go(r, "ingest")
    /\ UNCHANGED <<keyVars, hours, days, retention, purged, traceVars, cacheVars, now, accounts>>

IngestRecord(r) ==
    /\ req[r].pc = "ingest"
    /\ Ingest(RecordOf(r))
    /\ Go(r, IF req[r].status = "success" THEN "totals" ELSE "trace")
    /\ UNCHANGED <<keyVars, logs, retention, unwritten, purged, traceVars, cacheVars, now, accounts, events>>

CountTotals(r) ==
    /\ req[r].pc = "totals"
    /\ RecordUsage(req[r].key, r)
    /\ Go(r, "trace")
    /\ UNCHANGED <<usageVars, traceVars, cacheVars, now, accounts, events>>

(* The account of the row is that of the last attempt. *)
LastAccount(r) == IF req[r].attempts = << >> THEN 0 ELSE Last(req[r].attempts).cred

FinalizeTrace(r) ==
    /\ req[r].pc = "trace"
    /\ IF req[r].trace = "none" THEN UNCHANGED traceVars
       ELSE InsertTrace([id |-> r, ts |-> req[r].start, key |-> req[r].key,
                         cred |-> LastAccount(r), status |-> req[r].trace,
                         attempts |-> req[r].attempts])
    /\ Go(r, "store")
    /\ UNCHANGED <<keyVars, usageVars, cacheVars, now, accounts, events>>

(* The streaming path of /v1 looks answers up and stores none. *)
StoreAnswer(r) ==
    /\ req[r].pc = "store"
    /\ IF req[r].store /\ req[r].clean /\ req[r].kind # "sse"
       THEN Put(DigestOf(r), [by |-> req[r], at |-> now], now)
       ELSE UNCHANGED cacheVars
    /\ req' = [req EXCEPT ![r] = IF req[r].reply = NoReply THEN Done
                                 ELSE [@ EXCEPT !.pc = "done"]]
    /\ Books

-----------------------------------------------------------------------------
(* The clock, the administrator, the tasks, and a restart. *)

Tick ==
    /\ now < MaxNow
    /\ now' = now + 1
    /\ UNCHANGED <<keyVars, usageVars, traceVars, cacheVars, accounts, req, events>>

SaveKeys == FinishSave /\ UNCHANGED <<usageVars, traceVars, cacheVars, now, accounts, req, events>>

AdminKeys ==
    /\ Event
    /\ \/ \E s \in Secrets, g \in KeyGroups \union {NoGroup} : CreateKey(s, g)
       \/ \E id \in DOMAIN entries \intersect EditedKeys :
             \/ DeleteKey(id)
             \/ SetKeyDisabled(id, TRUE)
             \/ \E g \in KeyGroups \union {NoGroup} : UpdateMeta(id, g)
             \/ \E v \in Overrides : UpdateSettings(id, v)
             \/ \E s \in Secrets : Rotate(id, s)
             \/ ResetStats(id)
       \/ \E g \in KeyGroups : RebindGroup(g, NoGroup)
    /\ UNCHANGED <<usageVars, traceVars, cacheVars, now, accounts, req>>

AdminBooks ==
    /\ Event
    /\ \/ \E n \in Retention : SetRetention(n) /\ UNCHANGED traceVars
       \/ CleanupOldLogs(now) /\ UNCHANGED traceVars
       \/ CleanupTraces(now) /\ UNCHANGED usageVars
       \/ SetTraceEnabled(~traceOn) /\ UNCHANGED usageVars
    /\ UNCHANGED <<keyVars, cacheVars, now, accounts, req>>

(* Deleting an account removes its traces. *)
DeleteAccount ==
    /\ Event
    /\ \E c \in accounts : accounts' = accounts \ {c} /\ DeleteForCredential(c)
    /\ UNCHANGED <<keyVars, usageVars, cacheVars, now, req>>

EvictTask ==
    /\ \E d \in DOMAIN cache : ~Fresh(d, now)
    /\ EvictExpired(now)
    /\ UNCHANGED <<keyVars, usageVars, traceVars, now, accounts, req, events>>

(* The process dies and starts again: requests under way are gone, the     *)
(* keys and the statistics come back from their files, the cached answers  *)
(* do not.                                                                 *)
Restart ==
    /\ Event
    /\ LoadKeys(keysFile)
    /\ RebuildFromLogs(now)
    /\ cache' = << >> /\ lru' = << >>
    /\ req' = [r \in Requests |-> IF Open(r) THEN Gone ELSE req[r]]
    /\ UNCHANGED <<traceVars, now, accounts>>

RequestStep(r) ==
    \/ Authenticate(r) \/ ReadGroup(r) \/ ReadSettings(r)
    \/ Reject(r) \/ WebSearchOnly(r) \/ Replay(r) \/ AskUpstream(r)
    \/ CallFails(r) \/ CallAnswers(r) \/ Answer(r) \/ EmptyAnswer(r) \/ RetryFails(r) \/ HangUp(r)
    \/ WriteLog(r) \/ IngestRecord(r) \/ CountTotals(r) \/ FinalizeTrace(r) \/ StoreAnswer(r)

Next ==
    \/ \E r \in Requests : RequestStep(r)
    \/ SaveKeys \/ AdminKeys \/ AdminBooks \/ DeleteAccount
    \/ EvictTask \/ Restart \/ Tick

Spec == Init /\ [][Next]_vars

-----------------------------------------------------------------------------
(* Properties. *)

At(buckets, t) == IF t \in DOMAIN buckets THEN buckets[t] ELSE {}
Unfinished == {RecordOf(r) : r \in {q \in Requests : req[q].pc = "ingest"}}

(* The bucket t of `live` stays when the records that are in the log and   *)
(* not yet in memory, of the buckets `coming`, get there.                  *)
Stays(live, coming, t, max) ==
    Cardinality({u \in DOMAIN live \union coming : u >= t}) <= max

Agree(live, rebuilt, coming, t, max) ==
    /\ Stays(live, coming, t, max) => At(live, t) \ unwritten \subseteq At(rebuilt, t)
    /\ t \in DOMAIN live => At(rebuilt, t) \subseteq live[t] \union Unfinished

(* The statistics in memory are those a restart would rebuild from the     *)
(* log files, hour by hour and day by day, for the days whose file is kept *)
(* and which the rebuild reads: a restart changes no total but for lines   *)
(* the recorder could not write, and for buckets that a record under way   *)
(* is about to push out.                                                   *)
StatisticsSurviveRestart ==
    LET byHour == RebuiltHours(now)
        byDay == RebuiltDays(now)
        coming == {HourOf(rec) : rec \in Unfinished}
        comingDays == {DayOf(rec) : rec \in Unfinished}
    IN  \A t \in 0 .. now :
            (Day(t) >= purged /\ Day(t) >= DaysBefore(Day(now), RebuildDays)) =>
                /\ Agree(hours, byHour, coming, t, HourBuckets)
                /\ Agree(days, byDay, comingDays, Day(t), DayBuckets)

(* What the pages of the administrator show of a request agree: a row of   *)
(* the trace database and the record in the statistics name the same key,  *)
(* one is a failure exactly if the other is, and the account that was      *)
(* billed is one whose attempt succeeded.                                  *)
BooksAgree ==
    \A rec \in QueryHours(0, now + 1, 0 .. MaxKeyId), row \in rows :
        row.id = rec.id =>
            /\ row \in Query([key |-> rec.key])
            /\ row \in Query([onlyFailed |-> TRUE]) <=> ~rec.ok
            /\ rec.cred \in accounts => Success(rec.cred) \in Range(row.attempts)
            /\ rec.cred = 0 => \A a \in Range(row.attempts) : a.outcome # "success"

(* An answer replayed from the cache is the whole, clean answer of an      *)
(* earlier request for the same conversation in the same form, made with   *)
(* the same key or in the same session, and no older than its time to live.*)
ReplayIsOwn ==
    \A r \in Requests : req[r].reply # NoReply =>
        LET b == req[r].reply
            p == b.by
        IN  /\ p.status = "success" /\ p.clean
            /\ p.conv = req[r].conv /\ (p.kind = "json") = (req[r].kind = "json")
            /\ \/ req[r].conv.session # "none"
               \/ p.key = req[r].key /\ req[r].key # 0
            /\ req[r].stamp < b.at + Ttl

(* Docs of ClientKey.group: a key bound to a group is served by the        *)
(* accounts of that group only.                                            *)
StrictIsolation ==
    \A r \in Requests :
        /\ req[r].pc = "answering"
        /\ req[r].bound # NoGroup
        /\ req[r].key \in DOMAIN entries => entries[req[r].key].group = req[r].bound
        => InGroup(req[r].cred, req[r].bound)

=============================================================================
