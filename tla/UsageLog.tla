----------------------------- MODULE UsageLog -----------------------------
(***************************************************************************)
(* The usage log and its statistics (src/src/admin/usage_stats.rs).  The   *)
(* recorder appends a line to the file of the day and flushes it; the      *)
(* aggregator keeps hour and day buckets in memory, the newest HourBuckets *)
(* and DayBuckets of them, and is rebuilt from the files at the start.     *)
(*                                                                         *)
(* A bucket is the set of the records it sums up: its totals, and the      *)
(* totals by key, model and account, are sums over that set.               *)
(***************************************************************************)
EXTENDS Naturals, FiniteSets, FiniteSetsExt, Functions

CONSTANTS DayLen,        \* hours of a day
          HourBuckets,   \* HOUR_BUCKETS
          DayBuckets,    \* DAY_BUCKETS
          RebuildDays,   \* RETENTION_DAYS of the rebuild
          LogsAtStart,   \* files found at the first start
          Retention      \* values the administrator gives usage_log_retention_days

ASSUME BucketsAssumption ==
    DayLen \in Nat \ {0} /\ HourBuckets \in Nat /\ DayBuckets \in Nat /\ RebuildDays \in Nat

VARIABLES logs,       \* day -> records in the file of that day
          hours,      \* hour -> bucket
          days,       \* day  -> bucket
          retention,  \* retention_days
          unwritten,  \* records the recorder failed to write
          purged      \* history: days before this one have had their file removed

usageVars == <<logs, hours, days, retention, unwritten, purged>>

Day(t) == t \div DayLen

(* The files are numbered from 0; a day in the past of day 0 has none. *)
DaysBefore(d, n) == IF d > n THEN d - n ELSE 0

(* A bucket that is new is inserted in order; the oldest go while there    *)
(* are too many.                                                           *)
Upsert(buckets, ts, rec, max) ==
    LET more == [t \in DOMAIN buckets \union {ts} |->
                    (IF t \in DOMAIN buckets THEN buckets[t] ELSE {})
                    \union (IF t = ts THEN {rec} ELSE {})]
        kept == {t \in DOMAIN more : Cardinality({u \in DOMAIN more : u >= t}) <= max}
    IN  Restrict(more, kept)

(* record: the file is the one of the day of the write, not of the record. *)
RecordLine(rec, now) ==
    LET d == Day(now) IN
    /\ logs' = [t \in DOMAIN logs \union {d} |->
                   (IF t \in DOMAIN logs THEN logs[t] ELSE {})
                   \union (IF t = d THEN {rec} ELSE {})]
    /\ UNCHANGED unwritten

(* A file that does not open or a line that cannot be written is a warning. *)
LineFails(rec) ==
    /\ unwritten' = unwritten \union {rec}
    /\ UNCHANGED logs

Ingest(rec) ==
    /\ hours' = Upsert(hours, rec.ts, rec, HourBuckets)
    /\ days' = Upsert(days, Day(rec.ts), rec, DayBuckets)

(* Mutant: the oldest file inside the period is skipped. *)
Readable_Short(now) ==
    UNION {logs[d] : d \in {e \in DOMAIN logs : e > DaysBefore(Day(now), RebuildDays)}}

(* rebuild_from_logs: every line of the files of the last RebuildDays days, *)
(* in whatever order the directory lists them: the buckets that remain are *)
(* the newest ones.                                                        *)
Readable(now) ==
    UNION {logs[d] : d \in {e \in DOMAIN logs : e >= DaysBefore(Day(now), RebuildDays)}}

BucketsOf(recs, Key(_), max) ==
    LET all == {Key(rec) : rec \in recs}
        kept == {t \in all : Cardinality({u \in all : u >= t}) <= max}
    IN  [t \in kept |-> {rec \in recs : Key(rec) = t}]

HourOf(rec) == rec.ts
DayOf(rec) == Day(rec.ts)

RebuiltHours(now) == BucketsOf(Readable(now), HourOf, HourBuckets)
RebuiltDays(now) == BucketsOf(Readable(now), DayOf, DayBuckets)

UsageInit(now) ==
    /\ logs = LogsAtStart
    /\ hours = RebuiltHours(now)
    /\ days = RebuiltDays(now)
    /\ retention \in Retention
    /\ unwritten = {}
    /\ purged = 0

RebuildFromLogs(now) ==
    /\ hours' = RebuiltHours(now)
    /\ days' = RebuiltDays(now)
    /\ unwritten' = {}
    /\ UNCHANGED <<logs, retention, purged>>

(* cleanup_old_logs, a minute after the start and then once a day. *)
CleanupOldLogs(now) ==
    LET cutoff == DaysBefore(Day(now), retention) IN
    /\ purged' = Max({purged, cutoff})
    /\ logs' = Restrict(logs, {d \in DOMAIN logs : d >= cutoff})
    /\ UNCHANGED <<hours, days, retention, unwritten>>

SetRetention(n) ==
    /\ retention' = Max({n, 1})
    /\ UNCHANGED <<logs, hours, days, unwritten, purged>>

(* What the queries sum: the records of the buckets in the window that     *)
(* match the key.  `overview` is the case of all keys and hour buckets.    *)
QueryHours(from, until, ks) ==
    UNION {{rec \in hours[t] : rec.key \in ks} : t \in {u \in DOMAIN hours : from <= u /\ u < until}}

=============================================================================
