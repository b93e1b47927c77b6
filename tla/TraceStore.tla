---------------------------- MODULE TraceStore ----------------------------
(***************************************************************************)
(* The trace database (src/src/admin/trace_db.rs): one row for a request   *)
(* that went upstream, with the attempts it took.  Every operation is one  *)
(* SQLite transaction under the connection's lock, so a crash loses no     *)
(* committed row and leaves no half of one.                                *)
(***************************************************************************)
EXTENDS Naturals, Functions

CONSTANT TraceRetention   \* trace_retention_days, in hours

VARIABLES rows,      \* set of [id, ts, key, cred, status, attempts]
          traceOn    \* trace writing is enabled

traceVars == <<rows, traceOn>>

TraceInit == rows = {} /\ traceOn = TRUE

(* insert: INSERT OR REPLACE on the trace id; nothing while disabled.  The *)
(* attempts are rows by their number.                                      *)
InsertTrace(row) ==
    /\ rows' = IF traceOn THEN {r \in rows : r.id # row.id} \union {row} ELSE rows
    /\ UNCHANGED traceOn

SetTraceEnabled(on) == traceOn' = on /\ UNCHANGED rows

CleanupTraces(now) ==
    /\ rows' = {r \in rows : r.ts + TraceRetention >= now}
    /\ UNCHANGED traceOn

(* delete_for_credential: the rows that ended on the account, and the      *)
(* attempts on it of the other rows.                                       *)
DeleteForCredential(c) ==
    /\ rows' = {[r EXCEPT !.attempts = Restrict(@, {n \in DOMAIN @ : @[n].cred # c})] :
                   r \in {q \in rows : q.cred # c}}
    /\ UNCHANGED traceOn

(* build_where: what the trace page asks for; a condition that is absent   *)
(* is satisfied by every row.                                              *)
Matches(r, q) ==
    /\ "status" \in DOMAIN q => r.status = q.status
    /\ "cred" \in DOMAIN q => r.cred = q.cred
    /\ "key" \in DOMAIN q => r.key = q.key
    /\ "failedOn" \in DOMAIN q =>
          \E a \in Range(r.attempts) : a.cred = q.failedOn /\ a.outcome # "success"
    /\ "creds" \in DOMAIN q => r.cred \in q.creds
    /\ "onlyFailed" \in DOMAIN q => r.status # "success"

Query(q) == {r \in rows : Matches(r, q)}

=============================================================================
