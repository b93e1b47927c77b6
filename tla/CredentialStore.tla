--------------------------- MODULE CredentialStore ---------------------------
(***************************************************************************)
(* How MultiTokenManager keeps credentials.json: many tasks change the     *)
(* in-memory entries and each then calls persist_credentials, which under  *)
(* persist_lock copies the entries, writes credentials.json.tmp and        *)
(* renames it over credentials.json.  Any file operation may fail, and the *)
(* process may die between any two steps.                                  *)
(*                                                                         *)
(* The contents of the list are abstracted to a version number, the number *)
(* of changes made to it: a copy of the list is the version it was made    *)
(* from, which is all that the order of two copies depends on.             *)
(***************************************************************************)
EXTENDS Integers

CONSTANTS Task,       \* requests and administrator calls being served
          NoTask,     \* persist_lock is free
          Torn,       \* a file that was truncated and not written to the end
          Absent,     \* no such file
          MaxVersion  \* bound on the number of changes, for TLC

ASSUME NoTaskAssumption == NoTask \notin Task
ASSUME FileValueAssumption == Torn \notin Nat /\ Absent \notin Nat /\ Torn # Absent
ASSUME MaxVersionAssumption == MaxVersion \in Nat

VARIABLES mem,       \* version of `entries'
          file,      \* contents of credentials.json
          tmp,       \* contents of credentials.json.tmp
          persistLock, \* who holds persist_lock
          saving,        \* where each task is in its change
          reports,   \* the task returns a failed save to its caller
          changed,   \* version the task's own change produced
          snap,      \* the copy of the list the task is writing
          acked      \* newest change whose caller was told it is saved

storeVars ==
  <<mem, file, tmp, persistLock, saving, reports, changed, snap, acked>>

SavePoints ==
  {"idle", "lock", "snapshot", "write", "writing", "rename", "cleanup"}

StoreTypeOK ==
  /\ mem \in Nat
  /\ file \in Nat \union {Torn}
  /\ tmp \in Nat \union {Torn, Absent}
  /\ persistLock \in Task \union {NoTask}
  /\ saving \in [Task -> SavePoints]
  /\ reports \in [Task -> BOOLEAN]
  /\ changed \in [Task -> Nat]
  /\ snap \in [Task -> Nat]
  /\ acked \in Nat

StoreInit ==
  /\ mem = 0
  /\ file = 0
  /\ tmp = Absent
  /\ persistLock = NoTask
  /\ saving = [t \in Task |-> "idle"]
  /\ reports = [t \in Task |-> FALSE]
  /\ changed = [t \in Task |-> 0]
  /\ snap = [t \in Task |-> 0]
  /\ acked = 0

MoveTo(t, label) == saving' = [saving EXCEPT ![t] = label]

-----------------------------------------------------------------------------
(* The calls that change the list. *)

\* One change made under the entries lock, followed by a save.
ChangeThenSave(t, failureIsReported) ==
  /\ saving[t] = "idle"
  /\ mem < MaxVersion
  /\ mem' = mem + 1
  /\ changed' = [changed EXCEPT ![t] = mem + 1]
  /\ reports' = [reports EXCEPT ![t] = failureIsReported]
  /\ MoveTo(t, "lock")
  /\ UNCHANGED <<file, tmp, persistLock, snap, acked>>

\* set_disabled, set_priority, update_credential, delete_credential and the
\* like: `self.persist_credentials()?'.
AdminChange(t) == ChangeThenSave(t, TRUE)

\* A refreshed token: a failed save is only logged, the request goes on.
RefreshChange(t) == ChangeThenSave(t, FALSE)

\* report_failure and the other reports, self-healing, a reload from the file:
\* the list changes and nothing is saved until somebody else saves.
UnsavedChange ==
  /\ mem < MaxVersion
  /\ mem' = mem + 1
  /\ UNCHANGED <<file, tmp, persistLock, saving, reports, changed, snap, acked>>

-----------------------------------------------------------------------------
(* persist_credentials, step by step. *)

\* Fault: the save does not wait for the lock.
LockForSave_Unlocked(t) ==
  /\ saving[t] = "lock"
  /\ persistLock' = t
  /\ MoveTo(t, "snapshot")
  /\ UNCHANGED <<mem, file, tmp, reports, changed, snap, acked>>

LockForSave(t) ==
  /\ saving[t] = "lock"
  /\ persistLock = NoTask
  /\ persistLock' = t
  /\ MoveTo(t, "snapshot")
  /\ UNCHANGED <<mem, file, tmp, reports, changed, snap, acked>>

Snapshot(t) ==
  /\ saving[t] = "snapshot"
  /\ snap' = [snap EXCEPT ![t] = mem]
  /\ MoveTo(t, "write")
  /\ UNCHANGED <<mem, file, tmp, persistLock, reports, changed, acked>>

\* fs::write truncates the temporary file first.
BeginWrite(t) ==
  /\ saving[t] = "write"
  /\ tmp' = Torn
  /\ MoveTo(t, "writing")
  /\ UNCHANGED <<mem, file, persistLock, reports, changed, snap, acked>>

FinishWrite(t) ==
  /\ saving[t] = "writing"
  /\ tmp' = snap[t]
  /\ MoveTo(t, "rename")
  /\ UNCHANGED <<mem, file, persistLock, reports, changed, snap, acked>>

Rename(t) ==
  /\ saving[t] = "rename"
  /\ file' = tmp
  /\ tmp' = Absent
  /\ persistLock' = NoTask
  /\ acked' = IF reports[t] /\ changed[t] > acked THEN changed[t] ELSE acked
  /\ MoveTo(t, "idle")
  /\ UNCHANGED <<mem, reports, changed, snap>>

\* The file cannot be opened, the disk is full, the rename is refused.
FileOperationFails(t) ==
  /\ saving[t] \in {"write", "writing", "rename"}
  /\ MoveTo(t, "cleanup")
  /\ UNCHANGED <<mem, file, tmp, persistLock, reports, changed, snap, acked>>

\* Fault: after a failed save the caller is told it succeeded.
RemoveTmp_ReportsSuccess(t) ==
  /\ saving[t] = "cleanup"
  /\ tmp' \in {Absent, tmp}
  /\ persistLock' = NoTask
  /\ acked' = IF changed[t] > acked THEN changed[t] ELSE acked
  /\ MoveTo(t, "idle")
  /\ UNCHANGED <<mem, file, reports, changed, snap>>

\* Fault: the error path keeps persist_lock.
RemoveTmp_KeepsLock(t) ==
  /\ saving[t] = "cleanup"
  /\ tmp' \in {Absent, tmp}
  /\ MoveTo(t, "idle")
  /\ UNCHANGED <<mem, file, persistLock, reports, changed, snap, acked>>

\* remove_file is tried once; its own failure is ignored.
RemoveTmp(t) ==
  /\ saving[t] = "cleanup"
  /\ tmp' \in {Absent, tmp}
  /\ persistLock' = NoTask
  /\ MoveTo(t, "idle")
  /\ UNCHANGED <<mem, file, reports, changed, snap, acked>>

-----------------------------------------------------------------------------
\* The process dies wherever it is.  MultiTokenManager::new starts from the
\* file; when it has to fill in identifiers or to migrate the format it
\* changes the list and saves it before anybody is served, and goes on when
\* that save fails.
Restart ==
  /\ file # Torn
  /\ \/ mem' = file /\ file' = file
     \/ /\ file < MaxVersion
        /\ mem' = file + 1
        /\ file' \in {file, file + 1}
  /\ tmp' \in {tmp, Absent}
  /\ persistLock' = NoTask
  /\ saving' = [t \in Task |-> "idle"]
  /\ reports' = [t \in Task |-> FALSE]
  /\ changed' = [t \in Task |-> 0]
  /\ snap' = [t \in Task |-> 0]
  /\ UNCHANGED acked

SaveStep(t) ==
  \/ LockForSave(t)
  \/ Snapshot(t)
  \/ BeginWrite(t)
  \/ FinishWrite(t)
  \/ Rename(t)
  \/ FileOperationFails(t)
  \/ RemoveTmp(t)

StoreNext ==
  \/ \E t \in Task : AdminChange(t) \/ RefreshChange(t) \/ SaveStep(t)
  \/ UnsavedChange
  \/ Restart

StoreSpec == StoreInit /\ [][StoreNext]_storeVars

\* A task that is inside persist_credentials runs on (the file operations
\* return, well or badly), and parking_lot's mutex is eventually fair: a waiter
\* is handed the lock after at most half a millisecond of being overtaken.
StoreFairness ==
  \A t \in Task : WF_storeVars(SaveStep(t)) /\ SF_storeVars(LockForSave(t))

StoreFairSpec == StoreSpec /\ StoreFairness

-----------------------------------------------------------------------------
(* What the store guarantees. *)

\* A change whose caller was told "saved" survives any crash: it is in the
\* file, however many other saves overlapped with it and whatever of them
\* failed.  And the file holds a whole list: nobody who opens it, not even a
\* process started after a crash in mid-save, finds half of one.
AckedIsDurable == file # Torn /\ acked <= file

\* No save puts an older list over a newer one.  This is the fault of issue
\* 23 that the comment in persist_credentials describes: a stale copy that
\* overwrites a token rotated in the meantime.
NoStaleOverwrite == [][file' >= file]_storeVars

\* Every save ends, successfully or not.
SaveReturns == \A t \in Task : saving[t] = "lock" ~> saving[t] = "idle"

\* The store is an implementation of DurableStore.
Durable == INSTANCE DurableStore WITH durable <- file, promised <- acked
ImplementsDurableStore == Durable!Spec
=============================================================================
