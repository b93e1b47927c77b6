---------------------------- MODULE TokenRefresh ----------------------------
(***************************************************************************)
(* Renewing the OAuth token of one credential.  Requests and queries that  *)
(* find it expired, and forced refreshes, meet at the credential's         *)
(* refresh_lock; an administrator edits the credential, another program    *)
(* (the IDE) shares its session through credentials.json, and any other    *)
(* save of the program rewrites that file.                                 *)
(*                                                                         *)
(* A refresh token is a number; the authority that issued it accepts one   *)
(* of them and may replace it with every refresh.  Whether the access      *)
(* token is still good is a flag; the fields an administrator edits        *)
(* (priority, group, region, limits, ...) are one version number.          *)
(***************************************************************************)
EXTENDS Integers, FiniteSets

CONSTANTS Task,     \* calls in progress
          Forced,   \* those among them that are force_refresh_token_for
          NoTask,
          MaxToken, \* bound: refresh tokens the authority issues
          MaxEdit   \* bound: edits by the administrator

ASSUME ForcedAssumption == Forced \subseteq Task
ASSUME NoTaskAssumption == NoTask \notin Task
ASSUME BoundsAssumption == MaxToken \in Nat /\ MaxEdit \in Nat

VARIABLES mem,     \* entry.credentials
          invalid, \* the entry is disabled for InvalidRefreshToken
          file,    \* the refresh token in credentials.json
          live,    \* the refresh token the authority accepts
          lock,    \* entry.refresh_lock
          pc,      \* where each call is
          snap,    \* the credentials it cloned, or got from the authority
          edits,   \* history: edits made
          foreign  \* history: a token was rotated that the program never got

vars == <<mem, invalid, file, live, lock, pc, snap, edits, foreign>>

Credentials == [token : 0..MaxToken, fresh : BOOLEAN, edit : 0..MaxEdit]
NoSnapshot == [token |-> 0, fresh |-> FALSE, edit |-> 0]

\* The token fields replaced, the others kept.
Renew(creds, token, fresh) == [token |-> token, fresh |-> fresh, edit |-> creds.edit]

\* wait: for the lock.  recheck, refresh, store, save: with the lock.
\* reload, compare, adopt, report: the authority has said invalid_grant, and
\* the lock is free again.
PC == {"idle", "wait", "recheck", "refresh", "store", "save",
       "reload", "compare", "adopt", "report"}

TypeOK ==
  /\ mem \in Credentials
  /\ invalid \in BOOLEAN
  /\ file \in 0..MaxToken
  /\ live \in 0..MaxToken
  /\ lock \in Task \union {NoTask}
  /\ pc \in [Task -> PC]
  /\ snap \in [Task -> Credentials]
  /\ edits \in 0..MaxEdit
  /\ foreign \in BOOLEAN

Goto(t, label) == pc' = [pc EXCEPT ![t] = label]

Take(t, creds, label) ==
  /\ snap' = [snap EXCEPT ![t] = creds]
  /\ Goto(t, label)

\* The call returns, or an awaited call of it.
End(t) == Take(t, NoSnapshot, "idle")

Unlock == lock' = NoTask

-----------------------------------------------------------------------------
(* try_ensure_token, prepare_request_token, get_usage_limits_for and       *)
(* force_refresh_token_for.                                                *)

\* A request goes on only if the token is expired, a forced refresh always; a
\* request is not given a disabled credential.  Both clone the credentials, but
\* the clone of a request is not used after it has waited.
Begin(t) ==
  /\ pc[t] = "idle"
  /\ t \in Forced \/ (~mem.fresh /\ ~invalid)
  /\ Take(t, IF t \in Forced THEN mem ELSE NoSnapshot, "wait")
  /\ UNCHANGED <<mem, invalid, file, live, lock, edits, foreign>>

\* Fault: the lock does not keep a second refresh out.
Lock_Shared(t) ==
  /\ pc[t] = "wait"
  /\ lock' = t
  /\ Goto(t, IF t \in Forced THEN "refresh" ELSE "recheck")
  /\ UNCHANGED <<mem, invalid, file, live, snap, edits, foreign>>

\* A forced refresh uses the credentials it cloned before it had the lock.
Lock(t) ==
  /\ pc[t] = "wait"
  /\ lock = NoTask
  /\ lock' = t
  /\ Goto(t, IF t \in Forced THEN "refresh" ELSE "recheck")
  /\ UNCHANGED <<mem, invalid, file, live, snap, edits, foreign>>

\* The second check, on what the entry holds now.
Recheck(t) ==
  /\ pc[t] = "recheck"
  /\ IF mem.fresh
     THEN End(t) /\ Unlock
     ELSE Take(t, mem, "refresh") /\ UNCHANGED lock
  /\ UNCHANGED <<mem, invalid, file, live, edits, foreign>>

\* Fault: the lock is free before the answer has been stored.
Refreshed_UnlocksEarly(t) ==
  /\ pc[t] = "refresh"
  /\ snap[t].token = live
  /\ live' \in {live, live + 1} \intersect (0..MaxToken)
  /\ Take(t, Renew(snap[t], live', TRUE), "store")
  /\ Unlock
  /\ UNCHANGED <<mem, invalid, file, edits, foreign>>

\* The authority accepts the token, and may replace it.
Refreshed(t) ==
  /\ pc[t] = "refresh"
  /\ snap[t].token = live
  /\ live' \in {live, live + 1} \intersect (0..MaxToken)
  /\ Take(t, Renew(snap[t], live', TRUE), "store")
  /\ UNCHANGED <<mem, invalid, file, lock, edits, foreign>>

\* Fault: the error path holds on to the lock.
RefreshFails_KeepsLock(t) ==
  /\ pc[t] = "refresh"
  /\ End(t)
  /\ UNCHANGED <<mem, invalid, file, live, lock, edits, foreign>>

\* A timeout or an error that says nothing about the token; the authority may
\* have replaced it all the same.
RefreshFails(t) ==
  /\ pc[t] = "refresh"
  /\ \/ UNCHANGED <<live, foreign>>
     \/ /\ snap[t].token = live
        /\ live < MaxToken
        /\ live' = live + 1
        /\ foreign' = TRUE
  /\ End(t)
  /\ Unlock
  /\ UNCHANGED <<mem, invalid, file, edits>>

\* invalid_grant.  acquire_context looks for a newer token in the file; a
\* forced refresh and a query just return the error.
Rejected(t) ==
  /\ pc[t] = "refresh"
  /\ snap[t].token # live
  /\ End(t) \/ (t \notin Forced /\ Take(t, NoSnapshot, "reload"))
  /\ Unlock
  /\ UNCHANGED <<mem, invalid, file, live, edits, foreign>>

\* entry.credentials = new_creds: every field, as it was when it was cloned.
Store(t) ==
  /\ pc[t] = "store"
  /\ mem' = snap[t]
  /\ Take(t, NoSnapshot, "save")
  /\ UNCHANGED <<invalid, file, live, lock, edits, foreign>>

\* persist_credentials; a failure is logged only.
Save(t) ==
  /\ pc[t] = "save"
  /\ file' \in {file, mem.token}
  /\ End(t)
  /\ Unlock
  /\ UNCHANGED <<mem, invalid, live, edits, foreign>>

-----------------------------------------------------------------------------
(* try_reload_credential_from_file, without the lock. *)

ReadFile(t) ==
  /\ pc[t] = "reload"
  /\ Take(t, [NoSnapshot EXCEPT !.token = file], "compare")
  /\ UNCHANGED <<mem, invalid, file, live, lock, edits, foreign>>

Compare(t) ==
  /\ pc[t] = "compare"
  /\ Goto(t, IF snap[t].token = mem.token THEN "report" ELSE "adopt")
  /\ UNCHANGED <<mem, invalid, file, live, lock, snap, edits, foreign>>

\* The access token that comes with it may have expired too.  The entry is in
\* service again, and acquire_context starts over.
AdoptFileToken(t) ==
  /\ pc[t] = "adopt"
  /\ \E f \in BOOLEAN : mem' = Renew(mem, snap[t].token, f)
  /\ invalid' = FALSE
  /\ End(t)
  /\ UNCHANGED <<file, live, lock, edits, foreign>>

\* report_refresh_token_invalid
ReportInvalid(t) ==
  /\ pc[t] = "report"
  /\ invalid' = TRUE
  /\ End(t)
  /\ UNCHANGED <<mem, file, live, lock, edits, foreign>>

-----------------------------------------------------------------------------
(* Around it. *)

Expire ==
  /\ mem.fresh
  /\ mem' = [mem EXCEPT !.fresh = FALSE]
  /\ UNCHANGED <<invalid, file, live, lock, pc, snap, edits, foreign>>

\* set_priority, update_credential and the like.
AdminEdit ==
  /\ edits < MaxEdit
  /\ edits' = edits + 1
  /\ mem' = [mem EXCEPT !.edit = edits']
  /\ UNCHANGED <<invalid, file, live, lock, pc, snap, foreign>>

\* update_refresh_token of a disabled credential, after a new login; saved at
\* once if the save succeeds.
ReplaceToken ==
  /\ invalid
  /\ live < MaxToken
  /\ live' = live + 1
  /\ \E f \in BOOLEAN : mem' = Renew(mem, live', f)
  /\ file' \in {file, live'}
  /\ UNCHANGED <<invalid, lock, pc, snap, edits, foreign>>

AdminEnable ==
  /\ invalid
  /\ invalid' = FALSE
  /\ UNCHANGED <<mem, file, live, lock, pc, snap, edits, foreign>>

\* Any other save writes this credential too.
OtherSave ==
  /\ file' = mem.token
  /\ UNCHANGED <<mem, invalid, live, lock, pc, snap, edits, foreign>>

\* The IDE refreshes the session and writes the new token to the file.
IdeRotates ==
  /\ file = live
  /\ live < MaxToken
  /\ live' = live + 1
  /\ file' = live'
  /\ foreign' = TRUE
  /\ UNCHANGED <<mem, invalid, lock, pc, snap, edits>>

-----------------------------------------------------------------------------
Init ==
  /\ mem \in [token : {0}, fresh : BOOLEAN, edit : {0}]
  /\ invalid = FALSE
  /\ file = 0
  /\ live = 0
  /\ lock = NoTask
  /\ pc = [t \in Task |-> "idle"]
  /\ snap = [t \in Task |-> NoSnapshot]
  /\ edits = 0
  /\ foreign = FALSE

RefreshStep(t) ==
  \/ Recheck(t) \/ Refreshed(t) \/ RefreshFails(t) \/ Rejected(t) \/ Store(t) \/ Save(t)
  \/ ReadFile(t) \/ Compare(t) \/ AdoptFileToken(t) \/ ReportInvalid(t)

Environment ==
  Expire \/ AdminEdit \/ ReplaceToken \/ AdminEnable \/ OtherSave \/ IdeRotates

Next ==
  \/ \E t \in Task : Begin(t) \/ Lock(t) \/ RefreshStep(t)
  \/ Environment

Spec == Init /\ [][Next]_vars

\* Upstream calls have a timeout, file operations return, and tokio's mutex
\* serves its waiters in turn.
FairSpec == Spec /\ \A t \in Task : WF_vars(RefreshStep(t)) /\ SF_vars(Lock(t))

-----------------------------------------------------------------------------
\* While every rotated token has reached the program, memory holds the token
\* the authority accepts whenever nobody is refreshing: no interleaving of
\* requests, forced refreshes, edits and saves loses a rotation.
RotationIsKept == ~foreign /\ lock = NoTask => mem.token = live

\* The program does not lock itself out: a credential is disabled for its
\* refresh token only if somebody else, or a lost answer, invalidated it.
OnlyOthersInvalidate == invalid => foreign

\* A request sends the authority a token that it still accepts; what another
\* request rotated while this one waited for the lock is seen by the second
\* check.
RequestSendsLiveToken ==
  ~foreign => \A t \in Task \ Forced : pc[t] = "refresh" => snap[t].token = live

\* A call that waits for the lock, or has it, comes to an end.
CallsReturn == \A t \in Task : pc[t] # "idle" ~> pc[t] = "idle"

-----------------------------------------------------------------------------
(* Statements of the repository that the code does not keep. *)

\* token_manager.rs:2149: the reload recovers a credential with a new token from
\* the file; it does not put a dead token in the place of one that is good.
ReloadKeepsLiveToken ==
  [][\A t \in Task :
       pc[t] = "adopt" /\ pc'[t] = "idle" /\ mem.token = live => mem'.token = live]_vars
=============================================================================
