--------------------------- MODULE CredentialPool ---------------------------
(***************************************************************************)
(* The scheduling side of MultiTokenManager: which credential a request is *)
(* given, what the outcome of a request does to the credential, and what   *)
(* an administrator does to it meanwhile.                                  *)
(*                                                                         *)
(* acquire_context takes the entries lock several times and awaits the     *)
(* token in between; every such lock section is an action, so requests,    *)
(* reports and administrator calls interleave as they do in the program.   *)
(* Group and model matching is the relation Serves; success counts, which  *)
(* only order the choice of the balanced mode, are abstracted to an        *)
(* arbitrary choice; the error windows that decide when a 429 cools a      *)
(* credential down are an arbitrary choice too.  The in-flight counter is  *)
(* the number of requests that hold a slot (see ConcurrencySlot).          *)
(***************************************************************************)
EXTENDS Integers, FiniteSets

CONSTANTS MaxId,        \* identifiers the run may give out
          Request,      \* requests being served
          Serves,       \* credentials each request's model and group allow
          StickyFactor, \* 2 for a request whose group caches High, else 1;
                        \* 0 when it ignores the sticky hint (Off)
          Limit,        \* concurrency limit of each credential
          MaxFailures,  \* MAX_FAILURES_PER_CREDENTIAL
          InitialCounts, \* how many credentials the file may hold at the start
          Priorities    \* priorities each credential may be given

Cred == 1..MaxId
None == 0

ASSUME MaxIdAssumption == MaxId \in Nat
ASSUME MaxFailuresAssumption == MaxFailures \in Nat \ {0}
ASSUME ServesAssumption == Serves \in [Request -> SUBSET Cred]
ASSUME LimitAssumption == Limit \in [Cred -> Nat \ {0}]
ASSUME StickyAssumption == StickyFactor \in [Request -> 0..2]
ASSUME InitialAssumption == InitialCounts \subseteq 0..MaxId
ASSUME PrioritiesAssumption == Priorities \in [Cred -> (SUBSET Nat) \ {{}}]

Reasons == {"Manual", "TooManyFailures", "TooManyRefreshFailures", "QuotaExceeded",
            "InvalidRefreshToken", "InvalidConfig", "AutoThrottled"}
NoReason == "NoReason"

\* What `priority' holds for an identifier that is not in the list.
AnyPriority(c) == CHOOSE p \in Priorities[c] : TRUE

VARIABLES present,         \* identifiers in `entries'
          nextId,          \* next_id
          disabled,        \* entry.disabled
          reason,          \* entry.disabled_reason
          failures,        \* entry.failure_count
          refreshFailures, \* entry.refresh_failure_count
          throttled,       \* entry.throttled_until lies in the future
          priority,        \* entry.credentials.priority
          current,         \* current_id
          mode,            \* load_balancing_mode
          pc,              \* where each request is
          cred             \* the credential it was given

entryVars == <<present, nextId, disabled, reason, failures, refreshFailures, throttled,
               priority>>
vars == <<entryVars, current, mode, pc, cred>>

\* pick, select, heal, reselect, adopt, token: inside acquire_context.
\* send: the call is made, the slot held.  stream: reported as a success, the
\* response still streaming, the slot still held.
PC == {"idle", "pick", "select", "heal", "reselect", "adopt", "token", "send", "stream"}

TypeOK ==
  /\ present \subseteq Cred
  /\ nextId \in 1..(MaxId + 1)
  /\ disabled \in [Cred -> BOOLEAN]
  /\ reason \in [Cred -> Reasons \union {NoReason}]
  /\ failures \in [Cred -> 0..MaxFailures]
  /\ refreshFailures \in [Cred -> 0..MaxFailures]
  /\ throttled \in [Cred -> BOOLEAN]
  /\ priority \in [Cred -> Nat]
  /\ \A c \in Cred : priority[c] \in Priorities[c]
  /\ current \in Cred \union {None}
  /\ mode \in {"priority", "balanced"}
  /\ pc \in [Request -> PC]
  /\ cred \in [Request -> Cred \union {None}]

-----------------------------------------------------------------------------
(* Which credentials can be chosen. *)

Enabled == {c \in present : ~disabled[c]}

\* The credentials of S with the smallest priority number; which of several is
\* taken depends on their order in the list.
BestBy(rank, S) == {c \in S : \A d \in S : rank[c] <= rank[d]}
Best(S) == BestBy(priority, S)

Holders(c) == {r \in Request : cred[r] = c /\ pc[r] \in {"send", "stream"}}

\* Fault: one of the paths forgets the group and model of the request.
Usable_AnyGroup(c, r, cap) ==
  /\ c \in Enabled
  /\ ~throttled[c]
  /\ Cardinality(Holders(c)) < cap

Usable(c, r, cap) ==
  /\ c \in Enabled
  /\ ~throttled[c]
  /\ c \in Serves[r]
  /\ Cardinality(Holders(c)) < cap

Available(r) == {c \in Cred : Usable(c, r, Limit[c])}

\* select_next_credential: the best priority, or in balanced mode the least
\* used, which may be any.
Offered(r) == IF mode = "priority" THEN Best(Available(r)) ELSE Available(r)

\* Where current_id goes when a credential is taken out of service.
SwitchTo(S) == IF S = {} THEN UNCHANGED current ELSE current' \in Best(S)

Goto(r, label) == pc' = [pc EXCEPT ![r] = label]

Give(r, c, label) ==
  /\ cred' = [cred EXCEPT ![r] = c]
  /\ Goto(r, label)

\* acquire_context returns an error, or the call is over.
End(r) == Give(r, None, "idle")

-----------------------------------------------------------------------------
(* acquire_context up to the token. *)

BeginRequest(r) ==
  /\ pc[r] = "idle"
  /\ Goto(r, "pick")
  /\ UNCHANGED <<entryVars, current, mode, cred>>

\* The conversation was served by c before, and c can take it again.
PickSticky(r) ==
  /\ pc[r] = "pick"
  /\ StickyFactor[r] > 0
  /\ \E c \in present :
       /\ Usable(c, r, StickyFactor[r] * Limit[c])
       /\ Give(r, c, "token")
  /\ UNCHANGED <<entryVars, current, mode>>

\* priority mode stays with current_id while it can take the request.
PickCurrent(r) ==
  /\ pc[r] = "pick"
  /\ mode = "priority"
  /\ current \in Available(r)
  /\ Give(r, current, "token")
  /\ UNCHANGED <<entryVars, current, mode>>

PickNone(r) ==
  /\ pc[r] = "pick"
  /\ mode = "balanced" \/ current \notin Available(r)
  /\ Goto(r, "select")
  /\ UNCHANGED <<entryVars, current, mode, cred>>

Select(r) ==
  /\ pc[r] = "select"
  /\ \/ \E c \in Offered(r) : Give(r, c, "adopt")
     \/ Offered(r) = {} /\ Goto(r, "heal") /\ UNCHANGED cred
  /\ UNCHANGED <<entryVars, current, mode>>

\* Fault: healing puts every automatically disabled credential back.
Heal_AllAutomatic(r) ==
  /\ pc[r] = "heal"
  /\ LET failed == {c \in present : reason[c] \notin {NoReason, "Manual", "InvalidConfig"}}
     IN  IF failed = {}
         THEN /\ Goto(r, "idle")
              /\ UNCHANGED <<disabled, reason, failures>>
         ELSE /\ disabled' = [c \in Cred |-> disabled[c] /\ c \notin failed]
              /\ reason' = [c \in Cred |-> IF c \in failed THEN NoReason ELSE reason[c]]
              /\ failures' = [c \in Cred |-> IF c \in failed THEN 0 ELSE failures[c]]
              /\ Goto(r, "reselect")
  /\ UNCHANGED <<present, nextId, refreshFailures, throttled, priority, current, mode, cred>>

\* Nothing could be chosen: the credentials that failed too often are put back
\* in service and the choice is made once more; without any, the request ends.
Heal(r) ==
  /\ pc[r] = "heal"
  /\ LET failed == {c \in present : disabled[c] /\ reason[c] = "TooManyFailures"}
     IN  IF failed = {}
         THEN /\ Goto(r, "idle")
              /\ UNCHANGED <<disabled, reason, failures>>
         ELSE /\ disabled' = [c \in Cred |-> disabled[c] /\ c \notin failed]
              /\ reason' = [c \in Cred |-> IF c \in failed THEN NoReason ELSE reason[c]]
              /\ failures' = [c \in Cred |-> IF c \in failed THEN 0 ELSE failures[c]]
              /\ Goto(r, "reselect")
  /\ UNCHANGED <<present, nextId, refreshFailures, throttled, priority, current, mode, cred>>

SelectAgain(r) ==
  /\ pc[r] = "reselect"
  /\ \/ \E c \in Offered(r) : Give(r, c, "adopt")
     \/ Offered(r) = {} /\ Goto(r, "idle") /\ UNCHANGED cred
  /\ UNCHANGED <<entryVars, current, mode>>

Adopt(r) ==
  /\ pc[r] = "adopt"
  /\ current' = cred[r]
  /\ Goto(r, "token")
  /\ UNCHANGED <<entryVars, mode, cred>>

-----------------------------------------------------------------------------
(* The token: try_ensure_token and what acquire_context does on an error.  *)
(* The refresh itself is in TokenRefresh.                                  *)

\* A refresh stores the whole credentials it read before it went upstream, so
\* the entry may be back at an earlier priority (see TokenRefresh).
StoreRefreshed(c) ==
  /\ refreshFailures' = [refreshFailures EXCEPT ![c] = 0]
  /\ \/ UNCHANGED priority
     \/ c \in present /\ \E p \in Priorities[c] : priority' = [priority EXCEPT ![c] = p]

\* A token is at hand: its failures are forgotten and the slot is taken.
TokenReady(r) ==
  /\ pc[r] = "token"
  /\ StoreRefreshed(cred[r])
  /\ Goto(r, "send")
  /\ UNCHANGED <<present, nextId, disabled, reason, failures, throttled, current, mode, cred>>

\* Takes c out of service for the given reason; current_id goes to the best
\* credential still in service.
AutoDisable(c, why) ==
  /\ disabled' = [disabled EXCEPT ![c] = TRUE]
  /\ reason' = [reason EXCEPT ![c] = why]
  /\ SwitchTo(Enabled \ {c})

\* After a failed token the loop goes on while anything is in service, and may
\* run out of attempts.
TryAgain(r) ==
  \/ \E c \in present : ~disabled'[c] /\ Give(r, None, "pick")
  \/ End(r)

\* report_refresh_failure
TokenFails(r) ==
  LET c == cred[r] IN
  /\ pc[r] = "token"
  /\ IF c \notin Enabled
     THEN UNCHANGED <<disabled, reason, refreshFailures, current>>
     ELSE /\ refreshFailures' = [refreshFailures EXCEPT ![c] = @ + 1]
          /\ IF refreshFailures[c] + 1 >= MaxFailures
             THEN AutoDisable(c, "TooManyRefreshFailures")
             ELSE UNCHANGED <<disabled, reason, current>>
  /\ TryAgain(r)
  /\ UNCHANGED <<present, nextId, failures, throttled, priority, mode>>

\* report_refresh_token_invalid: invalid_grant, and the file has no newer token.
TokenInvalid(r) ==
  LET c == cred[r] IN
  /\ pc[r] = "token"
  /\ IF c \notin Enabled
     THEN UNCHANGED <<disabled, reason, current>>
     ELSE AutoDisable(c, "InvalidRefreshToken")
  /\ TryAgain(r)
  /\ UNCHANGED <<present, nextId, failures, refreshFailures, throttled, priority, mode>>

\* The entry goes back into service with nothing held against it.
Restore(c) ==
  /\ disabled' = [disabled EXCEPT ![c] = FALSE]
  /\ reason' = [reason EXCEPT ![c] = NoReason]
  /\ failures' = [failures EXCEPT ![c] = 0]
  /\ refreshFailures' = [refreshFailures EXCEPT ![c] = 0]

\* try_reload_credential_from_file: invalid_grant, and another program has
\* written a newer token to credentials.json.
TokenReloaded(r) ==
  /\ pc[r] = "token"
  /\ cred[r] \in present
  /\ Restore(cred[r])
  /\ Give(r, None, "pick")
  /\ UNCHANGED <<present, nextId, throttled, priority, current, mode>>

-----------------------------------------------------------------------------
(* The outcome of the call, as the provider reports it. *)

\* report_success; a streaming response keeps its slot to the end.
CallSucceeds(r) ==
  LET c == cred[r] IN
  /\ pc[r] = "send"
  /\ failures' = [failures EXCEPT ![c] = 0]
  /\ refreshFailures' = [refreshFailures EXCEPT ![c] = 0]
  /\ throttled' = [throttled EXCEPT ![c] = FALSE]
  /\ Goto(r, "stream")
  /\ UNCHANGED <<present, nextId, disabled, reason, priority, current, mode, cred>>

\* report_failure
CallRejected(r) ==
  LET c == cred[r] IN
  /\ pc[r] = "send"
  /\ IF c \notin Enabled
     THEN UNCHANGED <<disabled, reason, failures, current>>
     ELSE /\ failures' = [failures EXCEPT ![c] = @ + 1]
          /\ IF failures[c] + 1 >= MaxFailures
             THEN AutoDisable(c, "TooManyFailures")
             ELSE UNCHANGED <<disabled, reason, current>>
  /\ End(r)
  /\ UNCHANGED <<present, nextId, refreshFailures, throttled, priority, mode>>

\* report_quota_exhausted
QuotaExhausted(r) ==
  LET c == cred[r] IN
  /\ pc[r] = "send"
  /\ IF c \notin Enabled
     THEN UNCHANGED <<disabled, reason, failures, current>>
     ELSE /\ failures' = [failures EXCEPT ![c] = MaxFailures]
          /\ AutoDisable(c, "QuotaExceeded")
  /\ End(r)
  /\ UNCHANGED <<present, nextId, refreshFailures, throttled, priority, mode>>

\* report_account_throttled: too few errors yet, or a cooldown, or one cooldown
\* too many.  It does not look at entry.disabled.
AccountThrottled(r) ==
  LET c == cred[r] IN
  /\ pc[r] = "send"
  /\ \/ UNCHANGED <<disabled, reason, throttled>>
     \/ /\ c \in present
        /\ throttled' = [throttled EXCEPT ![c] = TRUE]
        /\ \/ UNCHANGED <<disabled, reason>>
           \/ /\ disabled' = [disabled EXCEPT ![c] = TRUE]
              /\ reason' = [reason EXCEPT ![c] = "AutoThrottled"]
  /\ End(r)
  /\ UNCHANGED <<present, nextId, failures, refreshFailures, priority, current, mode>>

\* A network error, a client that went away, an error that says nothing about
\* the credential, the end of the stream: the slot is dropped, nothing reported.
Unreported(r) ==
  /\ pc[r] \in {"send", "stream"}
  /\ End(r)
  /\ UNCHANGED <<entryVars, current, mode>>

\* throttled_until passes.
CooldownEnds(c) ==
  /\ throttled[c]
  /\ throttled' = [throttled EXCEPT ![c] = FALSE]
  /\ UNCHANGED <<present, nextId, disabled, reason, failures, refreshFailures, priority,
                 current, mode, pc, cred>>

-----------------------------------------------------------------------------
(* The administrator. *)

\* AdminService::set_disabled(id, true): current_id moves only if it named c,
\* and not when saving the file failed.
AdminDisable(c) ==
  /\ c \in present
  /\ disabled' = [disabled EXCEPT ![c] = TRUE]
  /\ reason' = [reason EXCEPT ![c] = "Manual"]
  /\ \/ UNCHANGED current
     \/ current = c /\ SwitchTo(Enabled \ {c})
  /\ UNCHANGED <<present, nextId, failures, refreshFailures, throttled, priority, mode, pc,
                 cred>>

\* disable_quota_exceeded, from the service's sweep over used-up accounts.
AdminDisableQuota(c) ==
  /\ c \in present
  /\ disabled' = [disabled EXCEPT ![c] = TRUE]
  /\ reason' = [reason EXCEPT ![c] = "QuotaExceeded"]
  /\ \/ UNCHANGED current
     \/ current = c /\ SwitchTo(Enabled \ {c})
  /\ UNCHANGED <<present, nextId, failures, refreshFailures, throttled, priority, mode, pc,
                 cred>>

\* set_disabled(id, false), and reset_and_enable, which refuses a credential
\* disabled for its configuration.
AdminEnable(c) ==
  /\ c \in present
  /\ Restore(c)
  /\ throttled' = [throttled EXCEPT ![c] = FALSE]
  /\ UNCHANGED <<present, nextId, priority, current, mode, pc, cred>>

ClearThrottle(c) ==
  /\ c \in present
  /\ throttled[c]
  /\ throttled' = [throttled EXCEPT ![c] = FALSE]
  /\ UNCHANGED <<present, nextId, disabled, reason, failures, refreshFailures, priority,
                 current, mode, pc, cred>>

\* update_refresh_token of a disabled credential; a forced refresh, or one made
\* for another purpose than a request, of any credential.
TokenRenewed(c) ==
  /\ c \in present
  /\ StoreRefreshed(c)
  /\ UNCHANGED <<present, nextId, disabled, reason, failures, throttled, current, mode, pc,
                 cred>>

\* set_priority, and select_highest_priority after it.
SetPriority(c, p) ==
  /\ c \in present
  /\ priority' = [priority EXCEPT ![c] = p]
  /\ IF Enabled = {} THEN UNCHANGED current ELSE current' \in BestBy(priority', Enabled)
  /\ UNCHANGED <<present, nextId, disabled, reason, failures, refreshFailures, throttled,
                 mode, pc, cred>>

SetMode(m) ==
  /\ mode' = m
  /\ UNCHANGED <<entryVars, current, pc, cred>>

\* A new entry starts clean, under the given identifier.
Insert(id, next) ==
  /\ id \in Cred
  /\ present' = present \union {id}
  /\ nextId' = next
  /\ \E p \in Priorities[id] : priority' = [priority EXCEPT ![id] = p]
  /\ Restore(id)
  /\ throttled' = [throttled EXCEPT ![id] = FALSE]
  /\ UNCHANGED <<current, mode, pc, cred>>

\* add_credential: next_id.fetch_add(1).
AddCredential == Insert(nextId, nextId + 1)

\* add_credential: the check made with the list locked finds that the account
\* was added while this call verified it; the identifier is lost.
AddDuplicate ==
  /\ nextId \in Cred
  /\ nextId' = nextId + 1
  /\ UNCHANGED <<present, disabled, reason, failures, refreshFailures, throttled, priority,
                 current, mode, pc, cred>>

\* delete_credential: a deleted current credential is replaced by the best one
\* in service; with nothing left current_id is 0.  The entry's runtime state
\* goes with it.
DeleteCredential(c) ==
  /\ c \in present
  /\ present' = present \ {c}
  /\ IF present' = {} THEN current' = None
     ELSE IF current = c THEN SwitchTo(Enabled \ {c})
     ELSE UNCHANGED current
  /\ Restore(c)
  /\ throttled' = [throttled EXCEPT ![c] = FALSE]
  /\ priority' = [priority EXCEPT ![c] = AnyPriority(c)]
  /\ UNCHANGED <<nextId, mode, pc, cred>>

-----------------------------------------------------------------------------
\* MultiTokenManager::new: a credential the file marks disabled is disabled by
\* hand, whatever disabled it before; one without its API key by configuration.
Init ==
  /\ \E n \in InitialCounts : present = 1..n /\ nextId = n + 1
  /\ reason \in [Cred -> {NoReason, "Manual", "InvalidConfig"}]
  /\ \A c \in Cred \ present : reason[c] = NoReason
  /\ disabled = [c \in Cred |-> reason[c] # NoReason]
  /\ failures = [c \in Cred |-> 0]
  /\ refreshFailures = [c \in Cred |-> 0]
  /\ throttled = [c \in Cred |-> FALSE]
  /\ priority \in [Cred -> UNION {Priorities[c] : c \in Cred}]
  /\ \A c \in present : priority[c] \in Priorities[c]
  /\ \A c \in Cred \ present : priority[c] = AnyPriority(c)
  /\ IF Enabled = {} THEN current = None ELSE current \in Best(Enabled)
  /\ mode \in {"priority", "balanced"}
  /\ pc = [r \in Request |-> "idle"]
  /\ cred = [r \in Request |-> None]

AcquireStep(r) ==
  \/ PickSticky(r) \/ PickCurrent(r) \/ PickNone(r)
  \/ Select(r) \/ Heal(r) \/ SelectAgain(r) \/ Adopt(r)

TokenStep(r) == TokenReady(r) \/ TokenFails(r) \/ TokenInvalid(r) \/ TokenReloaded(r)

OutcomeStep(r) ==
  \/ CallSucceeds(r) \/ CallRejected(r) \/ QuotaExhausted(r) \/ AccountThrottled(r)
  \/ Unreported(r)

AdminStep ==
  \/ \E c \in Cred :
       \/ AdminDisable(c) \/ AdminDisableQuota(c) \/ AdminEnable(c) \/ ClearThrottle(c)
       \/ TokenRenewed(c) \/ DeleteCredential(c)
       \/ \E p \in Priorities[c] : SetPriority(c, p)
  \/ AddCredential
  \/ AddDuplicate
  \/ \E m \in {"priority", "balanced"} : SetMode(m)

Next ==
  \/ \E r \in Request : BeginRequest(r) \/ AcquireStep(r) \/ TokenStep(r) \/ OutcomeStep(r)
  \/ \E c \in Cred : CooldownEnds(c)
  \/ AdminStep

Spec == Init /\ [][Next]_vars

-----------------------------------------------------------------------------
(* What the scheduler guarantees. *)

\* An entry is disabled exactly when it says why; self-healing and the
\* administrator's pages go by the reason, selection by the flag.
ReasonMatchesFlag == \A c \in present : disabled[c] <=> reason[c] # NoReason

\* However failures, successes, healing, reloads and administrator calls
\* interleave, a credential in service is below both failure thresholds, so a
\* first further failure never finds the count already past the limit.
EnabledBelowThreshold ==
  \A c \in Enabled : failures[c] < MaxFailures /\ refreshFailures[c] < MaxFailures

\* Strict isolation: no path through acquire_context (sticky, current,
\* balanced, healed) gives a request a credential of another group, or one
\* whose subscription does not serve the model.
GroupIsolation ==
  \A r \in Request :
    pc[r] \in {"adopt", "token", "send", "stream"} => cred[r] \in Serves[r]

\* A step of a request, other than the reload of a newer token from the file,
\* puts a credential back into service only if failures took it out: never one
\* an administrator disabled, one without quota, or one whose token is dead.
OnlyFailuresHeal ==
  [][\A r \in Request :
       pc[r] # pc'[r] /\ ~(pc[r] = "token" /\ pc'[r] = "pick") =>
         \A c \in present :
           disabled[c] /\ ~disabled'[c] => reason[c] = "TooManyFailures"]_vars

=============================================================================
