------------------------------ MODULE Provider ------------------------------
(***************************************************************************)
(* KiroProvider on top of the credential pool: call_api_with_retry and     *)
(* call_mcp_with_retry.  A call makes a limited number of attempts; each   *)
(* one gets a credential from acquire_context (CredentialPool), sends the  *)
(* request, perhaps again to the next endpoint of the fallback chain, and  *)
(* reports what the answer says about the credential, which decides        *)
(* whether there is a next attempt and with which credential.              *)
(*                                                                         *)
(* Every step of a call that touches a credential is a step of the pool:   *)
(* ImplementsPool.  What is sent and answered is left out, but for the     *)
(* class of the answer; so are the trace of the attempts and the lookup of *)
(* the profile ARN, which decide nothing here.                             *)
(***************************************************************************)
EXTENDS CredentialPool

CONSTANTS Mcp,                  \* calls of tools, the others are API calls
          InGroup,              \* credentials in the group of each request
          RetriesPerCredential, \* MAX_RETRIES_PER_CREDENTIAL
          MaxTotalRetries,      \* MAX_TOTAL_RETRIES
          MaxReloads            \* bound: newer tokens found in the file per call

ASSUME McpAssumption == Mcp \subseteq Request
ASSUME InGroupAssumption ==
  /\ InGroup \in [Request -> SUBSET Cred]
  /\ \A r \in Request : Serves[r] \subseteq InGroup[r]
ASSUME RetriesAssumption ==
  /\ RetriesPerCredential \in Nat \ {0}
  /\ MaxTotalRetries \in Nat \ {0}
  /\ MaxReloads \in Nat

\* runtime -> ide -> codewhisperer
MaxHops == 2

VARIABLES stage,  \* where each call is
          left,   \* attempts it has left, the one in progress included
          tokens, \* failed tokens acquire_context still puts up with
          reloads, \* newer tokens found in the file
          forced, \* force_refreshed: credentials it has refreshed by force
          status, \* the answer that started the fallback chain
          hop     \* endpoints of the chain tried

callVars == <<stage, left, tokens, reloads, forced, status, hop>>
allVars == <<vars, callVars>>

\* acquire: in acquire_context, or it has failed.  sent: with a credential,
\* until the answer.  hop: the answer may be better elsewhere.
\* force: in force_refresh_token_for.  renewed: that has succeeded.
\* backoff: asleep before the next attempt.
\* next: the attempt is over, and so is its slot.
Stages == {"out", "acquire", "sent", "hop", "force", "renewed", "backoff", "next"}

\* Answers another endpoint may not give; a 403 may also be for a dead token.
NoStatus == "none"
Statuses == {"bad", "forbidden", "busy", NoStatus}

MinOf(a, b) == IF a < b THEN a ELSE b
AtLeastOne(n) == IF n = 0 THEN 1 ELSE n

GotoStage(r, s) == stage' = [stage EXCEPT ![r] = s]

\* The call returns.
Finish(r) ==
  /\ GotoStage(r, "out")
  /\ left' = [left EXCEPT ![r] = 0]
  /\ tokens' = [tokens EXCEPT ![r] = 0]
  /\ reloads' = [reloads EXCEPT ![r] = 0]
  /\ forced' = [forced EXCEPT ![r] = {}]
  /\ status' = [status EXCEPT ![r] = NoStatus]
  /\ hop' = [hop EXCEPT ![r] = 0]

\* The call goes on at another stage of the attempt.
Move(r, s) ==
  /\ GotoStage(r, s)
  /\ UNCHANGED <<left, tokens, reloads, forced, status, hop>>

\* The loop's `continue': the attempt is over.
Continue(r) ==
  /\ GotoStage(r, "next")
  /\ status' = [status EXCEPT ![r] = NoStatus]
  /\ hop' = [hop EXCEPT ![r] = 0]
  /\ UNCHANGED <<left, tokens, reloads, forced>>

-----------------------------------------------------------------------------
(* The loop. *)

\* A call of a group without credentials is tried once all the same; a tool
\* call counts every credential, whatever its group.
Budget(r) ==
  LET credentials == IF r \in Mcp THEN Cardinality(present)
                     ELSE AtLeastOne(Cardinality(present \intersect InGroup[r]))
  IN  MinOf(credentials * RetriesPerCredential, MaxTotalRetries)

TokenBudget(r) == AtLeastOne(Cardinality(present \intersect InGroup[r]) * MaxFailures)

\* The head of the loop; acquire_context counts the credentials on its own.
EnterAcquire(r, attempts) ==
  /\ BeginRequest(r)
  /\ GotoStage(r, "acquire")
  /\ left' = [left EXCEPT ![r] = attempts]
  /\ tokens' = [tokens EXCEPT ![r] = TokenBudget(r)]
  /\ UNCHANGED <<reloads, forced, status, hop>>

StartCall(r) ==
  /\ stage[r] = "out"
  /\ Budget(r) > 0
  /\ EnterAcquire(r, Budget(r))

NextAttempt(r) ==
  /\ stage[r] = "next"
  /\ left[r] > 1
  /\ EnterAcquire(r, left[r] - 1)

OutOfAttempts(r) ==
  /\ stage[r] = "next"
  /\ left[r] = 1
  /\ Finish(r)
  /\ UNCHANGED vars

-----------------------------------------------------------------------------
(* acquire_context *)

Acquiring(r) ==
  /\ stage[r] = "acquire"
  /\ AcquireStep(r)
  /\ UNCHANGED callVars

\* A token that cannot be had: the loop of acquire_context goes on while there
\* are attempts left and anything is in service.
TokenLost(r) ==
  /\ stage[r] = "acquire"
  /\ TokenFails(r) \/ TokenInvalid(r)
  /\ tokens' = [tokens EXCEPT ![r] = @ - 1]
  /\ pc'[r] = "pick" <=> (tokens[r] > 1 /\ \E c \in present : ~disabled'[c])
  /\ UNCHANGED <<stage, left, reloads, forced, status, hop>>

\* A newer token in the file is not counted.
TokenFound(r) ==
  /\ stage[r] = "acquire"
  /\ reloads[r] < MaxReloads
  /\ TokenReloaded(r)
  /\ reloads' = [reloads EXCEPT ![r] = @ + 1]
  /\ UNCHANGED <<stage, left, tokens, forced, status, hop>>

Send(r) ==
  /\ stage[r] = "acquire"
  /\ TokenReady(r)
  /\ Move(r, "sent")

\* Fault: a failed acquire_context does not use up its attempt.
AcquireFailed_Free(r) ==
  /\ stage[r] = "acquire"
  /\ pc[r] = "idle"
  /\ EnterAcquire(r, left[r])

AcquireFailed(r) ==
  /\ stage[r] = "acquire"
  /\ pc[r] = "idle"
  /\ Continue(r)
  /\ UNCHANGED vars

-----------------------------------------------------------------------------
(* The answer. *)

Succeeds(r) ==
  /\ stage[r] \in {"sent", "hop"}
  /\ stage[r] = "hop" => hop[r] < MaxHops
  /\ CallSucceeds(r)
  /\ Finish(r)

\* Nothing is reported and the call ends: a malformed request, also after the
\* fallback chain, a gateway timeout, any other 4xx, a client that cannot be built.
GiveUp(r) ==
  /\ stage[r] \in {"sent", "hop"}
  /\ Unreported(r)
  /\ Finish(r)

\* A network error, 408, 429, 5xx: nothing is reported, and the slot is held
\* through the delay.
RetryLater(r) ==
  IF left[r] > 1
  THEN Move(r, "backoff") /\ UNCHANGED vars
  ELSE Unreported(r) /\ Continue(r)

Transient(r) ==
  /\ stage[r] = "sent"
  /\ RetryLater(r)

BackoffEnds(r) ==
  /\ stage[r] = "backoff"
  /\ Unreported(r)
  /\ Continue(r)

\* After a report: is any credential, of any group, still in service?
GoOnIfAnyInService(r) ==
  IF \E c \in present : ~disabled'[c] THEN Continue(r) ELSE Finish(r)

\* 402
QuotaGone(r) ==
  /\ stage[r] = "sent"
  /\ QuotaExhausted(r)
  /\ GoOnIfAnyInService(r)

\* The credential names an endpoint that does not exist.
UnknownEndpoint(r) ==
  /\ stage[r] = "sent"
  /\ CallRejected(r)
  /\ Continue(r)

\* 429 for suspicious activity: what is left for this request is asked of its
\* own group.
Suspicious(r) ==
  /\ stage[r] = "sent"
  /\ r \notin Mcp
  /\ AccountThrottled(r)
  /\ IF \E c \in present \intersect Serves[r] : ~disabled'[c] /\ ~throttled'[c]
     THEN Continue(r)
     ELSE Finish(r)

\* Fault: the failure is counted before the refresh is tried.
Unauthorized_CountsFirst(r) ==
  \/ /\ cred[r] \notin forced[r]
     /\ cred[r] \in present
     /\ GotoStage(r, "force")
     /\ forced' = [forced EXCEPT ![r] = @ \union {cred[r]}]
     /\ failures' = [failures EXCEPT ![cred[r]] = MinOf(@ + 1, MaxFailures)]
     /\ UNCHANGED <<present, nextId, disabled, reason, refreshFailures, throttled, priority,
                    current, mode, pc, cred, left, tokens, reloads, status, hop>>
  \/ CallRejected(r) /\ GoOnIfAnyInService(r)

\* 401 or 403: the token is refreshed by force, once per credential and call,
\* when the answer says it is invalid; otherwise the credential has failed.
Unauthorized(r) ==
  \/ /\ cred[r] \notin forced[r]
     /\ GotoStage(r, "force")
     /\ forced' = [forced EXCEPT ![r] = @ \union {cred[r]}]
     /\ UNCHANGED <<vars, left, tokens, reloads, status, hop>>
  \/ CallRejected(r) /\ GoOnIfAnyInService(r)

\* 401
Rejected(r) ==
  /\ stage[r] = "sent"
  /\ Unauthorized(r)

ForceSucceeds(r) ==
  /\ stage[r] = "force"
  /\ TokenRenewed(cred[r])
  /\ Move(r, "renewed")

\* Fault: after the forced refresh the slot is forgotten.
Renewed_KeepsSlot(r) ==
  /\ stage[r] = "renewed"
  /\ Continue(r)
  /\ UNCHANGED vars

\* The attempt is used up, and the slot given back, with nothing reported.
Renewed(r) ==
  /\ stage[r] = "renewed"
  /\ Unreported(r)
  /\ Continue(r)

ForceFails(r) ==
  /\ stage[r] = "force"
  /\ CallRejected(r)
  /\ GoOnIfAnyInService(r)

-----------------------------------------------------------------------------
(* The fallback chain of 400, 403 and 429: endpoints with limits of their  *)
(* own, tried with the same credential.  It ends early where fallback is   *)
(* off.  What a later endpoint answers, unless it succeeds, is not looked  *)
(* at: the first answer decides.                                           *)

FallBack(r) ==
  /\ stage[r] = "sent"
  /\ GotoStage(r, "hop")
  /\ status' \in {[status EXCEPT ![r] = s] : s \in Statuses \ {NoStatus}}
  /\ UNCHANGED <<vars, left, tokens, reloads, forced, hop>>

HopFails(r) ==
  /\ stage[r] = "hop"
  /\ hop[r] < MaxHops
  /\ hop' = [hop EXCEPT ![r] = @ + 1]
  /\ UNCHANGED <<vars, stage, left, tokens, reloads, forced, status>>

\* A 400 that no endpoint took ends the call: GiveUp.
ChainEnds(r) ==
  /\ stage[r] = "hop"
  /\ \/ status[r] = "forbidden" /\ Unauthorized(r)
     \/ status[r] = "busy" /\ RetryLater(r)

-----------------------------------------------------------------------------
CallInit ==
  /\ Init
  /\ stage = [r \in Request |-> "out"]
  /\ left = [r \in Request |-> 0]
  /\ tokens = [r \in Request |-> 0]
  /\ reloads = [r \in Request |-> 0]
  /\ forced = [r \in Request |-> {}]
  /\ status = [r \in Request |-> NoStatus]
  /\ hop = [r \in Request |-> 0]

\* The response has been read to its end, or its reader is gone.  A tool call
\* drops its slot as it returns, before the body is read.
StreamEnds(r) ==
  /\ stage[r] = "out"
  /\ Unreported(r)
  /\ UNCHANGED callVars

CallStep(r) ==
  \/ NextAttempt(r) \/ OutOfAttempts(r)
  \/ Acquiring(r) \/ TokenLost(r) \/ TokenFound(r) \/ Send(r) \/ AcquireFailed(r)
  \/ Succeeds(r) \/ GiveUp(r) \/ Transient(r) \/ BackoffEnds(r)
  \/ QuotaGone(r) \/ UnknownEndpoint(r) \/ Suspicious(r) \/ Rejected(r)
  \/ ForceSucceeds(r) \/ Renewed(r) \/ ForceFails(r)
  \/ FallBack(r) \/ HopFails(r) \/ ChainEnds(r)

Elsewhere ==
  /\ AdminStep \/ \E c \in Cred : CooldownEnds(c)
  /\ UNCHANGED callVars

CallNext ==
  \/ \E r \in Request : StartCall(r) \/ CallStep(r) \/ StreamEnds(r)
  \/ Elsewhere

CallSpec == CallInit /\ [][CallNext]_allVars

\* A call that is running goes on: requests to the authority and to Kiro have
\* timeouts, and so has a delay.
FairCallSpec == CallSpec /\ \A r \in Request : WF_allVars(CallStep(r))

-----------------------------------------------------------------------------
\* Everything a call does to credentials, in whatever order answers, refreshes
\* and fallbacks come, is what the pool allows: the slot is held from the token
\* to the report and given back once, a report names the credential that was
\* used, no new credential is asked for while one is held.  So what is true of
\* the pool is true of the program.
ImplementsPool == Spec

\* A call that is not running, or is between two attempts, holds no slot, but
\* for a response that is still being read; a call that has sent its request
\* holds one until it has dealt with the answer, through fallbacks, forced
\* refreshes and delays.
SlotFollowsCall ==
  \A r \in Request :
    /\ stage[r] = "out" => pc[r] \in {"idle", "stream"}
    /\ stage[r] = "next" => pc[r] = "idle"
    /\ stage[r] = "acquire" => pc[r] \notin {"send", "stream"}
    /\ stage[r] \in {"sent", "hop", "force", "renewed", "backoff"} => pc[r] = "send"

\* The order in which a call passes its stages, and a request the places of
\* acquire_context, up to the next attempt.
StageRank == [acquire |-> 6, sent |-> 5, hop |-> 4, force |-> 3, renewed |-> 2, backoff |-> 2,
              next |-> 1, out |-> 0]
PlaceRank == [pick |-> 6, select |-> 5, heal |-> 4, reselect |-> 3, adopt |-> 2, token |-> 1,
              idle |-> 0]

\* Has r come nearer to its end?  Attempts first, then the stage, the endpoints
\* tried, the newer tokens found, the failed tokens and the place.
Nearer(r) ==
  \/ stage'[r] = "out"
  \/ left'[r] < left[r]
  \/ /\ left'[r] = left[r]
     /\ \/ StageRank[stage'[r]] < StageRank[stage[r]]
        \/ /\ stage'[r] = stage[r]
           /\ \/ stage[r] = "hop" /\ hop'[r] > hop[r]
              \/ /\ stage[r] = "acquire"
                 /\ \/ reloads'[r] > reloads[r]
                    \/ /\ reloads'[r] = reloads[r]
                       /\ \/ tokens'[r] < tokens[r]
                          \/ tokens'[r] = tokens[r] /\ PlaceRank[pc'[r]] < PlaceRank[pc[r]]

\* The budgets nest (attempts, failed tokens, endpoints, newer tokens): every step
\* of a call brings it nearer to its end, and nothing else moves it, neither
\* other calls nor administrators nor cooldowns; what is counted stays within its
\* bounds, so a call takes only finitely many steps.
CallsRunDown ==
  [][\A r \in Request :
       /\ CallStep(r) => /\ Nearer(r)
                         /\ left[r] > 0 /\ left'[r] >= 0 /\ tokens'[r] >= 0
                         /\ hop'[r] <= MaxHops /\ reloads'[r] <= MaxReloads
       /\ CallStep(r) \/ stage[r] = "out"
            \/ /\ stage'[r] = stage[r] /\ left'[r] = left[r] /\ hop'[r] = hop[r]
               /\ reloads'[r] = reloads[r] /\ tokens'[r] = tokens[r] /\ pc'[r] = pc[r]]_allVars

\* A call returns, whatever its attempts meet with.
CallEnds == \A r \in Request : stage[r] # "out" ~> stage[r] = "out"
=============================================================================
