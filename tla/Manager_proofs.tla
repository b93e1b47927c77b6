--------------------------- MODULE Manager_proofs ---------------------------
(***************************************************************************)
(* Theorems about the pool of credentials, the provider's calls of it and  *)
(* the file the pool is saved to, for any number of credentials, requests, *)
(* tasks and changes, any limits, groups and failure threshold.            *)
(*                                                                         *)
(* First the pool, with its inductive invariant PoolInv.  Then a call of   *)
(* the provider: it moves the pool only by steps of the pool (PoolInv is   *)
(* needed to see it: that a forced refresh names a credential there is     *)
(* follows from it).  With the step lemma PoolInv holds of the provider as *)
(* well, and with it everything that was proved of the pool, and a call is *)
(* shown to run down: each of its steps lowers a measure that nothing else *)
(* touches.  Last the file, under any interleaving of saves, failures and  *)
(* crashes.                                                                *)
(***************************************************************************)
EXTENDS Provider, CredentialStore, FiniteSetTheorems, TLAPS


\* The flag and the reason agree, for absent identifiers too.
FlagInv == \A c \in Cred : disabled[c] <=> reason[c] # NoReason

\* Self-healing leaves refreshFailures alone, so what it may put back must not
\* have reached that threshold.
HealableInv ==
  \A c \in Cred : reason[c] = "TooManyFailures" => refreshFailures[c] < MaxFailures

\* In service: below both thresholds.
ThresholdInv ==
  \A c \in Cred : ~disabled[c] =>
    failures[c] < MaxFailures /\ refreshFailures[c] < MaxFailures

\* A request between choice and end has a credential that serves it.
GivenInv ==
  \A r \in Request :
    pc[r] \in {"adopt", "token", "send", "stream"} =>
      cred[r] \in Cred /\ cred[r] \in Serves[r]

PoolInv == TypeOK /\ FlagInv /\ HealableInv /\ ThresholdInv /\ GivenInv

\* Everything the entries' part of the invariant depends on.
HealthInv == FlagInv /\ HealableInv /\ ThresholdInv

\* Every credential has a priority, and giving it one keeps the type.
PriorityOK == priority \in [Cred -> Nat] /\ \A c \in Cred : priority[c] \in Priorities[c]

LEMMA PriorityType ==
  ASSUME PriorityOK, NEW c \in Cred, NEW p \in Priorities[c],
         priority' = [priority EXCEPT ![c] = p]
  PROVE  PriorityOK'
<1>1. p \in Nat
  BY PrioritiesAssumption
<1> QED BY <1>1 DEF PriorityOK

LEMMA AnyPriorityType == \A c \in Cred : AnyPriority(c) \in Priorities[c]
<1> SUFFICES ASSUME NEW c \in Cred PROVE AnyPriority(c) \in Priorities[c]
  OBVIOUS
<1>1. \E p \in Priorities[c] : TRUE
  BY PrioritiesAssumption
<1> QED BY <1>1 DEF AnyPriority

\* The pool starts in the invariant.
LEMMA PoolInvInit == Init => PoolInv
<1> SUFFICES ASSUME Init PROVE PoolInv
  OBVIOUS
<1> USE MaxIdAssumption, MaxFailuresAssumption, InitialAssumption
<1>1. TypeOK
  <2>1. present \subseteq Cred /\ nextId \in 1..(MaxId + 1)
    BY DEF Init, Cred
  <2>2. reason \in [Cred -> Reasons \union {NoReason}] /\ disabled \in [Cred -> BOOLEAN]
    BY DEF Init, Reasons, NoReason
  <2>3. /\ failures \in [Cred -> 0..MaxFailures]
        /\ refreshFailures \in [Cred -> 0..MaxFailures]
    BY DEF Init
  <2>4. current \in Cred \union {None}
    BY <2>1 DEF Init, Best, BestBy, Enabled
  <2>5. PriorityOK
    <3>1. \A c \in Cred : priority[c] \in Priorities[c]
      BY AnyPriorityType DEF Init
    <3>2. \A c \in Cred : Priorities[c] \subseteq Nat
      BY PrioritiesAssumption
    <3> QED BY <3>1, <3>2 DEF Init, PriorityOK
  <2> QED BY <2>1, <2>2, <2>3, <2>4, <2>5 DEF Init, TypeOK, PC, PriorityOK
<1>2. HealthInv
  <2>1. ASSUME NEW c \in Cred
        PROVE  /\ disabled[c] <=> reason[c] # NoReason
               /\ failures[c] = 0 /\ refreshFailures[c] = 0
    BY Zenon DEF Init
  <2>2. \A c \in Cred : failures[c] < MaxFailures /\ refreshFailures[c] < MaxFailures
    BY <2>1
  <2> QED BY <2>1, <2>2 DEF HealthInv, FlagInv, HealableInv, ThresholdInv
<1>3. GivenInv
  BY DEF Init, GivenInv
<1> QED BY <1>1, <1>2, <1>3 DEF PoolInv, HealthInv

-----------------------------------------------------------------------------
(* The two effects on an entry that most steps are made of. *)

\* Putting c back into service keeps the entries healthy.
LEMMA RestoreKeepsHealth ==
  ASSUME TypeOK, HealthInv, NEW c \in Cred, Restore(c)
  PROVE  /\ HealthInv'
         /\ disabled' \in [Cred -> BOOLEAN]
         /\ reason' \in [Cred -> Reasons \union {NoReason}]
         /\ failures' \in [Cred -> 0..MaxFailures]
         /\ refreshFailures' \in [Cred -> 0..MaxFailures]
<1> USE MaxFailuresAssumption
<1>1. /\ disabled' \in [Cred -> BOOLEAN]
      /\ reason' \in [Cred -> Reasons \union {NoReason}]
      /\ failures' \in [Cred -> 0..MaxFailures]
      /\ refreshFailures' \in [Cred -> 0..MaxFailures]
  BY DEF Restore, TypeOK
<1>2. ASSUME NEW d \in Cred
      PROVE  /\ (disabled[d] <=> reason[d] # NoReason)'
             /\ (reason[d] = "TooManyFailures" => refreshFailures[d] < MaxFailures)'
             /\ (~disabled[d] => failures[d] < MaxFailures /\ refreshFailures[d] < MaxFailures)'
  <2>1. CASE d = c
    BY <2>1 DEF Restore, TypeOK, NoReason
  <2>2. CASE d # c
    <3>1. /\ disabled'[d] = disabled[d] /\ reason'[d] = reason[d]
          /\ failures'[d] = failures[d] /\ refreshFailures'[d] = refreshFailures[d]
      BY <2>2 DEF Restore, TypeOK
    <3> QED BY <3>1 DEF HealthInv, FlagInv, HealableInv, ThresholdInv
  <2> QED BY <2>1, <2>2
<1> QED BY <1>1, <1>2 DEF HealthInv, FlagInv, HealableInv, ThresholdInv

\* Taking c out of service keeps them healthy, when a credential that
\* self-healing may put back is below the refresh threshold.
LEMMA DisableKeepsHealth ==
  ASSUME TypeOK, HealthInv, NEW c \in Cred, NEW why \in Reasons,
         disabled' = [disabled EXCEPT ![c] = TRUE],
         reason' = [reason EXCEPT ![c] = why],
         why = "TooManyFailures" => refreshFailures'[c] < MaxFailures,
         \A d \in Cred \ {c} : failures'[d] = failures[d]
                            /\ refreshFailures'[d] = refreshFailures[d]
  PROVE  HealthInv'
<1>1. ASSUME NEW d \in Cred
      PROVE  /\ (disabled[d] <=> reason[d] # NoReason)'
             /\ (reason[d] = "TooManyFailures" => refreshFailures[d] < MaxFailures)'
             /\ (~disabled[d] => failures[d] < MaxFailures /\ refreshFailures[d] < MaxFailures)'
  <2>1. CASE d = c
    BY <2>1 DEF TypeOK, NoReason, Reasons
  <2>2. CASE d # c
    <3>1. /\ disabled'[d] = disabled[d] /\ reason'[d] = reason[d]
          /\ failures'[d] = failures[d] /\ refreshFailures'[d] = refreshFailures[d]
      BY <2>2 DEF TypeOK
    <3> QED BY <3>1 DEF HealthInv, FlagInv, HealableInv, ThresholdInv
  <2> QED BY <2>1, <2>2
<1> QED BY <1>1 DEF HealthInv, FlagInv, HealableInv, ThresholdInv

\* Counters that only went down, or up to below the threshold, on an entry
\* whose flag and reason stay.
LEMMA CountKeepsHealth ==
  ASSUME TypeOK, HealthInv, NEW c \in Cred, UNCHANGED <<disabled, reason>>,
         failures'[c] < MaxFailures \/ failures'[c] = failures[c],
         refreshFailures'[c] < MaxFailures \/ refreshFailures'[c] = refreshFailures[c],
         \A d \in Cred \ {c} : failures'[d] = failures[d]
                            /\ refreshFailures'[d] = refreshFailures[d]
  PROVE  HealthInv'
<1>1. ASSUME NEW d \in Cred
      PROVE  /\ (disabled[d] <=> reason[d] # NoReason)'
             /\ (reason[d] = "TooManyFailures" => refreshFailures[d] < MaxFailures)'
             /\ (~disabled[d] => failures[d] < MaxFailures /\ refreshFailures[d] < MaxFailures)'
  BY DEF HealthInv, FlagInv, HealableInv, ThresholdInv
<1> QED BY <1>1 DEF HealthInv, FlagInv, HealableInv, ThresholdInv

LEMMA UnchangedKeepsHealth ==
  ASSUME HealthInv, UNCHANGED <<disabled, reason, failures, refreshFailures>>
  PROVE  HealthInv'
  BY DEF HealthInv, FlagInv, HealableInv, ThresholdInv

-----------------------------------------------------------------------------
\* Every step keeps the entries healthy.
LEMMA HealthStep == PoolInv /\ [Next]_vars => HealthInv'
<1> SUFFICES ASSUME PoolInv, [Next]_vars PROVE HealthInv'
  OBVIOUS
<1> USE MaxFailuresAssumption
<1>0. TypeOK /\ HealthInv /\ GivenInv
  BY DEF PoolInv, HealthInv
<1>1. CASE UNCHANGED <<disabled, reason, failures, refreshFailures>>
  BY <1>0, <1>1, UnchangedKeepsHealth
<1>2. ASSUME NEW r \in Request, Heal(r) PROVE HealthInv'
  <2> DEFINE failed == {c \in present : disabled[c] /\ reason[c] = "TooManyFailures"}
  <2>1. CASE failed = {}
    BY <1>0, <1>2, <2>1, UnchangedKeepsHealth DEF Heal
  <2>2. CASE failed # {}
    <3>1. /\ disabled' = [c \in Cred |-> disabled[c] /\ c \notin failed]
          /\ reason' = [c \in Cred |-> IF c \in failed THEN NoReason ELSE reason[c]]
          /\ failures' = [c \in Cred |-> IF c \in failed THEN 0 ELSE failures[c]]
          /\ refreshFailures' = refreshFailures
      BY <1>2, <2>2 DEF Heal
    <3>2. ASSUME NEW d \in Cred
          PROVE  /\ (disabled[d] <=> reason[d] # NoReason)'
                 /\ (reason[d] = "TooManyFailures" => refreshFailures[d] < MaxFailures)'
                 /\ (~disabled[d] =>
                       failures[d] < MaxFailures /\ refreshFailures[d] < MaxFailures)'
      <4>1. CASE d \in failed
        <5>1. reason'[d] = NoReason /\ failures'[d] = 0 /\ refreshFailures'[d] = refreshFailures[d]
          BY <3>1, <4>1
        <5>2. ~disabled'[d]
          BY Zenon, <3>1, <4>1
        <5>3. refreshFailures[d] < MaxFailures
          BY <1>0, <4>1 DEF HealthInv, HealableInv
        <5> QED BY <5>1, <5>2, <5>3 DEF NoReason
      <4>2. CASE d \notin failed
        <5>1. reason'[d] = reason[d] /\ failures'[d] = failures[d]
              /\ refreshFailures'[d] = refreshFailures[d]
          BY <3>1, <4>2
        <5>2. disabled'[d] <=> disabled[d]
          BY Zenon, <3>1, <4>2
        <5> QED
          BY <1>0, <5>1, <5>2 DEF HealthInv, FlagInv, HealableInv, ThresholdInv
      <4> QED BY <4>1, <4>2
    <3> QED BY <3>2 DEF HealthInv, FlagInv, HealableInv, ThresholdInv
  <2> QED BY <2>1, <2>2
<1>3. ASSUME NEW r \in Request, TokenStep(r) PROVE HealthInv'
  <2> DEFINE c == cred[r]
  <2>0. c \in Cred
    BY <1>0, <1>3 DEF TokenStep, TokenReady, TokenFails, TokenInvalid, TokenReloaded, GivenInv
  <2>1. CASE TokenReady(r)
    BY <1>0, <2>0, <2>1, CountKeepsHealth DEF TokenReady, StoreRefreshed, TypeOK
  <2>2. CASE TokenFails(r)
    <3>1. CASE c \notin Enabled
      BY <1>0, <2>2, <3>1, UnchangedKeepsHealth DEF TokenFails
    <3>2. CASE c \in Enabled /\ refreshFailures[c] + 1 >= MaxFailures
      BY <1>0, <2>0, <2>2, <3>2, DisableKeepsHealth DEF TokenFails, AutoDisable, TypeOK, Reasons
    <3>3. CASE c \in Enabled /\ ~(refreshFailures[c] + 1 >= MaxFailures)
      BY <1>0, <2>0, <2>2, <3>3, CountKeepsHealth DEF TokenFails, TypeOK
    <3> QED BY <3>1, <3>2, <3>3
  <2>3. CASE TokenInvalid(r)
    <3>1. CASE c \notin Enabled
      BY <1>0, <2>3, <3>1, UnchangedKeepsHealth DEF TokenInvalid
    <3>2. CASE c \in Enabled
      BY <1>0, <2>0, <2>3, <3>2, DisableKeepsHealth DEF TokenInvalid, AutoDisable, Reasons
    <3> QED BY <3>1, <3>2
  <2>4. CASE TokenReloaded(r)
    BY <1>0, <2>0, <2>4, RestoreKeepsHealth DEF TokenReloaded
  <2> QED BY <1>3, <2>1, <2>2, <2>3, <2>4 DEF TokenStep
<1>4. ASSUME NEW r \in Request, OutcomeStep(r) PROVE HealthInv'
  <2> DEFINE c == cred[r]
  <2>0. pc[r] = "send" => c \in Cred
    BY <1>0 DEF GivenInv
  <2>1. CASE CallSucceeds(r)
    BY <1>0, <2>0, <2>1, CountKeepsHealth DEF CallSucceeds, TypeOK
  <2>2. CASE CallRejected(r)
    <3>1. CASE c \notin Enabled
      BY <1>0, <2>2, <3>1, UnchangedKeepsHealth DEF CallRejected
    <3>2. CASE c \in Enabled /\ failures[c] + 1 >= MaxFailures
      <4>1. refreshFailures'[c] < MaxFailures
        BY <1>0, <2>0, <2>2, <3>2 DEF CallRejected, Enabled, HealthInv, ThresholdInv
      <4> QED
        BY <1>0, <2>0, <2>2, <3>2, <4>1, DisableKeepsHealth
           DEF CallRejected, AutoDisable, TypeOK, Reasons
    <3>3. CASE c \in Enabled /\ ~(failures[c] + 1 >= MaxFailures)
      BY <1>0, <2>0, <2>2, <3>3, CountKeepsHealth DEF CallRejected, TypeOK
    <3> QED BY <3>1, <3>2, <3>3
  <2>3. CASE QuotaExhausted(r)
    <3>1. CASE c \notin Enabled
      BY <1>0, <2>3, <3>1, UnchangedKeepsHealth DEF QuotaExhausted
    <3>2. CASE c \in Enabled
      BY <1>0, <2>0, <2>3, <3>2, DisableKeepsHealth
         DEF QuotaExhausted, AutoDisable, TypeOK, Reasons
    <3> QED BY <3>1, <3>2
  <2>4. CASE AccountThrottled(r)
    BY <1>0, <2>0, <2>4, DisableKeepsHealth, UnchangedKeepsHealth
       DEF AccountThrottled, Reasons
  <2>5. CASE Unreported(r)
    BY <1>0, <2>5, UnchangedKeepsHealth DEF Unreported, entryVars
  <2> QED BY <1>4, <2>1, <2>2, <2>3, <2>4, <2>5 DEF OutcomeStep
<1>5. ASSUME NEW c \in Cred, AdminDisable(c) \/ AdminDisableQuota(c) PROVE HealthInv'
  BY <1>0, <1>5, DisableKeepsHealth DEF AdminDisable, AdminDisableQuota, Reasons
<1>6. ASSUME NEW c \in Cred, AdminEnable(c) \/ DeleteCredential(c) PROVE HealthInv'
  BY <1>0, <1>6, RestoreKeepsHealth DEF AdminEnable, DeleteCredential
<1>7. ASSUME NEW c \in Cred, TokenRenewed(c) PROVE HealthInv'
  BY <1>0, <1>7, CountKeepsHealth DEF TokenRenewed, StoreRefreshed, TypeOK
<1>8. CASE AddCredential
  BY <1>0, <1>8, RestoreKeepsHealth DEF AddCredential, Insert
<1> QED
  BY <1>1, <1>2, <1>3, <1>4, <1>5, <1>6, <1>7, <1>8
     DEF Next, vars, entryVars, BeginRequest, AcquireStep, PickSticky, PickCurrent, PickNone,
         Select, SelectAgain, Adopt, CooldownEnds, AdminStep, ClearThrottle, SetPriority, SetMode,
         AddDuplicate

-----------------------------------------------------------------------------
\* Every path that hands a request a credential has looked at Serves: sticky,
\* current, chosen, and chosen again after healing.
LEMMA GivenStep == PoolInv /\ [Next]_vars => GivenInv'
<1> SUFFICES ASSUME PoolInv, [Next]_vars PROVE GivenInv'
  OBVIOUS
<1>0. TypeOK /\ GivenInv
  BY DEF PoolInv
<1>1. CASE UNCHANGED <<pc, cred>>
  BY <1>0, <1>1 DEF GivenInv
<1>2. ASSUME NEW r \in Request, End(r) \/ Give(r, None, "pick") PROVE GivenInv'
  BY <1>0, <1>2 DEF GivenInv, End, Give, Goto, TypeOK
<1>3. ASSUME NEW r \in Request, NEW c \in Available(r), Give(r, c, "adopt") \/ Give(r, c, "token")
      PROVE  GivenInv'
  BY <1>0, <1>3 DEF GivenInv, Give, Goto, TypeOK, Available, Usable
<1>4. ASSUME NEW r \in Request, NEW label \in {"pick", "select", "heal", "reselect", "idle"},
             Goto(r, label), UNCHANGED cred
      PROVE  GivenInv'
  BY <1>0, <1>4 DEF GivenInv, Goto, TypeOK
<1>5. ASSUME NEW r \in Request, NEW label \in PC,
             pc[r] \in {"adopt", "token", "send", "stream"}, Goto(r, label), UNCHANGED cred
      PROVE  GivenInv'
  BY <1>0, <1>5 DEF GivenInv, Goto, TypeOK
<1>6. \A r \in Request : Offered(r) \subseteq Available(r)
  BY DEF Offered, Best, BestBy
<1>7. ASSUME NEW r \in Request, AcquireStep(r) PROVE GivenInv'
  <2>1. CASE PickSticky(r)
    <3>1. PICK c \in present : Usable(c, r, StickyFactor[r] * Limit[c]) /\ Give(r, c, "token")
      BY <2>1 DEF PickSticky
    <3> QED BY <1>0, <3>1 DEF GivenInv, Give, Goto, TypeOK, Usable
  <2>2. CASE PickCurrent(r)
    BY <1>3, <2>2 DEF PickCurrent
  <2>3. CASE PickNone(r)
    BY <1>4, <2>3 DEF PickNone
  <2>4. CASE Select(r)
    BY <1>3, <1>4, <1>6, <2>4 DEF Select
  <2>5. CASE Heal(r)
    BY <1>4, <2>5 DEF Heal
  <2>6. CASE SelectAgain(r)
    BY <1>3, <1>4, <1>6, <2>6 DEF SelectAgain
  <2>7. CASE Adopt(r)
    BY <1>5, <2>7 DEF Adopt, PC
  <2> QED BY <1>7, <2>1, <2>2, <2>3, <2>4, <2>5, <2>6, <2>7 DEF AcquireStep
<1>8. ASSUME NEW r \in Request, BeginRequest(r) PROVE GivenInv'
  BY <1>4, <1>8 DEF BeginRequest
<1>9. ASSUME NEW r \in Request, TokenStep(r) PROVE GivenInv'
  <2>1. CASE TokenReady(r)
    BY <1>5, <2>1 DEF TokenReady, PC
  <2>2. CASE TokenFails(r)
    BY <1>2, <2>2 DEF TokenFails, TryAgain
  <2>3. CASE TokenInvalid(r)
    BY <1>2, <2>3 DEF TokenInvalid, TryAgain
  <2>4. CASE TokenReloaded(r)
    BY <1>2, <2>4 DEF TokenReloaded
  <2> QED BY <1>9, <2>1, <2>2, <2>3, <2>4 DEF TokenStep
<1>10. ASSUME NEW r \in Request, OutcomeStep(r) PROVE GivenInv'
  <2>1. CASE CallSucceeds(r)
    BY <1>5, <2>1 DEF CallSucceeds, PC
  <2>2. CASE ~CallSucceeds(r)
    BY <1>2, <1>10, <2>2
       DEF OutcomeStep, CallRejected, QuotaExhausted, AccountThrottled, Unreported
  <2> QED BY <2>1, <2>2
<1>11. CASE AdminStep
  BY <1>1, <1>11
     DEF AdminStep, AdminDisable, AdminDisableQuota, AdminEnable, ClearThrottle, TokenRenewed,
         DeleteCredential, SetPriority, SetMode, AddCredential, AddDuplicate, Insert
<1>12. ASSUME NEW c \in Cred, CooldownEnds(c) PROVE GivenInv'
  BY <1>1, <1>12 DEF CooldownEnds
<1> QED
  BY <1>1, <1>7, <1>8, <1>9, <1>10, <1>11, <1>12 DEF Next, vars

-----------------------------------------------------------------------------
(* Types. *)

\* Where current_id goes.
LEMMA BestIsCred ==
  ASSUME TypeOK, NEW rank, NEW S \in SUBSET Enabled
  PROVE  BestBy(rank, S) \subseteq Cred
  BY DEF TypeOK, Enabled, BestBy

LEMMA SwitchKeepsType ==
  ASSUME TypeOK, NEW S \in SUBSET Enabled, SwitchTo(S)
  PROVE  current' \in Cred \union {None}
  BY BestIsCred DEF SwitchTo, Best, TypeOK

LEMMA TypeStep == PoolInv /\ [Next]_vars => TypeOK'
<1> SUFFICES ASSUME PoolInv, [Next]_vars PROVE TypeOK'
  OBVIOUS
<1> USE MaxFailuresAssumption, MaxIdAssumption, PrioritiesAssumption
<1>0. TypeOK /\ HealthInv /\ GivenInv
  BY DEF PoolInv, HealthInv
<1> DEFINE CountersOK ==
             /\ disabled' \in [Cred -> BOOLEAN]
             /\ reason' \in [Cred -> Reasons \union {NoReason}]
             /\ failures' \in [Cred -> 0..MaxFailures]
             /\ refreshFailures' \in [Cred -> 0..MaxFailures]
           RestOK ==
             /\ present' \subseteq Cred
             /\ nextId' \in 1..(MaxId + 1)
             /\ throttled' \in [Cred -> BOOLEAN]
             /\ PriorityOK'
             /\ mode' \in {"priority", "balanced"}
           RequestOK ==
             /\ pc' \in [Request -> PC]
             /\ cred' \in [Request -> Cred \union {None}]
           CurrentOK == current' \in Cred \union {None}
<1> USE DEF None
<1>z. 0 \in 0..MaxFailures
  OBVIOUS
<1>p. PriorityOK /\ (UNCHANGED priority => PriorityOK')
  BY <1>0 DEF TypeOK, PriorityOK
<1>q. \A c \in Cred : StoreRefreshed(c) =>
        PriorityOK' /\ refreshFailures' \in [Cred -> 0..MaxFailures]
  BY <1>0, <1>p, <1>z, PriorityType DEF StoreRefreshed, TypeOK
<1>a. UNCHANGED <<disabled, reason, failures, refreshFailures>> => CountersOK
  BY <1>0 DEF TypeOK
<1>b. UNCHANGED <<present, nextId, throttled, priority, mode>> => RestOK
  BY <1>0, <1>p DEF TypeOK, PriorityOK
<1>c. UNCHANGED <<pc, cred>> => RequestOK
  BY <1>0 DEF TypeOK
<1>d. UNCHANGED current => CurrentOK
  BY <1>0 DEF TypeOK
<1>e. \A S \in SUBSET Enabled : SwitchTo(S) => CurrentOK
  BY <1>0, SwitchKeepsType
<1>f. \A c \in Cred : Enabled \ {c} \in SUBSET Enabled
  OBVIOUS
<1>g. \A r \in Request, c \in Cred \union {None}, label \in PC : Give(r, c, label) => RequestOK
  BY <1>0 DEF Give, Goto, TypeOK
<1>h. \A r \in Request, label \in PC : Goto(r, label) /\ UNCHANGED cred => RequestOK
  BY <1>0 DEF Goto, TypeOK
<1>j. \A c \in Cred : Restore(c) => CountersOK
  BY <1>0, RestoreKeepsHealth
<1>k. \A c \in Cred, why \in Reasons :
        AutoDisable(c, why) => /\ disabled' \in [Cred -> BOOLEAN]
                               /\ reason' \in [Cred -> Reasons \union {NoReason}]
                               /\ CurrentOK
  BY <1>0, <1>e, <1>f DEF AutoDisable, TypeOK
<1>l. \A r \in Request : Offered(r) \subseteq Cred /\ Available(r) \subseteq Cred
  BY DEF Offered, Available, Best, BestBy
<1>m. \A r \in Request : End(r) \/ TryAgain(r) => RequestOK
  BY <1>g DEF End, TryAgain, PC
<1>n. ASSUME CountersOK, RestOK, RequestOK, CurrentOK PROVE TypeOK'
  BY <1>n DEF TypeOK, PriorityOK
<1>1. ASSUME NEW r \in Request, BeginRequest(r) \/ AcquireStep(r) PROVE TypeOK'
  <2>1. CASE BeginRequest(r)
    BY <2>1, <1>a, <1>b, <1>d, <1>h, <1>n DEF BeginRequest, entryVars, PC
  <2>2. CASE PickSticky(r)
    BY <2>2, <1>0, <1>a, <1>b, <1>d, <1>g, <1>n DEF PickSticky, entryVars, PC, TypeOK
  <2>3. CASE PickCurrent(r)
    BY <2>3, <1>l, <1>a, <1>b, <1>d, <1>g, <1>n DEF PickCurrent, entryVars, PC
  <2>4. CASE PickNone(r)
    BY <2>4, <1>a, <1>b, <1>d, <1>h, <1>n DEF PickNone, entryVars, PC
  <2>5. CASE Select(r)
    BY <2>5, <1>l, <1>a, <1>b, <1>d, <1>g, <1>h, <1>n DEF Select, entryVars, PC
  <2>6. CASE SelectAgain(r)
    BY <2>6, <1>l, <1>a, <1>b, <1>d, <1>g, <1>h, <1>n DEF SelectAgain, entryVars, PC
  <2>7. CASE Adopt(r)
    BY <2>7, <1>0, <1>a, <1>b, <1>h, <1>n DEF Adopt, entryVars, PC, TypeOK
  <2>8. CASE Heal(r)
    <3>1. RestOK /\ RequestOK /\ CurrentOK
      BY <2>8, <1>b, <1>d, <1>h DEF Heal, PC
    <3>2. CountersOK
      <4> DEFINE failed == {c \in present : disabled[c] /\ reason[c] = "TooManyFailures"}
      <4>1. CASE failed = {}
        BY <2>8, <4>1, <1>a DEF Heal
      <4>2. CASE failed # {}
        <5>1. /\ disabled' = [c \in Cred |-> disabled[c] /\ c \notin failed]
              /\ reason' = [c \in Cred |-> IF c \in failed THEN NoReason ELSE reason[c]]
              /\ failures' = [c \in Cred |-> IF c \in failed THEN 0 ELSE failures[c]]
              /\ refreshFailures' = refreshFailures
          BY <2>8, <4>2 DEF Heal
        <5>2. disabled' \in [Cred -> BOOLEAN]
          BY Zenon, <5>1
        <5>3. /\ reason' \in [Cred -> Reasons \union {NoReason}]
              /\ failures' \in [Cred -> 0..MaxFailures]
              /\ refreshFailures' \in [Cred -> 0..MaxFailures]
          BY <1>0, <5>1 DEF TypeOK
        <5> QED BY <5>2, <5>3
      <4> QED BY <4>1, <4>2
    <3> QED BY <3>1, <3>2, <1>n
  <2> QED BY <1>1, <2>1, <2>2, <2>3, <2>4, <2>5, <2>6, <2>7, <2>8 DEF AcquireStep
<1>2. ASSUME NEW r \in Request, TokenStep(r) PROVE TypeOK'
  <2>0. cred[r] \in Cred
    BY <1>0, <1>2 DEF TokenStep, TokenReady, TokenFails, TokenInvalid, TokenReloaded, GivenInv
  <2>1. CASE TokenReady(r)
    <3>1. CountersOK
      BY <1>0, <1>q, <2>0, <2>1 DEF TokenReady, TypeOK
    <3>2. RestOK
      BY <1>0, <1>q, <2>0, <2>1 DEF TokenReady, TypeOK
    <3> QED BY <2>1, <3>1, <3>2, <1>d, <1>h, <1>n DEF TokenReady, PC
  <2>2. CASE TokenFails(r)
    <3>1. RestOK /\ RequestOK
      BY <2>2, <1>b, <1>m DEF TokenFails
    <3>2. CountersOK /\ CurrentOK
      <4>1. CASE cred[r] \notin Enabled
        BY <2>2, <4>1, <1>a, <1>d DEF TokenFails
      <4>2. CASE cred[r] \in Enabled
        <5>1. refreshFailures' \in [Cred -> 0..MaxFailures] /\ UNCHANGED failures
          BY <1>0, <2>0, <2>2, <4>2 DEF TokenFails, HealthInv, ThresholdInv, TypeOK, Enabled
        <5>2. CASE refreshFailures[cred[r]] + 1 >= MaxFailures
          BY <1>0, <1>k, <2>0, <2>2, <4>2, <5>1, <5>2 DEF TokenFails, TypeOK, Reasons
        <5>3. CASE ~(refreshFailures[cred[r]] + 1 >= MaxFailures)
          BY <1>0, <1>d, <2>2, <4>2, <5>1, <5>3 DEF TokenFails, TypeOK
        <5> QED BY <5>2, <5>3
      <4> QED BY <4>1, <4>2
    <3> QED BY <3>1, <3>2, <1>n
  <2>3. CASE TokenInvalid(r)
    <3>1. RestOK /\ RequestOK
      BY <2>3, <1>b, <1>m DEF TokenInvalid
    <3>2. CountersOK /\ CurrentOK
      BY <1>0, <1>a, <1>d, <1>k, <2>0, <2>3 DEF TokenInvalid, TypeOK, Reasons
    <3> QED BY <3>1, <3>2, <1>n
  <2>4. CASE TokenReloaded(r)
    BY <2>0, <2>4, <1>j, <1>b, <1>d, <1>g, <1>n DEF TokenReloaded, PC
  <2> QED BY <1>2, <2>1, <2>2, <2>3, <2>4 DEF TokenStep
<1>3. ASSUME NEW r \in Request, OutcomeStep(r) PROVE TypeOK'
  <2>0. pc[r] = "send" => cred[r] \in Cred
    BY <1>0 DEF GivenInv
  <2>1. CASE CallSucceeds(r)
    <3>1. CountersOK
      BY <1>0, <1>z, <2>1 DEF CallSucceeds, TypeOK
    <3>2. RestOK
      BY <1>0, <1>p, <2>1 DEF CallSucceeds, TypeOK
    <3> QED BY <2>1, <3>1, <3>2, <1>d, <1>h, <1>n DEF CallSucceeds, PC
  <2>2. CASE CallRejected(r)
    <3>1. RestOK /\ RequestOK
      BY <2>2, <1>b, <1>m DEF CallRejected
    <3>2. CountersOK /\ CurrentOK
      <4>1. CASE cred[r] \notin Enabled
        BY <2>2, <4>1, <1>a, <1>d DEF CallRejected
      <4>2. CASE cred[r] \in Enabled
        <5>1. failures' \in [Cred -> 0..MaxFailures] /\ UNCHANGED refreshFailures
          BY <1>0, <2>0, <2>2, <4>2 DEF CallRejected, HealthInv, ThresholdInv, TypeOK, Enabled
        <5>2. CASE failures[cred[r]] + 1 >= MaxFailures
          BY <1>0, <1>k, <2>0, <2>2, <4>2, <5>1, <5>2 DEF CallRejected, TypeOK, Reasons
        <5>3. CASE ~(failures[cred[r]] + 1 >= MaxFailures)
          BY <1>0, <1>d, <2>2, <4>2, <5>1, <5>3 DEF CallRejected, TypeOK
        <5> QED BY <5>2, <5>3
      <4> QED BY <4>1, <4>2
    <3> QED BY <3>1, <3>2, <1>n
  <2>3. CASE QuotaExhausted(r)
    <3>1. RestOK /\ RequestOK
      BY <2>3, <1>b, <1>m DEF QuotaExhausted
    <3>2. CountersOK /\ CurrentOK
      BY <1>0, <1>a, <1>d, <1>k, <2>0, <2>3 DEF QuotaExhausted, TypeOK, Reasons
    <3> QED BY <3>1, <3>2, <1>n
  <2>4. CASE AccountThrottled(r)
    <3>1. CountersOK /\ RestOK
      BY <1>0, <1>p, <2>4 DEF AccountThrottled, TypeOK, Reasons
    <3> QED BY <2>4, <3>1, <1>d, <1>m, <1>n DEF AccountThrottled
  <2>5. CASE Unreported(r)
    BY <2>5, <1>a, <1>b, <1>d, <1>m, <1>n DEF Unreported, entryVars
  <2> QED BY <1>3, <2>1, <2>2, <2>3, <2>4, <2>5 DEF OutcomeStep
<1>4. CASE AdminStep
  <2>1. ASSUME NEW c \in Cred, AdminDisable(c) \/ AdminDisableQuota(c) PROVE TypeOK'
    <3>1. CountersOK
      BY <1>0, <2>1 DEF AdminDisable, AdminDisableQuota, TypeOK, Reasons
    <3> QED BY <2>1, <3>1, <1>b, <1>c, <1>d, <1>e, <1>f, <1>n DEF AdminDisable, AdminDisableQuota
  <2>2. ASSUME NEW c \in Cred, AdminEnable(c) PROVE TypeOK'
    <3>1. RestOK
      BY <1>0, <1>p, <2>2 DEF AdminEnable, TypeOK
    <3> QED BY <2>2, <3>1, <1>c, <1>d, <1>j, <1>n DEF AdminEnable
  <2>3. ASSUME NEW c \in Cred, ClearThrottle(c) PROVE TypeOK'
    BY <1>0, <1>p, <2>3, <1>a, <1>c, <1>d, <1>n DEF ClearThrottle, TypeOK
  <2>4. ASSUME NEW c \in Cred, TokenRenewed(c) PROVE TypeOK'
    <3>1. CountersOK
      BY <1>0, <1>q, <2>4 DEF TokenRenewed, TypeOK
    <3>2. RestOK
      BY <1>0, <1>q, <2>4 DEF TokenRenewed, TypeOK
    <3> QED BY <2>4, <3>1, <3>2, <1>c, <1>d, <1>n DEF TokenRenewed
  <2>5. ASSUME NEW c \in Cred, DeleteCredential(c) PROVE TypeOK'
    <3>1. RestOK
      BY <1>0, <1>p, <2>5, AnyPriorityType, PriorityType DEF DeleteCredential, TypeOK
    <3>2. CurrentOK
      BY <2>5, <1>d, <1>e, <1>f DEF DeleteCredential
    <3> QED BY <2>5, <3>1, <3>2, <1>c, <1>j, <1>n DEF DeleteCredential
  <2>6. ASSUME NEW c \in Cred, NEW p \in Priorities[c], SetPriority(c, p) PROVE TypeOK'
    <3>1. RestOK
      BY <1>0, <1>p, <2>6, PriorityType DEF SetPriority, TypeOK
    <3>2. CurrentOK
      <4>1. Enabled \in SUBSET Enabled
        OBVIOUS
      <4> QED BY <1>0, <2>6, <4>1, <1>d, BestIsCred DEF SetPriority
    <3> QED BY <2>6, <3>1, <3>2, <1>a, <1>c, <1>n DEF SetPriority
  <2>7. CASE AddCredential
    <3>1. nextId \in Cred
      BY <2>7 DEF AddCredential, Insert
    <3>2. RestOK
      <4>1. PriorityOK'
        BY <1>p, <2>7, <3>1, PriorityType DEF AddCredential, Insert
      <4>2. nextId + 1 \in 1..(MaxId + 1)
        BY <3>1 DEF Cred
      <4> QED BY <1>0, <2>7, <3>1, <4>1, <4>2 DEF AddCredential, Insert, TypeOK
    <3> QED BY <2>7, <3>1, <3>2, <1>c, <1>d, <1>j, <1>n DEF AddCredential, Insert
  <2>8. ASSUME NEW m \in {"priority", "balanced"}, SetMode(m) PROVE TypeOK'
    BY <1>0, <1>p, <2>8, <1>a, <1>c, <1>d, <1>n DEF SetMode, entryVars, TypeOK
  <2>9. CASE AddDuplicate
    <3>1. nextId + 1 \in 1..(MaxId + 1)
      BY <2>9 DEF AddDuplicate, Cred
    <3> QED BY <1>0, <1>p, <2>9, <3>1, <1>a, <1>c, <1>d, <1>n DEF AddDuplicate, TypeOK
  <2> QED BY <1>4, <2>1, <2>2, <2>3, <2>4, <2>5, <2>6, <2>7, <2>8, <2>9 DEF AdminStep
<1>5. ASSUME NEW c \in Cred, CooldownEnds(c) PROVE TypeOK'
  BY <1>0, <1>p, <1>5, <1>a, <1>c, <1>d, <1>n DEF CooldownEnds, TypeOK
<1>6. CASE UNCHANGED vars
  BY <1>6, <1>a, <1>b, <1>c, <1>d, <1>n DEF vars, entryVars
<1> QED BY <1>1, <1>2, <1>3, <1>4, <1>5, <1>6 DEF Next
-----------------------------------------------------------------------------
(* The theorems. *)

\* The inductive invariant holds for every number of credentials and requests,
\* in every interleaving of requests, reports and administrator calls.
THEOREM PoolInvariant == Spec => []PoolInv
<1>1. PoolInv /\ [Next]_vars => PoolInv'
  BY TypeStep, HealthStep, GivenStep DEF PoolInv, HealthInv
<1> QED BY PoolInvInit, <1>1, PTL DEF Spec

\* Every variable keeps its type; in particular no failure count passes the
\* threshold, so a disabled credential is never counted against again.
THEOREM PoolTypes == Spec => []TypeOK
<1>1. PoolInv => TypeOK
  BY DEF PoolInv
<1> QED BY <1>1, PoolInvariant, PTL

\* A credential is disabled exactly when an entry says why (every report_*,
\* set_disabled, the self-heal of acquire_context and reload agree on it).
THEOREM PoolReasonMatchesFlag == Spec => []ReasonMatchesFlag
<1>1. PoolInv => ReasonMatchesFlag
  BY DEF PoolInv, ReasonMatchesFlag, FlagInv, TypeOK
<1> QED BY <1>1, PoolInvariant, PTL

\* A credential in service is below both failure thresholds, although healing
\* resets only one of the two counters and outcomes arrive late.
THEOREM PoolEnabledBelowThreshold == Spec => []EnabledBelowThreshold
<1>1. PoolInv => EnabledBelowThreshold
  BY DEF PoolInv, EnabledBelowThreshold, ThresholdInv, Enabled, TypeOK
<1> QED BY <1>1, PoolInvariant, PTL

\* No path of acquire_context gives a request a credential outside its group.
THEOREM PoolGroupIsolation == Spec => []GroupIsolation
<1>1. PoolInv => GroupIsolation
  BY DEF PoolInv, GroupIsolation, GivenInv
<1> QED BY <1>1, PoolInvariant, PTL

\* A request puts a credential back into service only after failures took it
\* out (or a newer token was found in the file): the self-heal of
\* acquire_context spares Manual, QuotaExceeded, InvalidRefreshToken and the rest.
THEOREM PoolOnlyFailuresHeal == Spec => OnlyFailuresHeal
<1> DEFINE Kept == \A r \in Request :
                     pc[r] # pc'[r] /\ ~(pc[r] = "token" /\ pc'[r] = "pick") =>
                       \A c \in present :
                         disabled[c] /\ ~disabled'[c] => reason[c] = "TooManyFailures"
           Spared == \A c \in present :
                       disabled[c] /\ ~disabled'[c] => reason[c] = "TooManyFailures"
<1>1. PoolInv /\ [Next]_vars => [Kept]_vars
  <2> SUFFICES ASSUME PoolInv, [Next]_vars PROVE Kept
    OBVIOUS
  <2>0. TypeOK
    BY DEF PoolInv
  <2>1. CASE UNCHANGED pc
    BY <2>1
  <2>2. CASE UNCHANGED disabled
    BY <2>2
  <2>3. ASSUME NEW q \in Request, Heal(q) PROVE Spared
    <3> SUFFICES ASSUME NEW c \in present, disabled[c], ~disabled'[c]
                 PROVE  reason[c] = "TooManyFailures"
      OBVIOUS
    <3> DEFINE failed == {d \in present : disabled[d] /\ reason[d] = "TooManyFailures"}
    <3>1. failed # {}
      BY <2>3 DEF Heal
    <3>2. disabled' = [d \in Cred |-> disabled[d] /\ d \notin failed]
      BY <2>3, <3>1 DEF Heal
    <3>3. c \in Cred
      BY <2>0 DEF TypeOK
    <3>4. c \in failed
      BY Zenon, <3>2, <3>3
    <3> QED BY <3>4
  <2>4. ASSUME NEW q \in Request, TokenReloaded(q) PROVE Kept
    BY <2>0, <2>4 DEF TokenReloaded, Give, Goto, TypeOK
  <2>5. ASSUME NEW c \in Cred, NEW why, AutoDisable(c, why) PROVE Spared
    BY <2>0, <2>5 DEF AutoDisable, TypeOK
  <2>6. ASSUME NEW q \in Request, TokenFails(q) \/ TokenInvalid(q) PROVE Spared
    <3>1. cred[q] \in Cred
      BY <2>6 DEF PoolInv, GivenInv, TokenFails, TokenInvalid
    <3> QED BY <2>5, <2>6, <3>1 DEF TokenFails, TokenInvalid
  <2>7. ASSUME NEW q \in Request,
               CallRejected(q) \/ QuotaExhausted(q) \/ AccountThrottled(q)
        PROVE  Spared
    <3>1. cred[q] \in Cred
      BY <2>7 DEF PoolInv, GivenInv, CallRejected, QuotaExhausted, AccountThrottled
    <3>2. CASE AccountThrottled(q)
      BY <2>0, <3>1, <3>2 DEF AccountThrottled, TypeOK
    <3> QED BY <2>5, <2>7, <3>1, <3>2 DEF CallRejected, QuotaExhausted
  <2>8. Spared => Kept
    OBVIOUS
  <2> QED
    BY <2>1, <2>2, <2>3, <2>4, <2>6, <2>7, <2>8
       DEF Next, vars, entryVars, BeginRequest, AcquireStep, PickSticky, PickCurrent, PickNone,
           Select, SelectAgain, Adopt, TokenStep, TokenReady, OutcomeStep, CallSucceeds,
           Unreported, CooldownEnds, AdminStep, AdminDisable, AdminDisableQuota, AdminEnable,
           ClearThrottle, TokenRenewed, DeleteCredential, SetPriority, SetMode, AddCredential,
           AddDuplicate, Insert
<1> QED BY <1>1, PoolInvariant, PTL DEF Spec, OnlyFailuresHeal

-----------------------------------------------------------------------------
(* The provider *)

\* Each action of a call contains one action of the pool, or leaves it alone.
LEMMA CallStepIsPoolStep == PoolInv /\ [CallNext]_allVars => [Next]_vars
<1> SUFFICES ASSUME PoolInv, [CallNext]_allVars PROVE [Next]_vars
  OBVIOUS
<1>0. present \subseteq Cred
  BY DEF PoolInv, TypeOK
<1>1. ASSUME NEW r \in Request, BeginRequest(r) PROVE Next
  BY <1>1 DEF Next
<1>2. ASSUME NEW r \in Request, AcquireStep(r) PROVE Next
  BY <1>2 DEF Next
<1>3. ASSUME NEW r \in Request,
             TokenFails(r) \/ TokenInvalid(r) \/ TokenReloaded(r) \/ TokenReady(r)
      PROVE  Next
  BY <1>3 DEF Next, TokenStep
<1>4. ASSUME NEW r \in Request,
             CallSucceeds(r) \/ CallRejected(r) \/ QuotaExhausted(r) \/ AccountThrottled(r)
               \/ Unreported(r)
      PROVE  Next
  BY <1>4 DEF Next, OutcomeStep
<1>5. ASSUME NEW c, TokenRenewed(c) PROVE Next
  <2>1. c \in Cred
    BY <1>0, <1>5 DEF TokenRenewed
  <2> QED BY <1>5, <2>1 DEF Next, AdminStep
<1>6. ASSUME NEW r \in Request, RetryLater(r) \/ Unauthorized(r) PROVE [Next]_vars
  BY <1>4, <1>6 DEF RetryLater, Unauthorized
<1>7. ASSUME NEW r \in Request, StartCall(r) \/ StreamEnds(r) PROVE [Next]_vars
  BY <1>1, <1>4, <1>7 DEF StartCall, EnterAcquire, StreamEnds
<1>8. ASSUME NEW r \in Request, CallStep(r) PROVE [Next]_vars
  <2>1. CASE NextAttempt(r) \/ OutOfAttempts(r) \/ AcquireFailed(r)
    BY <1>1, <2>1 DEF NextAttempt, EnterAcquire, OutOfAttempts, AcquireFailed
  <2>2. CASE Acquiring(r) \/ TokenLost(r) \/ TokenFound(r) \/ Send(r)
    BY <1>2, <1>3, <2>2 DEF Acquiring, TokenLost, TokenFound, Send
  <2>3. CASE Succeeds(r) \/ GiveUp(r) \/ BackoffEnds(r) \/ QuotaGone(r) \/ UnknownEndpoint(r)
               \/ Suspicious(r) \/ Renewed(r) \/ ForceFails(r)
    BY <1>4, <2>3
       DEF Succeeds, GiveUp, BackoffEnds, QuotaGone, UnknownEndpoint, Suspicious, Renewed,
           ForceFails
  <2>4. CASE Transient(r) \/ Rejected(r) \/ ChainEnds(r)
    BY <1>6, <2>4 DEF Transient, Rejected, ChainEnds
  <2>5. CASE ForceSucceeds(r)
    BY <1>5, <2>5 DEF ForceSucceeds
  <2>6. CASE FallBack(r) \/ HopFails(r)
    BY <2>6 DEF FallBack, HopFails
  <2> QED BY <1>8, <2>1, <2>2, <2>3, <2>4, <2>5, <2>6 DEF CallStep
<1>9. CASE Elsewhere
  BY <1>9 DEF Elsewhere, Next
<1>10. CASE UNCHANGED allVars
  BY <1>10 DEF allVars
<1> QED BY <1>7, <1>8, <1>9, <1>10 DEF CallNext

\* The pool's inductive invariant holds while calls run.
THEOREM ProviderPoolInvariant == CallSpec => []PoolInv
<1>1. CallInit => PoolInv
  BY PoolInvInit DEF CallInit
<1>2. PoolInv /\ [CallNext]_allVars => PoolInv'
  BY CallStepIsPoolStep, TypeStep, HealthStep, GivenStep DEF PoolInv, HealthInv
<1> QED BY <1>1, <1>2, PTL DEF CallSpec

\* The retry loops of call_api_with_retry and call_mcp_with_retry use the pool
\* as CredentialPool says, whatever the answers, the fallbacks and the refreshes.
THEOREM ProviderImplementsPool == CallSpec => ImplementsPool
<1>1. CallInit => Init
  BY DEF CallInit
<1> QED
  BY <1>1, CallStepIsPoolStep, ProviderPoolInvariant, PTL DEF CallSpec, Spec, ImplementsPool

\* A retried call stays in its group, and what it reports leaves the pool's
\* flags and counts consistent.
THEOREM ProviderKeepsPoolSafe ==
  CallSpec => [](GroupIsolation /\ ReasonMatchesFlag /\ EnabledBelowThreshold)
<1>1. CallSpec => Spec
  BY ProviderImplementsPool DEF ImplementsPool
<1> QED
  BY <1>1, PoolGroupIsolation, PoolReasonMatchesFlag, PoolEnabledBelowThreshold, PTL

-----------------------------------------------------------------------------
\* Where each call is, and whether it holds its slot.
StageInv == stage \in [Request -> Stages] /\ SlotFollowsCall

\* A step of one call: the agreement of the two for that call is enough.
LEMMA OneCallMoves ==
  ASSUME TypeOK, StageInv, NEW r \in Request, NEW s \in Stages, NEW label \in PC,
         stage' = [stage EXCEPT ![r] = s], pc' = [pc EXCEPT ![r] = label],
         s = "out" => label \in {"idle", "stream"},
         s = "next" => label = "idle",
         s = "acquire" => label \notin {"send", "stream"},
         s \in {"sent", "hop", "force", "renewed", "backoff"} => label = "send"
  PROVE  StageInv'
<1>1. pc \in [Request -> PC] /\ stage \in [Request -> Stages]
  BY DEF TypeOK, StageInv
<1>2. stage' \in [Request -> Stages]
  BY <1>1
<1>3. \A q \in Request : q # r => stage'[q] = stage[q] /\ pc'[q] = pc[q]
  BY <1>1
<1>4. stage'[r] = s /\ pc'[r] = label
  BY <1>1
<1> QED BY <1>2, <1>3, <1>4 DEF StageInv, SlotFollowsCall

\* The same where only the stage, or only the request's place in the pool, moves.
LEMMA OnlyStageMoves ==
  ASSUME TypeOK, StageInv, NEW r \in Request, NEW s \in Stages,
         stage' = [stage EXCEPT ![r] = s], pc' = pc,
         s = "out" => pc[r] \in {"idle", "stream"},
         s = "next" => pc[r] = "idle",
         s = "acquire" => pc[r] \notin {"send", "stream"},
         s \in {"sent", "hop", "force", "renewed", "backoff"} => pc[r] = "send"
  PROVE  StageInv'
<1>1. pc' = [pc EXCEPT ![r] = pc[r]] /\ pc[r] \in PC
  BY DEF TypeOK
<1> QED BY <1>1, OneCallMoves

LEMMA OnlyPoolMoves ==
  ASSUME TypeOK, StageInv, NEW r \in Request, NEW label \in PC,
         stage' = stage, pc' = [pc EXCEPT ![r] = label],
         stage[r] \in {"acquire", "out"},
         stage[r] = "acquire" => label \notin {"send", "stream"},
         stage[r] = "out" => label \in {"idle", "stream"}
  PROVE  StageInv'
<1>1. stage' = [stage EXCEPT ![r] = stage[r]] /\ stage[r] \in Stages
  BY DEF StageInv
<1> QED BY <1>1, OneCallMoves

LEMMA StageStep == PoolInv /\ StageInv /\ [CallNext]_allVars => StageInv'
<1> SUFFICES ASSUME PoolInv, StageInv, [CallNext]_allVars PROVE StageInv'
  OBVIOUS
<1>0. TypeOK
  BY DEF PoolInv
<1> USE DEF GotoStage, Move, Continue, Finish, Goto, Give, End, Stages, PC
<1>1. ASSUME NEW r \in Request, NEW n, EnterAcquire(r, n) PROVE StageInv'
  BY <1>0, <1>1, OneCallMoves DEF EnterAcquire, BeginRequest
<1>2. ASSUME NEW r \in Request, Unreported(r), stage' = [stage EXCEPT ![r] = "out"]
      PROVE  StageInv'
  BY <1>0, <1>2, OneCallMoves DEF Unreported
<1>3. ASSUME NEW r \in Request, Unreported(r), Continue(r) PROVE StageInv'
  BY <1>0, <1>3, OneCallMoves DEF Unreported
<1>4. ASSUME NEW r \in Request,
             CallRejected(r) \/ QuotaExhausted(r) \/ AccountThrottled(r),
             Continue(r) \/ Finish(r)
      PROVE  StageInv'
  BY <1>0, <1>4, OneCallMoves DEF CallRejected, QuotaExhausted, AccountThrottled
<1>5. ASSUME NEW r \in Request, stage[r] \in {"sent", "hop"}, RetryLater(r) PROVE StageInv'
  <2>1. CASE left[r] > 1
    BY <1>0, <1>5, <2>1, OnlyStageMoves DEF RetryLater, vars, StageInv, SlotFollowsCall
  <2>2. CASE ~(left[r] > 1)
    BY <1>3, <1>5, <2>2 DEF RetryLater
  <2> QED BY <2>1, <2>2
<1>6. ASSUME NEW r \in Request, stage[r] \in {"sent", "hop"}, Unauthorized(r) PROVE StageInv'
  <2>1. CASE CallRejected(r) /\ GoOnIfAnyInService(r)
    BY <1>4, <2>1 DEF GoOnIfAnyInService
  <2>2. CASE stage' = [stage EXCEPT ![r] = "force"] /\ UNCHANGED vars
    BY <1>0, <1>6, <2>2, OnlyStageMoves DEF vars, StageInv, SlotFollowsCall
  <2> QED BY <1>6, <2>1, <2>2 DEF Unauthorized
<1>7. ASSUME NEW r \in Request, Acquiring(r) PROVE StageInv'
  <2> DEFINE label == pc'[r]
  <2>1. \E l \in {"token", "select", "heal", "reselect", "adopt", "idle"} :
          pc' = [pc EXCEPT ![r] = l]
    BY <1>7
       DEF Acquiring, AcquireStep, PickSticky, PickCurrent, PickNone, Select, Heal, SelectAgain,
           Adopt
  <2> QED BY <1>0, <1>7, <2>1, OnlyPoolMoves DEF Acquiring, callVars
<1>8. ASSUME NEW r \in Request, TokenLost(r) \/ TokenFound(r) PROVE StageInv'
  <2>1. pc' = [pc EXCEPT ![r] = "pick"] \/ pc' = [pc EXCEPT ![r] = "idle"]
    BY <1>8 DEF TokenLost, TokenFound, TokenFails, TokenInvalid, TokenReloaded, TryAgain
  <2> QED BY <1>0, <1>8, <2>1, OnlyPoolMoves DEF TokenLost, TokenFound
<1>9. ASSUME NEW r \in Request, CallStep(r) PROVE StageInv'
  <2>1. CASE NextAttempt(r)
    BY <1>1, <2>1 DEF NextAttempt
  <2>2. CASE OutOfAttempts(r) \/ AcquireFailed(r)
    BY <1>0, <2>2, OnlyStageMoves
       DEF OutOfAttempts, AcquireFailed, vars, StageInv, SlotFollowsCall
  <2>3. CASE Send(r)
    BY <1>0, <2>3, OneCallMoves DEF Send, TokenReady
  <2>4. CASE Succeeds(r)
    BY <1>0, <2>4, OneCallMoves DEF Succeeds, CallSucceeds
  <2>5. CASE GiveUp(r) \/ BackoffEnds(r) \/ Renewed(r)
    BY <1>2, <1>3, <2>5 DEF GiveUp, BackoffEnds, Renewed
  <2>6. CASE QuotaGone(r) \/ UnknownEndpoint(r) \/ Suspicious(r) \/ ForceFails(r)
    BY <1>4, <2>6
       DEF QuotaGone, UnknownEndpoint, Suspicious, ForceFails, GoOnIfAnyInService
  <2>7. CASE Transient(r) \/ Rejected(r) \/ ChainEnds(r)
    BY <1>5, <1>6, <2>7 DEF Transient, Rejected, ChainEnds
  <2>8. CASE ForceSucceeds(r)
    BY <1>0, <2>8, OnlyStageMoves DEF ForceSucceeds, TokenRenewed, StageInv, SlotFollowsCall
  <2>9. CASE FallBack(r)
    BY <1>0, <2>9, OnlyStageMoves DEF FallBack, vars, StageInv, SlotFollowsCall
  <2>10. CASE HopFails(r)
    BY <2>10 DEF HopFails, vars, StageInv, SlotFollowsCall
  <2> QED
    BY <1>7, <1>8, <1>9, <2>1, <2>2, <2>3, <2>4, <2>5, <2>6, <2>7, <2>8, <2>9, <2>10
       DEF CallStep
<1>10. ASSUME NEW r \in Request, StartCall(r) PROVE StageInv'
  BY <1>1, <1>10 DEF StartCall
<1>11. ASSUME NEW r \in Request, StreamEnds(r) PROVE StageInv'
  BY <1>0, <1>11, OnlyPoolMoves DEF StreamEnds, Unreported, callVars
<1>12. CASE Elsewhere
  <2>1. pc' = pc /\ stage' = stage
    BY <1>12
       DEF Elsewhere, callVars, CooldownEnds, AdminStep, AdminDisable, AdminDisableQuota,
           AdminEnable, ClearThrottle, TokenRenewed, DeleteCredential, SetPriority, SetMode,
           AddCredential, AddDuplicate, Insert
  <2> QED BY <2>1 DEF StageInv, SlotFollowsCall
<1>13. CASE UNCHANGED allVars
  BY <1>13 DEF allVars, vars, callVars, StageInv, SlotFollowsCall
<1> QED BY <1>9, <1>10, <1>11, <1>12, <1>13 DEF CallNext

\* A slot is held exactly while the call deals with its answer: no path through
\* the retry loop (`continue', `return', `bail!', `?') keeps one or loses one.
THEOREM ProviderSlotFollowsCall == CallSpec => []SlotFollowsCall
<1>1. CallInit => StageInv
  BY DEF CallInit, Init, StageInv, SlotFollowsCall, Stages
<1>2. StageInv => SlotFollowsCall
  BY DEF StageInv
<1> QED BY <1>1, <1>2, StageStep, ProviderPoolInvariant, PTL DEF CallSpec

-----------------------------------------------------------------------------
(* A call runs down.                                                         *)

\* What is counted for a call is a number within its bounds: attempts while it
\* runs, failed tokens while acquire_context goes on.
MeasureInv ==
  /\ left \in [Request -> Nat] /\ tokens \in [Request -> Nat]
  /\ reloads \in [Request -> 0..MaxReloads] /\ hop \in [Request -> 0..MaxHops]
  /\ \A r \in Request : stage[r] # "out" => left[r] > 0
  /\ \A r \in Request : stage[r] = "acquire" /\ pc[r] # "idle" => tokens[r] > 0

\* A step moves r to stage s and place l, with n attempts, t tokens, f reloads and
\* h endpoints.
Shift(r, s, l, n, t, f, h) ==
  /\ stage' = [stage EXCEPT ![r] = s] /\ pc' = [pc EXCEPT ![r] = l]
  /\ left' = [left EXCEPT ![r] = n] /\ tokens' = [tokens EXCEPT ![r] = t]
  /\ reloads' = [reloads EXCEPT ![r] = f] /\ hop' = [hop EXCEPT ![r] = h]

Fits(s, l, n, t, f, h) ==
  /\ s \in Stages /\ l \in PC /\ n \in Nat /\ t \in Nat /\ f \in 0..MaxReloads
  /\ h \in 0..MaxHops /\ (s # "out" => n > 0) /\ (s = "acquire" /\ l # "idle" => t > 0)

Untouched(r) ==
  /\ stage'[r] = stage[r] /\ left'[r] = left[r] /\ hop'[r] = hop[r]
  /\ reloads'[r] = reloads[r] /\ tokens'[r] = tokens[r] /\ pc'[r] = pc[r]

\* What a step of a call owes.
RunsDown(r) ==
  /\ Nearer(r) /\ left[r] > 0 /\ left'[r] >= 0 /\ tokens'[r] >= 0
  /\ hop'[r] <= MaxHops /\ reloads'[r] <= MaxReloads

LEMMA ShiftStep ==
  ASSUME TypeOK, StageInv, MeasureInv, NEW r \in Request, NEW s, NEW l, NEW n, NEW t, NEW f,
         NEW h, Shift(r, s, l, n, t, f, h), Fits(s, l, n, t, f, h)
  PROVE  /\ MeasureInv'
         /\ \A q \in Request \ {r} : Untouched(q)
         /\ stage'[r] = s /\ pc'[r] = l /\ left'[r] = n /\ tokens'[r] = t /\ reloads'[r] = f
         /\ hop'[r] = h
<1>1. /\ pc \in [Request -> PC] /\ stage \in [Request -> Stages]
      /\ left \in [Request -> Nat] /\ tokens \in [Request -> Nat]
      /\ reloads \in [Request -> 0..MaxReloads] /\ hop \in [Request -> 0..MaxHops]
  BY DEF TypeOK, StageInv, MeasureInv
<1>2. /\ stage'[r] = s /\ pc'[r] = l /\ left'[r] = n /\ tokens'[r] = t /\ reloads'[r] = f
      /\ hop'[r] = h
  BY <1>1 DEF Shift
<1>3. \A q \in Request \ {r} : Untouched(q)
  BY <1>1 DEF Shift, Untouched
<1>4. /\ left' \in [Request -> Nat] /\ tokens' \in [Request -> Nat]
      /\ reloads' \in [Request -> 0..MaxReloads] /\ hop' \in [Request -> 0..MaxHops]
  BY <1>1 DEF Shift, Fits
<1>5. \A q \in Request : /\ stage'[q] # "out" => left'[q] > 0
                         /\ stage'[q] = "acquire" /\ pc'[q] # "idle" => tokens'[q] > 0
  BY <1>2, <1>3 DEF MeasureInv, Untouched, Fits
<1> QED BY <1>2, <1>3, <1>4, <1>5 DEF MeasureInv

\* The values of a request are of their types, and what does not change is shifted
\* to itself.
LEMMA Measured ==
  ASSUME TypeOK, StageInv, MeasureInv, NEW r \in Request
  PROVE  /\ Fits(stage[r], pc[r], left[r], tokens[r], reloads[r], hop[r])
         /\ left \in [Request -> Nat] /\ tokens \in [Request -> Nat]
         /\ reloads \in [Request -> 0..MaxReloads] /\ hop \in [Request -> 0..MaxHops]
         /\ (pc' = pc => pc' = [pc EXCEPT ![r] = pc[r]])
         /\ (stage' = stage => stage' = [stage EXCEPT ![r] = stage[r]])
         /\ (left' = left => left' = [left EXCEPT ![r] = left[r]])
         /\ (tokens' = tokens => tokens' = [tokens EXCEPT ![r] = tokens[r]])
         /\ (reloads' = reloads => reloads' = [reloads EXCEPT ![r] = reloads[r]])
         /\ (hop' = hop => hop' = [hop EXCEPT ![r] = hop[r]])
<1>1. /\ pc \in [Request -> PC] /\ stage \in [Request -> Stages]
      /\ left \in [Request -> Nat] /\ tokens \in [Request -> Nat]
      /\ reloads \in [Request -> 0..MaxReloads] /\ hop \in [Request -> 0..MaxHops]
  BY DEF TypeOK, StageInv, MeasureInv
<1> QED BY <1>1 DEF MeasureInv, Fits

LEMMA Budgets ==
  ASSUME TypeOK, NEW r \in Request
  PROVE  Budget(r) \in Nat /\ TokenBudget(r) \in Nat \ {0}
<1>1. IsFiniteSet(Cred)
  BY MaxIdAssumption, FS_Interval DEF Cred
<1>2. \A S \in SUBSET Cred : Cardinality(S) \in Nat
  BY <1>1, FS_Subset, FS_CardinalityType
<1>3. Cardinality(present) \in Nat /\ Cardinality(present \intersect InGroup[r]) \in Nat
  BY <1>2 DEF TypeOK
<1>4. \A a, b \in Nat : a * b \in Nat
  OBVIOUS
<1>5. \A a \in Nat : AtLeastOne(a) \in Nat \ {0}
  BY DEF AtLeastOne
<1>6. Budget(r) \in Nat
  BY <1>3, <1>4, <1>5, RetriesAssumption DEF Budget, MinOf
<1>7. TokenBudget(r) \in Nat \ {0}
  BY <1>3, <1>4, <1>5, MaxFailuresAssumption DEF TokenBudget
<1> QED BY <1>6, <1>7

\* The head of the loop.
LEMMA EntersAcquire ==
  ASSUME TypeOK, StageInv, MeasureInv, NEW r \in Request, NEW n \in Nat, n > 0,
         EnterAcquire(r, n)
  PROVE  /\ MeasureInv' /\ (\A q \in Request \ {r} : Untouched(q))
         /\ stage'[r] = "acquire" /\ left'[r] = n /\ tokens'[r] >= 0 /\ hop'[r] <= MaxHops
         /\ reloads'[r] <= MaxReloads
<1>1. PICK t \in Nat \ {0} : t = TokenBudget(r)
  BY Budgets
<1>2. Shift(r, "acquire", "pick", n, t, reloads[r], hop[r])
  BY <1>1, Measured DEF EnterAcquire, BeginRequest, Goto, GotoStage, Shift
<1>3. Fits("acquire", "pick", n, t, reloads[r], hop[r])
  BY <1>1, Measured DEF Fits, Stages, PC
<1>4. /\ MeasureInv' /\ (\A q \in Request \ {r} : Untouched(q))
      /\ stage'[r] = "acquire" /\ left'[r] = n /\ tokens'[r] = t /\ hop'[r] = hop[r]
      /\ reloads'[r] = reloads[r]
  BY <1>2, <1>3, ShiftStep
<1> QED BY <1>1, <1>4, Measured DEF Fits, MaxHops

\* A call that moves on without spending an attempt: to a later stage, or within
\* its stage.
LEMMA MovesOn ==
  ASSUME TypeOK, StageInv, MeasureInv, NEW r \in Request, NEW s \in Stages, NEW l \in PC,
         NEW t \in Nat, NEW f \in 0..MaxReloads, NEW h \in 0..MaxHops,
         Shift(r, s, l, left[r], t, f, h), stage[r] # "out",
         s = "acquire" /\ l # "idle" => t > 0,
         \/ StageRank[s] < StageRank[stage[r]]
         \/ /\ s = stage[r]
            /\ \/ s = "hop" /\ h > hop[r]
               \/ /\ s = "acquire"
                  /\ \/ f > reloads[r]
                     \/ /\ f = reloads[r]
                        /\ t < tokens[r] \/ (t = tokens[r] /\ PlaceRank[l] < PlaceRank[pc[r]])
  PROVE  MeasureInv' /\ (\A q \in Request \ {r} : Untouched(q)) /\ RunsDown(r)
<1>1. left[r] \in Nat /\ left[r] > 0
  BY DEF MeasureInv
<1>2. Fits(s, l, left[r], t, f, h)
  BY <1>1 DEF Fits
<1>3. /\ MeasureInv' /\ (\A q \in Request \ {r} : Untouched(q))
      /\ stage'[r] = s /\ pc'[r] = l /\ left'[r] = left[r] /\ tokens'[r] = t
      /\ reloads'[r] = f /\ hop'[r] = h
  BY <1>2, ShiftStep
<1>4. Nearer(r)
  BY <1>3 DEF Nearer
<1>5. left'[r] >= 0 /\ tokens'[r] >= 0 /\ hop'[r] <= MaxHops /\ reloads'[r] <= MaxReloads
  BY <1>1, <1>3, RetriesAssumption DEF MaxHops
<1> QED BY <1>1, <1>3, <1>4, <1>5 DEF RunsDown

\* A call that returns.
LEMMA Returns ==
  ASSUME TypeOK, StageInv, MeasureInv, NEW r \in Request, stage[r] # "out", Finish(r),
         NEW l \in PC, pc' = [pc EXCEPT ![r] = l]
  PROVE  MeasureInv' /\ (\A q \in Request \ {r} : Untouched(q)) /\ RunsDown(r)
<1>1. Shift(r, "out", l, 0, 0, 0, 0)
  BY DEF Finish, GotoStage, Shift
<1>2. Fits("out", l, 0, 0, 0, 0)
  BY RetriesAssumption DEF Fits, Stages, MaxHops
<1>3. /\ MeasureInv' /\ (\A q \in Request \ {r} : Untouched(q))
      /\ stage'[r] = "out" /\ left'[r] = 0 /\ tokens'[r] = 0 /\ reloads'[r] = 0 /\ hop'[r] = 0
  BY <1>1, <1>2, ShiftStep
<1> QED BY <1>3, RetriesAssumption DEF RunsDown, Nearer, MeasureInv, MaxHops

\* An attempt that is over.
LEMMA AttemptEnds ==
  ASSUME TypeOK, StageInv, MeasureInv, NEW r \in Request, stage[r] \notin {"out", "next"},
         Continue(r), NEW l \in PC, pc' = [pc EXCEPT ![r] = l]
  PROVE  MeasureInv' /\ (\A q \in Request \ {r} : Untouched(q)) /\ RunsDown(r)
<1>1. Shift(r, "next", l, left[r], tokens[r], reloads[r], 0)
  BY Measured DEF Continue, GotoStage, Shift
<1>2. StageRank["next"] < StageRank[stage[r]]
  BY DEF StageInv, Stages, StageRank
<1>3. "next" \in Stages /\ 0 \in 0..MaxHops
  BY DEF Stages, MaxHops
<1> QED BY <1>1, <1>2, <1>3, Measured, MovesOn DEF Fits

\* A call that goes on to a later stage of the attempt.
LEMMA StageMoves ==
  ASSUME TypeOK, StageInv, MeasureInv, NEW r \in Request, NEW s \in Stages, NEW l \in PC,
         stage' = [stage EXCEPT ![r] = s], pc' = [pc EXCEPT ![r] = l],
         UNCHANGED <<left, tokens, reloads, hop>>, stage[r] # "out", s # "acquire",
         StageRank[s] < StageRank[stage[r]]
  PROVE  MeasureInv' /\ (\A q \in Request \ {r} : Untouched(q)) /\ RunsDown(r)
<1>1. Shift(r, s, l, left[r], tokens[r], reloads[r], hop[r])
  BY Measured DEF Shift
<1> QED BY <1>1, Measured, MovesOn DEF Fits

\* Every step of a call brings it nearer to its end and touches no other call.
LEMMA CallRunsDown ==
  ASSUME PoolInv, StageInv, MeasureInv, NEW r \in Request, CallStep(r)
  PROVE  MeasureInv' /\ (\A q \in Request \ {r} : Untouched(q)) /\ RunsDown(r)
<1> DEFINE Goal == MeasureInv' /\ (\A q \in Request \ {r} : Untouched(q)) /\ RunsDown(r)
<1>0. TypeOK /\ pc \in [Request -> PC] /\ pc[r] \in PC /\ stage[r] \in Stages
  BY DEF PoolInv, TypeOK, StageInv
<1>1. ASSUME stage[r] # "out", Finish(r),
             \/ CallSucceeds(r) \/ CallRejected(r) \/ QuotaExhausted(r) \/ AccountThrottled(r)
             \/ Unreported(r) \/ pc' = pc
      PROVE  Goal
  <2>1. \E l \in PC : pc' = [pc EXCEPT ![r] = l]
    BY <1>0, <1>1
       DEF CallSucceeds, CallRejected, QuotaExhausted, AccountThrottled, Unreported, End, Give,
           Goto, PC
  <2> QED BY <1>0, <1>1, <2>1, Returns
<1>2. ASSUME stage[r] \notin {"out", "next"}, Continue(r),
             \/ CallRejected(r) \/ QuotaExhausted(r) \/ AccountThrottled(r)
             \/ Unreported(r) \/ pc' = pc
      PROVE  Goal
  <2>1. \E l \in PC : pc' = [pc EXCEPT ![r] = l]
    BY <1>0, <1>2
       DEF CallRejected, QuotaExhausted, AccountThrottled, Unreported, End, Give, Goto, PC
  <2> QED BY <1>0, <1>2, <2>1, AttemptEnds
<1>3. ASSUME stage[r] \in {"sent", "hop"}, RetryLater(r) PROVE Goal
  <2>1. CASE left[r] > 1
    <3>1. /\ stage' = [stage EXCEPT ![r] = "backoff"] /\ pc' = [pc EXCEPT ![r] = pc[r]]
          /\ UNCHANGED <<left, tokens, reloads, hop>>
      BY <1>0, <1>3, <2>1, Measured DEF RetryLater, Move, GotoStage, vars
    <3>2. "backoff" \in Stages /\ StageRank["backoff"] < StageRank[stage[r]]
      BY <1>3 DEF Stages, StageRank
    <3> QED BY <1>0, <1>3, <3>1, <3>2, StageMoves
  <2>2. CASE ~(left[r] > 1)
    BY <1>2, <1>3, <2>2 DEF RetryLater
  <2> QED BY <2>1, <2>2
<1>4. ASSUME stage[r] \in {"sent", "hop"}, Unauthorized(r) PROVE Goal
  <2>1. CASE CallRejected(r) /\ GoOnIfAnyInService(r)
    BY <1>1, <1>2, <1>4, <2>1 DEF GoOnIfAnyInService
  <2>2. CASE GotoStage(r, "force") /\ UNCHANGED <<vars, left, tokens, reloads, status, hop>>
    <3>1. /\ stage' = [stage EXCEPT ![r] = "force"] /\ pc' = [pc EXCEPT ![r] = pc[r]]
          /\ UNCHANGED <<left, tokens, reloads, hop>>
      BY <1>0, <2>2, Measured DEF GotoStage, vars
    <3>2. "force" \in Stages /\ StageRank["force"] < StageRank[stage[r]]
      BY <1>4 DEF Stages, StageRank
    <3> QED BY <1>0, <1>4, <3>1, <3>2, StageMoves
  <2> QED BY <1>4, <2>1, <2>2 DEF Unauthorized
<1>5. CASE NextAttempt(r)
  <2>1. /\ stage[r] = "next" /\ left[r] > 1 /\ left[r] \in Nat /\ EnterAcquire(r, left[r] - 1)
    BY <1>5 DEF NextAttempt, MeasureInv
  <2>2. PICK n \in Nat : n = left[r] - 1 /\ n > 0
    BY <2>1
  <2>3. /\ MeasureInv' /\ (\A q \in Request \ {r} : Untouched(q))
        /\ stage'[r] = "acquire" /\ left'[r] = n /\ tokens'[r] >= 0 /\ hop'[r] <= MaxHops
        /\ reloads'[r] <= MaxReloads
    BY <1>0, <2>1, <2>2, EntersAcquire
  <2>4. Nearer(r)
    BY <2>1, <2>2, <2>3 DEF Nearer
  <2> QED BY <2>1, <2>2, <2>3, <2>4 DEF RunsDown
<1>6. CASE Acquiring(r)
  <2>1. PICK l \in PC : pc' = [pc EXCEPT ![r] = l] /\ PlaceRank[l] < PlaceRank[pc[r]]
                        /\ pc[r] # "idle"
    <3>1. CASE PickSticky(r) \/ PickCurrent(r) \/ PickNone(r)
      BY <1>0, <3>1 DEF PickSticky, PickCurrent, PickNone, Give, Goto, PC, PlaceRank
    <3>2. CASE Select(r) \/ SelectAgain(r) \/ Adopt(r)
      BY <1>0, <3>2 DEF Select, SelectAgain, Adopt, Give, Goto, PC, PlaceRank
    <3>3. CASE Heal(r)
      BY <1>0, <3>3 DEF Heal, Goto, PC, PlaceRank
    <3> QED BY <1>6, <3>1, <3>2, <3>3 DEF Acquiring, AcquireStep
  <2>2. stage[r] = "acquire" /\ UNCHANGED callVars
    BY <1>6 DEF Acquiring
  <2>3. Shift(r, "acquire", l, left[r], tokens[r], reloads[r], hop[r])
    BY <1>0, <2>1, <2>2, Measured DEF callVars, Shift
  <2>4. tokens[r] \in Nat /\ tokens[r] > 0 /\ "acquire" \in Stages
    BY <2>1, <2>2 DEF MeasureInv, Stages
  <2> QED BY <1>0, <2>1, <2>2, <2>3, <2>4, Measured, MovesOn DEF Fits
<1>7. CASE TokenLost(r)
  <2>1. PICK l \in {"pick", "idle"} : pc' = [pc EXCEPT ![r] = l]
    BY <1>7 DEF TokenLost, TokenFails, TokenInvalid, TryAgain, Give, End, Goto
  <2>2. /\ stage[r] = "acquire" /\ pc[r] = "token" /\ tokens' = [tokens EXCEPT ![r] = @ - 1]
        /\ UNCHANGED <<stage, left, reloads, hop>> /\ (l = "pick" => tokens[r] > 1)
    BY <1>0, <1>7, <2>1 DEF TokenLost, TokenFails, TokenInvalid
  <2>3. PICK t \in Nat : t = tokens[r] - 1 /\ tokens[r] \in Nat /\ (l = "pick" => t > 0)
    BY <2>2 DEF MeasureInv
  <2>4. Shift(r, "acquire", l, left[r], t, reloads[r], hop[r])
    BY <1>0, <2>1, <2>2, <2>3, Measured DEF Shift
  <2>5. l \in PC /\ "acquire" \in Stages /\ (l # "idle" => t > 0) /\ t < tokens[r]
    BY <2>3 DEF PC, Stages
  <2>6. stage[r] = "acquire"
    BY <2>2
  <2> QED BY <1>0, <2>4, <2>5, <2>6, Measured, MovesOn DEF Fits
<1>8. CASE TokenFound(r)
  <2>1. /\ stage[r] = "acquire" /\ pc[r] = "token" /\ reloads[r] < MaxReloads
        /\ reloads' = [reloads EXCEPT ![r] = @ + 1] /\ pc' = [pc EXCEPT ![r] = "pick"]
        /\ UNCHANGED <<stage, left, tokens, hop>>
    BY <1>8 DEF TokenFound, TokenReloaded, Give, Goto
  <2>2. PICK f \in 0..MaxReloads : f = reloads[r] + 1 /\ reloads[r] \in Nat
    BY <2>1, RetriesAssumption DEF MeasureInv
  <2>3. Shift(r, "acquire", "pick", left[r], tokens[r], f, hop[r])
    BY <1>0, <2>1, <2>2, Measured DEF Shift
  <2>4. /\ tokens[r] \in Nat /\ tokens[r] > 0 /\ "acquire" \in Stages /\ "pick" \in PC
        /\ f > reloads[r]
    BY <2>1, <2>2, RetriesAssumption DEF MeasureInv, Stages, PC
  <2> QED BY <1>0, <2>1, <2>3, <2>4, Measured, MovesOn DEF Fits
<1>9. CASE Send(r)
  <2>1. /\ stage[r] = "acquire" /\ stage' = [stage EXCEPT ![r] = "sent"]
        /\ pc' = [pc EXCEPT ![r] = "send"] /\ UNCHANGED <<left, tokens, reloads, hop>>
    BY <1>9 DEF Send, TokenReady, Goto, Move, GotoStage
  <2>2. "sent" \in Stages /\ "send" \in PC /\ StageRank["sent"] < StageRank[stage[r]]
    BY <2>1 DEF Stages, PC, StageRank
  <2> QED BY <1>0, <2>1, <2>2, StageMoves
<1>10. CASE AcquireFailed(r)
  BY <1>2, <1>10 DEF AcquireFailed, vars
<1>11. CASE OutOfAttempts(r)
  BY <1>1, <1>11 DEF OutOfAttempts, vars
<1>12. CASE Succeeds(r) \/ GiveUp(r)
  BY <1>1, <1>12 DEF Succeeds, GiveUp
<1>13. CASE BackoffEnds(r) \/ Renewed(r) \/ UnknownEndpoint(r)
  BY <1>2, <1>13 DEF BackoffEnds, Renewed, UnknownEndpoint
<1>14. CASE QuotaGone(r) \/ ForceFails(r) \/ Suspicious(r)
  BY <1>1, <1>2, <1>14 DEF QuotaGone, ForceFails, Suspicious, GoOnIfAnyInService
<1>15. CASE Transient(r) \/ Rejected(r) \/ ChainEnds(r)
  BY <1>3, <1>4, <1>15 DEF Transient, Rejected, ChainEnds
<1>16. CASE ForceSucceeds(r)
  <2>1. /\ stage[r] = "force" /\ stage' = [stage EXCEPT ![r] = "renewed"]
        /\ pc' = [pc EXCEPT ![r] = pc[r]] /\ UNCHANGED <<left, tokens, reloads, hop>>
    BY <1>0, <1>16, Measured DEF ForceSucceeds, TokenRenewed, Move, GotoStage
  <2>2. "renewed" \in Stages /\ StageRank["renewed"] < StageRank[stage[r]]
    BY <2>1 DEF Stages, StageRank
  <2> QED BY <1>0, <2>1, <2>2, StageMoves
<1>17. CASE FallBack(r)
  <2>1. /\ stage[r] = "sent" /\ stage' = [stage EXCEPT ![r] = "hop"]
        /\ pc' = [pc EXCEPT ![r] = pc[r]] /\ UNCHANGED <<left, tokens, reloads, hop>>
    BY <1>0, <1>17, Measured DEF FallBack, GotoStage, vars
  <2>2. "hop" \in Stages /\ StageRank["hop"] < StageRank[stage[r]]
    BY <2>1 DEF Stages, StageRank
  <2> QED BY <1>0, <2>1, <2>2, StageMoves
<1>18. CASE HopFails(r)
  <2>1. /\ stage[r] = "hop" /\ hop[r] < MaxHops /\ hop' = [hop EXCEPT ![r] = @ + 1]
        /\ UNCHANGED <<pc, stage, left, tokens, reloads>>
    BY <1>18 DEF HopFails, vars
  <2>2. PICK h \in 0..MaxHops : h = hop[r] + 1 /\ hop[r] \in Nat
    BY <2>1 DEF MeasureInv, MaxHops
  <2>3. Shift(r, "hop", pc[r], left[r], tokens[r], reloads[r], h)
    BY <1>0, <2>1, <2>2, Measured DEF Shift
  <2>4. "hop" \in Stages /\ h > hop[r] /\ stage[r] = "hop"
    BY <2>1, <2>2 DEF Stages
  <2> QED BY <1>0, <2>3, <2>4, Measured, MovesOn DEF Fits
<1> QED
  BY <1>5, <1>6, <1>7, <1>8, <1>9, <1>10, <1>11, <1>12, <1>13, <1>14, <1>15, <1>16, <1>17,
     <1>18 DEF CallStep

\* A step that is not r's leaves r where it is, unless r is not running.
LEMMA OthersLeaveAlone ==
  ASSUME PoolInv, StageInv, MeasureInv, [CallNext]_allVars
  PROVE  /\ MeasureInv'
         /\ \A r \in Request : CallStep(r) \/ stage[r] = "out" \/ Untouched(r)
<1>0. TypeOK
  BY DEF PoolInv
<1>1. ASSUME NEW r \in Request, CallStep(r)
      PROVE  MeasureInv' /\ \A q \in Request : CallStep(q) \/ stage[q] = "out" \/ Untouched(q)
  BY <1>1, CallRunsDown
<1>2. ASSUME NEW r \in Request, StartCall(r)
      PROVE  MeasureInv' /\ \A q \in Request : CallStep(q) \/ stage[q] = "out" \/ Untouched(q)
  <2>1. PICK n \in Nat : n = Budget(r) /\ n > 0
    BY <1>0, <1>2, Budgets DEF StartCall
  <2>2. stage[r] = "out" /\ EnterAcquire(r, n)
    BY <1>2, <2>1 DEF StartCall
  <2> QED BY <1>0, <2>1, <2>2, EntersAcquire
<1>3. ASSUME NEW r \in Request, StreamEnds(r)
      PROVE  MeasureInv' /\ \A q \in Request : CallStep(q) \/ stage[q] = "out" \/ Untouched(q)
  <2>1. /\ stage[r] = "out" /\ pc' = [pc EXCEPT ![r] = "idle"]
        /\ UNCHANGED <<stage, left, tokens, reloads, hop>>
    BY <1>3 DEF StreamEnds, Unreported, End, Give, Goto, callVars
  <2>2. Shift(r, "out", "idle", left[r], tokens[r], reloads[r], hop[r])
    BY <1>0, <2>1, Measured DEF Shift
  <2>3. Fits("out", "idle", left[r], tokens[r], reloads[r], hop[r])
    BY <1>0, Measured DEF Fits, Stages, PC
  <2> QED BY <1>0, <2>1, <2>2, <2>3, ShiftStep
<1>4. CASE Elsewhere \/ UNCHANGED allVars
  <2>1. UNCHANGED <<pc, stage, left, tokens, reloads, hop>>
    BY <1>4
       DEF Elsewhere, callVars, allVars, vars, CooldownEnds, AdminStep, AdminDisable,
           AdminDisableQuota, AdminEnable, ClearThrottle, TokenRenewed, DeleteCredential,
           SetPriority, SetMode, AddCredential, AddDuplicate, Insert
  <2> QED BY <2>1 DEF MeasureInv, Untouched
<1> QED BY <1>1, <1>2, <1>3, <1>4 DEF CallNext

\* For any credentials, budgets and calls, whatever administrators and other calls
\* do meanwhile: every step of a call brings it nearer to its end, and no other
\* step moves it.  What CallEnds adds is that a running call can take a step.
THEOREM ProviderCallsRunDown == CallSpec => CallsRunDown
<1>1. CallInit => StageInv /\ MeasureInv
  <2> SUFFICES ASSUME CallInit PROVE StageInv /\ MeasureInv
    OBVIOUS
  <2>1. StageInv
    BY DEF CallInit, Init, StageInv, SlotFollowsCall, Stages
  <2>2. MeasureInv
    BY RetriesAssumption DEF CallInit, MeasureInv, MaxHops
  <2> QED BY <2>1, <2>2
<1>2. PoolInv /\ StageInv /\ MeasureInv /\ [CallNext]_allVars => StageInv' /\ MeasureInv'
  BY StageStep, OthersLeaveAlone
<1>3. PoolInv /\ StageInv /\ MeasureInv /\ [CallNext]_allVars =>
        [\A r \in Request :
           /\ CallStep(r) => /\ Nearer(r)
                             /\ left[r] > 0 /\ left'[r] >= 0 /\ tokens'[r] >= 0
                             /\ hop'[r] <= MaxHops /\ reloads'[r] <= MaxReloads
           /\ CallStep(r) \/ stage[r] = "out"
                \/ /\ stage'[r] = stage[r] /\ left'[r] = left[r] /\ hop'[r] = hop[r]
                   /\ reloads'[r] = reloads[r] /\ tokens'[r] = tokens[r] /\ pc'[r] = pc[r]]_allVars
  <2> SUFFICES ASSUME PoolInv, StageInv, MeasureInv, [CallNext]_allVars, NEW r \in Request
               PROVE  /\ CallStep(r) => RunsDown(r)
                      /\ CallStep(r) \/ stage[r] = "out" \/ Untouched(r)
    BY DEF RunsDown, Untouched
  <2> QED BY CallRunsDown, OthersLeaveAlone
<1> QED BY <1>1, <1>2, <1>3, ProviderPoolInvariant, PTL DEF CallSpec, CallsRunDown

-----------------------------------------------------------------------------
(* The credentials file.                                                     *)


\* Inside persist_credentials, between taking and dropping persist_lock.
Critical == {"snapshot", "write", "writing", "rename", "cleanup"}

\* Whoever is inside holds the lock, so there is one writer at a time.
OneWriter == \A t \in Task : saving[t] \in Critical => persistLock = t

\* The file is never ahead of memory, and what was acknowledged never ahead of
\* the file.
VersionOrder == file \in Nat /\ acked <= file /\ file <= mem

\* A task's own change is part of every list copied after it.
OwnChange == \A t \in Task : saving[t] # "idle" => changed[t] <= mem

\* The writer's copy is at least as new as the file, holds the writer's own
\* change, and is what the temporary file holds when it is complete.
FreshCopy ==
  \A t \in Task :
    /\ saving[t] \in {"write", "writing", "rename"} =>
         file <= snap[t] /\ changed[t] <= snap[t] /\ snap[t] <= mem
    /\ saving[t] = "rename" => tmp = snap[t]

\* The inductive invariant of the store.
StoreInv == StoreTypeOK /\ OneWriter /\ VersionOrder /\ OwnChange /\ FreshCopy

\* The store starts in the invariant.
LEMMA StoreInvInit == StoreInit => StoreInv
  BY NoTaskAssumption, FileValueAssumption
     DEF StoreInit, StoreInv, StoreTypeOK, OneWriter, VersionOrder, OwnChange, FreshCopy,
         SavePoints, Critical

\* Every step of the store keeps the invariant.
LEMMA StoreInvStep == StoreInv /\ [StoreNext]_storeVars => StoreInv'
<1> SUFFICES ASSUME StoreInv, [StoreNext]_storeVars PROVE StoreInv'
  OBVIOUS
<1> USE NoTaskAssumption, FileValueAssumption, MaxVersionAssumption
<1>1. ASSUME NEW t \in Task, AdminChange(t) \/ RefreshChange(t) PROVE StoreInv'
  <2>1. /\ saving[t] = "idle" /\ mem' = mem + 1
        /\ changed' = [changed EXCEPT ![t] = mem + 1]
        /\ reports' \in [Task -> BOOLEAN]
        /\ saving' = [saving EXCEPT ![t] = "lock"]
        /\ UNCHANGED <<file, tmp, persistLock, snap, acked>>
    BY <1>1 DEF AdminChange, RefreshChange, ChangeThenSave, MoveTo, StoreInv, StoreTypeOK
  <2>2. StoreTypeOK'
    BY <2>1 DEF StoreInv, StoreTypeOK, SavePoints
  <2>3. OneWriter' /\ VersionOrder' /\ OwnChange' /\ FreshCopy'
    BY <2>1 DEF StoreInv, StoreTypeOK, SavePoints, OneWriter, VersionOrder, OwnChange, FreshCopy, Critical
  <2> QED BY <2>2, <2>3 DEF StoreInv
<1>2. ASSUME NEW t \in Task, LockForSave(t) PROVE StoreInv'
  BY <1>2 DEF LockForSave, MoveTo, StoreInv, StoreTypeOK, SavePoints, OneWriter, VersionOrder,
              OwnChange, FreshCopy, Critical
<1>3. ASSUME NEW t \in Task, Snapshot(t) PROVE StoreInv'
  BY <1>3 DEF Snapshot, MoveTo, StoreInv, StoreTypeOK, SavePoints, OneWriter, VersionOrder,
              OwnChange, FreshCopy, Critical
<1>4. ASSUME NEW t \in Task, BeginWrite(t) PROVE StoreInv'
  BY <1>4 DEF BeginWrite, MoveTo, StoreInv, StoreTypeOK, SavePoints, OneWriter, VersionOrder,
              OwnChange, FreshCopy, Critical
<1>5. ASSUME NEW t \in Task, FinishWrite(t) PROVE StoreInv'
  BY <1>5 DEF FinishWrite, MoveTo, StoreInv, StoreTypeOK, SavePoints, OneWriter, VersionOrder,
              OwnChange, FreshCopy, Critical
<1>6. ASSUME NEW t \in Task, Rename(t) PROVE StoreInv'
  <2>1. /\ tmp = snap[t] /\ file <= snap[t] /\ snap[t] <= mem /\ changed[t] <= snap[t]
        /\ persistLock = t
    BY <1>6 DEF Rename, StoreInv, OneWriter, FreshCopy, Critical
  <2>2. StoreTypeOK'
    BY <1>6, <2>1 DEF Rename, MoveTo, StoreInv, StoreTypeOK, SavePoints
  <2>3. VersionOrder' /\ OwnChange'
    BY <1>6, <2>1 DEF Rename, MoveTo, StoreInv, StoreTypeOK, SavePoints, VersionOrder, OwnChange
  <2>4. OneWriter' /\ FreshCopy'
    BY <1>6, <2>1 DEF Rename, MoveTo, StoreInv, StoreTypeOK, SavePoints, OneWriter, FreshCopy, Critical
  <2> QED BY <2>2, <2>3, <2>4 DEF StoreInv
<1>7. ASSUME NEW t \in Task, FileOperationFails(t) PROVE StoreInv'
  BY <1>7 DEF FileOperationFails, MoveTo, StoreInv, StoreTypeOK, SavePoints, OneWriter, VersionOrder,
              OwnChange, FreshCopy, Critical
<1>8. ASSUME NEW t \in Task, RemoveTmp(t) PROVE StoreInv'
  BY <1>8 DEF RemoveTmp, MoveTo, StoreInv, StoreTypeOK, SavePoints, OneWriter, VersionOrder,
              OwnChange, FreshCopy, Critical
<1>9. CASE UnsavedChange
  BY <1>9 DEF UnsavedChange, StoreInv, StoreTypeOK, SavePoints, OneWriter, VersionOrder,
              OwnChange, FreshCopy, Critical
<1>10. CASE Restart
  BY <1>10 DEF Restart, StoreInv, StoreTypeOK, SavePoints, OneWriter, VersionOrder, OwnChange,
               FreshCopy, Critical
<1>11. CASE UNCHANGED storeVars
  BY <1>11 DEF storeVars, StoreInv, StoreTypeOK, SavePoints, OneWriter, VersionOrder, OwnChange,
               FreshCopy, Critical
<1> QED
  BY <1>1, <1>2, <1>3, <1>4, <1>5, <1>6, <1>7, <1>8, <1>9, <1>10, <1>11
     DEF StoreNext, SaveStep

THEOREM StoreInvariant == StoreSpec => []StoreInv
<1> QED BY StoreInvInit, StoreInvStep, PTL DEF StoreSpec

\* What a caller was told is saved is in the file, and the file is a whole
\* list: neither overlapping saves nor a crash in the middle of one lose an
\* acknowledged change (set_disabled, set_priority, delete_credential, ...).
THEOREM AckedSurvives == StoreSpec => []AckedIsDurable
<1>1. StoreInv => AckedIsDurable
  BY FileValueAssumption DEF StoreInv, VersionOrder, AckedIsDurable
<1> QED BY <1>1, StoreInvariant, PTL

THEOREM StoreTypes == StoreSpec => []StoreTypeOK
<1>1. StoreInv => StoreTypeOK
  BY DEF StoreInv
<1> QED BY <1>1, StoreInvariant, PTL

\* No save replaces the file by an older list (issue 23).
THEOREM StoreNeverGoesBack == StoreSpec => NoStaleOverwrite
<1>1. StoreInv /\ [StoreNext]_storeVars => [file' >= file]_storeVars
  <2> SUFFICES ASSUME StoreInv, StoreNext PROVE file' >= file
    OBVIOUS
  <2>1. file \in Nat
    BY DEF StoreInv, VersionOrder
  <2>2. ASSUME NEW t \in Task, Rename(t) PROVE file' >= file
    BY <2>1, <2>2 DEF Rename, StoreInv, StoreTypeOK, FreshCopy
  <2>3. CASE Restart
    BY <2>1, <2>3 DEF Restart
  <2>4. CASE file' = file
    BY <2>1, <2>4
  <2> QED
    BY <2>2, <2>3, <2>4 DEF StoreNext, SaveStep, AdminChange, RefreshChange, ChangeThenSave,
      LockForSave, Snapshot, BeginWrite, FinishWrite, FileOperationFails, RemoveTmp,
      UnsavedChange
<1> QED BY <1>1, StoreInvariant, PTL DEF StoreSpec, NoStaleOverwrite

\* The store with its lock, temporary file and failures is an implementation of
\* the store that has none.
THEOREM StoreRefines == StoreSpec => ImplementsDurableStore
<1>1. StoreInit => Durable!Init
  BY DEF StoreInit, Durable!Init
<1>2. StoreInv /\ StoreInv' /\ [StoreNext]_storeVars => [Durable!Next]_Durable!vars
  <2> SUFFICES ASSUME StoreInv, StoreInv', [StoreNext]_storeVars
               PROVE Durable!Next \/ UNCHANGED Durable!vars
    OBVIOUS
  <2> USE DEF Durable!Next, Durable!vars
  <2>0. /\ mem \in Nat /\ file \in Nat /\ acked \in Nat
        /\ mem' \in Nat /\ file' \in Nat /\ acked' \in Nat
        /\ acked' <= file' /\ file' <= mem'
    BY DEF StoreInv, VersionOrder, StoreTypeOK
  <2>1. ASSUME NEW t \in Task, AdminChange(t) \/ RefreshChange(t) PROVE Durable!Change
    BY <2>1 DEF AdminChange, RefreshChange, ChangeThenSave, Durable!Change
  <2>2. ASSUME NEW t \in Task, Rename(t) PROVE Durable!Flush
    <3>1. file <= file' /\ file' <= mem /\ acked <= acked' /\ mem' = mem
      BY <2>0, <2>2 DEF Rename, StoreInv, StoreTypeOK, FreshCopy
    <3> QED BY <2>0, <3>1 DEF Durable!Flush
  <2>3. CASE UnsavedChange
    BY <2>3 DEF UnsavedChange, Durable!Change
  <2>4. CASE Restart
    BY <2>0, <2>4 DEF Restart, Durable!Restart
  <2>5. CASE UNCHANGED <<mem, file, acked>>
    BY <2>5
  <2> QED
    BY <2>1, <2>2, <2>3, <2>4, <2>5 DEF StoreNext, SaveStep, LockForSave, Snapshot,
      BeginWrite, FinishWrite, FileOperationFails, RemoveTmp, storeVars
<1> QED
  BY <1>1, <1>2, StoreInvariant, PTL DEF StoreSpec, ImplementsDurableStore, Durable!Spec
=============================================================================
