------------------------ MODULE SlotAndToken_proofs ------------------------
(***************************************************************************)
(* One account: the slots of its requests, for any number of requests, any *)
(* limit and any width of the counter that can count the requests; and its *)
(* token, for any number of requests and forced refreshes.                 *)
(***************************************************************************)
EXTENDS ConcurrencySlot, TokenRefresh, FiniteSetTheorems, TLAPS

-----------------------------------------------------------------------------
(* The slots. *)

SlotInv == SlotTypeOK /\ CounterIsExact

LEMMA HoldersAreFew ==
  /\ IsFiniteSet(Holders)
  /\ Cardinality(Holders) \in Nat
  /\ Cardinality(Holders) < Modulus
<1>1. Holders \subseteq Request
  BY DEF Holders
<1>2. IsFiniteSet(Holders) /\ Cardinality(Holders) <= Cardinality(Request)
  BY <1>1, RequestAssumption, FS_Subset
<1>3. Cardinality(Holders) \in Nat /\ Cardinality(Request) \in Nat
  BY <1>2, RequestAssumption, FS_CardinalityType
<1> QED BY <1>2, <1>3, ModulusAssumption

\* One more holder.
LEMMA HolderAdded ==
  ASSUME SlotTypeOK, NEW r \in Request, r \notin Holders, Turn(r, "held")
  PROVE  /\ Cardinality(Holders') = Cardinality(Holders) + 1
         /\ Cardinality(Holders') < Modulus
<1>1. Holders' = Holders \union {r}
  BY DEF Holders, Turn, SlotTypeOK
<1>2. Cardinality(Holders') = Cardinality(Holders) + 1
  BY <1>1, HoldersAreFew, FS_AddElement
<1>3. Holders' \subseteq Request
  BY <1>1 DEF Holders
<1>4. Cardinality(Holders') <= Cardinality(Request)
  BY <1>3, RequestAssumption, FS_Subset
<1>5. Cardinality(Request) \in Nat
  BY RequestAssumption, FS_CardinalityType
<1> QED BY <1>2, <1>4, <1>5, HoldersAreFew, ModulusAssumption

\* One holder less.
LEMMA HolderRemoved ==
  ASSUME SlotTypeOK, NEW r \in Holders, Turn(r, "idle")
  PROVE  Cardinality(Holders') = Cardinality(Holders) - 1 /\ Cardinality(Holders) > 0
<1>1. Holders' = Holders \ {r}
  BY DEF Holders, Turn, SlotTypeOK
<1>2. Cardinality(Holders') = Cardinality(Holders) - 1
  BY <1>1, HoldersAreFew, FS_RemoveElement
<1>3. Holders # {}
  OBVIOUS
<1>4. Cardinality(Holders) # 0
  BY <1>3, HoldersAreFew, FS_EmptySet
<1> QED BY <1>2, <1>4, HoldersAreFew

-----------------------------------------------------------------------------
LEMMA SlotInvInit == SlotInit => SlotInv
<1> SUFFICES ASSUME SlotInit PROVE SlotInv
  OBVIOUS
<1>1. SlotTypeOK
  BY ModulusAssumption, MaxClearsAssumption, RequestAssumption, FS_CardinalityType
     DEF SlotInit, SlotTypeOK
<1>2. Holders = {}
  BY DEF SlotInit, Holders
<1>3. CounterIsExact
  BY <1>2, FS_EmptySet DEF SlotInit, CounterIsExact
<1> QED BY <1>1, <1>3 DEF SlotInv

LEMMA SlotInvStep == SlotInv /\ [SlotNext]_slotVars => SlotInv'
<1> SUFFICES ASSUME SlotInv, [SlotNext]_slotVars PROVE SlotInv'
  OBVIOUS
<1>0. SlotTypeOK /\ CounterIsExact
  BY DEF SlotInv
<1>m. Modulus \in Nat \ {0}
  BY ModulusAssumption, RequestAssumption, FS_CardinalityType
\* A step that changes no holder and neither counter nor clears.
<1>h. ASSUME Holders' = Holders, UNCHANGED <<counter, clears>> PROVE CounterIsExact'
  BY <1>0, <1>h DEF CounterIsExact
<1>1. ASSUME NEW r \in Request, Choose(r) \/ TokenFails(r) PROVE SlotInv'
  <2>1. SlotTypeOK'
    BY <1>0, <1>1 DEF Choose, TokenFails, Turn, SlotTypeOK
  <2>2. Holders' = Holders
    BY <1>0, <1>1 DEF Choose, TokenFails, Turn, SlotTypeOK, Holders
  <2> QED BY <1>1, <1>h, <2>1, <2>2 DEF SlotInv, Choose, TokenFails
<1>2. ASSUME NEW r \in Request, Acquire(r) PROVE SlotInv'
  <2>1. counter' \in 0..(Modulus - 1)
    BY <1>0, <1>2, <1>m DEF Acquire, SlotTypeOK
  <2>2. SlotTypeOK'
    BY <1>0, <1>2, <2>1 DEF Acquire, Turn, SlotTypeOK
  <2>3. ASSUME clears = 0 PROVE counter' = Cardinality(Holders')
    <3>1. /\ Cardinality(Holders') = counter + 1
          /\ Cardinality(Holders') < Modulus
      BY <1>0, <1>2, <2>3, HolderAdded DEF Acquire, CounterIsExact, Holders
    <3> QED BY <1>0, <1>2, <1>m, <3>1 DEF Acquire, SlotTypeOK
  <2> QED BY <1>2, <2>2, <2>3 DEF SlotInv, CounterIsExact, Acquire
<1>3. ASSUME NEW r \in Request, DropLoad(r) PROVE SlotInv'
  <2>1. SlotTypeOK'
    BY <1>0, <1>3 DEF DropLoad, Turn, SlotTypeOK
  <2>2. CASE counter > 0
    <3>1. Holders' = Holders
      BY <1>0, <1>3, <2>2 DEF DropLoad, Turn, SlotTypeOK, Holders
    <3> QED BY <1>3, <1>h, <2>1, <3>1 DEF SlotInv, DropLoad
  <2>3. CASE ~(counter > 0)
    <3>1. r \in Holders
      BY <1>3 DEF DropLoad, Holders
    <3>2. Cardinality(Holders) > 0
      BY <1>0, <1>3, <2>3, <3>1, HolderRemoved DEF DropLoad
    <3>3. clears # 0
      BY <1>0, <2>3, <3>2 DEF CounterIsExact
    <3> QED BY <1>3, <2>1, <3>3 DEF SlotInv, CounterIsExact, DropLoad
  <2> QED BY <2>2, <2>3
<1>4. ASSUME NEW r \in Request, DropSubtract(r) PROVE SlotInv'
  <2>1. counter' \in 0..(Modulus - 1)
    <3>1. counter - 1 \in Int
      BY <1>0 DEF SlotTypeOK
    <3>2. ASSUME NEW n \in Int, NEW m \in Nat \ {0} PROVE n % m \in 0..(m - 1)
      OBVIOUS
    <3> QED BY <1>4, <1>m, <3>1, <3>2 DEF DropSubtract
  <2>2. SlotTypeOK'
    BY <1>0, <1>4, <2>1 DEF DropSubtract, Turn, SlotTypeOK
  <2>3. ASSUME clears = 0 PROVE counter' = Cardinality(Holders')
    <3>1. Cardinality(Holders') = counter - 1 /\ counter > 0
      BY <1>0, <1>4, <2>3, HolderRemoved DEF DropSubtract, CounterIsExact, Holders
    <3> QED BY <1>0, <1>4, <1>m, <3>1 DEF DropSubtract, SlotTypeOK
  <2> QED BY <1>4, <2>2, <2>3 DEF SlotInv, CounterIsExact, DropSubtract
<1>5. CASE ClearConcurrency
  <2>1. SlotTypeOK'
    BY <1>0, <1>5, <1>m, MaxClearsAssumption DEF ClearConcurrency, SlotTypeOK
  <2>2. clears' # 0
    BY <1>0, <1>5, MaxClearsAssumption DEF ClearConcurrency, SlotTypeOK
  <2> QED BY <2>1, <2>2 DEF SlotInv, CounterIsExact
<1>6. CASE UNCHANGED slotVars
  BY <1>0, <1>6 DEF slotVars, SlotInv, SlotTypeOK, CounterIsExact, Holders
<1> QED BY <1>1, <1>2, <1>3, <1>4, <1>5, <1>6 DEF SlotNext

-----------------------------------------------------------------------------
\* Until an administrator clears it, the in_flight counter is the number of
\* slots held: every path of a request gives back exactly the slot it took.
THEOREM SlotCounterIsExact == SlotSpec => []CounterIsExact
<1>1. SlotInv => CounterIsExact
  BY DEF SlotInv
<1> QED BY SlotInvInit, SlotInvStep, <1>1, PTL DEF SlotSpec

\* In particular it does not wrap around, although Drop is a load and a
\* fetch_sub that other threads come between.
THEOREM SlotNeverWrapsUncleared == SlotSpec => [](clears = 0 => NeverWraps)
<1>1. SlotInv => (clears = 0 => NeverWraps)
  <2>1. Cardinality(Holders) <= Cardinality(Request)
    BY RequestAssumption, FS_Subset DEF Holders
  <2> QED BY <2>1 DEF SlotInv, CounterIsExact, NeverWraps
<1> QED BY SlotInvInit, SlotInvStep, <1>1, PTL DEF SlotSpec

-----------------------------------------------------------------------------
(* The token. *)

WithLock == {"recheck", "refresh", "store", "save"}
Reloading == {"reload", "compare", "adopt", "report"}

\* Whoever is past the lock holds it.
LockInv == \A t \in Task : pc[t] \in WithLock => lock = t

\* Until somebody else rotates a token, the one the authority accepts is in
\* memory, or on its way there from the call that holds the lock.
TokenInv ==
  ~foreign =>
    /\ ~invalid
    /\ \A t \in Task : pc[t] \notin Reloading
    /\ (\A t \in Task : pc[t] # "store") => mem.token = live
    /\ \A t \in Task : pc[t] = "store" => snap[t].token = live
    /\ \A t \in Task \ Forced : pc[t] = "refresh" => snap[t].token = live

RefreshInv == TypeOK /\ LockInv /\ TokenInv

LEMMA BlankType == NoSnapshot \in Credentials
  BY BoundsAssumption DEF NoSnapshot, Credentials

\* Credentials with a new refresh token are credentials.
LEMMA RenewedType ==
  ASSUME NEW c \in Credentials, NEW n \in 0..MaxToken, NEW f \in BOOLEAN
  PROVE  Renew(c, n, f) \in Credentials
  BY DEF Renew, Credentials

LEMMA RefreshInvInit == Init => RefreshInv
<1> SUFFICES ASSUME Init PROVE RefreshInv
  OBVIOUS
<1>1. TypeOK
  <2>1. mem \in Credentials
    BY BoundsAssumption DEF Init, Credentials
  <2>2. 0 \in 0..MaxToken /\ 0 \in 0..MaxEdit
    BY BoundsAssumption
  <2>3. pc \in [Task -> PC] /\ snap \in [Task -> Credentials]
    BY BlankType DEF Init, PC
  <2> QED BY <2>1, <2>2, <2>3 DEF Init, TypeOK
<1>2. LockInv /\ TokenInv
  BY DEF Init, LockInv, TokenInv, WithLock, Reloading
<1> QED BY <1>1, <1>2 DEF RefreshInv

-----------------------------------------------------------------------------
\* What taking new credentials or a new place does to the types.
LEMMA TakeType ==
  ASSUME TypeOK, NEW t \in Task, NEW creds \in Credentials, NEW label \in PC,
         Take(t, creds, label)
  PROVE  pc' \in [Task -> PC] /\ snap' \in [Task -> Credentials]
  BY DEF Take, Goto, TypeOK

LEMMA TypeStep == TypeOK /\ [Next]_vars => TypeOK'
<1> SUFFICES ASSUME TypeOK, [Next]_vars PROVE TypeOK'
  OBVIOUS
<1> USE BoundsAssumption
<1> DEFINE CallOK == pc' \in [Task -> PC] /\ snap' \in [Task -> Credentials]
<1>a. \A t \in Task : End(t) => CallOK
  BY BlankType, TakeType DEF End, PC
<1>b. \A t \in Task, label \in PC : Goto(t, label) /\ UNCHANGED snap => CallOK
  BY DEF Goto, TypeOK
<1>c. mem \in Credentials /\ snap \in [Task -> Credentials]
  BY DEF TypeOK
<1>1. ASSUME NEW t \in Task, Begin(t) PROVE TypeOK'
  <2>1. CallOK
    BY <1>c, <1>1, BlankType, TakeType DEF Begin, PC
  <2> QED BY <1>1, <2>1 DEF Begin, TypeOK
<1>2. ASSUME NEW t \in Task, Lock(t) PROVE TypeOK'
  <2>1. CallOK
    BY <1>b, <1>2 DEF Lock, PC
  <2> QED BY <1>2, <2>1 DEF Lock, TypeOK
<1>3. ASSUME NEW t \in Task, Recheck(t) PROVE TypeOK'
  <2>1. CallOK
    BY <1>a, <1>c, <1>3, TakeType DEF Recheck, PC
  <2> QED BY <1>3, <2>1 DEF Recheck, Unlock, TypeOK
<1>4. ASSUME NEW t \in Task, Refreshed(t) PROVE TypeOK'
  <2>1. live' \in 0..MaxToken
    BY <1>4 DEF Refreshed
  <2>2. Renew(snap[t], live', TRUE) \in Credentials
    <3>1. snap[t] \in Credentials
      BY <1>c
    <3> QED BY <2>1, <3>1, RenewedType
  <2>3. CallOK
    BY <1>4, <2>2, TakeType DEF Refreshed, PC
  <2> QED BY <1>4, <2>1, <2>3 DEF Refreshed, TypeOK
<1>5. ASSUME NEW t \in Task, RefreshFails(t) PROVE TypeOK'
  <2>1. CallOK
    BY <1>a, <1>5 DEF RefreshFails
  <2>2. live' \in 0..MaxToken
    BY <1>5 DEF RefreshFails, TypeOK
  <2>3. foreign' \in BOOLEAN
    BY Zenon, <1>5 DEF RefreshFails, TypeOK
  <2> QED BY <1>5, <2>1, <2>2, <2>3 DEF RefreshFails, Unlock, TypeOK
<1>6. ASSUME NEW t \in Task, Rejected(t) PROVE TypeOK'
  <2>1. CallOK
    BY <1>a, <1>6, BlankType, TakeType DEF Rejected, PC
  <2> QED BY <1>6, <2>1 DEF Rejected, Unlock, TypeOK
<1>7. ASSUME NEW t \in Task, Store(t) PROVE TypeOK'
  <2>1. CallOK
    BY <1>7, BlankType, TakeType DEF Store, PC
  <2> QED BY <1>c, <1>7, <2>1 DEF Store, TypeOK
<1>8. ASSUME NEW t \in Task, Save(t) PROVE TypeOK'
  <2>1. CallOK
    BY <1>a, <1>8 DEF Save
  <2>2. mem.token \in 0..MaxToken
    BY <1>c DEF Credentials
  <2> QED BY <1>8, <2>1, <2>2 DEF Save, Unlock, TypeOK
<1>9. ASSUME NEW t \in Task, ReadFile(t) PROVE TypeOK'
  <2>1. [NoSnapshot EXCEPT !.token = file] \in Credentials
    BY BlankType DEF TypeOK, Credentials
  <2>2. CallOK
    BY <1>9, <2>1, TakeType DEF ReadFile, PC
  <2> QED BY <1>9, <2>2 DEF ReadFile, TypeOK
<1>10. ASSUME NEW t \in Task, Compare(t) PROVE TypeOK'
  <2>1. CallOK
    BY <1>b, <1>10 DEF Compare, PC
  <2> QED BY <1>10, <2>1 DEF Compare, TypeOK
<1>11. ASSUME NEW t \in Task, AdoptFileToken(t) PROVE TypeOK'
  <2>1. CallOK
    BY <1>a, <1>11 DEF AdoptFileToken
  <2>2. mem' \in Credentials
    <3>1. PICK f \in BOOLEAN : mem' = Renew(mem, snap[t].token, f)
      BY <1>11 DEF AdoptFileToken
    <3>2. snap[t].token \in 0..MaxToken
      BY <1>c DEF Credentials
    <3> QED BY <1>c, <3>1, <3>2, RenewedType
  <2> QED BY <1>11, <2>1, <2>2 DEF AdoptFileToken, TypeOK
<1>12. ASSUME NEW t \in Task, ReportInvalid(t) PROVE TypeOK'
  <2>1. CallOK
    BY <1>a, <1>12 DEF ReportInvalid
  <2> QED BY <1>12, <2>1 DEF ReportInvalid, TypeOK
<1>13. CASE Environment
  <2>1. CASE Expire
    BY <2>1 DEF Expire, TypeOK, Credentials
  <2>2. CASE AdminEdit
    BY <2>2 DEF AdminEdit, TypeOK, Credentials
  <2>3. CASE ReplaceToken
    <3>1. PICK f \in BOOLEAN : mem' = Renew(mem, live', f)
      BY <2>3 DEF ReplaceToken
    <3>2. live' \in 0..MaxToken
      BY <2>3 DEF ReplaceToken, TypeOK
    <3>3. mem' \in Credentials
      BY <1>c, <3>1, <3>2, RenewedType
    <3> QED BY <2>3, <3>2, <3>3 DEF ReplaceToken, TypeOK
  <2>4. CASE AdminEnable
    BY <2>4 DEF AdminEnable, TypeOK
  <2>5. CASE OtherSave
    BY <2>5 DEF OtherSave, TypeOK, Credentials
  <2>6. CASE IdeRotates
    BY <2>6 DEF IdeRotates, TypeOK
  <2> QED BY <1>13, <2>1, <2>2, <2>3, <2>4, <2>5, <2>6 DEF Environment
<1>14. CASE UNCHANGED vars
  BY <1>14 DEF vars, TypeOK
<1> QED
  BY <1>1, <1>2, <1>3, <1>4, <1>5, <1>6, <1>7, <1>8, <1>9, <1>10, <1>11, <1>12, <1>13, <1>14
     DEF Next, RefreshStep

-----------------------------------------------------------------------------
\* The lock is exclusive.
LEMMA LockStep == RefreshInv /\ [Next]_vars => LockInv'
<1> SUFFICES ASSUME RefreshInv, [Next]_vars PROVE LockInv'
  OBVIOUS
<1>0. TypeOK /\ LockInv
  BY DEF RefreshInv
<1> USE NoTaskAssumption DEF LockInv, WithLock
<1>1. CASE UNCHANGED <<lock, pc>>
  BY <1>0, <1>1
<1>2. ASSUME NEW t \in Task, Begin(t) \/ Lock(t) PROVE LockInv'
  BY <1>0, <1>2 DEF Begin, Lock, Take, Goto, TypeOK
<1>3. ASSUME NEW t \in Task, RefreshStep(t) PROVE LockInv'
  <2>1. CASE pc[t] \in WithLock
    BY <1>0, <1>3, <2>1
       DEF RefreshStep, Recheck, Refreshed, RefreshFails, Rejected, Store, Save, ReadFile,
           Compare, AdoptFileToken, ReportInvalid, End, Take, Goto, Unlock, TypeOK
  <2>2. CASE pc[t] \notin WithLock
    BY <1>0, <1>3, <2>2
       DEF RefreshStep, Recheck, Refreshed, RefreshFails, Rejected, Store, Save, ReadFile,
           Compare, AdoptFileToken, ReportInvalid, End, Take, Goto, TypeOK
  <2> QED BY <2>1, <2>2
<1> QED
  BY <1>1, <1>2, <1>3
     DEF Next, Environment, Expire, AdminEdit, ReplaceToken, AdminEnable, OtherSave,
         IdeRotates, vars

\* No step of the program loses the token the authority accepts.
LEMMA TokenStep == RefreshInv /\ [Next]_vars => TokenInv'
<1> SUFFICES ASSUME RefreshInv, [Next]_vars, ~foreign' PROVE TokenInv'
  BY DEF TokenInv
<1>0. TypeOK /\ LockInv /\ TokenInv
  BY DEF RefreshInv
<1>1. ~foreign
  BY <1>0 DEF Next, RefreshStep, Environment, Begin, Lock, Recheck, Refreshed, RefreshFails,
              Rejected, Store, Save, ReadFile, Compare, AdoptFileToken, ReportInvalid, Expire,
              AdminEdit, ReplaceToken, AdminEnable, OtherSave, IdeRotates, vars, TypeOK
<1>2. /\ ~invalid
      /\ \A t \in Task : pc[t] \notin Reloading
      /\ (\A t \in Task : pc[t] # "store") => mem.token = live
      /\ \A t \in Task : pc[t] = "store" => snap[t].token = live
      /\ \A t \in Task \ Forced : pc[t] = "refresh" => snap[t].token = live
  BY <1>0, <1>1 DEF TokenInv
\* Nobody else is at the authority or about to store.
<1>3. ASSUME NEW t \in Task, pc[t] \in WithLock, NEW u \in Task, u # t
      PROVE  pc[u] \notin WithLock
  BY <1>0, <1>3 DEF LockInv
<1> USE DEF TokenInv, Reloading, WithLock
<1>4. ASSUME NEW t \in Task, Begin(t) \/ Lock(t) PROVE TokenInv'
  BY <1>0, <1>2, <1>4 DEF Begin, Lock, Take, Goto, TypeOK
<1>5. ASSUME NEW t \in Task, Recheck(t) PROVE TokenInv'
  <2>1. mem.token = live
    BY <1>2, <1>3, <1>5 DEF Recheck
  <2> QED BY <1>0, <1>2, <1>5, <2>1 DEF Recheck, End, Take, Goto, TypeOK
<1>6. ASSUME NEW t \in Task, Refreshed(t) PROVE TokenInv'
  <2>1. snap'[t].token = live' /\ pc'[t] = "store" /\ ~invalid'
    BY <1>0, <1>2, <1>6 DEF Refreshed, Renew, Take, Goto, TypeOK, Credentials
  <2>2. \A u \in Task : u # t => pc'[u] = pc[u] /\ pc[u] \notin WithLock
    BY <1>0, <1>3, <1>6 DEF Refreshed, Take, Goto, TypeOK
  <2> QED BY <1>2, <2>1, <2>2
<1>7. ASSUME NEW t \in Task, RefreshFails(t) PROVE TokenInv'
  <2>1. UNCHANGED <<mem, live, invalid>> /\ pc[t] = "refresh"
    BY <1>7 DEF RefreshFails
  <2> QED BY <1>0, <1>2, <1>7, <2>1 DEF RefreshFails, End, Take, Goto, TypeOK
<1>8. ASSUME NEW t \in Task, Rejected(t) PROVE TokenInv'
  <2>1. t \in Forced
    BY <1>2, <1>8 DEF Rejected
  <2> QED BY <1>0, <1>2, <1>8, <2>1 DEF Rejected, End, Take, Goto, TypeOK
<1>9. ASSUME NEW t \in Task, Store(t) PROVE TokenInv'
  <2>1. mem'.token = live' /\ ~invalid' /\ pc'[t] = "save"
    BY <1>0, <1>2, <1>9 DEF Store, Take, Goto, TypeOK
  <2>2. \A u \in Task : u # t => pc'[u] = pc[u] /\ pc[u] \notin WithLock
    BY <1>0, <1>3, <1>9 DEF Store, Take, Goto, TypeOK
  <2> QED BY <1>2, <2>1, <2>2
<1>10. ASSUME NEW t \in Task, Save(t) PROVE TokenInv'
  BY <1>0, <1>2, <1>10 DEF Save, End, Take, Goto, TypeOK
<1>11. ASSUME NEW t \in Task,
              ReadFile(t) \/ Compare(t) \/ AdoptFileToken(t) \/ ReportInvalid(t)
       PROVE  FALSE
  BY <1>2, <1>11 DEF ReadFile, Compare, AdoptFileToken, ReportInvalid
<1>12. CASE Environment
  BY <1>0, <1>2, <1>12
     DEF Environment, Expire, AdminEdit, ReplaceToken, AdminEnable, OtherSave, IdeRotates,
         TypeOK, Credentials, Renew
<1>13. CASE UNCHANGED vars
  BY <1>2, <1>13 DEF vars
<1> QED
  BY <1>4, <1>5, <1>6, <1>7, <1>8, <1>9, <1>10, <1>11, <1>12, <1>13 DEF Next, RefreshStep

-----------------------------------------------------------------------------
\* The inductive invariant.
THEOREM RefreshInvariant == Spec => []RefreshInv
<1>1. RefreshInv /\ [Next]_vars => RefreshInv'
  BY TypeStep, LockStep, TokenStep DEF RefreshInv
<1> QED BY RefreshInvInit, <1>1, PTL DEF Spec

\* Every variable keeps its type.
THEOREM RefreshTypes == Spec => []TypeOK
<1>1. RefreshInv => TypeOK
  BY DEF RefreshInv
<1> QED BY <1>1, RefreshInvariant, PTL

\* try_ensure_token, the queries, forced refreshes and edits together lose no
\* rotation that reached the program.
THEOREM RefreshRotationIsKept == Spec => []RotationIsKept
<1>1. RefreshInv => RotationIsKept
  BY NoTaskAssumption DEF RefreshInv, RotationIsKept, LockInv, TokenInv, WithLock
<1> QED BY <1>1, RefreshInvariant, PTL

\* A credential is disabled for its refresh token only if somebody else, or an
\* answer that was lost, invalidated it.
THEOREM RefreshOnlyOthersInvalidate == Spec => []OnlyOthersInvalidate
<1>1. RefreshInv => OnlyOthersInvalidate
  BY DEF RefreshInv, OnlyOthersInvalidate, TokenInv, TypeOK
<1> QED BY <1>1, RefreshInvariant, PTL

\* The double check under refresh_lock: a request never spends a token that
\* another call has already rotated.
THEOREM RefreshRequestSendsLiveToken == Spec => []RequestSendsLiveToken
<1>1. RefreshInv => RequestSendsLiveToken
  BY DEF RefreshInv, RequestSendsLiveToken, TokenInv
<1> QED BY <1>1, RefreshInvariant, PTL

=============================================================================
