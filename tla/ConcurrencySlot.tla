-------------------------- MODULE ConcurrencySlot --------------------------
(***************************************************************************)
(* The in_flight counter of one credential, as the processor sees it: an   *)
(* AtomicU32 that a request reads when the credential is chosen, raises    *)
(* after it has awaited a token, and lowers when its ConcurrencySlot is    *)
(* dropped; clear_concurrency may set it to zero at any moment.  The drop  *)
(* is two operations, a load and a fetch_sub, with other threads between.  *)
(*                                                                         *)
(* CredentialPool counts the holders of slots instead of this counter:     *)
(* CounterIsExact says when the two are the same.                          *)
(***************************************************************************)
EXTENDS Integers, FiniteSets

CONSTANTS Request,   \* requests that may use the credential
          Limit,     \* effective_concurrency_limit
          Modulus,   \* the counter wraps here (2^32 in the program)
          MaxClears  \* bound: how often an administrator clears the counter

ASSUME RequestAssumption == IsFiniteSet(Request)
ASSUME LimitAssumption == Limit \in Nat \ {0}
ASSUME ModulusAssumption == Modulus \in Nat /\ Modulus > Cardinality(Request)
ASSUME MaxClearsAssumption == MaxClears \in Nat

VARIABLES counter, \* entry.in_flight
          holder,  \* per request: idle, waiting for its token, holding the slot, dropping it
          clears   \* calls of clear_concurrency so far

slotVars == <<counter, holder, clears>>

Turn(r, label) == holder' = [holder EXCEPT ![r] = label]

\* The requests whose slot counts: up to the fetch_sub.
Holders == {r \in Request : holder[r] \in {"held", "dropping"}}

SlotTypeOK ==
  /\ counter \in 0..(Modulus - 1)
  /\ holder \in [Request -> {"idle", "token", "held", "dropping"}]
  /\ clears \in 0..MaxClears

-----------------------------------------------------------------------------
SlotInit ==
  /\ counter = 0
  /\ holder = [r \in Request |-> "idle"]
  /\ clears = 0

\* The credential is chosen only while the counter is below the limit.
Choose(r) ==
  /\ holder[r] = "idle"
  /\ counter < Limit
  /\ Turn(r, "token")
  /\ UNCHANGED <<counter, clears>>

\* try_ensure_token fails: no slot was taken.
TokenFails(r) ==
  /\ holder[r] = "token"
  /\ Turn(r, "idle")
  /\ UNCHANGED <<counter, clears>>

\* ConcurrencySlot::acquire, a fetch_add that does not look at the limit.
Acquire(r) ==
  /\ holder[r] = "token"
  /\ counter' = (counter + 1) % Modulus
  /\ Turn(r, "held")
  /\ UNCHANGED clears

\* Fault: the path of a network error, which reports nothing, forgets the slot.
DropLoad_ForgetsOnError(r) ==
  /\ holder[r] = "held"
  /\ \/ counter > 0 /\ Turn(r, "dropping")
     \/ Turn(r, "idle")
  /\ UNCHANGED <<counter, clears>>

\* Fault: off by one, the last slot is never given back.
DropLoad_KeepsOne(r) ==
  /\ holder[r] = "held"
  /\ IF counter > 1 THEN Turn(r, "dropping") ELSE Turn(r, "idle")
  /\ UNCHANGED <<counter, clears>>

\* Drop: the load.  At zero there is nothing to give back.
DropLoad(r) ==
  /\ holder[r] = "held"
  /\ IF counter > 0 THEN Turn(r, "dropping") ELSE Turn(r, "idle")
  /\ UNCHANGED <<counter, clears>>

\* Drop: the fetch_sub, which wraps.
DropSubtract(r) ==
  /\ holder[r] = "dropping"
  /\ counter' = (counter - 1) % Modulus
  /\ Turn(r, "idle")
  /\ UNCHANGED clears

ClearConcurrency ==
  /\ clears < MaxClears
  /\ counter' = 0
  /\ clears' = clears + 1
  /\ UNCHANGED holder

SlotNext ==
  \/ \E r \in Request :
       Choose(r) \/ TokenFails(r) \/ Acquire(r) \/ DropLoad(r) \/ DropSubtract(r)
  \/ ClearConcurrency

SlotSpec == SlotInit /\ [][SlotNext]_slotVars

\* A request that was started ends: its calls have timeouts, and Drop does not
\* wait for anything.
SlotFairness ==
  \A r \in Request :
    /\ WF_slotVars(Acquire(r) \/ TokenFails(r))
    /\ WF_slotVars(DropLoad(r))
    /\ WF_slotVars(DropSubtract(r))

SlotFairSpec == SlotSpec /\ SlotFairness

-----------------------------------------------------------------------------
\* As long as nobody clears it, the counter is the number of requests that
\* hold a slot, whatever overlaps: no path of a request leaks a slot or gives
\* one back twice, and a load that found it positive is still right at the
\* fetch_sub.
CounterIsExact == clears = 0 => counter = Cardinality(Holders)

\* A credential at its limit is given out again, unless the counter is cleared.
FullCredentialFreesUp ==
  [](clears = 0) => (counter >= Limit ~> counter < Limit)

\* token_manager.rs:1163: a slot dropped after clear_concurrency does not wrap
\* the counter around.
NeverWraps == counter <= Cardinality(Request)
=============================================================================
