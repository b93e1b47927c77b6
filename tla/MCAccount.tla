------------------------------ MODULE MCAccount ------------------------------
(* What the requests of one account share besides the scheduler: its token,   *)
(* refreshed by two requests and a forced refresh (TokenRefresh), and its     *)
(* slots, counted in three bits for three requests (ConcurrencySlot).  They   *)
(* share no state: a behaviour is one of the two, while the other stands      *)
(* still.  An administrator edits the account beside one request and the      *)
(* forced refresh only.                                                       *)
EXTENDS TokenRefresh, ConcurrencySlot

CONSTANTS t1, t2, f1, r1, r2, r3

VARIABLE side        \* "token", "edits" or "slots"

OnToken == side = "token" /\ Next /\ UNCHANGED <<side, slotVars, edits>>
OnEdits == side = "edits" /\ Next /\ pc'[t2] = "idle" /\ UNCHANGED <<side, slotVars>>
OnSlots == side = "slots" /\ SlotNext /\ UNCHANGED <<side, vars>>

AccountInit ==
    /\ side \in {"token", "edits", "slots"} /\ Init /\ SlotInit

AccountNext == OnToken \/ OnEdits \/ OnSlots

AccountSpec ==
    /\ AccountInit /\ [][AccountNext]_<<side, vars, slotVars>>
    /\ \A t \in Task : WF_vars(RefreshStep(t)) /\ SF_vars(Lock(t))
    /\ SlotFairness

\* For the questions that are about the token alone.
TokenOnly == AccountInit /\ side = "token"
=============================================================================
