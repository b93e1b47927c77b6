----------------------------- MODULE MCManager -----------------------------
(* The manager of the accounts, seen from outside: the calls that Provider    *)
(* makes to the scheduler, or the saves of its list (CredentialStore).  The   *)
(* saves share no state with the calls here: a behaviour is one of the two,   *)
(* while the other stands still.  Two credentials, a call of the API and one  *)
(* of a tool; two tasks that save.                                            *)
EXTENDS Provider, CredentialStore, TLC

CONSTANTS r1, r2

VARIABLE half        \* "calls" or "saves"

\* Calls one after the other, any number of them, in both modes, on credentials
\* that the file holds in any state; cooldowns end at any time.  How requests and
\* administrators disturb one another is checked with CredentialPool, and what
\* Provider adds concerns the steps of one call.
OnCalls ==
  /\ half = "calls"
  /\ \/ \E r \in Request :
          /\ \A q \in Request \ {r} : stage[q] = "out" /\ pc[q] = "idle"
          /\ StartCall(r) \/ CallStep(r) \/ StreamEnds(r)
     \/ \E c \in Cred : CooldownEnds(c) /\ UNCHANGED callVars
  /\ UNCHANGED <<half, storeVars>>

OnSaves == half = "saves" /\ StoreNext /\ UNCHANGED <<half, allVars>>

ManagerInit ==
  /\ half \in {"calls", "saves"} /\ CallInit /\ StoreInit
  /\ half = "saves" => mode = "priority" /\ \A c \in Cred : reason[c] = NoReason

ManagerSpec ==
  /\ ManagerInit /\ [][OnCalls \/ OnSaves]_<<half, allVars, storeVars>>
  /\ \A r \in Request : WF_allVars(CallStep(r))
  /\ StoreFairness

MCServes == (r1 :> {1, 2}) @@ (r2 :> {2})
MCStickyFactor == (r1 :> 1) @@ (r2 :> 1)
MCLimit == (1 :> 1) @@ (2 :> 1)
MCPriorities == (1 :> {1}) @@ (2 :> {2})
=============================================================================
