-------------------------------- MODULE MCCall --------------------------------
(* The two ends of a call to Kiro: the scheduler that gives it a credential   *)
(* and takes its outcome (MCCredentialPool), and the events of its answer     *)
(* (MCSseStream).  They share no state: a behaviour is one of the two, while  *)
(* the other stands still.                                                    *)
EXTENDS MCCredentialPool, MCSseStream

VARIABLE part        \* "pool" or "answer"

Scheduling == part = "pool" /\ Next /\ UNCHANGED <<part, streamVars>>
Answering == part = "answer" /\ StreamNext /\ UNCHANGED <<part, vars>>

\* A state for the pool, and one for the answer, to stand still in.
IdlePool ==
    /\ present = {1} /\ mode = "priority"
    /\ \A c \in Cred : reason[c] = NoReason /\ priority[c] = AnyPriority(c)

CallInit ==
    /\ part \in {"pool", "answer"}
    /\ Init /\ StreamInit
    /\ IF part = "pool" THEN request = "tools" ELSE IdlePool

CallNext == Scheduling \/ Answering
===============================================================================
