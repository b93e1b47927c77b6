---------------------------- MODULE DurableStore ----------------------------
(***************************************************************************)
(* What the credential store promises its callers, with no lock, no        *)
(* temporary file and no tasks: the in-memory list moves forward one       *)
(* change at a time, the file on disk follows it and never runs backwards, *)
(* and a change that was acknowledged as saved is on disk, so a process    *)
(* that dies and comes back still has it.  CredentialStore implements      *)
(* this specification.                                                     *)
(*                                                                         *)
(* The contents of the list are a version number: the number of changes    *)
(* that led to it.                                                         *)
(***************************************************************************)
EXTENDS Integers

VARIABLES mem,       \* version of the list in memory
          durable,   \* version a restart would load
          promised   \* newest version a caller was told is saved

vars == <<mem, durable, promised>>

Init == /\ mem \in Nat
        /\ durable = mem
        /\ promised = 0

Change == /\ mem' = mem + 1
          /\ UNCHANGED <<durable, promised>>

\* The file catches up, perhaps not all the way, and with it what callers are
\* told.
Flush == /\ durable' \in durable..mem
         /\ promised' \in promised..durable'
         /\ UNCHANGED mem

\* The process is lost; the next one starts from the file, and may complete
\* missing identifiers before anybody is served.
Restart == /\ mem' \in {durable, durable + 1}
           /\ durable' \in durable..mem'
           /\ UNCHANGED promised

Next == Change \/ Flush \/ Restart

Spec == Init /\ [][Next]_vars
=============================================================================
