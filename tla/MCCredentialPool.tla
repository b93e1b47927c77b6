-------------------------- MODULE MCCredentialPool --------------------------
(* CredentialPool with two identifiers and two requests: one that any        *)
(* credential can serve and one that only the second can.                    *)
EXTENDS CredentialPool, TLC

CONSTANTS r1, r2

MCServes == (r1 :> {1, 2}) @@ (r2 :> {2})
MCStickyFactor == (r1 :> 1) @@ (r2 :> 2)
MCLimit == (1 :> 1) @@ (2 :> 1)
\* The second credential may come before the first or after it.
MCPriorities == (1 :> {1}) @@ (2 :> {0, 2})

\* The first credential is the fallback: it is never cooled down, and only an
\* administrator or its failures take it out of service.
\* The second goes through everything.
FallbackBound ==
  /\ ~throttled[1]
  /\ reason[1] \in {NoReason, "Manual", "TooManyFailures"}
=============================================================================
