----------------------------- MODULE MCGateway -----------------------------
(* A small gateway: two requests, the system key and one more that is in the *)
(* file at the start, accounts of which one is in the group, days of an hour. *)
EXTENDS Gateway, TLC

CONSTANTS r1, r2, s0, s1, g1

MCRequests == {r1, r2}
MCSecrets == {s0, s1}
MCGroups == {g1}
MCGroupsOf == (1 :> {g1}) @@ (2 :> {})
MCConvs == {[session |-> "none", root |-> "m"], [session |-> "s", root |-> "m"]}
MCAccounts == {1}
MCTwoAccounts == {1, 2}
MCRetention == {1}
MCLogsAtStart == 0 :> {[id |-> "old", ts |-> 0, key |-> 1, cred |-> 1, ok |-> TRUE]}
MCKeysAtStart == 1 :> [Entry(s1, g1, FALSE) EXCEPT !.rcache = "on"]

(* The first request fills the cache, the second may find its answer there. *)
Ask(s, kind, session) ==
    [secret |-> s, kind |-> kind, conv |-> [session |-> session, root |-> "m"]]
MCMayAsk ==
    r1 :> {Ask(s1, "buffered", "none"), Ask(s1, "json", "s")}
    @@ r2 :> {Ask(s1, "sse", "none"), Ask(s0, "json", "s")}
=============================================================================
