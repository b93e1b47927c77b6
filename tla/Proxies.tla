------------------------------ MODULE Proxies ------------------------------
(* The proxy pool (src/src/admin/proxy_pool.rs): outbound proxies an          *)
(* administrator lists, switches and hands to accounts, and the health checks *)
(* that switch off those that fail several times in a row.  A check takes the *)
(* proxies it probes under the lock, probes without it, and writes the        *)
(* results back by id; in between the pool changes.  Every change is saved in *)
(* a section of its own, in place.                                            *)
EXTENDS Naturals, Sequences, SequencesExt

CONSTANTS
    Urls,
    Dead,              \* proxies no probe gets through
    Checks,            \* checks that run at a time; one is the background's
    Background,
    ProxyAccounts,     \* the accounts' ids, in their order
    NoProxy,           \* an account without a proxy
    MaxProbeFailures,  \* MAX_PROXY_PROBE_FAILURES
    MaxPoolCalls,      \* bound: calls of the administrator
    MaxPoolRestarts    \* bound: restarts

ASSUME PoolAssumption ==
    /\ IsFiniteSet(Urls) /\ Dead \subseteq Urls
    /\ Background \in Checks /\ MaxProbeFailures \in Nat \ {0}

VARIABLES
    proxies,           \* entries: id |-> [url, enabled, health, failures, auto]
    nextProxy,         \* next_id
    proxyFile,         \* the file: [whole, pool]
    saves,             \* changes whose persist has not run yet
    unsaved,           \* history: the last write failed
    checks,            \* per check: [at, one, targets]
    accountProxy,      \* proxy_url of every account
    assigning,         \* assignments under way: <<account, url>> to come
    evidence,          \* history: id |-> failed probes of this very proxy in a row
    poolCalls, poolRestarts

proxyVars == <<proxies, nextProxy, proxyFile, saves, unsaved, checks, accountProxy,
               assigning, evidence, poolCalls, poolRestarts>>

NewProxy(url) ==
    [url |-> url, enabled |-> TRUE, health |-> "unknown", failures |-> 0, auto |-> FALSE]

NoCheck == [at |-> "idle", one |-> FALSE, targets |-> {}]

PoolCall == poolCalls < MaxPoolCalls /\ poolCalls' = poolCalls + 1

\* The id after the highest one (ProxyPoolManager::new).
FirstFree(pool) == 1 + Max(DOMAIN pool \union {0})

-----------------------------------------------------------------------------
(* The administrator's calls.                                                *)

\* add and batch_add: URLs the pool has are refused, the others are appended
\* with ids from `next` on.
AddFrom(us, next) ==
    LET new == us \ {proxies[i].url : i \in DOMAIN proxies}
        ids == next .. (next + Cardinality(new) - 1)
    IN  /\ PoolCall
        /\ nextProxy' = nextProxy + Cardinality(new)
        /\ \E order \in SetToSeqs(new) :
                proxies' = [i \in DOMAIN proxies \union ids |->
                                IF i \in ids THEN NewProxy(order[i - next + 1]) ELSE proxies[i]]
        /\ evidence' = [i \in DOMAIN evidence \union ids |->
                            IF i \in ids THEN 0 ELSE evidence[i]]
        /\ saves' = saves + (IF new = {} THEN 0 ELSE 1)
        /\ UNCHANGED <<proxyFile, unsaved, checks, accountProxy, assigning, poolRestarts>>

\* Mutant: the next id is the one after the highest there is.
AddProxies_ReuseId(us) == AddFrom(us, FirstFree(proxies))

AddProxies(us) == AddFrom(us, nextProxy)

DeleteProxy(id) ==
    /\ PoolCall
    /\ proxies' = Restrict(proxies, DOMAIN proxies \ {id})
    /\ saves' = saves + 1
    /\ UNCHANGED <<nextProxy, proxyFile, unsaved, checks, accountProxy, assigning, evidence,
                   poolRestarts>>

SetProxyEnabled(id, on) ==
    /\ PoolCall
    /\ proxies' = [proxies EXCEPT ![id] =
                      IF on THEN [@ EXCEPT !.enabled = TRUE, !.auto = FALSE, !.failures = 0]
                      ELSE [@ EXCEPT !.enabled = FALSE]]
    /\ evidence' = IF on THEN [evidence EXCEPT ![id] = 0] ELSE evidence
    /\ saves' = saves + 1
    /\ UNCHANGED <<nextProxy, proxyFile, unsaved, checks, accountProxy, assigning, poolRestarts>>

\* assign_proxy_to_credential reads the URL of an enabled proxy, and
\* assign_proxies_round_robin those of all that are not unhealthy; the accounts
\* get them afterwards, one by one.
ReadUrls ==
    LET usable == SelectSeq(SetToSortSeq(DOMAIN proxies, <),
                            LAMBDA i : proxies[i].enabled /\ proxies[i].health # "unhealthy")
    IN  /\ assigning = <<>> /\ PoolCall
        /\ \/ \E a \in DOMAIN ProxyAccounts,
                 url \in {proxies[i].url : i \in {j \in DOMAIN proxies : proxies[j].enabled}}
                         \union {NoProxy} :
                assigning' = << <<ProxyAccounts[a], url>> >>
           \/ /\ usable # <<>>
              /\ assigning' = [i \in DOMAIN ProxyAccounts |->
                    <<ProxyAccounts[i], proxies[usable[((i - 1) % Len(usable)) + 1]].url>>]
        /\ UNCHANGED <<proxies, nextProxy, proxyFile, saves, unsaved, checks, accountProxy,
                       evidence, poolRestarts>>

\* update_credential with a proxy_url (CredentialStore saves the account).
AssignNext ==
    /\ assigning # <<>>
    /\ accountProxy' = [accountProxy EXCEPT ![Head(assigning)[1]] = Head(assigning)[2]]
    /\ assigning' = Tail(assigning)
    /\ UNCHANGED <<proxies, nextProxy, proxyFile, saves, unsaved, checks, evidence,
                   poolCalls, poolRestarts>>

-----------------------------------------------------------------------------
(* Saving.                                                                   *)

\* persist: whatever the pool is when the lock is free again.
WritePool ==
    \/ proxyFile' = [whole |-> TRUE, pool |-> proxies] /\ unsaved' = FALSE
    \/ unsaved' = TRUE /\ UNCHANGED proxyFile

Save ==
    /\ saves > 0 /\ saves' = saves - 1
    /\ WritePool
    /\ UNCHANGED <<proxies, nextProxy, checks, accountProxy, assigning, evidence,
                   poolCalls, poolRestarts>>

-----------------------------------------------------------------------------
(* Health checks.                                                            *)

Target(i) == [id |-> i, url |-> proxies[i].url]

StartCheck(c, ids, one) ==
    /\ checks[c].at = "idle"
    /\ checks' = [checks EXCEPT ![c] = [at |-> "probing", one |-> one,
                                       targets |-> {Target(i) : i \in ids}]]
    /\ UNCHANGED <<proxies, nextProxy, proxyFile, saves, unsaved, accountProxy, assigning,
                   evidence, poolRestarts>>

Enabled == {i \in DOMAIN proxies : proxies[i].enabled}

\* Mutant: the background task leaves out what it has found unhealthy.
CheckAll_SkipsUnhealthy(c) ==
    LET sound == {i \in Enabled : proxies[i].health # "unhealthy"}
    IN  /\ sound # {}
        /\ IF c = Background THEN UNCHANGED poolCalls ELSE PoolCall
        /\ StartCheck(c, IF c = Background THEN sound ELSE Enabled, FALSE)

\* check_all, by the background task or the administrator, and check_one.
CheckAll(c) ==
    /\ Enabled # {}
    /\ IF c = Background THEN UNCHANGED poolCalls ELSE PoolCall
    /\ StartCheck(c, Enabled, FALSE)

CheckOne(c, id) == c # Background /\ PoolCall /\ StartCheck(c, {id}, TRUE)

\* apply_probe_result
Applied(e, ok) ==
    IF ok THEN [e EXCEPT !.health = "healthy", !.failures = 0]
    ELSE LET off == e.failures + 1 >= MaxProbeFailures /\ e.enabled
         IN  [e EXCEPT !.health = "unhealthy", !.failures = @ + 1,
                       !.enabled = @ /\ ~off, !.auto = @ \/ off]

\* The results come back, and land on the entries that still have the ids.
\* check_one of an entry that is gone answers an error and saves nothing.
Results(c) ==
    LET hit(i) == {t \in checks[c].targets : t.id = i}
        there  == {i \in DOMAIN proxies : hit(i) # {}}
    IN  /\ checks[c].at = "probing"
        /\ \E up \in SUBSET {t \in checks[c].targets : t.url \notin Dead} :
            /\ proxies' = [i \in DOMAIN proxies |->
                  IF i \in there THEN Applied(proxies[i], hit(i) \subseteq up) ELSE proxies[i]]
            /\ evidence' = [i \in DOMAIN evidence |->
                  IF i \notin there THEN evidence[i]
                  ELSE IF hit(i) \subseteq up THEN 0
                  ELSE IF Target(i) \in hit(i) THEN evidence[i] + 1 ELSE evidence[i]]
        /\ checks' = [checks EXCEPT ![c] =
                         IF checks[c].one /\ there = {} THEN NoCheck
                         ELSE [NoCheck EXCEPT !.at = "saving"]]
        /\ UNCHANGED <<nextProxy, proxyFile, saves, unsaved, accountProxy, assigning,
                       poolCalls, poolRestarts>>

SaveResults(c) ==
    /\ checks[c].at = "saving" /\ checks' = [checks EXCEPT ![c] = NoCheck]
    /\ WritePool
    /\ UNCHANGED <<proxies, nextProxy, saves, accountProxy, assigning, evidence,
                   poolCalls, poolRestarts>>

\* The background task: sleep, check_all, sleep.
HealthChecker == CheckAll(Background) \/ Results(Background) \/ SaveResults(Background)

\* The process ends, perhaps within a write, and starts again.
RestartProxies ==
    /\ poolRestarts < MaxPoolRestarts /\ poolRestarts' = poolRestarts + 1
    /\ \E torn \in {FALSE, saves > 0 \/ \E c \in Checks : checks[c].at = "saving"} :
        LET pool == IF proxyFile.whole /\ ~torn THEN proxyFile.pool ELSE <<>>
        IN  /\ proxies' = pool
            /\ nextProxy' = FirstFree(pool)
            /\ evidence' = [i \in DOMAIN pool |-> pool[i].failures]
            /\ proxyFile' = [proxyFile EXCEPT !.whole = @ /\ ~torn]
    /\ saves' = 0 /\ unsaved' = TRUE
    /\ checks' = [c \in Checks |-> NoCheck] /\ assigning' = <<>>
    /\ UNCHANGED <<accountProxy, poolCalls>>

ProxyInit ==
    /\ \E url \in Urls : proxies = <<NewProxy(url)>>
    /\ evidence = <<0>> /\ nextProxy = 2
    /\ proxyFile = [whole |-> TRUE, pool |-> proxies]
    /\ saves = 0 /\ unsaved = FALSE
    /\ checks = [c \in Checks |-> NoCheck]
    /\ accountProxy = [a \in Range(ProxyAccounts) |-> NoProxy] /\ assigning = <<>>
    /\ poolCalls = 0 /\ poolRestarts = 0

ProxyNext ==
    \/ \E us \in SUBSET Urls \ {{}} : AddProxies(us)
    \/ \E id \in DOMAIN proxies :
          \/ DeleteProxy(id) \/ \E on \in BOOLEAN : SetProxyEnabled(id, on)
          \/ \E c \in Checks : CheckOne(c, id)
    \/ ReadUrls \/ AssignNext \/ Save \/ RestartProxies
    \/ \E c \in Checks : CheckAll(c) \/ Results(c) \/ SaveResults(c)

ProxySpec == ProxyInit /\ [][ProxyNext]_proxyVars /\ WF_proxyVars(HealthChecker)

-----------------------------------------------------------------------------
(* Properties.                                                               *)

\* A proxy answers for itself: every failure it is charged with is a failed
\* probe of this very proxy since it last got through or was enabled, also when
\* proxies are deleted, added and enabled while probes are under way; one that
\* is enabled is below the limit, and one that was disabled by a check is not
\* enabled (check_all and set_enabled, proxy_pool.rs).
FailuresAreItsOwn ==
    \A i \in DOMAIN proxies :
        /\ proxies[i].failures <= evidence[i]
        /\ proxies[i].enabled => proxies[i].failures < MaxProbeFailures /\ ~proxies[i].auto

\* Although every save runs after the lock was given up, the file is the pool
\* as soon as nobody has one left to do (persist, proxy_pool.rs; unless the last
\* write failed).
PoolFileFollows ==
    saves = 0 /\ ~unsaved /\ (\A c \in Checks : checks[c].at # "saving") =>
        proxyFile = [whole |-> TRUE, pool |-> proxies]

\* The pool says of its proxies what is true, in memory and in the file.
PoolIsTrue == FailuresAreItsOwn /\ PoolFileFollows

\* A proxy that no probe gets through does not stay enabled
\* (start_proxy_health_checker, service.rs).
DeadProxiesRetire ==
    \A url \in Dead :
        LET on == \E i \in Enabled : proxies[i].url = url
        IN  on ~> ~on
=============================================================================
