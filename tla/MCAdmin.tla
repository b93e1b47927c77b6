------------------------------- MODULE MCAdmin -------------------------------
(* The administrator's side of the gateway: groups, the proxy pool, logins,   *)
(* or accounts that are imported and deleted.  They share no state, so a      *)
(* behaviour is one of the four while the others stand still.                 *)
EXTENDS Groups, Proxies, Logins, Accounts, TLC

VARIABLE section     \* "groups", "proxies", "logins" or "accounts"

adminVars == <<section, groupVars, proxyVars, loginVars, accountVars>>

MCMembers == "x" :> {"g"} @@ "y" :> {}

MCProxyAccounts == <<"x", "y">>

MCOffers == {<<"s", "local", "new">>, <<"s", "remote", "x">>, <<"t", "idc", "x">>}

MCBatch == <<"t", "k">>

OnGroups == section = "groups" /\ GroupsNext
            /\ UNCHANGED <<section, proxyVars, loginVars, accountVars>>
OnProxies == section = "proxies" /\ ProxyNext
             /\ UNCHANGED <<section, groupVars, loginVars, accountVars>>
OnLogins == section = "logins" /\ LoginNext
            /\ UNCHANGED <<section, groupVars, proxyVars, accountVars>>
OnAccounts == section = "accounts" /\ AccountsNext
              /\ UNCHANGED <<section, groupVars, proxyVars, loginVars>>

AdminInit ==
    /\ section \in {"groups", "proxies", "logins", "accounts"}
    /\ GroupsInit /\ ProxyInit /\ LoginInit /\ AccountsInit
    /\ section # "groups" => bound = [k \in BoundKeys |-> Unbound]
    /\ section = "proxies" <=> proxies[1].url \in Dead
    /\ section # "logins" => \A x \in Targets : account[x].enabled
    /\ section # "accounts" => verify /\ ~rotates

AdminNext == OnGroups \/ OnProxies \/ OnLogins \/ OnAccounts

AdminSpec ==
    /\ AdminInit /\ [][AdminNext]_adminVars
    /\ WF_proxyVars(section = "proxies" /\ HealthChecker)
    /\ WF_loginVars(Sweep)
    /\ \A s \in Logins : WF_loginVars(Expire(s)) /\ SF_loginVars(ShutDown(s))
    /\ \A c \in Pollers : WF_loginVars(Serve(c))
=============================================================================
