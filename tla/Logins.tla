------------------------------- MODULE Logins -------------------------------
(* Signing accounts in from the admin page (src/src/admin/service.rs with    *)
(* kiro/auth/social.rs and idc.rs).  A social login waits for the browser's  *)
(* callback, at a callback server of its own on a local port or at a public  *)
(* route of the gateway; an IdC login waits for the user to approve a device *)
(* code.  The page polls the session, several tabs at a time, and may paste  *)
(* the callback by hand; the poll that sees the outcome exchanges it for a   *)
(* token and adds an account, or updates the account that is signed in again *)
(* (disable, update, enable: three lock sections).                           *)
EXTENDS Naturals, FiniteSets

CONSTANTS
    Logins,          \* session ids
    Pollers,         \* requests for sessions that run at a time
    Targets,         \* accounts there are
    Offers,          \* logins the administrator may begin: <<session, kind, target>>
    NewAccount,      \* the target of a login that is to add one
    Old,             \* the token an account has at first
    Ports            \* number of CALLBACK_PORTS

ASSUME OffersAssumption ==
       /\ NewAccount \notin Targets
       /\ Offers \subseteq Logins \X {"local", "remote", "idc"} \X (Targets \union {NewAccount})
       /\ Old \notin Logins /\ Ports \in Nat

VARIABLES
    login,           \* per session: [kind, at, target, channel, server, held, due, grant]
    poller,          \* per request: [at, s, state, refresh, alone]
    account,         \* per target: [present, enabled, token]
    exchanged,       \* history: session |-> codes or grants turned into tokens
    added            \* history: session |-> accounts added

loginVars == <<login, poller, account, exchanged, added>>

\* channel: the oneshot of a social session, "empty", the state of the callback
\* in it, or "closed" once that was taken or the sender is gone.
\* server: the callback server of a local session, "off", where it "listens" or
\* "reads" what a connection says.  held: its ServerHandle has not been dropped.
\* grant: an IdC session's device code, "waiting", "approved" or "used".
NoLogin == [kind |-> "local", at |-> "unused", target |-> NewAccount, channel |-> "empty",
            server |-> "off", held |-> FALSE, due |-> FALSE, grant |-> "waiting"]

NoPoll == [at |-> "idle", s |-> CHOOSE s \in Logins : TRUE, state |-> "none",
           refresh |-> FALSE, alone |-> FALSE]

Open(s) == login[s].at = "open"
Social(s) == login[s].kind \in {"local", "remote"}
Aim(c) == login[poller[c].s].target

SameHistory == UNCHANGED <<exchanged, added>>

-----------------------------------------------------------------------------
(* Sessions, browsers and the clock.                                         *)

\* A login that updates an account needs the account (the two relogins).
MayBegin(target) == target \in Targets => account[target].present

Begins(s, kind, target) ==
    /\ login[s].at = "unused" /\ MayBegin(target)
    /\ login' = [login EXCEPT ![s] = [NoLogin EXCEPT !.kind = kind, !.at = "open",
                                         !.target = target, !.held = (kind = "local"),
                                         !.server = IF kind = "local" THEN "listens" ELSE "off"]]
    /\ UNCHANGED <<poller, account>> /\ SameHistory

FreePort == Cardinality({t \in Logins : login[t].server # "off"}) < Ports

\* start_social_login: a local one needs a port for its callback server.
StartSocial(s, kind, target) ==
    /\ kind \in {"local", "remote"}
    /\ kind = "local" => FreePort
    /\ Begins(s, kind, target)

\* start_idc_login, once the client is registered and the device has a code.
StartIdc(s, kind, target) == kind = "idc" /\ Begins(s, kind, target)

\* run_callback_server, as long as it has a port: it listens for connections and
\* for the end of its handle, and reads what a connection says, however long that
\* takes.
ServerStep(s, at, server, channel) ==
    /\ login[s].server = at
    /\ login' = [login EXCEPT ![s].server = server, ![s].channel = channel]
    /\ UNCHANGED <<poller, account>> /\ SameHistory

Accept(s) == ServerStep(s, "listens", "reads", login[s].channel)

\* The first callback ends the server, whatever state it carries; one that reports
\* an error ends it without a word.
Callback(s, state) ==
    \/ ServerStep(s, "reads", "off", IF login[s].channel = "closed" THEN "closed" ELSE state)
    \/ ServerStep(s, "reads", "off", "closed")

\* Another request, an error, or a connection that is closed again.
OtherRequest(s) == ServerStep(s, "reads", "listens", login[s].channel)

ShutDown(s) == ~login[s].held /\ ServerStep(s, "listens", "off", "closed")

CallbackServer(s) ==
    Accept(s) \/ OtherRequest(s) \/ ShutDown(s) \/ \E t \in Logins : Callback(s, t)

\* deliver_remote_social_callback: finds the session by the state; the sender
\* is there once.
Deliver(s) ==
    /\ Open(s) /\ login[s].kind = "remote" /\ ~login[s].due /\ login[s].channel = "empty"
    /\ login' = [login EXCEPT ![s].channel = s]
    /\ UNCHANGED <<poller, account>> /\ SameHistory

Approve(s) ==
    /\ login[s].kind = "idc" /\ login[s].at # "unused" /\ login[s].grant = "waiting"
    /\ login' = [login EXCEPT ![s].grant = "approved"]
    /\ UNCHANGED <<poller, account>> /\ SameHistory

\* expires_at passes.
Expire(s) ==
    /\ Open(s) /\ ~login[s].due
    /\ login' = [login EXCEPT ![s].due = TRUE]
    /\ UNCHANGED <<poller, account>> /\ SameHistory

\* A session that leaves the map drops the handle of its server.
Ended(l) == [l EXCEPT !.at = "ended", !.held = FALSE, !.channel = "closed"]

\* Mutant: only the IdC sessions are swept.
Sweep_IdcOnly ==
    /\ \E s \in Logins : Open(s) /\ login[s].due /\ ~Social(s)
    /\ login' = [s \in Logins |-> IF Open(s) /\ login[s].due /\ ~Social(s) THEN Ended(login[s])
                                  ELSE login[s]]
    /\ UNCHANGED <<poller, account>> /\ SameHistory

\* The background task of AdminService::new.
Sweep ==
    /\ \E s \in Logins : Open(s) /\ login[s].due
    /\ login' = [s \in Logins |-> IF Open(s) /\ login[s].due THEN Ended(login[s])
                                  ELSE login[s]]
    /\ UNCHANGED <<poller, account>> /\ SameHistory

-----------------------------------------------------------------------------
(* Polling.                                                                  *)

PollAt(c, at) == poller[c].at = at
Free(c) == PollAt(c, "idle") \/ PollAt(c, "done")
PollGoto(c, at) == poller' = [poller EXCEPT ![c].at = at]

\* The request is answered.
Finish(c) == poller' = [poller EXCEPT ![c] = NoPoll]

Asks(c, s, at, state) ==
    poller' = [poller EXCEPT ![c] = [NoPoll EXCEPT !.at = at, !.s = s, !.state = state]]

\* poll_social_login: the expiry and the channel, under one lock.
PollSocial(c, s) ==
    /\ Free(c) /\ Open(s) /\ Social(s)
    /\ IF login[s].due \/ login[s].channel = "closed"
       THEN Asks(c, s, "drop", "none") /\ UNCHANGED login
       ELSE /\ login[s].channel # "empty"
            /\ Asks(c, s, "received", login[s].channel)
            /\ login' = [login EXCEPT ![s].channel = "closed"]
    /\ UNCHANGED account /\ SameHistory

\* complete_social_login with a callback that was pasted.
Complete(c, s, state) ==
    /\ Free(c) /\ Open(s) /\ Social(s) /\ ~login[s].due
    /\ Asks(c, s, "pasted", state)
    /\ UNCHANGED <<login, account>> /\ SameHistory

Drop(c) ==
    /\ PollAt(c, "drop") /\ Finish(c)
    /\ login' = [login EXCEPT ![poller[c].s] = IF @.at = "open" THEN Ended(@) ELSE @]
    /\ UNCHANGED account /\ SameHistory

\* do_complete_social_login: another state is refused and the session stays.
Verify(c) ==
    LET s == poller[c].s
    IN  /\ PollAt(c, "received") \/ PollAt(c, "pasted")
        /\ IF Open(s) /\ poller[c].state = s THEN PollGoto(c, "take") ELSE Finish(c)
        /\ UNCHANGED <<login, account>> /\ SameHistory

\* Mutant: the session is taken without looking whether it is still there.
Take_Blindly(c) ==
    /\ PollAt(c, "take") /\ PollGoto(c, "exchange")
    /\ login' = [login EXCEPT ![poller[c].s].at = "ended", ![poller[c].s].channel = "closed"]
    /\ UNCHANGED account /\ SameHistory

\* The session leaves the map; the handle lives until the request is answered.
Take(c) ==
    /\ PollAt(c, "take")
    /\ IF Open(poller[c].s)
       THEN /\ PollGoto(c, "exchange")
            /\ login' = [login EXCEPT ![poller[c].s].at = "ended",
                                      ![poller[c].s].channel = "closed"]
       ELSE Finish(c) /\ UNCHANGED login
    /\ UNCHANGED account /\ SameHistory

\* What follows a token with or without a refresh token.
AfterToken(c, refresh) ==
    LET s    == poller[c].s
        next == IF Aim(c) = NewAccount THEN "add"
                ELSE IF refresh THEN "disable" ELSE "done"
    IN  /\ exchanged' = [exchanged EXCEPT ![s] = @ + 1]
        /\ poller' = [poller EXCEPT ![c].at = next, ![c].refresh = refresh, ![c].alone = TRUE]

\* exchange_code_for_token; a relogin without a refresh token is an error.
Exchange(c) ==
    /\ PollAt(c, "exchange")
    /\ login' = [login EXCEPT ![poller[c].s].held = FALSE]
    /\ \/ \E refresh \in BOOLEAN : AfterToken(c, refresh)
       \/ /\ Finish(c)
          /\ exchanged' = [exchanged EXCEPT ![poller[c].s] = @ + 1]
    /\ UNCHANGED <<account, added>>

\* poll_idc_login: copies the session and asks the service, which grants a
\* device code once; a relogin without a refresh token is a success.
PollIdc(c, s) ==
    /\ Free(c) /\ Open(s) /\ ~Social(s) /\ ~login[s].due
    /\ Asks(c, s, "ask", "none")
    /\ UNCHANGED <<login, account>> /\ SameHistory

\* poll_token: "wait" stands for a pending authorization and for every error.
ServiceAnswers(s) ==
    {"wait"} \union (IF login[s].due THEN {"expired"} ELSE {})
             \union (IF login[s].grant = "approved" THEN {"token"} ELSE {})

AskService(c) ==
    LET s == poller[c].s
    IN  /\ PollAt(c, "ask")
        /\ \E answer \in ServiceAnswers(s) :
            \/ answer = "wait" /\ Finish(c) /\ UNCHANGED <<login, exchanged>>
            \/ /\ answer = "expired" /\ Finish(c)
               /\ login' = [login EXCEPT ![s] = Ended(@)] /\ UNCHANGED exchanged
            \/ /\ answer = "token"
               /\ \E refresh \in BOOLEAN : AfterToken(c, refresh)
               /\ login' = [login EXCEPT ![s] = [Ended(@) EXCEPT !.grant = "used"]]
        /\ UNCHANGED <<account, added>>

\* add_credential, which may refuse the account (TokenRefresh, CredentialStore).
AddAccount(c) ==
    /\ PollAt(c, "add")
    /\ \/ Finish(c) /\ added' = [added EXCEPT ![poller[c].s] = @ + 1]
       \/ Finish(c) /\ UNCHANGED added
    /\ UNCHANGED <<login, account, exchanged>>

-----------------------------------------------------------------------------
(* Accounts.  `alone` is history: nobody else has changed the account.       *)

Disturb(x, p) ==
    [c \in Pollers |-> IF login[p[c].s].target = x THEN [p[c] EXCEPT !.alone = FALSE] ELSE p[c]]

\* One section of do_relogin_update: it changes the account to `new` if the
\* account is there and `may`; its save may fail after that.
Section(c, at, may, new, next) ==
    LET x == Aim(c)
    IN  /\ PollAt(c, at)
        /\ IF account[x].present /\ may
           THEN /\ account' = [account EXCEPT ![x] = new]
                /\ \E saved \in BOOLEAN :
                    poller' = [Disturb(x, poller) EXCEPT
                                 ![c] = IF saved THEN [poller[c] EXCEPT !.at = next] ELSE NoPoll]
           ELSE Finish(c) /\ UNCHANGED account
        /\ UNCHANGED login /\ SameHistory

DisableForUpdate(c) ==
    Section(c, "disable", TRUE, [account[Aim(c)] EXCEPT !.enabled = FALSE], "update")

\* update_refresh_token: of a disabled account only; a token of another account
\* is refused.
UpdateToken(c) ==
    \/ Section(c, "update", ~account[Aim(c)].enabled,
               [account[Aim(c)] EXCEPT !.token = poller[c].s], "enable")
    \/ PollAt(c, "update") /\ Finish(c) /\ UNCHANGED <<login, account>> /\ SameHistory

EnableAgain(c) ==
    Section(c, "enable", TRUE, [account[Aim(c)] EXCEPT !.enabled = TRUE], "done")

\* Other calls of the administrator.
SwitchAccount(x, on) ==
    /\ account[x].present /\ account' = [account EXCEPT ![x].enabled = on]
    /\ poller' = Disturb(x, poller)
    /\ UNCHANGED login /\ SameHistory

DeleteAccount(x) ==
    /\ account[x].present /\ ~account[x].enabled
    /\ account' = [account EXCEPT ![x].present = FALSE]
    /\ poller' = Disturb(x, poller)
    /\ UNCHANGED login /\ SameHistory

LoginInit ==
    /\ login = [s \in Logins |-> NoLogin]
    /\ poller = [c \in Pollers |-> NoPoll]
    /\ account \in [Targets -> [present : {TRUE}, enabled : BOOLEAN, token : {Old}]]
    /\ exchanged = [s \in Logins |-> 0] /\ added = exchanged

\* A request goes on: every network call of it has a time limit (build_client).
Serve(c) ==
    \/ Drop(c) \/ Verify(c) \/ Take(c) \/ Exchange(c) \/ AskService(c) \/ AddAccount(c)
    \/ DisableForUpdate(c) \/ UpdateToken(c) \/ EnableAgain(c)

LoginNext ==
    \/ \E o \in Offers : StartSocial(o[1], o[2], o[3]) \/ StartIdc(o[1], o[2], o[3])
    \/ \E s \in Logins :
          \/ CallbackServer(s)
          \/ Deliver(s) \/ Approve(s) \/ Expire(s)
          \/ \E c \in Pollers :
                PollSocial(c, s) \/ PollIdc(c, s) \/ \E t \in Logins : Complete(c, s, t)
    \/ Sweep
    \/ \E c \in Pollers : Serve(c)
    \/ \E x \in Targets : DeleteAccount(x) \/ \E on \in BOOLEAN : SwitchAccount(x, on)

LoginSpec ==
    /\ LoginInit /\ [][LoginNext]_loginVars
    /\ WF_loginVars(Sweep)
    /\ \A s \in Logins : WF_loginVars(Expire(s)) /\ SF_loginVars(ShutDown(s))
    /\ \A c \in Pollers : WF_loginVars(Serve(c))

-----------------------------------------------------------------------------
(* Properties.                                                               *)

\* However many tabs poll and paste, a session's code is exchanged once and
\* adds one account, and none is without a token it was granted
\* (do_complete_social_login and poll_idc_login, service.rs).
SessionsCountOnce ==
    \A s \in Logins : exchanged[s] <= 1 /\ added[s] <= exchanged[s]

\* A relogin that reports a success, got a refresh token and was not disturbed
\* has left the account enabled with that token (do_relogin_update).
ReloginDelivers ==
    \A c \in Pollers :
        LET x == Aim(c)
        IN  PollAt(c, "done") /\ poller[c].refresh /\ poller[c].alone
            /\ x \in Targets =>
                account[x] = [present |-> TRUE, enabled |-> TRUE, token |-> poller[c].s]

\* What a login is said to have done is done, once.
LoginsDeliver == SessionsCountOnce /\ ReloginDelivers

\* The port of a callback server comes back, also when nobody polls: unless a
\* connection to it stays open and never says anything, for the server then waits for
\* that one, with no time limit and deaf to its handle (social.rs:118).
PortsComeBack ==
    \A s \in Logins :
        \/ <>[](login[s].server = "reads")
        \/ login[s].server # "off" ~> login[s].server = "off"

=============================================================================
