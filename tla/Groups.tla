------------------------------- MODULE Groups -------------------------------
(* Account groups: the registry of their names (src/src/admin/groups.rs),    *)
(* the accounts that list them (kiro/token_manager.rs), the client keys that *)
(* are bound to one (admin/client_keys.rs), and the administrator's calls    *)
(* that rename or delete a group in all three, one lock section after the    *)
(* other (admin/handlers.rs).  A key reaches the accounts of its group, all  *)
(* accounts when it has none.                                                *)
(*                                                                           *)
(* A token refresh copies a whole credential, asks for a token without the   *)
(* entries' lock and writes the copy back, groups included.                  *)
(*                                                                           *)
(* A group's overrides are one setting, "inherit" or "own".  The registry    *)
(* and the keys are written in place and a failed write is only logged; the  *)
(* accounts are saved as a whole file or not at all (CredentialStore).       *)
EXTENDS Naturals, FiniteSets, Functions

CONSTANTS
    Admins,          \* calls of the administrator that run at a time
    GroupNames,
    Accounts,        \* credentials
    BoundKeys,       \* client keys
    Members,         \* groups of the accounts at the start
    Refreshers,      \* token refreshes that run at a time
    MaxGroupCalls,   \* bound: calls
    MaxUpsets        \* bound: token refreshes and restarts

Unbound == "unbound"

ASSUME MembersAssumption ==
    Members \in [Accounts -> SUBSET GroupNames] /\ Unbound \notin GroupNames

VARIABLES
    registry,        \* GroupManager.entries: name |-> its setting
    registryFile,    \* groups.json: [whole, groups]
    registryPath,    \* the manager knows its file
    members,         \* account |-> groups, in memory
    membersFile,     \* and in credentials.json
    bound,           \* key |-> its group or Unbound
    boundFile,       \* and in client_api_keys.json
    call,            \* per administrator: [op, name, to, at, before, late]
    refresh,         \* per refresher: [at, account, groups], its copy of the account
    groupCalls, upsets

groupVars == <<registry, registryFile, registryPath, members, membersFile, bound, boundFile,
               call, refresh, groupCalls, upsets>>

NoCall == [op |-> "none", name |-> Unbound, to |-> Unbound, at |-> "idle",
           before |-> <<>>, alone |-> FALSE, late |-> {}, ok |-> FALSE]

NoRefresh == [at |-> "idle", account |-> Unbound, groups |-> {}]

Uses(groups, keys) ==
    (UNION {groups[a] : a \in Accounts}) \union ({keys[k] : k \in BoundKeys} \ {Unbound})

\* The accounts a key may be served by (credential_matches_request).
Reach(k, groups, keys) ==
    IF keys[k] = Unbound THEN Accounts ELSE {a \in Accounts : keys[k] \in groups[a]}

Renamed(s, old, new) == IF old \in s THEN (s \ {old}) \union {new} ELSE s

-----------------------------------------------------------------------------
(* The stores.                                                               *)

\* save_locked: a write that fails leaves the file, one that a crash cuts off
\* leaves it torn (Crash).
SaveRegistry(groups) ==
    /\ registry' = groups
    /\ \/ registryPath /\ registryFile' = [whole |-> TRUE, groups |-> groups]
       \/ UNCHANGED registryFile
    /\ UNCHANGED registryPath

SaveBound(keys) ==
    /\ bound' = keys
    /\ boundFile' \in {keys, boundFile}

\* GroupManager::load and bootstrap_from_existing: a torn file gives an empty
\* manager without a path; every group in use that is missing is added.
Start(file, groups, keys) ==
    LET loaded == IF file.whole THEN file.groups ELSE <<>>
        full   == [g \in DOMAIN loaded \union Uses(groups, keys) |->
                      IF g \in DOMAIN loaded THEN loaded[g] ELSE "inherit"]
    IN  /\ registry' = full
        /\ registryPath' = file.whole
        /\ registryFile' = IF file.whole THEN [whole |-> TRUE, groups |-> full] ELSE file

-----------------------------------------------------------------------------
(* Token refreshes: "waits" for the account's refresh_lock (a forced one),   *)
(* "sends" with the lock, "saves" after it has written its copy back.        *)

Holds(r, x) == refresh[r].account = x /\ refresh[r].at \in {"sends", "saves"}

LockFree(x) == \A r \in Refreshers : ~Holds(r, x)

\* r has a copy of x that it will write back unless it fails.
Carries(r, x) == refresh[r].account = x /\ refresh[r].at \in {"waits", "sends"}

Late == {x \in Accounts : \E r \in Refreshers : Carries(r, x)}

SameCalls == UNCHANGED <<registry, registryFile, registryPath, bound, boundFile, call,
                         groupCalls>>

\* try_ensure_token copies the credential once it has the lock;
\* force_refresh_token_for before it asks for it.
StartRefresh(r, x) ==
    /\ refresh[r].at = "idle" /\ upsets < MaxUpsets
    /\ \E at \in {"waits", "sends"} :
          /\ at = "sends" => LockFree(x)
          /\ refresh' = [refresh EXCEPT ![r] = [at |-> at, account |-> x, groups |-> members[x]]]
    /\ upsets' = upsets + 1
    /\ SameCalls /\ UNCHANGED <<members, membersFile>>

LockRefresh(r) ==
    /\ refresh[r].at = "waits" /\ LockFree(refresh[r].account)
    /\ refresh' = [refresh EXCEPT ![r].at = "sends"]
    /\ SameCalls /\ UNCHANGED <<members, membersFile, upsets>>

\* entry.credentials = new_creds
RefreshWrites(r) ==
    /\ refresh[r].at = "sends"
    /\ members' = [members EXCEPT ![refresh[r].account] = refresh[r].groups]
    /\ refresh' = [refresh EXCEPT ![r].at = "saves"]
    /\ SameCalls /\ UNCHANGED <<membersFile, upsets>>

\* The refresh fails, or is over and saved, which may fail too.
EndRefresh(r) ==
    /\ \/ refresh[r].at = "sends" /\ UNCHANGED membersFile
       \/ refresh[r].at = "saves" /\ membersFile' \in {members, membersFile}
    /\ refresh' = [refresh EXCEPT ![r] = NoRefresh]
    /\ SameCalls /\ UNCHANGED <<members, upsets>>

-----------------------------------------------------------------------------
(* A call: [op, name, to] that is at its next lock section.  The rest is     *)
(* history of a rename: it is `alone` as long as no other call changes a     *)
(* group, if no refresh carried older groups when it began; then `before`    *)
(* are the groups of accounts and keys when it began and `late` the accounts *)
(* a refresh carried the groups of when the rename got to them.              *)

At(a, at) == call[a].at = at

Disturbed(c) == IF c.at = "idle" THEN NoCall
                ELSE [c EXCEPT !.before = <<>>, !.alone = FALSE, !.late = {}]

CallMoves(a, c) == call' = [b \in Admins |-> IF b = a THEN c ELSE Disturbed(call[b])]

Goto(a, at) == CallMoves(a, [call[a] EXCEPT !.at = at])

\* The call is answered.
Return(a, ok) ==
    CallMoves(a, IF ok /\ call[a].alone THEN [call[a] EXCEPT !.at = "idle", !.ok = TRUE]
                 ELSE NoCall)

SameRefreshes == UNCHANGED refresh
Stay == UNCHANGED <<groupCalls, upsets>> /\ SameRefreshes
SameRegistry == UNCHANGED <<registry, registryFile, registryPath>>
SameMembers == UNCHANGED <<members, membersFile>>
SameBound == UNCHANGED <<bound, boundFile>>

\* A call that begins looks first whether the group exists.
Begin(a, op, name, to, at) ==
    /\ At(a, "idle") /\ groupCalls < MaxGroupCalls
    /\ name \in DOMAIN registry
    /\ groupCalls' = groupCalls + 1
    /\ LET alone == /\ op = "rename" /\ \A b \in Admins : At(b, "idle")
                    /\ \A r \in Refreshers, x \in Accounts :
                          Carries(r, x) => refresh[r].groups = members[x]
       IN  call' = [call EXCEPT ![a] =
                       [op |-> op, name |-> name, to |-> to, at |-> at, ok |-> FALSE,
                        before |-> IF alone THEN <<members, bound>> ELSE <<>>,
                        alone |-> alone, late |-> {}]]
    /\ UNCHANGED upsets /\ SameRefreshes /\ SameRegistry /\ SameMembers /\ SameBound

\* create_group, with a setting written in a section of its own.
CreateGroup(a, name) ==
    /\ At(a, "idle") /\ groupCalls < MaxGroupCalls
    /\ name \notin DOMAIN registry
    /\ groupCalls' = groupCalls + 1
    /\ SaveRegistry([g \in DOMAIN registry \union {name} |->
                        IF g = name THEN "inherit" ELSE registry[g]])
    /\ CallMoves(a, [NoCall EXCEPT !.op = "create", !.to = name, !.at = "setting"])
    /\ UNCHANGED upsets /\ SameRefreshes /\ SameMembers /\ SameBound

\* update_group: GroupManager::rename
RenameInRegistry(a) ==
    LET old == call[a].name
        new == call[a].to
    IN  /\ At(a, "rename") /\ Stay /\ SameMembers /\ SameBound
        /\ IF old \in DOMAIN registry /\ new \notin DOMAIN registry
           THEN /\ SaveRegistry([g \in Renamed(DOMAIN registry, old, new) |->
                                    IF g = new THEN registry[old] ELSE registry[g]])
                /\ Goto(a, "accounts")
           ELSE Return(a, FALSE) /\ SameRegistry

\* rename_credential_group, in memory; no account means nothing to save.
RenameInAccounts(a) ==
    LET c == call[a]
    IN  /\ At(a, "accounts") /\ Stay /\ SameRegistry /\ SameBound
        /\ members' = [x \in Accounts |-> Renamed(members[x], c.name, c.to)]
        /\ UNCHANGED membersFile
        /\ CallMoves(a, [c EXCEPT !.at = IF members' = members THEN "keys" ELSE "save",
                                  !.late = IF c.alone THEN Late ELSE {}])

\* persist_credentials; when it fails the registry gets the old name back, if
\* the names allow it.
SaveAccounts(a) ==
    LET c == call[a]
    IN  /\ At(a, "save") /\ Stay /\ SameBound /\ UNCHANGED members
        /\ \/ membersFile' = members /\ Goto(a, "keys") /\ SameRegistry
           \/ /\ UNCHANGED membersFile /\ Return(a, FALSE)
              /\ IF c.op = "rename" /\ c.to \in DOMAIN registry /\ c.name \notin DOMAIN registry
                 THEN SaveRegistry([g \in Renamed(DOMAIN registry, c.to, c.name) |->
                                       IF g = c.name THEN registry[c.to] ELSE registry[g]])
                 ELSE SameRegistry

\* Mutant: the keys of a renamed group lose it, as those of a deleted one.
RenameInKeys_Unbinds(a) ==
    LET c == call[a]
    IN  /\ At(a, "keys") /\ c.op = "rename" /\ Stay /\ SameRegistry /\ SameMembers
        /\ IF \E k \in BoundKeys : bound[k] = c.name
           THEN SaveBound([k \in BoundKeys |-> IF bound[k] = c.name THEN Unbound ELSE bound[k]])
           ELSE SameBound
        /\ Goto(a, "setting")

\* ClientKeyManager::rename_group
RenameInKeys(a) ==
    LET c == call[a]
    IN  /\ At(a, "keys") /\ c.op = "rename" /\ Stay /\ SameRegistry /\ SameMembers
        /\ IF \E k \in BoundKeys : bound[k] = c.name
           THEN SaveBound([k \in BoundKeys |-> IF bound[k] = c.name THEN c.to ELSE bound[k]])
           ELSE SameBound
        /\ Goto(a, "setting")

\* update_cache_mode and update_compact_threshold of the group, by the name it
\* has now; an error when it is gone.
SetSetting(a) ==
    LET g == call[a].to
    IN  /\ At(a, "setting") /\ Stay /\ SameMembers /\ SameBound
        /\ IF g \in DOMAIN registry
           THEN /\ \E s \in {"inherit", "own"} : SaveRegistry([registry EXCEPT ![g] = s])
                /\ Return(a, TRUE)
           ELSE Return(a, FALSE) /\ SameRegistry

\* delete_group: counts the accounts, then the keys, and refuses a group in
\* use unless it is forced.
CountUses(a) ==
    LET c == call[a]
        used == c.name \in Uses(members, bound)
    IN  /\ At(a, "count") /\ Stay /\ SameRegistry /\ SameMembers /\ SameBound
        /\ IF c.op = "force" THEN Goto(a, "remove")
           ELSE IF used THEN Return(a, FALSE) ELSE Goto(a, "delete")

RemoveFromAccounts(a) ==
    LET c == call[a]
    IN  /\ At(a, "remove") /\ Stay /\ SameRegistry /\ SameBound
        /\ members' = [x \in Accounts |-> members[x] \ {c.name}]
        /\ UNCHANGED membersFile
        /\ Goto(a, IF members' = members THEN "keys" ELSE "save")

ClearKeys(a) ==
    LET c == call[a]
    IN  /\ At(a, "keys") /\ c.op = "force" /\ Stay /\ SameRegistry /\ SameMembers
        /\ IF \E k \in BoundKeys : bound[k] = c.name
           THEN SaveBound([k \in BoundKeys |-> IF bound[k] = c.name THEN Unbound ELSE bound[k]])
           ELSE SameBound
        /\ Goto(a, "delete")

DeleteGroup(a) ==
    /\ At(a, "delete") /\ Stay /\ SameMembers /\ SameBound
    /\ IF call[a].name \in DOMAIN registry
       THEN SaveRegistry(Restrict(registry, DOMAIN registry \ {call[a].name}))
       ELSE SameRegistry
    /\ Return(a, TRUE)

\* update_credential and update_client_key with a group; a name need not be
\* registered.
Regroup(a) ==
    /\ At(a, "idle") /\ groupCalls < MaxGroupCalls
    /\ groupCalls' = groupCalls + 1 /\ UNCHANGED upsets
    /\ SameRegistry /\ SameRefreshes
    /\ \/ /\ \E x \in Accounts, s \in SUBSET GroupNames :
                members' = [members EXCEPT ![x] = s]
          /\ membersFile' \in {members', membersFile}
          /\ SameBound
       \/ /\ \E k \in BoundKeys, g \in GroupNames : SaveBound([bound EXCEPT ![k] = g])
          /\ SameMembers
    /\ CallMoves(a, NoCall)

\* The process ends, perhaps within a write of groups.json, and starts again.
RestartGroups ==
    /\ upsets < MaxUpsets /\ upsets' = upsets + 1
    /\ members' = membersFile /\ bound' = boundFile
    /\ UNCHANGED <<membersFile, boundFile, groupCalls>>
    /\ call' = [a \in Admins |-> NoCall]
    /\ refresh' = [r \in Refreshers |-> NoRefresh]
    /\ \E torn \in {FALSE, \E a \in Admins : call[a].at \in {"rename", "setting", "delete"}} :
          Start([registryFile EXCEPT !.whole = @ /\ ~torn], membersFile, boundFile)

GroupsInit ==
    /\ members = Members /\ membersFile = Members
    /\ bound \in [BoundKeys -> GroupNames \union {Unbound}] /\ boundFile = bound
    /\ registry = [g \in Uses(members, bound) |-> "inherit"]
    /\ registryFile = [whole |-> TRUE, groups |-> registry]
    /\ registryPath = TRUE
    /\ call = [a \in Admins |-> NoCall]
    /\ refresh = [r \in Refreshers |-> NoRefresh]
    /\ groupCalls = 0 /\ upsets = 0

GroupsNext ==
    \/ \E a \in Admins :
          \/ \E name \in GroupNames :
                \/ CreateGroup(a, name)
                \/ Begin(a, "delete", name, name, "count")
                \/ Begin(a, "force", name, name, "count")
                \/ Begin(a, "setting", name, name, "setting")
                \/ \E to \in GroupNames \ {name} : Begin(a, "rename", name, to, "rename")
          \/ RenameInRegistry(a) \/ RenameInAccounts(a) \/ SaveAccounts(a)
          \/ RenameInKeys(a) \/ SetSetting(a) \/ CountUses(a) \/ RemoveFromAccounts(a)
          \/ ClearKeys(a) \/ DeleteGroup(a) \/ Regroup(a)
    \/ \E r \in Refreshers :
          \/ \E x \in Accounts : StartRefresh(r, x)
          \/ LockRefresh(r) \/ RefreshWrites(r) \/ EndRefresh(r)
    \/ RestartGroups

GroupsSpec == GroupsInit /\ [][GroupsNext]_groupVars

-----------------------------------------------------------------------------
(* Properties.                                                               *)

\* A rename that no other call disturbs, to a name nobody uses, never opens an
\* account to a key: between its sections (update_group, handlers.rs) a key
\* reaches no account it did not reach before.  When it is answered with a
\* success every key reaches what it reached before, and the files agree, but for
\* the accounts whose token was being refreshed when the rename got to them: the
\* refresh writes the old groups back (token_manager.rs:1947, 4136), and the
\* keys of the group may lose these accounts, to the end of the process and after.
RenameKeepsIsolation ==
    \A a \in Admins :
        LET c == call[a]
            reached(k) == Reach(k, c.before[1], c.before[2])
        IN  c.op = "rename" /\ c.alone /\ c.to \notin Uses(c.before[1], c.before[2]) =>
              /\ \A k \in BoundKeys : Reach(k, members, bound) \subseteq reached(k)
              /\ At(a, "idle") /\ c.ok =>
                   /\ \A k \in BoundKeys : reached(k) \ c.late \subseteq Reach(k, members, bound)
                   /\ \A k \in BoundKeys : bound[k] # c.name
                   /\ \A x \in Accounts \ c.late :
                         /\ c.name \notin members[x]
                         /\ c.before[1][x] # members[x] => membersFile[x] = members[x]

=============================================================================
