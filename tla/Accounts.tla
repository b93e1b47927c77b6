------------------------------ MODULE Accounts ------------------------------
(* How accounts come and go: a batch of uploads that is imported a few at a   *)
(* time (src/src/admin/handlers.rs, service.rs), a single one that is added   *)
(* meanwhile, deletions, and the list itself with its file                    *)
(* (src/src/kiro/token_manager.rs, add_credential, delete_credential).        *)
(*                                                                            *)
(* An upload is a refresh token or an API key.  A refresh token is checked by *)
(* using it, which may rotate it: what the list then holds is the next        *)
(* generation of the upload.  A save is a single step that may fail;          *)
(* CredentialStore has its steps.                                             *)
EXTENDS Naturals, Sequences, FiniteSets, Functions

CONSTANTS
    Keys,            \* uploads that are API keys
    Batch,           \* the uploads of the batch, in order
    Workers,         \* uploads of the batch processed at a time
    Page,            \* the single upload's request
    PageUploads,     \* what it may upload
    MaxId,           \* bound: identifiers
    MaxDeletions, MaxAccountRestarts   \* bounds

ASSUME BatchAssumption == Page \notin Workers /\ Batch \in Seq(Range(Batch))

VARIABLES
    list,            \* entries: id |-> [of, gen]
    saved,           \* the same in credentials.json
    nextId,          \* MultiTokenManager.next_id
    rotates,         \* the authority gives a new refresh token for every one used
    spent,           \* refresh tokens it accepts no more (of generation 0)
    verify,          \* BatchImportRequest.verify
    next,            \* the next upload of the batch
    left,            \* the client of the batch has gone away
    job,             \* per worker and for the page: [at, item, of, id, there]
    results,         \* item |-> what the client was told of it
    deleted,         \* history: ids an administrator deleted
    given,           \* history: id |-> how often it was given to a saved account
    listed,          \* history: id |-> how often an account was listed under it
    forgotten,       \* history: ids a restart's counter was put back before
    restarted        \* number of restarts so far

pastVars == <<deleted, given, listed, forgotten, restarted>>
accountVars == <<list, saved, nextId, rotates, spent, verify, next, left, job, results,
                 pastVars>>

Jobs == Workers \union {Page}
NoJob == [at |-> "idle", item |-> 0, of |-> 0, id |-> 0, there |-> FALSE]

Result(status, id, rolledBack) == [status |-> status, id |-> id, rolledBack |-> rolledBack]

AccountsInit ==
    /\ list = <<>> /\ saved = <<>> /\ nextId = 1 /\ spent = {}
    /\ rotates \in BOOLEAN /\ verify \in BOOLEAN
    /\ next = 1 /\ left = FALSE /\ results = <<>>
    /\ job = [j \in Jobs |-> NoJob]
    /\ deleted = {} /\ forgotten = {} /\ restarted = 0
    /\ given = [i \in 1..MaxId |-> 0] /\ listed = [i \in 1..MaxId |-> 0]

Without(f, id) == Restrict(f, DOMAIN f \ {id})

\* Duplicates are found by the hash of what was uploaded, generation 0.
OnList(of) == \E id \in DOMAIN list : list[id] = [of |-> of, gen |-> 0]

\* persist_credentials, or its failure.
Saved(now) == saved' = now
SaveFails  == UNCHANGED saved

-----------------------------------------------------------------------------
(* A job: import_one_credential of a worker, or add_credential of the page.  *)

Doing(j, label) == job[j].at = label
GoOn(j, label) == job' = [job EXCEPT ![j].at = label, ![j].there = job[j].id \in DOMAIN list]

\* The orchestrator sends every result on.  When the client is gone it breaks
\* out of its loop, and the imports that have not ended are dropped with it.
Ends(j, result) ==
    IF j = Page THEN job' = [job EXCEPT ![j] = NoJob] /\ UNCHANGED <<results, next>>
    ELSE /\ results' = [i \in DOMAIN results \union {job[j].item} |->
                           IF i = job[j].item THEN result ELSE results[i]]
         /\ IF left THEN /\ job' = [k \in Jobs |-> IF k = Page THEN job[k] ELSE NoJob]
                         /\ next' = Len(Batch) + 1
            ELSE job' = [job EXCEPT ![j] = NoJob] /\ UNCHANGED next

Starts(j, item, of) ==
    job' = [job EXCEPT ![j] = [NoJob EXCEPT !.at = "check", !.item = item, !.of = of]]

\* buffer_unordered starts the next upload when a place is free.
TakeUpload(w) ==
    /\ Doing(w, "idle") /\ next <= Len(Batch)
    /\ Starts(w, next, Batch[next]) /\ next' = next + 1
    /\ UNCHANGED <<list, saved, nextId, rotates, spent, verify, left, results, pastVars>>

PageAdds(of) ==
    /\ Doing(Page, "idle") /\ Starts(Page, 0, of)
    /\ UNCHANGED <<list, saved, nextId, rotates, spent, verify, next, left, results,
                   pastVars>>

\* The first look for a duplicate; an API key needs no check by use.
Check(j) ==
    /\ Doing(j, "check")
    /\ IF OnList(job[j].of) THEN Ends(j, Result("duplicate", 0, FALSE))
       ELSE GoOn(j, IF job[j].of \in Keys THEN "number" ELSE "refresh")
            /\ UNCHANGED <<results, next>>
    /\ UNCHANGED <<list, saved, nextId, rotates, spent, verify, left, pastVars>>

\* refresh_token, which the authority or the network may refuse.
Refresh(j) ==
    /\ Doing(j, "refresh")
    /\ \/ /\ job[j].of \notin spent
          /\ spent' = IF rotates THEN spent \union {job[j].of} ELSE spent
          /\ GoOn(j, "number") /\ UNCHANGED <<results, next>>
       \/ Ends(j, Result("failed", 0, FALSE)) /\ UNCHANGED spent
    /\ UNCHANGED <<list, saved, nextId, rotates, verify, left, pastVars>>

\* Fault: the number that follows the largest one on the list.
TakeNumber_Largest(j) ==
    LET id == 1 + CHOOSE m \in 0..MaxId : /\ m = 0 \/ m \in DOMAIN list
                                          /\ \A i \in DOMAIN list : i <= m
    IN  /\ Doing(j, "number") /\ id <= MaxId
        /\ nextId' = id + 1
        /\ job' = [job EXCEPT ![j].at = "insert", ![j].id = id]
        /\ UNCHANGED <<list, saved, rotates, spent, verify, next, left, results, pastVars>>

\* next_id.fetch_add(1), before the list is locked.
TakeNumber(j) ==
    /\ Doing(j, "number") /\ nextId <= MaxId
    /\ nextId' = nextId + 1
    /\ job' = [job EXCEPT ![j].at = "insert", ![j].id = nextId]
    /\ UNCHANGED <<list, saved, rotates, spent, verify, next, left, results, pastVars>>

Stored(j) ==
    [of |-> job[j].of, gen |-> IF rotates /\ job[j].of \notin Keys THEN 1 ELSE 0]

\* The account of j is put on the list under the number j has taken.
Lists(j) ==
    /\ list' = [i \in DOMAIN list \union {job[j].id} |->
                  IF i = job[j].id THEN Stored(j) ELSE list[i]]
    /\ listed' = [listed EXCEPT ![job[j].id] = @ + 1]

Inserted(j) ==
    /\ Saved(list') /\ given' = [given EXCEPT ![job[j].id] = @ + 1]
    /\ job' = [job EXCEPT ![j].at = "region", ![j].there = TRUE]
    /\ UNCHANGED <<results, next>>

\* Mutant: the list is not looked at again when the account is inserted.
Insert_Unchecked(j) ==
    /\ Doing(j, "insert")
    /\ Lists(j) /\ Inserted(j)
    /\ UNCHANGED <<nextId, rotates, spent, verify, left, deleted, forgotten, restarted>>

\* With the list locked it is looked at again and the account inserted; then the
\* list is saved.  The number of a duplicate is lost; when the save fails the
\* account stays on the list and the caller is told that adding it failed.
Insert(j) ==
    /\ Doing(j, "insert")
    /\ IF OnList(job[j].of)
       THEN Ends(j, Result("duplicate", 0, FALSE)) /\ UNCHANGED <<list, saved, given, listed>>
       ELSE /\ Lists(j)
            /\ \/ Inserted(j)
               \/ SaveFails /\ UNCHANGED given /\ Ends(j, Result("failed", 0, FALSE))
    /\ UNCHANGED <<nextId, rotates, spent, verify, left, deleted, forgotten, restarted>>

\* autocorrect_api_region: asks the upstream and saves what it corrects.  An
\* import that is not to be verified ends here.
Region(j) ==
    /\ Doing(j, "region")
    /\ (Saved(list) \/ SaveFails)
    /\ IF j = Page \/ verify
       THEN GoOn(j, "balance") /\ UNCHANGED <<results, next>>
       ELSE Ends(j, Result("imported", job[j].id, FALSE))
    /\ UNCHANGED <<list, nextId, rotates, spent, verify, left, pastVars>>

\* get_balance of add_credential_inner: its failure is only logged.
Balance(j) ==
    /\ Doing(j, "balance")
    /\ IF j = Page THEN Ends(j, Result("added", job[j].id, FALSE))
       ELSE GoOn(j, "verify") /\ UNCHANGED <<results, next>>
    /\ UNCHANGED <<list, saved, nextId, rotates, spent, verify, left, pastVars>>

\* The forced get_balance, which fails for an account that was not there.
Verified(j) ==
    /\ Doing(j, "verify") /\ job[j].there
    /\ Ends(j, Result("verified", job[j].id, FALSE))
    /\ UNCHANGED <<list, saved, nextId, rotates, spent, verify, left, pastVars>>

\* It failed: the account is deleted again, unless it is gone or that fails.
NotVerified(j) ==
    LET id == job[j].id
    IN  /\ Doing(j, "verify")
        /\ list' = Without(list, id)
        /\ \/ /\ id \in DOMAIN list /\ Saved(list')
              /\ Ends(j, Result("failed", id, TRUE))
           \/ SaveFails /\ Ends(j, Result("failed", id, FALSE))
        /\ UNCHANGED <<nextId, rotates, spent, verify, left, pastVars>>

Import(j) == Check(j) \/ Refresh(j) \/ TakeNumber(j) \/ Insert(j) \/ Region(j)
             \/ Balance(j) \/ Verified(j) \/ NotVerified(j)

-----------------------------------------------------------------------------
(* Whoever else is there.                                                    *)

ClientLeaves ==
    /\ ~left /\ left' = TRUE
    /\ UNCHANGED <<list, saved, nextId, rotates, spent, verify, next, job, results, pastVars>>

\* delete_credential: when the save fails the account is off the list, and in
\* the file.
Delete(id) ==
    /\ id \in DOMAIN list /\ Cardinality(deleted) < MaxDeletions
    /\ list' = Without(list, id) /\ (Saved(list') \/ SaveFails)
    /\ deleted' = deleted \union {id}
    /\ UNCHANGED <<nextId, rotates, spent, verify, next, left, job, results, given, listed,
                   forgotten, restarted>>

\* The process ends and starts again: identifiers go on after the largest one
\* in the file.
RestartAccounts ==
    /\ restarted < MaxAccountRestarts /\ restarted' = restarted + 1
    /\ list' = saved
    /\ nextId' = 1 + (IF saved = <<>> THEN 0
                      ELSE CHOOSE m \in DOMAIN saved : \A i \in DOMAIN saved : i <= m)
    /\ job' = [j \in Jobs |-> NoJob] /\ next' = Len(Batch) + 1 /\ results' = <<>>
    /\ forgotten' = forgotten \union nextId'..(nextId - 1)
    /\ UNCHANGED <<saved, rotates, spent, verify, left, deleted, given, listed>>

AccountsNext ==
    \/ \E w \in Workers : TakeUpload(w)
    \/ \E of \in PageUploads : PageAdds(of)
    \/ \E j \in Jobs : Import(j)
    \/ ClientLeaves \/ RestartAccounts
    \/ \E id \in DOMAIN list : Delete(id)

AccountsSpec == AccountsInit /\ [][AccountsNext]_accountVars

-----------------------------------------------------------------------------
(* Properties.                                                               *)

\* However imports, a single addition, deletions and failed saves interleave:
\* no two accounts are made of one upload ("在插入临界区再做一次权威去重",
\* token_manager.rs:3784), with an authority that rotates and with one that
\* does not; an account the client was told is imported or verified is there,
\* on the list and in the file, until an administrator deletes it; and one
\* whose import was rolled back is on neither.
ImportsKeepTheirWord ==
    /\ \A a, b \in DOMAIN list : list[a].of = list[b].of => a = b
    /\ \A i \in DOMAIN results :
         LET r == results[i] IN
         /\ r.status \in {"imported", "verified"} =>
              \/ r.id \in deleted
              \/ /\ r.id \in DOMAIN list /\ r.id \in DOMAIN saved
                 /\ list[r.id].of = Batch[i] /\ saved[r.id].of = Batch[i]
         /\ r.rolledBack => r.id \notin DOMAIN list \union DOMAIN saved

\* However numbers taken, insertions, failed saves, rollbacks and deletions
\* interleave, two accounts are never listed under one identifier, at once or
\* one after the other, so that an account does not inherit the traces and the
\* usage of another; but for the identifiers that a restart forgets, for no
\* account in the file has one as large (token_manager.rs:1266).
IdsAreNotReused == \A id \in 1..MaxId : listed[id] <= 1 \/ id \in forgotten

\* "删除最后一个账号后再添加会复用旧 ID" (token_manager.rs:3750) is what the counter
\* is to prevent: an identifier is given to one account only, for the history
\* kept under it is that account's.
IdsOutliveRestarts == \A id \in 1..MaxId : given[id] <= 1
=============================================================================
