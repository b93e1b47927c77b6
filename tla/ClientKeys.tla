---------------------------- MODULE ClientKeys ----------------------------
(***************************************************************************)
(* The keys handed to clients (src/src/admin/client_keys.rs), stored in    *)
(* client_api_keys.json.  `entries` is the map in memory, by key id; every *)
(* mutator runs under the write lock and rewrites the file in place while  *)
(* it still holds the lock, so between the truncation and the end of the   *)
(* write (`saving`) nobody else reads or changes the keys, and a crash     *)
(* leaves what has been written so far.                                    *)
(*                                                                         *)
(* Names, descriptions and the billing and prompt settings of a key are    *)
(* data; the group it is bound to and its response-cache override are kept *)
(* because requests are scheduled and answered by them.  Calls and token   *)
(* totals are kept as the sets of requests they count.                     *)
(***************************************************************************)
EXTENDS Naturals, FiniteSets, FiniteSetsExt, Functions

CONSTANTS Secrets,       \* plaintext keys
          KeyGroups,     \* names of account groups
          BootSecret,    \* apiKey of config.json
          KeysAtStart,   \* entries the file holds at the first start
          SaveFaults,    \* what may become of a save: "failed", and how it is cut
          MaxKeyId       \* bound on the ids handed out

VARIABLES entries,   \* key id -> entry
          nextId,    \* next id to hand out
          keysFile,  \* client_api_keys.json
          keysPath,  \* the manager knows its file
          saving     \* a save has truncated the file and holds the write lock

keyVars == <<entries, nextId, keysFile, keysPath, saving>>

NoGroup == "none"
Overrides == {"unset", "on", "off"}

Entry(s, g, sys) == [secret |-> s, group |-> g, off |-> FALSE, sys |-> sys,
                     rcache |-> "unset", calls |-> {}, used |-> {}]

NoEntries == << >>

(* Ids of the entries that hold plaintext s: `by_key`. *)
ByKey(s) == {id \in DOMAIN entries : entries[id].secret = s}

-----------------------------------------------------------------------------
(* The file. *)

Whole(rows) == [form |-> "whole", rows |-> rows]
Cut(form) == [form |-> form, rows |-> NoEntries]

(* fs::write truncates, then writes; a file that cannot be opened is only  *)
(* a warning and keeps what it held.                                       *)
SaveLocked ==
    \/ /\ keysPath
       /\ saving' = TRUE
       /\ \E form \in SaveFaults \ {"failed"} : keysFile' = Cut(form)
       /\ UNCHANGED keysPath
    \/ /\ ~keysPath \/ "failed" \in SaveFaults
       /\ UNCHANGED <<keysFile, saving, keysPath>>

FinishSave ==
    /\ saving
    /\ saving' = FALSE
    /\ keysFile' = Whole(entries)
    /\ UNCHANGED <<entries, nextId, keysPath>>

(* A missing or empty file gives no keys; a file that does not parse gives *)
(* a manager without keys that does not know its file.                     *)
Rows(file) == IF file.form = "whole" THEN file.rows ELSE NoEntries

(* ensure_system_key: the plaintext of config.json lives at id 0, moved     *)
(* there when it is found at another id and 0 is free.                     *)
WithSystemKey(es, next, s) ==
    LET at == {id \in DOMAIN es : es[id].secret = s}
        moved == [id \in (DOMAIN es \ at) \union {0} |->
                     IF id = 0 THEN [es[CHOOSE o \in at : TRUE] EXCEPT !.sys = TRUE]
                               ELSE es[id]]
        new == IF 0 \in DOMAIN es THEN next ELSE 0
    IN  IF at = {}
        THEN [id \in DOMAIN es \union {new} |->
                 IF id = new THEN Entry(s, NoGroup, TRUE) ELSE es[id]]
        ELSE IF 0 \notin DOMAIN es THEN moved
        ELSE [id \in DOMAIN es |-> IF id \in at THEN [es[id] EXCEPT !.sys = TRUE] ELSE es[id]]

LoadKeys(file) ==
    LET es == Rows(file)
        next == Max(DOMAIN es \union {0}) + 1
        full == WithSystemKey(es, next, BootSecret)
    IN  /\ entries' = full
        /\ nextId' = IF next \in DOMAIN full THEN next + 1 ELSE next
        /\ keysPath' = (file.form # "torn")
        /\ saving' = FALSE
        /\ keysFile' = IF full # es /\ file.form # "torn" THEN Whole(full) ELSE file

KeysInit ==
    /\ nextId = Max(DOMAIN KeysAtStart \union {0}) + 1
    /\ entries = WithSystemKey(KeysAtStart, nextId, BootSecret)
    /\ keysPath = TRUE
    /\ saving = FALSE
    /\ keysFile = Whole(entries)

-----------------------------------------------------------------------------
(* The administrator's calls. *)

(* An existing plaintext returns its entry and changes nothing. *)
CreateKey(s, g) ==
    /\ ~saving
    /\ ByKey(s) = {}
    /\ nextId <= MaxKeyId
    /\ entries' = [id \in DOMAIN entries \union {nextId} |->
                      IF id = nextId THEN Entry(s, g, FALSE) ELSE entries[id]]
    /\ nextId' = nextId + 1
    /\ SaveLocked

DeleteKey(id) ==
    /\ ~saving
    /\ id \in DOMAIN entries
    /\ ~entries[id].sys
    /\ entries' = Restrict(entries, DOMAIN entries \ {id})
    /\ UNCHANGED nextId
    /\ SaveLocked

Change(id, e) ==
    /\ ~saving
    /\ entries' = [entries EXCEPT ![id] = e]
    /\ UNCHANGED nextId
    /\ SaveLocked

SetKeyDisabled(id, off) == id \in DOMAIN entries /\ Change(id, [entries[id] EXCEPT !.off = off])

UpdateMeta(id, g) == id \in DOMAIN entries /\ Change(id, [entries[id] EXCEPT !.group = g])

(* update_response_cache, and its siblings for prompt filters and billing. *)
UpdateSettings(id, v) == id \in DOMAIN entries /\ Change(id, [entries[id] EXCEPT !.rcache = v])

Rotate(id, s) ==
    /\ id \in DOMAIN entries
    /\ ByKey(s) = {}
    /\ Change(id, [entries[id] EXCEPT !.secret = s])

ResetStats(id) ==
    id \in DOMAIN entries /\ Change(id, [entries[id] EXCEPT !.calls = {}, !.used = {}])

(* rename_group and clear_group rewrite every entry bound to the group in  *)
(* one go, and save only if there was one.                                 *)
RebindGroup(old, new) ==
    /\ ~saving
    /\ \E id \in DOMAIN entries : entries[id].group = old
    /\ entries' = [id \in DOMAIN entries |->
                      IF entries[id].group = old THEN [entries[id] EXCEPT !.group = new]
                                                 ELSE entries[id]]
    /\ UNCHANGED nextId
    /\ SaveLocked

-----------------------------------------------------------------------------
(* The request's calls. *)

Valid(s) == {id \in ByKey(s) : ~entries[id].off}

(* verify_and_touch: counts the call in memory and does not save. *)
VerifyAndTouch(id, r) ==
    /\ ~saving
    /\ entries' = [entries EXCEPT ![id].calls = @ \union {r}]
    /\ UNCHANGED <<nextId, keysFile, keysPath, saving>>

(* The getters: a key that is gone has no group and no override. *)
GroupOf(id) == IF id \in DOMAIN entries THEN entries[id].group ELSE NoGroup
OverrideOf(id) == IF id \in DOMAIN entries THEN entries[id].rcache ELSE "unset"

(* record_usage saves even when the key is gone. *)
RecordUsage(id, r) ==
    /\ ~saving
    /\ entries' = IF id \in DOMAIN entries THEN [entries EXCEPT ![id].used = @ \union {r}]
                                           ELSE entries
    /\ UNCHANGED nextId
    /\ SaveLocked

=============================================================================
