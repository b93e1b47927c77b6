---------------------------- MODULE ToolMapping ----------------------------
(* Names and arguments of tools between an Anthropic client and Kiro         *)
(* (src/src/anthropic/converter.rs).  In the ClaudeCode mode the client's    *)
(* built-in tools become Kiro's, with other argument names; a name that is   *)
(* too long is cut and given a digest.  A call of the model comes back under *)
(* Kiro's name and is given the client's name and arguments again, and the   *)
(* client's next request replays it to Kiro.                                 *)
(*                                                                           *)
(* The arguments of a call are a function from keys to integers; Null is     *)
(* JSON's null.  What the values are does not matter, but for the line       *)
(* numbers of Read, which are computed.                                      *)
EXTENDS Integers, Sequences, FiniteSets

CONSTANTS
    Null,            \* the JSON value null
    Explained,       \* the text default_explanation writes
    LowerCase,       \* names that are not lower case, mapped to their lower case
    ShortName        \* names of more than 63 bytes, mapped to prefix_digest

ASSUME NullAssumption == Null \notin Int /\ Explained # Null

\* Two long names with the same prefix and digest are not considered.
ASSUME ShortNamesDiffer ==
    \A a, b \in DOMAIN ShortName : ShortName[a] = ShortName[b] => a = b

\* claude_code_tool_name_to_kiro
KiroName ==
    [Write |-> "fs_write", Edit |-> "str_replace", Bash |-> "execute_bash",
     Read |-> "read_file", Glob |-> "file_search", Grep |-> "grep_search",
     LS |-> "list_directory", WebSearch |-> "web_search"]

BuiltIn(name, mode) == mode = "ClaudeCode" /\ name \in DOMAIN KiroName

Lower(name) == IF name \in DOMAIN LowerCase THEN LowerCase[name] ELSE name

\* map_tool_name: only a name that is too long changes.
MapToolName(name) ==
    IF name \in DOMAIN ShortName THEN ShortName[name] ELSE name

\* map_client_tool_name_to_kiro, without the entry it makes.
ToKiroName(name, mode) ==
    IF BuiltIn(name, mode) THEN KiroName[name] ELSE MapToolName(name)

\* tool_name_map after the given names were mapped: every name that changed,
\* under its new name.
NameMap(names, mode) ==
    LET changed == {n \in names : ToKiroName(n, mode) # n}
    IN  [k \in {ToKiroName(n, mode) : n \in changed} |->
            CHOOSE n \in changed : ToKiroName(n, mode) = k]

-----------------------------------------------------------------------------
(* The rules of the two rewritings: the key written, and the keys it is      *)
(* taken from, the first one present.                                        *)

\* map_tool_input_to_kiro, the keys that are only renamed
Outbound ==
    [Write |-> <<<<"path", <<"file_path", "path">>>>,
                 <<"text", <<"content", "text">>>>>>,
     Edit |-> <<<<"path", <<"file_path", "path">>>>,
                <<"oldStr", <<"old_string", "oldStr">>>>,
                <<"newStr", <<"new_string", "newStr">>>>>>,
     Bash |-> <<<<"command", <<"command">>>>, <<"timeout", <<"timeout">>>>>>,
     Read |-> <<<<"path", <<"file_path", "path">>>>,
                <<"explanation", <<"explanation">>>>>>,
     Glob |-> <<<<"query", <<"pattern", "query">>>>,
                <<"excludePattern", <<"excludePattern", "exclude">>>>,
                <<"explanation", <<"explanation">>>>>>,
     Grep |-> <<<<"query", <<"pattern", "query">>>>,
                <<"includePattern", <<"glob", "includePattern">>>>,
                <<"excludePattern", <<"excludePattern", "exclude">>>>,
                <<"caseSensitive", <<"caseSensitive", "case_sensitive">>>>,
                <<"explanation", <<"explanation">>>>>>,
     LS |-> <<<<"path", <<"path">>>>, <<"depth", <<"depth">>>>,
              <<"explanation", <<"explanation">>>>>>,
     WebSearch |-> <<<<"query", <<"query">>>>>>]

\* map_tool_input_from_kiro, the keys that are only renamed
Inbound ==
    [fs_write |-> <<<<"file_path", <<"path", "file_path">>>>,
                    <<"content", <<"text", "content">>>>>>,
     str_replace |-> <<<<"file_path", <<"path", "file_path">>>>,
                       <<"old_string", <<"oldStr", "old_string">>>>,
                       <<"new_string", <<"newStr", "new_string">>>>>>,
     execute_bash |-> <<<<"command", <<"command">>>>, <<"timeout", <<"timeout">>>>>>,
     read_file |-> <<<<"file_path", <<"path", "file_path">>>>>>,
     file_search |-> <<<<"pattern", <<"query", "pattern">>>>>>,
     grep_search |-> <<<<"pattern", <<"query", "pattern">>>>,
                       <<"glob", <<"includePattern", "glob">>>>,
                       <<"case_sensitive", <<"caseSensitive", "case_sensitive">>>>>>,
     list_directory |-> <<<<"path", <<"path">>>>>>,
     web_search |-> <<<<"query", <<"query">>>>>>]

\* take_first: the first of the keys that is there, null or not.
FirstKey(obj, keys) ==
    LET i == CHOOSE i \in DOMAIN keys :
                 keys[i] \in DOMAIN obj /\ \A j \in 1..(i - 1) : keys[j] \notin DOMAIN obj
    IN  obj[keys[i]]

\* take_first with maybe_insert: the rules whose key is there and not null.
Rename(obj, rules) ==
    LET hit == {r \in {rules[i] : i \in DOMAIN rules} :
                    /\ \E i \in DOMAIN r[2] : r[2][i] \in DOMAIN obj
                    /\ FirstKey(obj, r[2]) # Null}
    IN  [k \in {r[1] : r \in hit} |->
            FirstKey(obj, (CHOOSE r \in hit : r[1] = k)[2])]

\* The arguments f, and those of g that f has no key of.
Over(f, g) ==
    [k \in DOMAIN f \union DOMAIN g |-> IF k \in DOMAIN f THEN f[k] ELSE g[k]]

\* The argument key with the value v, if it is there, and no other.
Only(key, there, v) == [k \in IF there THEN {key} ELSE {} |-> v]

\* optional_number of a key: absent, null and not a number are the same.
HasNumber(obj, key) == key \in DOMAIN obj /\ obj[key] # Null

\* Read's first line and number of lines as the first and the last line.
LinesToKiro(obj) ==
    LET last == IF HasNumber(obj, "offset")
                THEN obj["offset"] + obj["limit"] - 1 ELSE obj["limit"]
    IN  Over(Only("start_line", HasNumber(obj, "offset"), obj["offset"]),
             Only("end_line", HasNumber(obj, "limit"), last))

\* Mutant: the last line is not counted.
LinesFromKiro_OffByOne(obj) ==
    LET limit == IF HasNumber(obj, "start_line")
                 THEN obj["end_line"] - obj["start_line"] ELSE obj["end_line"]
    IN  Over(Only("offset", HasNumber(obj, "start_line"), obj["start_line"]),
             Only("limit", HasNumber(obj, "end_line"), limit))

\* And back; a number of lines that is not positive is left out.
LinesFromKiro(obj) ==
    LET limit == IF HasNumber(obj, "start_line")
                 THEN obj["end_line"] - obj["start_line"] + 1 ELSE obj["end_line"]
    IN  Over(Only("offset", HasNumber(obj, "start_line"), obj["start_line"]),
             Only("limit", HasNumber(obj, "end_line") /\ limit > 0, limit))

\* Whether Glob looks at ignored files is passed on even as null.
IgnoredToKiro(obj) ==
    LET keys == <<"includeIgnoredFiles", "include_ignored">>
    IN  Only("includeIgnoredFiles", DOMAIN obj \cap {keys[1], keys[2]} # {},
             FirstKey(obj, keys))

\* The tools whose arguments get an explanation when there is none.
Explains == {"Read", "Glob", "LS"}

\* map_tool_input_to_kiro
InputToKiro(name, obj, mode) ==
    IF ~BuiltIn(name, mode) THEN obj
    ELSE Over(Over(Rename(obj, Outbound[name]),
                   CASE name = "Read" -> LinesToKiro(obj)
                     [] name = "Glob" -> IgnoredToKiro(obj)
                     [] OTHER         -> <<>>),
              Only("explanation", name \in Explains, Explained))

\* map_tool_input_from_kiro
InputFromKiro(kiroName, obj) ==
    IF kiroName \notin DOMAIN Inbound THEN obj
    ELSE Over(Rename(obj, Inbound[kiroName]),
              IF kiroName = "read_file" THEN LinesFromKiro(obj) ELSE <<>>)

\* restore_tool_use_for_client
RestoreToolUse(kiroName, obj, nameMap) ==
    [name |-> IF kiroName \in DOMAIN nameMap THEN nameMap[kiroName] ELSE kiroName,
     input |-> InputFromKiro(kiroName, obj)]

-----------------------------------------------------------------------------
(* kiro_builtin_tool_schema: the keys a call must and may have.              *)

Required ==
    [fs_write |-> {"path", "text"}, str_replace |-> {"path", "oldStr", "newStr"},
     execute_bash |-> {"command"}, read_file |-> {"path", "explanation"},
     file_search |-> {"query", "explanation"}, grep_search |-> {"query"},
     list_directory |-> {"path", "explanation"}, web_search |-> {"query"}]

Optional ==
    [fs_write |-> {}, str_replace |-> {}, execute_bash |-> {"timeout"},
     read_file |-> {"start_line", "end_line"},
     file_search |-> {"excludePattern", "includeIgnoredFiles"},
     grep_search |-> {"caseSensitive", "includePattern", "excludePattern", "explanation"},
     list_directory |-> {"depth"}, web_search |-> {}]

\* The schema's "additionalProperties": false and "required"; an optional key
\* may be null, a required one may not.
FitsSchema(kiroName, obj) ==
    /\ Required[kiroName] \subseteq DOMAIN obj
    /\ DOMAIN obj \subseteq Required[kiroName] \union Optional[kiroName]
    /\ \A k \in Required[kiroName] : obj[k] # Null

\* The calls the model may make of a built-in tool, with the given values.
ModelCalls(kiroName, values) ==
    UNION {{Over(f, [k \in Required[kiroName] |-> CHOOSE v \in values : TRUE]) :
                f \in [o -> values \union {Null}]} : o \in SUBSET Optional[kiroName]}
=============================================================================
