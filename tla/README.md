# A verification project for kiro-rs

kiro-rs is a proxy between clients that speak the Anthropic or OpenAI protocols
and the Kiro upstream. It keeps a pool of upstream accounts ("credentials"),
refreshes their tokens, chooses one for every request, retries and falls back,
translates requests and upstream's event stream, bills prompts against a
simulated cache, and lets an administrator manage accounts, groups, proxies and
client keys while it runs. This directory holds TLA+ models of it, TLC
configurations that check them, and TLAPS proofs about them.

Paths below are relative to `src/src/` unless they say otherwise.

## 1. Inventory

| Part | State it keeps | Operations | What is hard |
|---|---|---|---|
| Scheduling, `kiro/token_manager.rs` | `entries` (one lock), `current_id`, `load_balancing_mode`, sticky map | `acquire_context`, `report_*`, administrator's setters | the list lock is taken several times per request with awaits between; reports arrive late; healing, cooldown, reload and administrator all reset flags |
| Concurrency slots, same file | one atomic counter per credential | `acquire`, `drop`, `clear_concurrency` | check and take are an await apart; `drop` is two atomic operations |
| Token refresh, same file | tokens in `entries`, `refresh_lock` per credential | `try_ensure_token`, `force_refresh_token_for`, `try_reload_credential_from_file` | the authority rotates refresh tokens; copies held over awaits; the file may be newer or older |
| Credentials file, same file | `credentials.json`, its temporary file, `persist_lock` | `persist_credentials`, start | crashes, failing file operations, stale snapshots |
| Accounts, same file and `admin/service.rs` | `entries`, `next_id`, the file | batch import, add, verify, roll back, delete | duplicates are looked for twice with network calls between; a client leaves in the middle |
| Statistics, config setters, same file | `kiro_stats.json`, dirty flag, `config.json` | debounced save, read-modify-write | flags cleared after the write, no lock around the config file |
| Provider, `kiro/provider.rs` | nothing between calls; a budget, `force_refreshed`, slot per call | `call_api_with_retry`, `call_mcp_with_retry`, `fallback_endpoint` | nested loops with budgets of their own; every exit must release the slot; answers of three endpoints |
| Endpoints, `kiro/endpoint/*` | none | URLs, headers, classification of bodies | strings only |
| Event-stream decoder, `kiro/parser/*` | buffer, state, error counts | `feed`, `decode`, recovery | resynchronising after a corrupt frame, chunks cut anywhere |
| SSE stream, `anthropic/stream.rs` | open blocks, next index, text buffers, stop reason, errors | one handler per upstream event, final events, buffered mode | events and tags cut anywhere; order of blocks; errors in the middle |
| Handlers, `anthropic/handlers.rs`, `middleware.rs` | per-request stream state | authenticate, messages, cache, books | a client that leaves, a key that changes, accounting exactly once |
| Converter, `anthropic/converter.rs`, `payload_truncate.rs`, `prompt_filter.rs`, `text_truncate.rs` | none | request translation, history repair, tool mapping, truncation, filters | pairing of tool uses and results after whatever the client went through |
| Adapters, `anthropic/openai.rs`, `responses.rs` | none | two more protocols in and out | one answer told in several shapes, and replayed by the client |
| Web search, `anthropic/websearch_loop.rs` | rounds of a loop | model call, search, merge | calls of the gateway and of the client in one answer; bound on rounds |
| Caches, `anthropic/response_cache.rs`, `cache_metering.rs` | entries with expiry, dirty flag, file | look-up, put, evict, flush, split of the bill | expiry, capacity, a flush outside the lock, roundings that must add up |
| Client keys, groups, proxies, `admin/client_keys.rs`, `groups.rs`, `proxy_pool.rs` | persisted lists | create, rotate, rename, delete, check | cascades over several files; results that come back late |
| Logins, `admin/service.rs`, `kiro/auth/*` | sessions, callback servers | start, callback, poll, paste, expire | several tabs poll one session; ports come back |
| Traces and usage, `admin/trace_db.rs`, `usage_stats.rs` | buckets, files, rows | record, rebuild, clean up, query | three books of one request |
| Admin service and API, `admin/service.rs`, `handlers.rs` | balance cache | sweeps, passing on | passes to the manager |
| Start, update, helpers | none | wiring | none |

How they interact. The middleware authenticates the client key, whose group
restricts the accounts. The handler looks into the cache of answers, converts the
request and calls the provider. The provider asks the manager for a credential
(`acquire_context`), which chooses under the list lock, then refreshes the token
under `refresh_lock`, saving the list through `persist_lock`; the slot it takes
travels with the response and is dropped when the response has been read. The
provider reports the outcome (`report_*`), which moves flags and counts in the
list. The response goes through the decoder and the stream (or the search loop
and an adapter) to the client; the prompt cache divides the bill, and the usage
log, the totals of the key and the trace are told at the end. The administrator's
calls change keys, groups, accounts and proxies at any time.

What makes each part correct is listed as `hazards` in `PROJECT.json`, each at the
line where it bites, with the properties that would catch it.

## 2. Modules

| Module | Models | Composed in |
|---|---|---|
| `DurableStore` | the abstract promise of a store: changes, saves in one step, crashes | implemented by `CredentialStore` |
| `CredentialStore` | `persist_credentials` and restart | `MCManager` |
| `CredentialPool` | scheduling: one action per lock section of `acquire_context`, per report, per administrator's call | `MCCredentialPool`, in `MCCall`; implemented by `Provider` |
| `Provider` | the retry loops; EXTENDS `CredentialPool` | `MCManager` |
| `ConcurrencySlot` | one credential's `in_flight` counter | `MCAccount` |
| `TokenRefresh` | one credential's tokens in memory, in the file and at the authority | `MCAccount` |
| `StreamText`, `SseStream` | the text scanners of `stream.rs` as operators; one response: event handlers, end, buffered mode, retries of empty responses | `MCSseStream`, in `MCCall` |
| `ClientKeys`, `UsageLog`, `TraceStore`, `ReplyCache` | a store each: keys, usage log and statistics, trace rows, cache of answers | `Gateway` |
| `Gateway` | the life of a request from the middleware to its books | `MCGateway` |
| `Lists` | the elements of a sequence that belong to a set, for the modules of requests and answers | `PromptFilter`, `Adapters` |
| `ToolMapping`, `ModelOptions`, `PromptFilter` | names and arguments of tools both ways; model, effort and thinking; filters of the system prompt | `Converter` |
| `Converter` | `convert_request_with_mode` as operators on messages | `Conversation` |
| `Conversation` | a client whose conversation grows, is converted and is cut to the payload limit | `MCTraffic` |
| `CacheBilling`, `PromptCache` | the arithmetic of the bill; the prefix cache with its task and file | `MCTraffic` |
| `Adapters` | requests and answers of Chat Completions and Responses | `WebSearchLoop` |
| `WebSearchLoop`, `Codex` | the rounds of a request with searches; a session of a Responses client around them | `MCTraffic` |
| `EventDecoder` | the decoder over a stream of damaged frames | `MCTraffic` |
| `Groups` | the registry, the accounts' and the keys' groups, the cascades over them, and token refreshes that write an account back | `MCAdmin` |
| `Proxies` | the proxy pool, its checks and its assignment to accounts | `MCAdmin` |
| `Logins` | social and IdC logins, relogins of an account | `MCAdmin` |
| `Accounts` | batch import, single additions, deletions, restart | `MCAdmin` |
| `Manager_proofs` | theorems about `CredentialPool`, `Provider` and `CredentialStore` | |
| `SlotAndToken_proofs` | about `ConcurrencySlot` and `TokenRefresh` | |
| `Admin_proofs` | about `Accounts` and `Logins`, `Groups` and `Proxies` | |
| `Gateway_proofs` | about `Gateway` and the stores it composes | |
| `Request_proofs` | about `ModelOptions`, `PromptFilter`, `Converter` and `Conversation`, about `CacheBilling` and `PromptCache`; EXTENDS `Answer_proofs` for its lemmas on sequences | |
| `Answer_proofs` | about `EventDecoder`; about `Codex`, with `WebSearchLoop` and `Adapters` | |
| `SseStream_proofs` | about `SseStream` and `StreamText`: the blocks of the client's stream | |
| `StreamOutcome_proofs` | about `SseStream`: its tool calls, its errors, the cache and the retries; EXTENDS `SseStream_proofs` | |

State and code. A variable has the name of the field it models where there is
one; `pc`, `stage`, `at` say where a task is between two awaits or lock sections.
A step is what happens under one lock, or between two awaits. `PROJECT.json` "map"
gives the lines of every definition. A definition `X_Y` introduced by "Mutant" or
"Fault" is a plausible mistake in `X`; nothing uses it but the test that the
properties notice it.

What the models abstract:

* `CredentialStore`: the list is the number of changes made to it. A copy is the
  version it was made from, which is all that the order of two writes depends on.
* `CredentialPool`: model and group matching is a relation (`Serves`); the
  balanced mode's order by use counts is an arbitrary choice; the sliding windows
  that decide whether a 429 cools down or disables are an arbitrary choice; the
  in-flight counter is the number of holders (`ConcurrencySlot` says when that is
  right).
* `ConcurrencySlot`: the width of the counter is `Modulus`, wrapping kept.
* `TokenRefresh`: tokens are numbers in the order the authority issued them; the
  three refresh protocols are one (success with or without rotation, rejection,
  failure with or without the authority having rotated).
* `Provider`: an answer is its class. Two credentials' profile ARNs, traces and
  the text of the last error are left out.
* `StreamText`, `SseStream`: a text is a sequence of cells: whole lines, pieces of
  a line, and the pieces of a tag at the places where an event may cut it. A
  buffer that keeps as many bytes as a tag has keeps as many cells. Four cells
  (`Payload`) stand for what the model has to say; the properties follow them
  from the upstream events to the client's. Each handler maps a context to a
  context, as the code's methods do, so that one upstream event is one step.
  When several blocks are stopped at once the code follows the order of a hash
  map; the model takes some order, and no property depends on which.
* `Converter`: texts and ids are numbers by which the properties follow them; a
  long text is several pieces, of which `truncate_field` keeps the first and the last
  (the text of a result is one piece, cut or not); images are digests, and one in a
  format the code does not know is dropped. JSON schemas and the resizing of images
  are data, and blocks of kinds the converter does not know are left out. `ToolMapping`: arguments are
  functions from keys to integers, because the mapping renames keys and only
  computes with the line numbers of `Read`.
* `PromptFilter`: a line is its kind; what makes a line noise or a heading is the
  code's table and stays there. A prompt with the markers of Claude Code is one.
* `PromptCache`: a hash is the prefix hashed. `CacheBilling`: ratios and weights
  are multiples of 1/20, which all the constants of the code are; the code's f64
  roundings are the roundings of the exact quotient.
* `Gateway` and its stores: a bucket is the set of the records it sums up, so that
  a request counted twice or lost shows; settings of a key that change no control
  are left out.
* `EventDecoder`: a byte is its frame and its place. A length and a checksum read
  what was sent when the bytes they are read from lie together from a frame's
  start (`Together`); what any other place reads as a length is chosen once per
  stream, and its checksum does not match. Where a refused chunk is missing, the
  frame around the hole is not together and fails its checksum; elsewhere a
  checksum matches exactly when nothing under it is damaged.
* `Accounts`: a save is one step that may fail, `CredentialStore` has its steps; an
  upload is known by the token it came with, and rotation makes its next
  generation. `Groups`, `Proxies`: files are written in place and may be torn.
* `Logins`: the identity provider answers, refuses or waits, as it likes, and so does
  whoever connects to a callback server.

## 3. Runs

Parts that share no state in the code are checked side by side in one run: a
selector variable (`half`, `side`, `section`) is set in the initial state and never
changes, and the parts not selected stand still. That adds state spaces instead of
multiplying them and loses no behaviour, since no property relates two parts.
Each fairness condition is about steps of one part, and none of them is enabled
in a part that stands still (or it names the selector), so that no part's
behaviours are ruled out by another's fairness.

| Run | Question | Instance and why it is enough |
|---|---|---|
| `manager` | Does a call of the provider end, hold its slot exactly while it must and use the pool as specified? Is a change that was reported saved durable, does every save end, and does the store implement `DurableStore`? | 2 credentials in every state the file may have them in, both modes, threshold 2; any number of calls of the API and of a tool, one after the other, with 2 attempts each (`MaxTotalRetries`) and a budget of tokens to fail on each; every outcome goes on in the next call, and cooldowns end at any time; 2 tasks and 3 changes: two overlapping saves and a crash between them in every order |
| `call` | Do groups stay apart, and does healing stay honest? Is the client's stream bracketed and signed, is text lost, is thinking split off as in the whole text, do tool calls come whole or not at all, is the outcome true, and are only empty attempts thrown away? | 2 identifiers, 2 requests, threshold 2, limits 1; one credential both requests may use and one only the first; additions and deletions included. Seven scenarios, each with the events that make one mechanism work, in every order up to 2 to 5 events |
| `account` | Is a live token sent, is an account reported dead only when somebody else killed it, does every refresh return? Is the slot counter exact, and does a full credential free up? | 2 requests and a forced refresh, 3 tokens, and 1 edit beside a request and a forced refresh; 3 requests on a limit of 1, an 8-valued counter, 2 clears |
| `gateway` | Do the three books of a request agree, do statistics survive a restart, and is nobody sent another's answer? | 2 requests of the system key and another, answered upstream or from a cache of one entry, two days of one hour, one disturbance (edit, deletion, cleanup, hang-up, crash) at any point |
| `traffic` | Is every converted request legal and complete, cut or not, do tool calls come back to the client as its own, is thinking asked for once, do filters keep instructions? Is the prompt cache what was recorded, and does a bill add up? Do searches stay inside and answers agree in all protocols, and do they survive their replay? Are only damaged frames lost? | conversations of up to 5 messages (two calls and their results around a new prompt), with results returned late, one by one, twice or without their call, an answer said twice, long texts and results, and pictures of a known and an unknown format, under four kinds of request, with and without a payload limit, four pieces of text in a field; two requests, two time-to-lives, a capacity of three and a restart; sessions of two requests with two rounds and twelve answers; streams of one or three frames, each kind of damage in each, cut anywhere |
| `admin` | Do renames keep isolation, is what the proxy pool says true, do dead proxies retire, does a login do once what it says, do callback ports come back, do imports keep their word, does no account inherit an identifier? | two administrators, two groups, two calls, and a token refresh or a restart; two URLs, a task and a page that check, two calls and a restart; two sessions, two tabs, one port; a batch of two uploads, one worker, one addition by hand, a deletion and a restart |
| `account_wrap`, `account_reload`, `gateway_isolation`, `stream_mention`, `traffic_truncated`, `admin_reuse` | Six statements of the repository that the code does not keep; `findings` in `PROJECT.json` quotes them | the smallest instance that shows each |

Some properties are about operators and not about states (the mapping of tools,
model options, filters, the split of a bill): they are quantified over bounded
inputs and evaluated in the states where their premise holds once (an empty
conversation, a cache that has served nobody).

Bounds, all named: `MaxVersion`, `MaxClears`, `MaxToken`, `MaxEdit`, `MaxId`,
`MaxReloads`, `MaxMessages`, `MaxTime`, `MaxCalls`, `MaxRestarts`, `MaxTurns`, `MaxNow`,
`MaxEvents`, `MaxGroupCalls`, `MaxUpsets` (token refreshes and restarts that disturb the
groups, together), `MaxPoolCalls`, `MaxDeletions`, the other `Max...Restarts`
and a scenario's `most` stop unbounded counters. `RepeatTrip`, `MaxInvokeHold`,
`MaxField`, `Capacity`, `MaxErrors`, `MaxBufferSize`, `MinRecentTurns`, `MaxTrimIters`,
`MaxRounds`, `MaxTotalRetries`, `MaxProbeFailures`, `HourBuckets` and `DayBuckets` are
limits of the code, made small so that they are reached. `MaxReloads` is a bound of
the model: the code reloads from the file whenever it has another token, which
nothing in the code limits but the authority.

Two choices cut states out of runs. In `manager` no call begins before the one
before it has ended, and no administrator acts: what a call does to a later one is
there (counts, reasons, cooldowns, healing), what two do to each other at once is
not. `call` interleaves requests and administrators, without the provider's loop around
them, and the theorems `ProviderCallsRunDown`, `ProviderSlotFollowsCall` and
`ProviderImplementsPool` are about all of it together. And `call` has one state
constraint, `FallbackBound`: a state in which the first credential is cooled down, or
out of service for anything but an administrator or its failures (so for a quota,
a dead token, failing refreshes), is not continued. The second credential goes
through everything. Of the first one these behaviours are in `manager`, and
`PoolGroupIsolation` and `PoolOnlyFailuresHeal` are proved without the constraint.
Deadlock is not checked where the bounds stop everything (a conversation that is
full, a stream that has ended), and in `account` also because once the counter has
wrapped and no clears are left the credential is never chosen again, which is the
finding of `account_wrap`.

Fairness. `SaveStep`, the steps of a refresh, of a call and of a slot are weakly
fair: file operations return, upstream requests have timeouts in the HTTP client,
a sleep ends, `Drop` waits for nothing. Taking a lock is strongly fair where a
tokio mutex (first come, first served) or a mutex released between steps
(parking_lot, with its eventual fairness) is waited for. In `admin` the end of a
callback server (`ShutDown`) is strongly fair: each time the server is back in its
`select!` with the handle dropped, tokio chooses among what is ready at random, so
that it cannot prefer connections for ever. Nothing says that a connection sends
anything: the server's `read` has no time limit. In `admin` the background
task that checks proxies and the one that sweeps login sessions run on (both are
loops with a timer, spawned once), the clock passes a session's expiry, and a
poll that was begun is served, since the clients it uses are built with a time
limit. Nothing is assumed about when an administrator, a client, a browser, the
authority or upstream acts.

Callback ports. `run_callback_server` looks at its handle only in its `select!`
(`social.rs:108`); behind it, it reads from a connection for as long as that takes. So
`PortsComeBack` promises the port of a session that has ended to come free unless the
server stays in that read.

The retention of the statistics. The code keeps 24 * 31 hours and 31 days of
buckets and rebuilds 31 days back, which reads 32 daily files at most: a rebuild
reads one day more than the day buckets keep. `RebuildDays = DayBuckets = 1` and
`HourBuckets = 1` with `DayLen = 1` keep that ratio. So what a restart may lose is
what memory was about to lose too, and `StatisticsSurviveRestart` says so: a
bucket that a record under way is about to push out is not promised, and neither
is a record whose line was not written.

What the properties do not promise. `NothingLost`: text after the repeat guard has
tripped, and text around `<tool_use` that is malformed or is a longer tag's name
cut exactly after `<tool_use` (the filter takes it for the tag, `stream.rs:70`);
`XmlSound` states this exception. `SplitAsWhole` is about text without other events
between. `RequestIsLegal` is about every request,
cut or not. It promises roles, declarations, an answer somewhere to every call and a
clean current message always, and pairs that are next to each other
only when the messages that were converted have them so (`InOrder`): the code has no
cleanup of calls that are not adjacent, and orphan results stay in the history. A
cut may take a call and leave its result (`traffic_truncated`). `NothingIsLost` speaks of
requests that were not truncated, `RecentIsKept` of the others; the middle of a field
above `MaxField` is lost, and images of an unknown format are. `CallsComeBack` says of a
client's own tool that has the name of one of Kiro's that its arguments come back
just when they are among the ones Kiro's tool maps and none is null.
`ThinkingIsAskedOnce` says with which system prompts the prefix is shown. `CacheIsTrue` makes no promise after a restart or an
eviction for capacity, and none about the file after a failed write.
`OnlyDamagedFramesAreLost` promises the good frames only when lengths and preludes
are whole and no chunk was refused; otherwise only order, and that nothing is made
up; and good frames that come in one chunk with a damaged one before them are
handed on with the next chunk only, so that the end of the stream loses them, and
a body that is fed at once (`handlers.rs:1447`) all that follows its first damage. `RenameKeepsIsolation` is about a rename no other
call disturbs, and leaves out, after it, the accounts whose token was being refreshed
when it reached the accounts. `IdsAreNotReused` leaves out the identifiers a restart
forgets (`admin_reuse` is about them). `ReloginDelivers` is
about accounts nobody else changed.

Seen while modelling, with no run of its own. Against a comment:

* A token refresh writes the whole credential back that it read before
  (`token_manager.rs:1947`, 3612, 4136), so that a rename of a group that was answered
  with a success is undone for that account, in memory and in the file, and the keys
  of the group do not reach it any more, although the rename is said to cascade to
  every credential (`handlers.rs:1819`). `RenameKeepsIsolation` names these accounts
  `late`.
* A connection that sends nothing keeps a callback port after its session is gone;
  the comments at `social.rs:42` and `service.rs:188` say that dropping the handle frees
  it.
* A tool of Raw mode with the name of one of Kiro's gets its arguments rewritten on
  the way back and loses those Kiro's tool has no key for (`depth` and `explanation` of
  `list_directory`); `converter.rs:1239` says that Raw mode passes them through.
* `payload_truncate.rs:4` counts three cleanups, with one of calls that are not
  adjacent to their results; the converter has two. Results that come late or one
  by one make such requests.

Not a contradiction of a statement: a system prompt that is there and has no text,
or none left by the filters, makes the converter write neither prompt nor thinking
prefix, so that a model that takes the prefix is not asked to think
(`converter.rs:1586`); a result that had only an image of an unknown format says
"[image attached]"; requests that arrive together go over an account's limit, since it
is tested before the token is awaited and the slot taken after; a forced refresh
copies the credential before it waits for `refresh_lock`, so the second of two
sends a token that is used up; native redacted reasoning inside tagged thinking
stops a block that then gets deltas (`create_thinking_delta_event` does not ask the
state manager); text held because of a lone `<` is sent after the block of a tool
call that came later (`stream.rs:703`); when the client of a batch import leaves,
an upload whose token has just been rotated is lost; a rename whose last save
failed is not taken back; a callback with another session's state uses up the
channel of the session whose server it reached.

## 4. Proofs

All theorems hold for every value of the constants under the named assumptions
of the modules. Each is about the specification of one component (`CacheSpec`,
`AccountsSpec` and so on; an MC module puts several of them side by side), and
follows the same way: an inductive invariant, its preservation step by step, and
the property from it. `Manager_proofs`:

* `CredentialStore`: `StoreInv` says that only the holder of `persist_lock` is
  between snapshot and rename, that versions are ordered `file <= snap <= mem`, and
  that whoever is about to report success has a copy at least as new as its own
  change. Durability, no going back and the refinement of `DurableStore` follow.
* `CredentialPool`: `PoolInv` adds to the properties `HealableInv`: an entry
  disabled for failures has its refresh failures below the threshold, which is
  what makes healing, which resets only the other count, safe; and `GivenInv`: what
  a request was given serves it at every stage.
* `Provider`: every step of a call is a step of the pool or leaves it alone, so
  what was proved of the pool is true while calls retry; and a slot is held
  exactly while a call deals with its answer. `ProviderCallsRunDown` is the argument
  behind `CallEnds`, for any number of calls, credentials and administrators: each step
  of a call makes it `Nearer` to its end, in the lexical order of attempts left, stage, endpoints tried (or
  newer tokens found, tokens left and place in `acquire_context`), which are bounded, and
  steps of others leave all of these alone. What it leaves to TLC is only that a
  call that can go on does.

`SlotAndToken_proofs`:

* `ConcurrencySlot`: while nothing is cleared the counter equals the number of
  holders; so the test in `drop` covers everything but `clear_concurrency`.
* `TokenRefresh`: `RefreshInv` ties the lock to the calls inside it and says where
  the live token is: in memory, or in the hands of the one call that is about to
  store it. A request that passed the second check sends the live token; a forced
  refresh has no such lemma.

`Admin_proofs`:

* `Accounts`: `JobInv` says what a task that is adding an account holds at each of
  its stages (an identifier of its own, an entry under it or none), and
  `ResultInv` what a result that was reported refers to. `ImportsKeepTheirWord`
  follows at the stage where a result is given. `IdsAreNotReused`
  needs `NumbersInv`: a number that is free, or that a job has taken and not yet used,
  was never an account's, unless a restart forgot it.
* `Logins`: `CodeInv` says that a session whose code or grant can still be used was
  not exchanged yet, and that the request at its exchange, or about to add its
  account, is the only one; `ReloginInv` how far an undisturbed relogin has come
  with its account.
* `Groups`: `RenameInv` says of a rename that no other call has disturbed, while
  refreshes carry copies from before it, what each of
  its stages has changed so far (registry, accounts, keys, and their files) of
  what was there when it began.
* `Proxies`: `PoolInv` says that no proxy is charged with more failures than its
  own probes saw and that one which is enabled is below the limit; `ChecksInv`
  that what a check probes still has the URL it was read with, if it is there at
  all, since identifiers do not come back; `PoolFileFollows` that the file is the
  pool as soon as nobody has a save left to do.

`Gateway_proofs`: `RequestInv` and `CacheInv` follow a request and its entry in the
cache of answers, whence `ReplayIsOwn`. `BooksInv` is what the equality of the books
needs: until a request has a row, it must still say what its record says. The
statistics need most: `LogInv` says that a record is never in a file older than
itself, `Backed` that what a bucket sums up can be read unless its line
was not written, and `Tracks` that a record that is due is in its bucket, or the
buckets are all newer and as many as there may be. That a full
table keeps the newest is `NewestFull`, by a least counterexample, since induction
is not to be had.

`Request_proofs`:

* `CacheBilling`: `FairBill` says of every usage, total and setting that the three
  buckets are not negative and add up, and that the cap holds wherever it is
  applied. The roundings do not enter the argument: each quotient is clamped to
  what is left, and the cascade of clamps is all that is used; for the cap, the
  number of tokens moved is rounded up and moving one lowers the weighted sum by
  a known amount.
* `PromptCache`: `CacheIsWhatWasRecorded` with `RecordedInv` and `ReadInv` says that
  what the map, the snapshot and the file have was recorded, and that a call
  reads only such a prefix; `SavedInv` that what is not dirty is in the file, or,
  while the file is written and torn, in the snapshot.
* `Conversation`: `ThinkingIsAlwaysAskedOnce` holds for every model that is offered,
  every way to ask for thinking and every budget and effort, by the tables of
  models and the order in which a model, its suffix and a setting overrule each
  other; with `NoteIsShown`, which says when the prefix is in what `SystemPair` writes, for
  each of the four kinds of system prompt.

* `PromptFilter`: `FilterTakesOnlyNoise` holds for prompts of one block with any
  number of lines. Each part of the filter keeps the lines of instructions, and two
  prompts are `Same` when they also agree on whether a section of noise is open, so
  that the same lines behind them are read alike; the walk over the lines and the
  collapsing of blank ones are folds whose equations are proved first. What comes
  out is `Clean`, and each part leaves alone what is: that is why filtering twice
  is filtering once. A prompt with a line of Claude Code's markers is replaced by
  another path, so `LineKinds` has the lines without them.

* `Converter` and `ToolMapping`: `CallsAlwaysComeBack` is about every request of a
  conversation, cut or whole. `ConvInv`: what is converted is a list of the conversation's
  messages and the placeholder, which the client's actions and the cuts keep
  (`ContinueStays`, `CutStays`), and the last result is `Convert` of such a list. So the
  tools shown are declared ones or were called in the conversation, under Kiro's names
  (`ToolsShown`); that takes the folds that build the history, whose equations come first,
  and an invariant of their steps for messages of any number.
  `NameMap` gives back a declared name that has the Kiro name (`NameBack`). The
  arguments are a matter of pairs: `KeyPairs` has the two names of each argument, the
  rules of the way in move a value from the one to the other (`RulesMove`), those of
  the way out move it back (`OutPairs`), and no name is in two pairs of a tool
  (`PairsAre`). Read has its own lemmas, since its start and end lines are an offset
  and a limit at the client's (`ReadsComeBack`). A tool of the client's own goes through
  the same way in: it is left alone unless it has the name of one of Kiro's (`OwnInput`), and
  then exactly if it has no arguments but those the rules write (`RenameStays`).

`Answer_proofs`, the decoder: `DecoderInv` has two parts. `OrderInv`: whatever is damaged, the
buffer is in sending order and behind every frame handed on. `AlignedInv`: while
preludes are whole and no chunk was refused, the decoder is at the boundary
behind some frame `n`, has handed on exactly the good frames of 1..n, and the
errors in a row it has counted are the last of them. The arithmetic between a
byte's number and its frame and place (a quotient and a remainder) is a group of
lemmas of its own.

`Answer_proofs`, the search loop: `SessionInv` is `LoopIsTrue` and what makes it
inductive, for any answers, tools, rounds and turns. `ItemsOk`: what a client sends
again holds no call of `web_search`, because none was flushed to it, so that
the payload a turn starts with asks for none; `PayloadOk`: every message of the
payload that asks for searches is followed by the results of just these;
`Progress`: the presentation holds whole pairs of a search and its result
(`PairedUp`), and with the searches under way as many as `found` counts; `OutcomeOk` and
`ReplyOk`: what the model called is in what was flushed as often as it was in its
answer (`SameCalls`), also where the same call leaked into the text. `ReplayOk`, on
top of it: the calls among the client's items are, place by place, the ones it was
answered with (`Pairs`, `ItemMatch`), seen with the tools declared (`Kinds`), which no
answer changes; that the messages built from items hold just these calls in order
(`CallsGivenBack`) is an induction over the items, `push_merged` adding blocks only
behind all others (`PushBlocks`). The lemmas
below it say what the loop's functions return for sequences of any length: the
elements of a sequence that are in a set (`Those`), flattened and folded sequences,
and how many places of one hold a value. They are proved from the definition of
`FoldLeft` as a recursive function by a least counterexample.

`SseStream_proofs`: `StreamInv` says that while the response is read the context is
`Good`: what was sent starts, fills and stops blocks as the table of blocks has
them (`Bracketed`), every closed block of thinking that said something was signed
once (`Signed`), a tool call's index is that of a block of its own (`Tools`), and at
most one block of thinking is open, the one `thinking_block_index` names, and when
it has said something and its closing tag is awaited more of it is held back
(`Thoughts`). The last part is what
makes it inductive: `create_thinking_delta_event` and
`create_signature_delta_event` go around `SseStateManager`, which drops a delta
for a closed block, so that nothing but the flags of `StreamContext` keeps them
apart. Handlers are proved one by one to keep a `Good` context `Good`, each by what
it may do to the blocks (`Begins`, `Moves`, `Runs`), and the steps of
`generate_final_events` to end in one that is `Over`. The two loops whose length is
that of the text keep `Good` by a least counterexample. The theorem assumes
`ReasoningOutsideTags`: while a block of tagged thinking is open, the service sends
no reasoning of its own (an event with only a signature may come). This is a fact
about the service and not about the code; with both in one response a signature
or a delta can follow the stop of its block, which the comment of
`BlocksBracketed` says.

`StreamOutcome_proofs`: `CallInv` is what the three statements about the outcome of a
response need together, with no assumption about the service. While events are
read the context is `Reading`: it is `Sane` (every block of a tool call is stopped
and is the three events that were sent for it together, `CallAt`, and no other block
event has its index); the calls that were sent are those whose pieces have come to
whole JSON, each with the pieces up to the first such stop (`Answered`), and the
fragments held are the pieces since an id's last stop (`HeldIs`); the flags of
errors are what has been received (`Unparsed`, `Broken`); and a context that has
counted a token or a call has sent something or holds it back (`Told`), while one that has
not is `Untouched`. The last is why `is_empty_response`, which looks at
two flags, throws nothing away. At the end the context is `Settled`: what was held is
sent, every id with pieces left over has raised the error, and an answer that
stops with `end_turn` has content. The accumulator, the repeat guard, the loop that
drains the sniff buffer and the text of the events sent are folds and recursive
functions; what is proved of them for texts of any length is an invariant of
their steps, carried from place to place by a least counterexample (`ChainIn`).
`RepeatTrip` is more than 1, as the code's constant is: a guard that trips on the
first line would count a token and say nothing.

Assumptions, all `ASSUME`d in the module that declares the constants and evaluated
by the runs. Limits are numbers, positive and ordered as the code's constants are
(`BucketsAssumption`, `TtlAssumption`, `CacheAssumption`, `DecoderAssumption`,
`LimitAssumption`, `MaxFailuresAssumption`, `RoundsAssumption`, `ConversationAssumption`); values that the code tells apart by
their type are different (`NullAssumption`, `BatchAssumption`, `OffersAssumption`,
`MembersAssumption`, `FileValueAssumption`; account 0 of `GatewayAssumption` is the
code's "no credential"); inputs have the shape that their types give them (a
batch, the blocks of a prompt and of an answer and the tools a client declares are
sequences, a call's input is an object: `CodexAssumption`, a log at the start is in files
no older than its records, an event has the fields of its kind: `StreamAssumption`);
requests and URLs are finitely many, and the slot counter is wide enough for its
holders (`ModulusAssumption`).

Only model-checked: the liveness properties (`SaveReturns`, `FullCredentialFreesUp`,
`CallsReturn`, `CallEnds`, `DeadProxiesRetire`, `PortsComeBack`), which are out of the
prover's reach; the violations, which are counterexamples; and what is computed
over sequences of any length, which would need induction over data: of
`SseStream` `NothingLost` and `SplitAsWhole`; of `Conversation` and `Converter` `RequestIsLegal`,
and `SaidIsSent`; of the adapters `AnswersTellTheSame`.

## 5. Not modelled, and the plan

Not modelled: statistics, mode and sticky map of the manager (counts and hints
that no other part relies on; the sticky choice is arbitrary in `CredentialPool`),
the setters of `config.json`, the balance cache, the endpoints, configuration and
HTTP helpers (data and strings), start and update (wiring, file input and output),
pings, identifiers and usage figures of the protocols, and the pages. The parts are
listed in `PROJECT.json` with their status.

Next, in the order of importance:

1. That the converter's request is legal (`RequestIsLegal`) for conversations of any
   length, with the folds of `Converter` treated as those of `PromptFilter` are.
2. `Message`, an abstract specification of the client's stream that `SseStream` and
   the search loop both implement.
3. `Accounts` over `CredentialStore` and `TokenRefresh`, with the steps of a save and
   of a refresh in place of single ones.
