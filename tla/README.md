# A formal model of the Microsoft Defender MCP server

The program (`src/`, Rust) is an MCP server: a language model's client calls its
tools over stdio or HTTP, and the server calls Microsoft Graph and the Defender
for Endpoint API for it. It reads (hunting, threat intelligence, incidents,
machines, vulnerabilities, forensics) and, when enabled, changes things: it
isolates machines, runs live response, edits indicators, triages alerts.

What can go wrong is rarely in one function. It is in tasks that share a token
cache and one renewal lock, in a request that was sent and whose record was
not written, in tables kept apart that have to agree, in two downloads with one
file name. The TLA+ modules in this directory model those parts, TLC checks
them on small instances, and TLAPS proves the most important results for every
value of the constants. `PROJECT.json` lists the runs, the mutants that show
each property can fail, the source lines every definition stands for, the
hazards and the findings.

## Inventory

| Component | Source | State it keeps | Operations |
|---|---|---|---|
| Token manager | `auth.rs`, `auth/session.rs` | token cache per audience, `refresh_lock`, the session's reauth cell, consent and refresh token | `get_token`, `set_reauth`, `fetch_app_token`, `refresh_token_grant` |
| Interactive sign-in | `auth/signin.rs`, `auth.rs` `sign_in_user` | listener task and its one-shot slot, device-code interval and expiry | browser flow, device-code flow, first token of each audience |
| Mutation pipeline | `server.rs` `execute_mutation`, the four mutating dispatchers, `call_tool` | none beyond the call | the seven stages from barrier to outcome |
| Confirmation | `confirm.rs` | none | prompt, map the answer, time out |
| Audit log | `audit.rs` | the file behind a mutex | `open`, `append` |
| Tool dispatchers, permission tables | `server.rs`, `auth.rs`, `error.rs` | the route table | ten tools, about 120 actions; scopes requested, refused, explained |
| Configuration, start-up | `cli.rs`, `main.rs` | flags, categories | `from_flags`, `from_cli`, the sink's opening |
| API clients | `client.rs`, `error.rs` | none | `request`, `read_json`, `download_artifact` |
| Artifact staging | `server.rs`, `client.rs` | files in the quarantine directory | link, stream, hash, remove |
| Transports, shutdown | `main.rs` | none | `run_stdio`, `run_http`, `shutdown_signal` |
| Advanced hunting | `hunting/`, `server.rs` | the schema cache | validate, run, schema, tables |
| KQL parser and policy | `crates/kql-parser` | none | parse, walk the tree for facts, check, bound |
| Argument validation | `validation.rs`, the bodies of the four mutating dispatchers | none | which fields an action uses, needs, records and sends |
| Prompts and resources | `prompts.rs`, `resources.rs` | none | static text |

How they interact. A tool call arrives at `call_tool`. A tool whose category is
off has no route, and `call_tool` itself records the rejection. Every other call
reaches its dispatcher. A read asks the token manager for a token and sends one
request. A mutation goes through `execute_mutation`: read-only barrier,
category, validation, human, intent record, request (which asks the token
manager), outcome record. A claims challenge in any API answer goes back to the
token manager as `set_reauth`. Sign-in runs once, before the server serves, and
leaves the session the token manager starts from.

What is hard, and what makes each component correct:

- Token manager: many tasks, one lock for both audiences, held over an HTTP
  request; every check before the lock may be stale after it. Correct: one
  request in flight, none that is needless or lacks consent, at most one after
  re-authentication is required, no refresh token replaced by an older one, no
  token served long after its death, and every call returns.
- Mutation pipeline and audit log: an attempt fails, times out or dies between
  any two of: record, request, effect, record. Correct: no effect without an
  intent on record, one request per attempt, nothing recorded that is not so,
  nothing sent without the flags and the human's consent, every answered attempt
  on record.
- Sign-in: a listener that accepts requests from anyone on the machine, stale
  and late redirects, timers against redirects against Ctrl-C, polls against the
  expiry of the code. Correct: only the code of the current attempt is redeemed,
  the provider's pace is kept, the session is whole, the sign-in ends.
- Permissions: three hand-kept scope tables, flags that combine, two places that
  decide whether a tool is on. Correct: the tables agree and no combination of
  flags is a way round them.
- Staging: concurrent streams into files named after the action. Correct: what
  is reported is what is in the file, and a failure leaves nothing, or, if the
  file cannot be removed, no more than a beginning of its own archive.
- Hunting: overlapping fetches of one schema whose answers overtake each other, a
  limit counted one row further than asked, refused constructs that can hide
  anywhere in a query. Correct: no schema is served for longer than promised, an
  answer cut for its rows says so, nothing refused is sent.
- Arguments: 26 mutating actions over some 35 fields, whose use, need, record and
  request are written down in different places. Correct: nothing given is dropped
  without a word (two actions do not even look), the log keeps what is sent, and the
  human is shown the same, as far as 200 characters of each value go.
- The whole: a mutation asks for its token after it was confirmed and recorded, from
  a token manager other calls use and may spoil. Correct: every call ends, and
  what has not yet passed the last check of `get_token` when the session needs a new sign-in never
  leaves.

The remaining component is text.

## Modules

`TokenManager` — one caller per tool call. Each action is the code between two
awaits of `get_token`: `Begin` (the session check), `CacheHit`/`CacheMiss`,
`Acquire` (tokio's FIFO mutex), `RecheckSession`, `RecheckHit`, `SendGrant`,
`ReceiveToken`, `ReceiveError`, then `FinishUse` for the API call the token was
for. `credential` is the mode: a client secret never has consent or
re-authentication to look at. A token has two times, `expires` (what the server
computed on receipt) and `dies` (what the provider meant on issue); `MaxLatency` is
how long an answer may take, the client's 210 s, and `Buffer` the margin of 60 s, and
neither is assumed to be the larger. The provider
and the network are the external actions `ProviderGrants`, `ProviderRefuses`,
`AnswerLost`. A failed first check is not a step, because it changes nothing.

`AuditedMutation` — the abstract promise: intent, then run, once; or refused,
and never run. `MutationPipeline` is shown to implement it, with `intended` and
`refused` read off the whole lines of the log and `run` off the wire.

`MutationPipeline` — one attempt per mutating call, from `call_tool` to the
outcome record. `Call*` are the ways a call is settled before the first await;
`CallAsks`, `HumanAnswers`, `ReceiveAnswer`, `PromptTimesOut` are the
confirmation; `Recorded` and `RecordFails` are one `append`, which holds the file's
mutex for the whole write; then the request, the API and its answer. `Crash`,
`PowerFails` and `Restart` are the process and the machine; the log survives,
the configuration may change. The log is a sequence of fragments, whole or torn.
Both the final record of `audit_validation_error` and that of stage 3 are
`CallRejected`: which check failed is the Boolean `valid`. A human who accepts after the prompt
timed out leaves `acceptedLate`, not `accepted`.

`SignIn` — one action per await of the two flows, plus the listener's task
(`RequestArrives`, `ListenerCloses`), Ctrl-C and the clock. `attempt` counts browser
attempts and stands for the `state` parameter; `slot` is the one-shot channel.

`Permissions` — the action tables of the ten tools, the API and the permission
category each action is sent with, `compute_audience_scopes`, `delegated_scope`,
`check_scope_not_requested`, and one call at a time from `call_tool` to its
answer. Calls share nothing here, so one at a time shows every behaviour.

`Staging` — the two download actions. A file is an inode: `Open` truncates and
shares what the name is linked to, `WriteBlock` writes at the handle's own
position, `StreamFails` removes the name, whoever's file it now is, or does not
manage to, which the code ignores (`unremoved` keeps who). `Ask` is the token check
before the link and the status, and any failing request may set `reauth`, that of the
archive's store included; `WaitEnds` is what the client's timeout ends.

`SchemaCache` — the schemas all hunting calls share. A call hits, or misses and
fetches; nothing keeps two fetches of one table apart, and `Receive` puts whatever
arrives over whatever is there. Of a schema the model keeps its table and the time
Graph read it.

`HuntingRun` — one query from the check of `maxRows` to the compacted answer: the walk
of its tree, one call of `walk` or `head_of` at a time (`WalkOn`), the verdict, and the
`| take` that asks for one row more. Graph cuts at its limit of rows and at one of size
(`fit` rows), which only the model knows (`tooLarge`). That it then returns the rows
that fit is a reading of the limits the code and the README name.

`KqlAnalysis` — a step of that walk, and the checks of the policy, as operators. A tree
is kept as pest keeps it, a numbered list of pairs with the last pair inside each, so a
call in progress is a *frame*: a range of pairs that stand side by side and how they are
to be seen. What the Rust code does by calling itself is a set of frames here, taken in
the order of the text. `RefusedIn` is the reference the walk is compared with: it looks
at every pair, in no order. The grammar is external; `IsParsed` is what the walk takes
from it, read off `kql.pest`.

`MutationArguments` — what the four mutating dispatchers make of a call's arguments:
reject it for a field it does not use, for lack of a change, for a missing or wrong
value, or accept it with a request, targets and parameters, and the prompt
(`Message`) made of them. Uses, needs and sends are three tables, as in the code. A text
is of one of these classes: plain, padded with blanks, too short for a justification,
refused by its validator, and two that are longer than the 200 characters of the prompt
and the same up to there. So trimming and cutting are seen where the code does them and
not where it does not. Live response commands are recorded by their types (`Kept`).

`ToolCalls` — both of them: one call at a time, since they share no state.

`Server` — `TokenManager` and `MutationPipeline` composed, by instance. An attempt is
a caller of the token manager between its intent record and its outcome: `Ask` and
`AskRefused` are the first check of `get_token`, `GetForAttempt` the rest of it, and
`UpstreamNotReached` of the pipeline happens exactly when that fails or no connection
is to be had (`SendFails`). `Answered`
joins the API's answer with `read_json`'s claims challenge, which is recorded as a
transport error, since it carries no status. Reading calls go beside. `Stop` ends
every caller with the process, and `Restart` begins with new tokens.

`TokenManagerProofs`, `MutationPipelineProofs`, `SignInProofs`, `StagingProofs`,
`SchemaCacheProofs`, `ToolCallsProofs`, `PermissionsProofs` and `ServerProofs` hold the
theorems. The `MC*` modules hold the instances. In each specification a definition
marked *Mutant* is a plausible bug, kept next to the definition it would replace.

## Runs

| Run | Instance | Shows |
|---|---|---|
| `token_manager` | 3 calls, 2 audiences, margin 1, latency 2, lifetimes 0 and 3, clock to 4, 2 rotations | the safety of the token manager, both modes; no call waits for nobody |
| `pipeline` | 2 attempts, 6 calls, 5 configurations | log truthful and complete, `AuditedMutation` implemented, nothing sent unless configured and, where asked, accepted in time |
| `pipeline_torn`, `pipeline_unrecorded` | 2 attempts | two findings, below |
| `server` | 1 attempt and 1 reading call, 2 audiences, lifetimes 0 and 1, clock to 1, no rotation, power can fail | every call returns the renewal lock, every attempt ends, no mutation leaves that had not passed the last check of `get_token` when re-authentication was required |
| `sign_in` | timeout 2, intervals 0 and 1, code lives 0 and 3, step 1 | the whole sign-in |
| `permissions` | all 32 flag sets, both modes, with and without `--read-only` | explained scopes are requested scopes, no way round the flags |
| `permissions_documented` | the same | one finding |
| `staging` | 3 calls: two of one package, one alone on a leftover file; bodies of 2 blocks | reported files are whole, failures leave nothing or a beginning of their own, every download ends |
| `staging_shared` | 2 calls of one package | one finding |
| `schema_cache` | 2 calls, 2 tables, an hour of 2 ticks, latency 1, clock to 5 | a schema served is of its table and no older than promised; every fetch ends |
| `arguments` | some 5,000 calls of 26 actions; 12 fragments at 12 places of a query, and a text without a tree; Graph's limit 3, matches to 5 | nothing dropped but by two actions, the log is the request and the prompt the log up to 200 characters, determinations keep their meaning, nothing refused is sent and nothing else blamed, answers cut for their rows say so |

Bounds, and why they are enough.

- Three callers: one holds the lock while two queue, which is the least that
  shows a second waiter acting on what the first did. Two audiences is all there
  are. An answer may take longer than the margin, as in the code, so a dead token can
  be served, and `DeadTokenBounded` says for how long. The clock's bound reaches
  lifetime + margin, so tokens expire and are
  renewed; two rotations let an older answer follow a newer. Callers and
  audiences are symmetric, and symmetry is used for the safety run only. One
  provider reason stands for four, which the code treats alike.
- Two attempts are enough for the log to interleave; an attempt reads nothing of
  another. The six calls are one of each fate, the five configurations one of
  each way the flags can differ in effect. All combinations of flags are the
  matter of `permissions`, and the theorems hold for any. Restarts are not
  bounded: their state space is finite.
- Sign-in: a code life longer than two intervals lets slow_down exceed it; 0 is
  the boundary value of both. `MaxQuiet` bounds only the measured quiet time.
- `permissions` is exhaustive in what it models: there is no larger instance.
- `server`: one attempt and one reading call are the least that share a lock, and the
  reading call is enough to end the session under the attempt. All 3 and 2 of the
  parts' own runs would not fit, and theorem `ImplementsPipeline` says that the parts'
  larger runs still count. The clock's one step lets a token expire between two
  requests. Power fails here, so that its restart and truncated logs are seen too.
- `schema_cache`: two fetches of one table are what overtakes; five ticks hold two
  hours and a half, so an entry can be served, expire, and be served again late. The
  bound `TTL + MaxLatency` is reached.
- `arguments`: for every action the fields it needs and all it uses, with each other
  field of its tool added and each of its own left out, and every value of every
  field one at a time; for triage every status, classification and determination
  together, for indicators every type with every action. Where validity relates two
  fields, both vary. Queries: every construct the policy names, at every place of the
  grammar the walk treats in a way of its own. Graph's limit of 3 has its boundary at
  `maxRows` 2; requests of 0 to 4 and matches to 5 cross it.
- Two blocks distinguish "partial" from "whole" and produce a hole; the leftover
  file has three, one more than is written over it.

Deadlock is checked for `permissions` and `arguments`; `server` never stops, since
the process can end and restart. In the other modules the system may stop:
calls finish, the sign-in ends, the clock reaches its bound.

## Fairness

- `TokenManager`: weak fairness of each caller's own steps and of the end of its
  request. tokio polls a runnable task, its mutex is first come first served, and
  the client's timeout of 210 s ends every request. Nobody owes a call, and the
  provider need not grant.
- `MutationPipeline`: weak fairness of the attempt's own steps, which include both
  timeouts (300 s for the human, 210 s for the API). The human, the API and a
  restart owe nothing.
- `SignIn`: weak fairness of the server's task and of time.
- `Server`: weak fairness of each attempt's own steps, of each reading call's, and of
  the end of each token request, for the reasons above. The human, the API, new
  calls, ends and restarts of the process owe nothing.
- `SchemaCache`: weak fairness of a call's return only: the client's timeout ends a
  fetch Graph never answers.
- `Staging`: weak fairness of each call's timeouts and failures only; progress of
  the stream is not assumed.

## What is proved

For any set of callers, audiences, lifetimes and bounds (`TokenManagerProofs`),
any attempts, calls and flags (`MutationPipelineProofs`), any timers, intervals
and code lifetimes (`SignInProofs`), any downloads, names and archives
(`StagingProofs`), any flag sets (`PermissionsProofs`), any fetches, tables and
times to live (`SchemaCacheProofs`), any call a client can make and any parse
tree (`ToolCallsProofs`), and for the composition with any of the first two
(`ServerProofs`):

- `TokenManager`: `TypeOK`; `SingleFlight`; `GrantOnlyWhenStale`;
  `EndedSessionLeftAlone`; `ReauthSetOnce`; `RefreshTokenNewest`;
  `DeadTokenBounded`; `NoneStranded`.
- `MutationPipeline`: `TypeOK`; `LogTellsTruth`; `SentAsConfigured`; and, as long as
  the machine keeps its power, `AnsweredIsLogged` and the refinement
  `PromiseKept`.
- `SignIn`: `TypeOK`; `OwnCodeOnly`; `FallsBackOnce`; `ListenersClosed`;
  `PollsKeepToCode`; `SessionComplete`; and that it ends in an
  initial state of `TokenManager` (`ServesFromInit`).
- `Staging`: `TypeOK`; `ReportedIsStaged`; `FailureLeavesNoMore`;
  `NotReadyWasNotReady`.
- `Permissions`: `TypeOK`; `ExplainedScopesRequested`;
  `ReadOnlyMeansRead`; `SentOnlyIfEnabled`.
- `SchemaCache`: `SchemaAge`.
- `ToolCalls`: `CutAnswersSaySo`; `OnlyScopedSent`; `RefusalsExact`; `NothingDropped`;
  `RecordedIsSent`; `DeterminationKept`.
- `Server`: it implements `MutationPipeline` (`ImplementsPipeline`), and with that
  `LogTellsTruth`, `SentAsConfigured` and, as long as the machine keeps its power,
  `AnsweredIsLogged` and `PromiseKept`; of the token manager `RenewalsSafe`,
  `RefreshTokenNewest` while the process runs, and `DeadTokenBounded`; and
  `ReauthStopsMutations`.

None of these is inductive as it stands. The arguments:

- Session. `SessionInv` says that a caller at a place under the lock is its
  holder and no other is; that one past `RecheckSession` has consent, and past the
  second look at the cache no valid token; and that a grant sent after reauth was
  set is the one of the holder, after which nobody passes the check. The last
  part is why `lateGrants` stays at one: before reauth it is zero, and only a
  holder already past its check can add one.
- Rotation. `RotationInv` adds that an answer in flight carries either no token or
  the newest. It rests on the lock: two answers in flight could overtake.
- Queue. `QueueInv` says that the queue holds the calls that wait, each once. With
  `SessionInv` (the holder of the lock is at work under it) it gives `NoneStranded`,
  which is as much of `CallReturns` as safety can say: what is left of it is that
  those who can go on do.
- Expiry. `ExpiryInv` bounds `expires` by `dies` plus `MaxLatency`, and `IsValid` takes
  `Buffer` off it. `CachedTokensFresh` follows without any assumption on the two: a
  token served has been dead for less than `MaxLatency - Buffer`. With the code's 210 s
  and 60 s that is up to 150 s; only answers within the margin would make it never.
- Pipeline. `AttemptInv` says for each place an attempt can be at what has been
  settled by then: that stages 1 to 3 allowed it, that the human accepted, whether
  the log has anything of it, that its intent is on record. `FragmentInv` says of
  each fragment in the log what is true of its attempt, and survives because
  nothing that happened to an attempt is undone (`Monotone`). Torn fragments are
  included: a torn record says nothing false.
- Refinement. `StepPromise` maps a whole intent record to `Intend`, a whole final
  record to `Refuse`, the sending to `Run` and the rest to a stutter. Absence of
  any earlier record in `AttemptInv` is what makes the guards of the abstract
  actions hold. `PowerCanFail = FALSE` is needed: `append` does
  not sync, and a loss of power can take an intent whose request was sent.
- Browser. `BrowserInv` ties the attempt to the scopes: the first asks for the
  resource scopes, the second does not, and while the server waits the number of
  attempts says which it is. It adds that a code in the slot came with the state
  of the attempt that waits. A request to another listener, or a second one to
  the same, leaves the slot alone.
- Device code. `DeviceInv` says that the interval in force is all the provider
  asked for, that the sleep makes up what is missing of it since the last
  answer, and that a late poll finds the code expired, so that the next look at
  the expiry ends the loop.
- Session. `SessionInv` of `SignIn` says that the audiences before `turn` are
  settled, with a token or without consent, and the others unknown. `ServesFromInit`
  then maps a served sign-in to `TokenManager`: cached tokens, consents and the newest
  refresh token are what `InitCredential` says, so the manager's theorems cover
  every state the sign-in can leave, for any first tokens whose answers took no longer
  than others do.
- Staging. `IInv` says that an inode is reached under one name only, that a call
  alone on its name owns the inode it has open, and that this holds the blocks
  it has received and no others. Steps of other calls touch only inodes of other
  names (`OthersKeep`), which is what a shared name takes away: see
  `staging_shared`.

- Permissions. The tables are finite, so the lemmas about them are proved by
  cases over their parts: a read is explained with reading scopes but for six
  actions (`WritingReads`), and those six are in the scope table and looked up
  first; a mutating action has the category its flag enables. What is left is that
  a call in flight passed its checks under the configuration it will be answered
  under (`IInv`).
- Schema cache. `CacheInv` bounds the age of an entry at its receipt and `FetchInv`
  that of an answer on its way; an older answer that replaces a newer is still one
  just received. `SchemaAge` alone is not inductive, because a hit relies on both.
- Tool calls. `CallInv` keeps, of an accepted call, what it passed and what it
  produced; from there the theorems are facts about the tables (`UsedIsSent`,
  `ShownIsSent`, `MeaningsDiffer`). `HuntInv` keeps the bound a query was sent with;
  with `maxRows` below Graph's limit of rows, one row too many is returned exactly if
  there is one, unless the size of the result stands in the way.
- Walk. `WalkInv` says that each construct to be refused has been recorded or is still
  *spanned*: in the range of a frame, or inside a pair of it, from where the walk will
  come to it. A frame is never given up before: it is replaced by frames for what is
  inside its first pair and beside it (`WalkContinues`, `OperandContinues`), a descent
  that leads to neither a name nor a pipe is walked from where it began
  (`DescendContinues`), and what a descent passes or the walk leaves out holds nothing to
  be refused. This last is where `IsParsed` is needed: a pair that is refused is never a
  mere step to one part, and no query stands inside a name, a parameter or a literal.
  The other direction says that what was recorded stands in the tree. When no frame is
  left both together are `RefusalsExact`. That the walk ends is not stated: a measure
  would be a sum over the frames, and facts about sums need induction over data.
- Server, the pipeline. `ImplementsPipeline` holds step by step: what `get_token` does to
  an attempt is nothing to the pipeline, until it fails and is `UpstreamNotReached`.
  `ServerProofs` takes the theorems of `MutationPipelineProofs` over by instance
  (`Audit`), after showing that the instance's definitions are `Pipeline`'s.
- Server, the tokens. Each step of the server is one of `TokenManager`, or none
  (`StepTokens`), but for the end and the start of a process. `ManagerInv` therefore
  keeps the manager's own invariants, taken over by instance (`Manager`), and adds
  `DownInv`: where no process runs there is no call, no lock, no queue and no request
  for a token. That is what the next process starts from (`RestartManager`), and what it
  would not be if a request for a token could outlive the process that made it. The newest
  refresh token may be on its way when the process ends, so that promise is made to
  running processes only.
- Server, both. `ReauthStopsMutations` needs `JointInv` (an attempt is a caller of the
  token manager only between intent and outcome) and `StepGrounded`: an attempt caught
  before the last check of `get_token`, with the session spoiled, can only go on to be
  refused, and neither an end of the process nor a restart brings it back. One past that
  check, or with its token, is not covered, and in the code it may still send.

Only model-checked: all liveness (`CallReturns`, `AttemptEnds`, `SignInEnds`,
`DownloadEnds`, `FetchEnds`), which the prover does not reach. With loss of power, of the
log only `LogTellsTruth` is proved. Only proved: `TypeOK` of `Permissions` and of
`Staging`, which no run repeats; `ServesFromInit`; and of the server what its parts' runs
check (the log, the configuration, the promise, `RenewalsSafe`, expiry and rotation).

## Findings

Each is a run that TLC must find violated.

1. `pipeline_torn`: a record whose write fails partway, or is cut by the end of the
   process, leaves half a line; the next record continues it, and neither parses.
   `audit.rs:4` says each line is one JSON object.
2. `pipeline_unrecorded`: with device response on and offboarding off, a call of
   `offboard` is answered as an unknown action and leaves no record. README line
   386 of the repository says every mutating attempt is recorded.
3. `permissions_documented`: in user mode `ip_statistics`, `domain_statistics`,
   `file_get` and `file_statistics` are sent although the sign-in requests none of the
   scopes README lines 134-136 say they need, in any configuration.
4. `staging_shared`: two downloads of one artifact share a file; one truncates or
   removes it and the other still reports it with the digest of what it received.

Divergences seen while modelling that no run states.

- Audit: `append` flushes to the operating system and does not sync, so a loss of
  power can take the intent of a request already sent, which README line 399 says is
  flushed to disk. Without `--audit-log`, a read-only server records rejections on
  stderr only. A claims challenge is recorded as a transport error, without the 401.
- Prompt: README line 378 says it displays the target identifiers and the reason. It
  cuts each at 200 characters, and a URL indicator, for one, has no such limit; it shows
  neither the texts of an indicator nor the arguments of live response commands.
  `RecordedIsSent` says what holds nevertheless. That an Audit indicator always alerts
  is not shown either.
- Staging: README line 563 says "a partial download is deleted on failure", and
  `client.rs:572` the same. The result of `remove_file` is ignored (`client.rs:633`), so
  the beginning of an archive may stay under its name without a word.
- Hunting: `server.rs:1462` says "When more rows match, the answer is cut and marked
  `truncated`". `compact` counts rows only, so an answer that Graph cut at its 50 MB
  before the extra row is returned as complete.
- Tokens: the margin of 60 s does not cover the 210 s an answer may take, so a token may
  be sent for some time after its death; the API's 401 is then the call's answer, and
  the token stays cached.
- Scopes: in user mode under `--read-only`, `user_related_machines` and `find_by_ip` are
  refused for want of `Machine.ReadWrite` (`server.rs:1931`), while README lines 127 and
  130 name `User.Read.All` and `Machine.Read.All` for them, which the sign-in holds. The
  description of the tool (`server.rs:4393-4394`) sides with the code. The model follows
  the code and takes no side on what the API really needs.
- Arguments: `collect_investigation_package` and `stop_and_quarantine_file` ignore
  fields they do not use, which every other mutating action refuses. A triage update
  with a determination alone is refused for having no update field. Ids of a batch,
  and an indicator's value and texts, are validated trimmed and sent as given; a
  batch's ids are recorded as targets even when they were found wrong. A protocol
  error of `upload_library_file` is recorded with the description as its
  justification, where the tool's description speaks of the comment.
- KQL: the name in `union (T)` is not reported as a table, nor is a pipe without
  operators in a function's body; a function's tabular parameters are; and
  `let T = T | ...` hides the table it reads, so the query is refused as reading none.
- Schema: an answer of Graph without columns is kept for the hour like any other.
- Elsewhere: README line 95 speaks of background renewal, while the code renews on
  demand only; `run_http` logs that it drains connections and drops the calls under
  way; the scope table still has the name `download_live_response_result`; the
  README's scopes for the SAS link actions differ from those the code refuses.

## Not modelled

- The KQL grammar: `kql.pest` is external, a query comes as its tree. What the
  analysis only reports back (functions, columns, operators, the time filter)
  decides nothing and is left out.
- The form of one text: whether it is a hash, an address or a path is one of four
  classes of `MutationArguments`; the arguments of the reading actions, and paging,
  are a Boolean of `Permissions`.
- Prompts and resources: static text.
- MCP and HTTP transports: they are libraries. What a shutdown does to calls under
  way is in `Server`, `MutationPipeline` and `Staging`.
- The text of errors, the sanitising of record fields, query strings.
- The confinement of `destination_dir`, a path computation.
- The expiry cast `expires_in as i64`: lifetimes are natural numbers here.

## Order of the work

`TokenManager`, `MutationPipeline` with `AuditedMutation`, `SignIn`, `Permissions` and
`Staging` came first, each with its proofs but `Permissions`; then `SchemaCache`,
`HuntingRun`, `KqlAnalysis`, `MutationArguments` with `ToolCalls`, `Server` over the
first two, and the proofs of all of these. Then the walk of `KqlAnalysis` was put in a
form one can prove about, and the theorems of the parts were carried to the server.
What could follow: the arguments of the reading actions.
