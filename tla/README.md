# llm-mux: a verification development

llm-mux is a gateway: it accepts requests for language models in several API
formats, chooses a provider and one of the user's credentials for it, calls the
provider, and answers. This directory holds TLA+ models of the parts of it that
keep shared state, the TLC configurations that check them on small instances, and
TLAPS proofs of theorems that hold for every instance. Every definition follows
the Go code under `src/internal/`; `PROJECT.json` gives, for each, the lines it
stands for.

    tlc -workers 2 -config AuthExecution.cfg MCAuthExecution
    tlapm AuthExecutionProofs.tla

## 1. The system

### Parts, state, operations

| part | state it keeps | operations | what makes it hard | what makes it correct |
|---|---|---|---|---|
| **request execution** (`provider/manager.go`, `execution.go`, `retry.go`, `provider_selection.go`, `error_category.go`) | none of its own: each request is a goroutine with the providers it tries, the credentials it has tried, its attempt | `Execute`, `ExecuteCount`, `ExecuteStream`: passes over providers, over the credentials of each, retries | many requests at once read and write the state of credentials and breakers between each other's steps; late answers; cancellation | a request ends; it uses a credential once per pass; error categories have the effect they are documented to have |
| **retry budget** (`resilience/retry.go`) | one atomic counter | `TryAcquire`, `Release`: compare-and-swap loops | racing swaps; every way out of the retry loop must give its token back | tokens are neither lost nor made; concurrent retries are bounded |
| **circuit breakers** (`resilience/retry.go`, `streaming_breaker.go`; gobreaker is a library) | state, generation, counts per provider | `Execute`, `Allow`/`done`, `State` | the breaker changes generation under running calls | a half-open slot is never lost |
| **credential registry** (`provider/auth_registry.go`, `auth_entry.go`) | per credential: atomic counters and flags, two copy-on-write snapshots; a queue of credentials to save; a heap of refresh times | `Pick`, `MarkResult`, `Register`, `Update`, refresh, persistence | one result is several atomic writes; snapshots are swapped by loops with a blind fall-back; a bounded queue drops | a credential's load is not under-reported; updates are not lost |
| **quota manager** (`provider/quota_manager.go`, `strategy*.go`, `antigravity*.go`) | per credential: cool-down, usage, learned limits, in shards | `Pick`, `RecordRequestEnd`, `RecordQuotaHit`, a poller of real quotas | snapshots and quota hits arrive in any order; a clean-up ticker | an exhausted credential rests, a recovered one is used |
| **credential refresh** (`provider/refresh.go`, `manager.go`, `auth_registry.go`) | refresh times, a pending mark | `refreshAuth`, `checkRefreshes` | a refresh is a slow call between two reads; files and other refreshers change the credential meanwhile | tokens are not replaced by older ones |
| **model registry** (`registry/`) | registrations by `provider:model`, a count of clients each, indices by model id and canonical id, the models of every client | `RegisterClient`, `UnregisterClient`, look-ups | four tables must agree after any sequence of (re-)registrations with overlapping and repeated models | counts and indices are exact; routing finds what is there and nothing else |
| **file watcher** (`watcher/`) | hashes of files, the last snapshot of credentials, pending updates and their order, a channel | file events, `refreshAuthState`, `dispatchAuthUpdates`, `dispatchLoop` | two goroutines scan; updates are merged, batched and sent on a bounded channel | what the files say is what the manager ends up with |
| **service** (`service/`) | the consumer of the updates; it binds models to clients | `consumeAuthUpdates`, `applyCoreAuthAddOrUpdate`, `registerModelsForAuth` | updates are applied long after the scan | models follow the credential |
| **websocket relay** (`wsrelay/`) | sessions by name; per session a map of pending requests, each with a channel of 8 | `Send`, `NonStream`, `Stream`, the reader, `cleanup`, `Stop` | readers, contexts and clean-ups close channels that others send on | no request waits for ever, none is left behind, a response is whole |
| **streamed execution** (`provider/manager.go`, `streamutil/`, `runtime/executor/stream/`, `resilience/streaming_breaker.go`, the API's stream handlers) | per stream: a body, three bounded channels, an idle timer, a call of the breaker | open, read, convert, forward, wrap, answer; cancel, stall, fail | five goroutines and a timer, each with its own way of noticing that the others are gone | the breaker is told once, and the truth; the client gets the whole answer or learns that it did not; nobody is left blocked |
| **stream translation** (`runtime/executor/stream/`, `translator/`, `sseutil/`) | the parsers' and writers' state of one stream | a line in, chunks out | blocks that are open, a finish that may come from several signs, an event kept back | the client's stream is well formed and complete, and gives a true reason for its end |
| **usage statistics** (`usage/`) | a queue of records, counters, a channel, a batch, a table | `Publish`, dispatch, count, flush, stop; crash and restart | two bounded buffers in a row, a flush that fails, a shutdown whose time is up | every record accepted is written once, in order, and counted |
| **oauth** (`oauth/`, `api/handlers/management/oauth_api.go`) | pending logins by state, callback files, a port with a forwarder | start, poll, call back, cancel, expire | browser, poller, sweeper and the next login race for one entry and one port | a status tells what became of the login; the port is not lost |
| **credential files** (`auth/login/filestore.go`) | the files, a lock, announcements of writes | `Save`, `Delete`, `List` | two savers, each with its own copy; the watcher sees every write, also the process's own | the newest token reaches the file; a removal is noticed |
| **stores** (`store/`) | files, git, object storage, database | `Save`, `List`, `Delete` | partial failures between local and remote writes | the next start finds what was saved |
| configuration, auth providers, access, command line, support code; the rest of api, translator and provider executors | requests in flight, parsed text | HTTP handlers, parsers, converters | data, not order | - |

### How they interact

    files --events--> watcher --channel--> service --Register/Update--> manager + credential registry
                                              `--RegisterClient--> model registry
    client --HTTP--> api --look-up--> model registry
                      `--Execute--> request execution --Pick, MarkResult--> credential registry
                                         |  |--TryAcquire, Release--> retry budget
                                         |  `--Execute, Allow--> circuit breaker --> provider executor
                                         |-- a provider behind a websocket --> relay session --> remote client
                                         `-- streams: body --reader--> stream translation --pipeline--> forwarder
                                                --> wrapper (breaker, MarkResult) --> API handler --> client
    provider executor --Publish--> usage queue --> dispatcher --> counters, batch --> table
    browser --callback--> forwarder --> callback file <--poll-- login --Save--> credential file --> watcher

Goroutines share memory; there is one process. What survives a restart are the
credential files and what the stores write.

## 2. The modules

| module | models | checked with | proved in |
|---|---|---|---|
| `Semaphore` | what a retry budget promises: a counting semaphore | property of `RetryBudget` | |
| `RetryBudget` | `TryAcquire`, `Release` and the retry loops of `Execute`, `ExecuteCount`, `ExecuteStream` | `RetryBudget` | `AccountingProofs` |
| `Gobreaker` | the breaker's transition functions (library code, external; the settings are the repository's) | through `AuthExecution` | |
| `AuthExecution` | one request's way through providers and credentials, the breaker, `Pick`, `MarkResult`, the decision to retry | `MCAuthExecution` | `AuthExecutionProofs` |
| `SnapshotCas` | the compare-and-swap loops of `auth_entry.go` that `MarkResult` writes through | `SnapshotCas` | `AccountingProofs` |
| `Catalog` | what the model registry promises: which client offers which model | property of `ModelRegistry` | |
| `ModelRegistry` | registration, re-registration, removal, the two indices, routing | `MCModelRegistry` | `RegistrationProofs` |
| `CredentialUpdates` | files → scan → comparison → dispatch → batch → channel → service → manager and models | `CredentialUpdates` | `RegistrationProofs` |
| `TokenRefresh` | the two loops that refresh one OAuth credential, `Manager.Update`, the persist loop, the watcher's reload | `TokenRefresh` | `TokenRefreshProofs` |
| `CredentialFiles` | the queue, the batch and the flush of changed credentials, the file store, the removal of a file, exit and restart | `CredentialFiles` | `DeliveryProofs` |
| `WsSession` | one relay session: senders, contexts, the reader, the clean-ups, consumers | `WsSession` | `DeliveryProofs` |
| `StreamExecution` | one streamed call, from the breaker's `Allow` to the last line the client reads | `StreamExecution` | `StreamExecutionProofs` |
| `StreamTranslation` | the lines of one stream, parsed, translated and written for the client | `StreamTranslation` | `StreamTranslationProofs` |
| `UsagePipeline` | records of usage from `Publish` to the table, shutdown, crash and restart | `UsagePipeline` | `AccountingProofs` |
| `LoginFlow` | logins through the browser: registry, forwarder, poller, callback | `LoginFlow` | `LoginFlowProofs` |

`MCAuthExecution` and `MCModelRegistry` only give constants values that a `.cfg` cannot
write down; the other modules are their own.

**RetryBudget.** `capacity` is the atomic. A `TryAcquire` or a `Release` is two
steps, the load and the swap, and a swap that fails goes back to the load. A request
runs, decides, acquires, runs again and releases; a streaming request releases when
its stream opens, and its stream goes on (`EndStream`).

**AuthExecution.** Each request has the locals of `executeProvidersOnce` and
`executeWithProvider`. The shared state is what the code keeps in separate atomics,
so `Pick` (reads), `Claim` (increments), `MarkDecrement`, `MarkState`, `MarkMeta`,
`OkState`, `OkMeta` are steps of their own. Time is two actions: `Expire` (a
credential's retry time has passed) and `BreakerClock`. `disabled` and
`legacyDisabled` are the two copies of a credential, in the registry's entries and
in `Manager.auths`; only the first learns results. Scores only order providers: any
order is taken. One model is requested.

**SnapshotCas.** A snapshot has a stamp for the pointer's identity (Go never reuses
the address of an object that is still referred to) and, for each goroutine, how
often its update has been applied. The callbacks of the code never return nil, so
the early return for nil is left out.

**ModelRegistry.** A registration is (provider, model); `counts` is what the code
keeps per registration, `lists` what it remembers of every client. A client's list
is a bag of models: the code allows repetitions and so does the model, up to
`Copies`. Model information is abstracted to the canonical id. `MaxCount` bounds the
counts. The flags of suspended and quota-exceeded clients are left out: only
`markResultSync` sets them, which nothing on the execution path calls.

**CredentialUpdates.** A file's content is its version, which stands for what
`isMaterialChange` compares. Files are replaced at once (as an editor or a tool does
that renames); a file truncated and rewritten in place (`auth_snapshot.go:113`) gets
contents back, one of the cases of `CredentialUpdatesEscape`. `Service.Run` has loaded the manager
from the files before the watcher starts; the directory is watched and walked in one
step, the hashes are replaced in the next, and events may be handled from the first
one on. The event loop reads a file twice, once in `HandleEvent` and again in
`AddOrUpdateClient`, and skips the event of an announced write (`pendingWrites`,
whose age is a choice). A scan takes its snapshot, then, under the lock, compares with
the last one (`PrepareAuthUpdates`), then merges the differences into the pending
updates (`DispatchAuthUpdates`), three steps of one scanner. A reload of the
configuration takes credentials out of `currentAuths` before its scan; that it names
another directory, and credentials that stand in the configuration itself, are left
out. The loop takes everything
pending as a batch; the order inside a batch does not matter to the properties, and
it is any order. `had`, `unnoticed`, `forgotten`, `latest` and `overlapped` are history:
what each file has held, which changes have led to no scan yet, which credentials of
the manager are missing from `currentAuths`, what was last dispatched for each
credential, and whether two scans were under way at once.

**TokenRefresh.** One credential of a provider that rotates: a refresh token is good
once, and its answer carries the next. A token is the number of its issue, `grant`
the one the provider accepts; time is the number of the last token that is about to
expire, once for the manager's lead time (`dueAt`) and once for the registry's five
minutes (`expiring`). The manager's copy `auths` and the registry's `entry` are kept
apart as in the code: `checkRefreshes` judges the entry and `refreshAuth` presents
the copy's token, `doRefresh` presents the entry's and writes the entry alone.
`Manager.Update` is a step for the copy, one for the entry, one that reads `RefreshAt`,
one that writes the heap with it and marks, and one for the file, in a refresh as in a
reload. The heap holds one time for the credential (`scheduled`). The timer of
`refreshLoop` fires when it is due (`fired`); the loop takes the timer or a signal, and
with the timer takes off the heap what is there by then, due or not. A goroutine of
`doRefresh` merges its answer, then schedules and marks, and releases the flag later
(`ReleaseRenewal`); one that finds the flag set returns. A mark may be
dropped and a save may fail. The answer is taken to carry an expiry and the executor
to be registered. `missed`, `overlapped`, `overwritten` and `turnedAway` are history:
they record the four ways in which the code does fall behind, so that the
properties can say that there is no fifth. `NextRefreshAfter` is kept in the copy
only; the entry's lags behind it, and `markRefreshPending` decides by the copy's.

**CredentialFiles.** What `TokenRefresh` takes for granted about a save, with the
files' removal and the end of the process. A renewed entry is marked (`markDirty`
drops the mark when the queue is full), the loop takes marks into its batch, swaps the
batch and saves what each entry holds when its turn comes; credentials of programs
behind the relay take places in queue and batch and are skipped. A save is a look at
the file without the lock, a comparison and an announcement to the watcher under it,
and a rename. The watcher skips the next event on an announced file. `Exit` is a crash
or `Service.Shutdown`, which are no different: `Shutdown` stops the refresh by
`StopAutoRefresh` but never calls `Manager.Stop`, whose registry would flush. Left out:
the disabling of a credential by `DeleteAuthFile` itself, which the watcher repeats;
`auth.Storage`, which is written without a comparison; the two seconds of an announcement
are a choice (`HandleEvent` may find it expired). The dispatch of updates, which
`CredentialUpdates` models, is shortened to the last update of each credential.

**WsSession.** `sync.Map`, channels and the session's closing are as in the code:
a request is stored, looked up again, the closed flag checked and the message
written in separate steps, the clean-up walks the map in its own steps and may or
may not meet a request stored meanwhile. A send on a closed channel is a panic,
which ends the process: `panicked` stops every action. The clean-up's assignment of
a fresh map, a data race in the code, is taken to happen at once.

**StreamExecution.** One request for a stream: `executeStreamWithProvider` asks the
breaker and picks credentials until one opens; then the body is read, and its chunks
go through four channels of capacity `Depth`. Where a goroutine is in its select
loop is a value of `rd` or `at`; a send and the other branch of its select are
actions of their own. Three kinds of reader are modelled: `RunSSEStream` with a
translator ("sse"), the loop that the Gemini executor has of its own ("scanner") and
`RunSSEStream` that passes lines on unchanged ("verbatim"). The shared idle watcher
takes its list of streams (`Collect`) and looks at them later (`Inspect`).
`reports`, `marks`, `sent` and `shown` are history. Left out: the chain of fallback
models, `MarkResult` for streams that fail to open, the usage reporter (it is in
`UsagePipeline`), a stop of the watcher (it has no caller). `OpenFails` covers every
answer that is not a stream. In "verbatim" mode the scanner's buffer is reused while
chunks that point into it are still queued (`runner.go:280`): with
`Mode = {"verbatim"}`, `Lines = 2`, `Depth = 1` TLC finds `WholeAnswer` violated.
Only executors with that setting are exposed, and the run is of the other two.

**StreamTranslation.** One stream, upstream one of five and client one of four. A
line makes a list of events (`todo`); each is emitted before the next line is read,
as in the code, where `Translate` converts all events of a line. What the client
makes of the stream is `client`, the state of a reader of its format, which is
"broken" from the first chunk that does not fit. `said` and `shown` are histories of
content, that is text, thinking and tool calls. When the translation or the scanner
fails, the runner sends a chunk of its own, `event: error` in Claude's way, whatever
the client's format, after all that `ProcessDone` flushes and past the translator and
its buffer: so also after a finish (`raw`, `SendError`). The reader takes it where it
comes and reads no further ("torn"). `cs` is `ClaudeStreamState`:
which block is open and its number. Upstream is free to send what its format allows,
to end in order or to break off. Simplifications: a chunk carries one part; Claude
for Claude is passed through and has no state here; raw lines that cline gets when a
line makes no events are left out; `DelayOneBuffer` and the sentinel have no
user. Some of what the code does shows in the definitions and not in a property: a
signature that Claude sends after its thinking is attached to an event that has left;
Claude's clients are told `end_turn` when the answer was cut for length; the pieces
of one call in chat completions arrive as a call each; errors of the Responses API
make no event, because `ParseOpenAIChunk` looks only at types that begin with
"response.".

**UsagePipeline.** A record is the call it belongs to. `publishWithOutcome` runs once
per call; `Manager.run` takes a record, the plugin counts it and hands it to
`recordChan` or drops it; `writeLoop` collects a batch and writes it in one
transaction, at the tick, when it is full, or at the stop. A transaction that fails is
taken to have written nothing. `table` maps the id of a row to its record: the column
is AUTOINCREMENT, so the database gives the next number (`lastRow`) and never one
that a deleted row had; the clean-up deletes any rows. `fate` says how a record was lost. The shutdown is the
code's: the HTTP server, the backend, then the default manager, all under a context
made when the service *starts* (`service.go:357`), which has expired by then;
`StopDefault` does not wait for the dispatcher. `Crash` ends the process at any
moment, `Boot` starts it again with `Bootstrap` reading the counters back. The
PostgreSQL backend has the same loops. A stream that has published its usage and then
fails stays a success: the reporter publishes once.

**LoginFlow.** `OAuthStart` restarts the forwarder of the provider's port (take the
old one from the map, stop it, listen, put the new one in), creates the entry and
starts a poller. No forwarder is started when the callback URL cannot be built or
the provider has no port (`NoForwarder`), and `net.Listen` fails because of another
login's forwarder or of another process, as it likes (`ListenFails`); the login is
polled for all the same. `unserved` notes the providers whose last start was denied a
forwarder from outside, the one case in which `PortHeld` lets a started login have
none. A forwarder that listens is taken to serve until it is shut down. The browser's
visit writes a callback file, empty first (`Written`
fills it). The registry's five minutes, the poller's ten, `Cancel` and `Cleanup` are
separate actions. Route handlers of one login are taken one at a time. With
`Remote` a save writes the file and then fails on the remote copy. The forwarder of
Claude leads to `/claude/callback`, and the only route is `/anthropic/callback`
(`Routed`), so that such a login never completes. `StartFlow`, `WaitForCallback` and
the callback servers of the package have no caller.

## 3. The runs

### Runs that pass

| run | instance | shows |
|---|---|---|
| `RetryBudget` | 3 requests, one of them a stream, 2 tokens, 2 retries | `ImplementsSemaphore`: tokens are neither lost nor made, and no more are held than there are; `Termination`: a request leaves its loop and both swap loops |
| `AuthExecution` | 2 requests, 2 credentials, five kinds of answer, 1 retry, a breaker that trips at the first failure and half-opens with 2 slots | `ActiveNeverUnder`: the counter `Pick` balances by never shows less than the real load; `OneCallPerAuth`: no credential twice in a pass, even if it recovers during it; `HalfOpenProbes`: every half-open slot is a running probe or a success; `Advances`: every step of a request takes it further in its loops |
| `SnapshotCas` | 3 goroutines, 3 attempts, 2 updates each, one that clears | `LostOnlyByFallback`: nothing is lost or repeated until a fall-back is taken; `FailureMeansProgress`: a swap fails only because another's succeeded |
| `ModelRegistry` | 3 clients, 2 providers, 2 models, lists with repetitions | `CountsExact`, `IndexExact`, `RouteResolves`, `ImplementsCatalog` |
| `CredentialUpdates` | 2 credentials, the event loop and a reload, channel of 1 | `LastUpdateWins`: what waits in the pending updates, the batch and the channel ends with the last update dispatched for each credential; `FilesFollowed` and `EventuallyInSync`: a change of a file is missed only if two scans overlap or it escapes in one of two ways (`Escaped`) |
| `TokenRefresh` | 1 permit, 2 goroutines of `doRefresh`, 1 rotation, a transient error, a scan, a revocation | `GrantKept`: the token the provider accepts is never lost between the two copies; `RenewalKept`: the refresh heap forgets the credential only if a goroutine was turned away by a flag whose holder had written the heap already; `SavedInTheEnd`: the file follows the entry; `RevocationNoticed`: a revoked credential goes out of service |
| `CredentialFiles` | 1 credential with a file, 1 without, queue of 1, one renewal, removal, failed write and exit | `NothingForgotten`: whenever the process may end, a file is behind its entry only if the change waits in queue, batch or flush or was missed for a known reason; `RemovalNoticed`: a removed file takes its credential out of service, although events are skipped |
| `WsSession` | 2 requests, channel of 1, one chunk, three clean-ups | `NoOrphan`: a request that waits can still be answered or closed; `NoLeak`: nothing stays in the map; `OrderlySession`: without a cancellation or a clean-up no send panics; `Released`: after the session or the context ends every consumer does |
| `StreamExecution` | 1 credential, two kinds of reader, 2 lines, channels of 1 | `OneReport`: the breaker hears once, when the opening has failed or the forwarder returns, and never before; `HonestReport`: unless the context has ended, what breaker and credential hear agrees with whether the reader sent an error; `WholeAnswer`: the client sees the lines in order without a hole, and all of them before an end in good order; `Released`: no goroutine stays behind; `StallEnds`: a silent upstream is given up |
| `StreamTranslation` | 5 upstreams, 4 clients, 5 lines | `Orderly`: the client's stream is well formed wherever upstream breaks off, up to the runner's error chunk, if there is one, which is the last; `ContentKept`: it has what upstream said, in order and without a hole, and all of it between two lines; `ReasonHonest`: there is a reason for the end, and it says that there are tool calls just if there are |
| `UsagePipeline` | 2 calls, channel of 1, batches of 2, one restart | `Accounted`: a record is in one place or was lost for one reason, in order, and the counters agree; `StopFlushes`: what the backend held at the stop is written; `Settled`: no record stays under way, and a shutdown ends |
| `LoginFlow` | 2 logins, browser or device, code or error, one visit each | `PortHeld`: one forwarder has the port and the map knows it, unless another process has it or there is none; `HonestStatus`: completed means saved, failed means not; `OutcomeStands`: a result is final; `LoginEnds`: pollers end and entries are forgotten |

Type invariants (`TypeOK`) are theorems where there are proofs, and can be added to
any configuration; the runs are for what types do not say.

### Further configurations

These are kept beside the runs; each can be given to `tlc` with the module it is
named after (`MCAuthExecution` and `MCModelRegistry` for those two). `AuthExecutionLive`
holds; the others end in a violation of the property they name.

| configuration | property | what it shows |
|---|---|---|
| `AuthExecutionLive` | `Answered` | holds: two providers with a breaker each, every request ends |
| `AuthExecutionActive` | `ActiveAccurate` | `auth_registry.go:663` says the active count stays accurate; successes never count down |
| `AuthExecutionRevoked` | `RevokedAuthIsDisabled` | `error_category.go:23` says revocation disables; it blocks one model for a time |
| `AuthExecutionAvailable` | `AvailabilityMatchesPick` | `retry.go:112` says available means not blocked; the copy it reads never learns of blocks |
| `RetryBudgetStreams` | `RetriedStreamsBounded` | `retry.go:240` asks for a release after the attempt completes; a stream releases when it opens, so running retried streams are not bounded |
| `TokenRefreshLimits` | `DisabledOnlyIfRevoked`, `NeverForgotten` | two violations (TLC stops at the first; `-continue` shows both). `error_category.go:23` says "permanently revoked"; the loop that comes second with a rotated token gets `invalid_grant` too and disables a credential that is good. And an `Update` that puts the past `RefreshAt` back, or a pause, between the writing of the heap (`auth_registry.go:564`, `582`) and the release of the flag (`525`) makes the heap forget the credential |
| `ModelRegistryProvider` | `ProviderFollowsClient` | a client that changes provider leaves the common models under the old one (`model_registration.go:98` looks them up by bare id) |
| `ModelRegistryCanonical` | `CanonicalRouting` | a second client's canonical id is not indexed (`model_registration.go:203`) |
| `CredentialUpdatesRebound` | `ModelsRebound` | `model_registration.go:19` says (re)binds models; nothing sets `MaterialVersion`, so every registration after the first is skipped, also after a removal has taken the models away |
| `CredentialUpdatesRace` | `FilesAlwaysFollowed` | two overlapping scans: the older snapshot is compared last |
| `CredentialUpdatesEscape` | `NothingEscapes` | without overlapping scans a change escapes if the file is back with the contents the watcher remembers (`watcher.go:296`), if its event was skipped for an announced write (`watcher.go:275`), or if the file is gone and `currentAuths` did not have it, pruned by a reload (`client_registration.go:31`) or gone before the first scan: no deletion is reported (`auth_dispatch.go:124`) |
| `WsSessionStop` | `GracefulStop` | `wsrelay/manager.go:95` says graceful; a send on a closed channel panics |
| `WsSessionWhole` | `WholeResponse` | a full channel drops messages, and what is left is taken for the whole response (`session.go:171`) |
| `StreamExecutionFailure` | `FailureReported` | `streaming_breaker.go:47` has `done` told of success or failure; an error that `RunSSEStream` sends as an event in the data is reported as a success |
| `StreamExecutionErrors` | `ErrorsShown` | `code_handlers.go:180` shows the client an error that arrives; the select may take the closed data channel first, and the client sees an end in good order |
| `UsagePipelinePendingFlushed` | `PendingFlushed` | `server.go:326` and `types.go:93` say that pending records are written and the queue drained; neither waits |
| `LoginFlowCancelled` | `CancelledSavesNothing` | a cancelled login is still polled for, and is saved when the user comes back |
| `LoginFlowRemote` | `HonestStatus` | a push that fails (`gitstore.go:296`) makes a login "failed" whose credential is saved and picked up |
| `StreamTranslationThinking` | `ThinkingOnce` | `thought_signature_test.go:152` says the buffered thinking is the event that has been emitted; what follows it sends it again |
| `StreamTranslationVertex` | `WholeContent` | every chunk of Vertex has usage and counts as the finish: what follows the first is dropped |
| `StreamTranslationArguments` | `ArgsOfTheirCall` | `stream/translator.go:269` numbers arguments by the call before; the Responses API sends the call after them |

### Bounds, and why they are enough

* Requests, goroutines, clients, scanners: two or three. The races are between two
  actors; the third shows that they do not need exactly two. The proofs remove the
  bound for the execution path, the retry budget and the swap loops.
* Retries 1 or 2, attempts 3 for 100: the last attempt and the one before it
  occur. The fall-back that they lead to takes a concurrent update away: with `Atomic`
  in place of `LostOnlyByFallback` TLC shows it; the code needs 100 lost swaps in a row.
* Channel capacity 1 for 8 (`WsSession`) and for 256 (`CredentialUpdates`): a sender
  finds it full and finds it empty.
* `MaxGen`: breaker generations that the clock may start. Calls and results start
  further ones: with two the breaker opens, half-opens, and opens or closes again.
* `MaxChanges`: edits of files, announced writes and configuration reloads, together:
  two of any kind, so a change and a return, a removal and a reload, an announcement
  and an edit, and an edit while the start still scans. The proofs remove the bound.
* `TokenRefresh`: one permit for ten; the second permit only matters once the
  manager's refreshes overlap, which takes a refresh of more than a minute. One
  attempt for three: attempts differ in nothing but their number. One token after the
  first, one transient error, one scan, and one token that comes due for the registry
  (`MaxExpired`); the proofs remove these bounds.
* `CredentialFiles`: a queue of 1 for 256, so that one mark of another credential
  fills it; one credential with a file, because all a second one could do to it is to
  take places in queue and batch, as the one without a file does. Also checked with
  two removals, and with two renewals without an exit.
* `Copies` 2, `MaxCount` 3 or 6: a list names a model twice; 6 is never exceeded by
  three clients with two copies, 3 only cuts off growth with registrations that
  stay behind.
* `StreamExecution`: two lines and channels of 1 fill every stage: with the reader's
  and each relay's hand there is a chunk for each goroutine to be blocked on.
* `StreamTranslation`: five lines are two blocks, a change of kind between them, a
  finish, and something after the finish. The state carried from line to line is
  which block is open and a few flags; the proofs remove the bound.
* `UsagePipeline`: two records find a channel of 1 full and a batch of 2 half full; the
  second boot meets the first one's rows.
* `LoginFlow`: two logins meet at one port; one visit each, for which a second
  login's is the other visitor.

### Fairness

Every fair action is a goroutine that the Go scheduler keeps running, or an
upstream call, whose HTTP client has a time limit. Not fair are: the user (edits),
the clock (`Expire`, `BreakerClock`), administrators (`Disable`), the remote client
(chunks), contexts (they need not end). `FairSpec` has weak fairness only; a swap
that fails does so because another succeeded, and the number of updates is finite,
so the loops end without strong fairness. `EventuallyInSync` and `Released` say
what follows once edits stop, or once the session or the context has ended. In
`TokenRefresh` time does pass for the manager (tokens come due, holds end), its loop and
its goroutines go on and their calls are answered; nothing makes the registry's loops
move, the user revoke or the watcher scan. Transient errors are
bounded, so a call does not fail for ever. In `StreamExecution` the goroutines and the
watcher's ticker are fair, upstream, the client and the context are not: a silent
upstream becomes `Quiet` in the end because time passes. In `UsagePipeline` the loops
and a shutdown that has begun are fair, crashes, calls and ticks are not. In
`CredentialFiles` the watcher and the service go on and a save that has begun ends;
the loop's ticker, renewals and failures are not fair, and nothing needs them. In
`LoginFlow` the deadlines pass and the poller looks again; neither the browser nor
a device that waits for its user is fair.

### Deadlock

The check is on for `RetryBudget`, `AuthExecution` and `ModelRegistry` (the first two
idle explicitly once all requests are done). It is off where the instance may
legitimately come to rest: all updates made (`SnapshotCas`), edits used up and
everything delivered (`CredentialUpdates`, `CredentialFiles`), session closed and consumers gone
(`WsSession`), the last token issued or the credential disabled (`TokenRefresh`).

## 4. The proofs

All are for any finite number of requests or goroutines, any number of credentials,
providers, tokens, retries and attempts; the named assumptions (`BudgetAssumption`,
`ExecutionAssumption`, `CasAssumption` and the like) only type the constants.

* **AccountingProofs**, of `RetryBudget` - `TypeCorrect`, `Conservation`, `BoundedRetries`,
  `QuiescentFull`, `BudgetIsSemaphore`. The invariant: the requests that hold a token
  are exactly those between a successful swap and the swap that gives it back, and
  capacity plus their number is the maximum. From it: a loaded value that equals the
  present one is below the maximum when a holder releases, so the clamp is not
  taken. The refinement maps the semaphore's count to the capacity; loads and failed
  swaps stutter.
* **AuthExecutionProofs** - `ExecutionTypeCorrect`, `ActiveCountsEveryCall`,
  `PassUsesAuthOnce`. The counter is compared with the number of requests in
  flight, so the invariant must say where a request may be with and without a
  credential in hand, that the credential in hand is a tried one once claimed, that
  a tried credential has at most one call and an untried one none, and that the
  provider a request works with is in its list. The steps that move a request into
  or out of flight change the set by one (`FewerInFlight`, `Leaving`).
  `RequestsAdvance`: `Advances`, action by action. `HalfOpenAdmitsItsQuota`:
  `HalfOpenProbes` needs that a running call belongs to the breaker's present generation
  or an earlier one, that a half-open breaker has admitted just its successes and the
  present generation's calls, and that it closes before its successes fill the quota
  (`ProbeInv`).
* **AccountingProofs**, of `SnapshotCas` - `CasTypeCorrect`, `LoopLosesNothing`, `LoopIsLockFree`. A stamp stands for
  one snapshot as long as nothing was forced; a goroutine whose stamp is the present
  one has loaded the present snapshot; the swap then adds its update to all others.
  For `LoopIsLockFree` the failures and updates of a goroutine are charged to the
  stamps it has loaded: one it has not seen pays for its next failure.

* **RegistrationProofs**, of `ModelRegistry` - `RegistryTypeCorrect`, `ModelIndexFollows`, `CountsFollow`,
  `RegistryIsCatalog`, `IndexFollows`, `RoutesResolve`, for lists of any length. Each
  theorem names the assumption it needs. The index by model id is right always.
  The counts, and with them the refinement of `Catalog`, are right if a client keeps
  its provider (`ProviderKept`; without it they are not, see `ModelRegistryProvider`):
  the places of a registration split into one client's and the others', which a step
  leaves alone. The canonical index is right if the clients of a provider agree on
  the canonical ids (`CanonAgreed`; without it see `ModelRegistryCanonical`): then the
  id in a registration's `Info`, which a later client replaces, is the one it was
  indexed under.

* **RegistrationProofs**, of `CredentialUpdates` - `UpdatesTypeCorrect`, `LastUpdateApplied`,
  `FilesAreFollowed`, for any credentials, any number of scans and any capacity of the
  channel. `InTurn`: an update waits in the map of pending ones, in the batch, in the
  channel or in the service's hand; the youngest of a credential that waits anywhere
  is the last that was dispatched, so what is applied last is what was dispatched last.
  `Followed`: as long as no two scans have overlapped, one scan at most is under
  way; what a file holds is what the watcher remembers or an event, a second look or a
  scan is still to come, unless the change is `unnoticed`; what `currentAuths` has, has been
  dispatched or is just about to be; and what it has lost since is `forgotten`. The
  theorem excepts just the two cases of `Escaped`, which `CredentialUpdatesEscape` shows.

* **TokenRefreshProofs** - `RefreshTypeCorrect`, `RenewalNeverForgotten`,
  `FileFollowsEntry`, `NewestTokenKept`. For the heap: while the flag is set some
  goroutine holds it, and every way out from there schedules; a goroutine that returns
  at once can rely on the holder if that is still to write the heap, and is noted as
  turned away if not. For the file: what the persist loop is
  saving is what the entry holds, or a mark will follow. For the newest token:
  `GrantKept` says where the token is, which is not inductive; `HandsInv` says where
  it is not. A token in the hands of one refresh is in no other copy, file, flush or
  hand, so nothing but that refresh can write it, and the other loop can only be
  refused by the provider.

  `GrantKept` makes an exception once two refreshes of the manager have overlapped
  (a call may outlast the minute of `refreshPendingBackoff`), or a scan or a false
  revocation has put an older token over a newer one. These are needed: with
  overlapping refreshes and three rotations a delayed `Update` puts an older token
  into the entry over the newest.

* **StreamExecutionProofs** - `StreamTypeCorrect`, `BreakerHearsOnce`,
  `VerdictHonest`, for any number of lines and any depth of the channels. `Placed`
  relates where the caller, the reader and the three goroutines may be; with it
  `OneReport` is inductive. `HonestReport` relates the first channel's sender to the
  last verdict, four goroutines apart; the invariant `Flow` follows an error on its
  way: until the context ends, an error that was sent is in the pipe, in the
  converter's hand, in the middle channel or already the stream's failure, no chunk is
  a cancellation, and a goroutine that has returned has left its channel empty.

  `AnswerIsWhole`: what the client has been shown, followed by every channel and every
  hand on the way, is what the reader has sent, for as long as the goroutine behind
  runs (`Course`); one that has returned leaves a hole that nothing passes.
  With it: an error is the reader's last chunk (`ErrorsLast`), and the context ends
  neither before the client nor before the handler has shown all (`Arriving`,
  `Ending`). The theorem leaves out the reader that hands on the bytes of its buffer
  (`"verbatim" \notin Mode`), whose lines the next read may overwrite.

* **StreamTranslationProofs** - `TranslationTypeCorrect`, `ClientStreamOrderly`, for
  every number of lines. Whatever a line of any upstream says, a parser makes of it a
  list of typed events (`ReadLineTranslates`). The invariant is `Unbroken`: between
  two emissions the client's reader is where the writer's state says it is - the
  kind of the open block and its number, or stopped, once the finish went through -
  and once the runner's error chunk has been sent, nothing is left to emit. That
  chunk is the exception to `Orderly`: it may follow the finish, and it is foreign to
  every format but Claude's.
  `ReasonIsHonest`: what upstream has said, what is still to be translated and what the
  writer has noted accord (`Accords`). Upstream speaks of tool calls only after it
  has made one, a finish that names no reason comes after one that did, and until
  the finish went through the writer's note of a tool call and what the client was
  shown are the same.
  `ContentIsKept`: the client's items are numbered, and one that repeats its
  predecessor does not count (`Number`); the k-th is the k-th that upstream said.
  The invariant is `Kept`: the events of a line that are still to be emitted lead the
  client from the item it has to the last one said, each to the next or to the same
  again (`Leads`); what Claude's parser holds back is the last item, so that it can
  only repeat it; a finish is the last event of its line and, but for Vertex, upstream
  says nothing after it. Items come with different lines, so two neighbours are never
  the same and a repetition is never taken for news.

* **DeliveryProofs**, of `WsSession` - `SessionTypeCorrect`, `NobodyOrphaned`, `NothingLeaks`,
  `PanicsOnlyInDisorder`, for any number of requests and clean-ups and any capacity.
  `Fresh`: until the session closes nothing deletes a request that is not yet written,
  so only a closed session can find it missing. `Left`: while a clean-up runs, a
  request that is in the map was stored late, and will be refused, or the clean-up has
  still to come to it, or its channel is closed; this is what holds when the range over
  the map has missed the late ones. `Kept`: who is in the map has a goroutine that
  deletes it. `Calm`: until a context or the session ends, only the last message or a
  write that failed closes a channel.

* **DeliveryProofs**, of `CredentialFiles` - `FilesTypeCorrect`, `ChangesAreKept`, for any
  credentials and bounds. `KeptFor`: an entry that is ahead of its file is marked or is
  in the flush's hand, and when the token in hand is out of date the mark is back. A
  crash may fall between any two steps; `Down` says what is left then.

* **LoginFlowProofs** - `LoginTypeCorrect`, `ForwarderOwnsItsPort`, `StatusTellsTheTruth`,
  `LoginOutcomeStands`, for any logins and providers. The port: it has one owner,
  which is about to enter itself into the map or is in it (`OneOwner`, `MapHeld`); a
  port that is held and not in the map is about to be let go (`Owned`), and after a
  login has started there is an owner, or another start under way, or the last start
  was denied one from outside (`Served`). The
  status: whoever has written an outcome has left the poller's loop, and an
  outcome of success follows the save (`Told`). That a failure means that nothing was
  saved holds for a store without a remote copy (`Remote = FALSE`).

* **AccountingProofs**, of `UsagePipeline` - `UsageTypeCorrect`, `RecordsAccounted`,
  `StopWritesAll`, for any calls, buffers, batches and restarts. `InLine`: the table, the
  batch, the channel, the dispatcher's hand and the queue are each in the order of
  acceptance, and each holds only what was accepted before anything in the places
  behind it. So no record is in two places, and a step that moves one keeps the
  order. `Logged` and `Found`: what is in a place was accepted, was published and has
  no `fate`, and what was published without one is in a place. The counters: what was
  handed over since the start is a finite set that one step alone, `Record`, enlarges,
  by one record; every later loss stays in it. For the stop, `Owing` says of each owed
  record that it is written, or failed, or that the writer, who has not left its
  draining loop, has still to come to it.

Out of the prover's reach, and only model-checked: liveness (`Termination`,
`Answered`, `EventuallyInSync`, `Released`, `RevocationNoticed`, `StallEnds`, `Settled`,
`RemovalNoticed`, `LoginEnds`). Every invariant of the runs is
proved, some under a condition that the theorem names and the run's instance meets
(`"verbatim" \notin Mode`, `Remote = FALSE` and the like). Nothing here needs induction
over data: `ContentKept` compares two sequences that grow at one end, and what it says
is carried from step to step by the number of the last item.

## 5. Not modelled, and why

* Request and whole-answer translation, the remaining executors' payloads,
  configuration, access keys, command line, the vendors' token exchanges: conversion
  of data and I/O without state shared between goroutines.
* `provider_stats.go` only orders providers. The flags of suspended and quota-exceeded
  models, and most of the quota manager (its `Pick` and its poller), have no caller
  on the execution path.
* Of the refresh: the removal of the credential while it is refreshed, a provider
  without an executor (the heap then forgets its credentials), answers without an
  expiry, an answer lost after the provider has rotated, the arithmetic of lead times,
  a restart.
* Of streams: fallback models, Cline's raw lines, the estimate of tokens.
* Of the stores: git, object storage and the database themselves; a save is a file
  and a remote copy that may fail.

`PROJECT.json` gives each part its status.

## 6. Plan

Done: the execution path, its retry budget and its breaker, the swap loops, the model
registry, credential updates, token refresh, credential files, a relay session, streamed execution,
stream translation, the usage writer, logins. Next, in this order:

1. `CredentialFiles` composed with `TokenRefresh`: the provider's side of a renewal
   that a restart has lost.
2. `Register` and `Delete` of the credential registry.
3. The pool of relay sessions with replacement, composed with `WsSession`; the
   streaming consumer.
4. `QuotaCooldown`: quota hits, hysteresis and expiry, for what is called.
5. The stores' order of writes; the result recorder of `streamutil`.
6. Pure algorithms against a reference: back-off, error categories, orderings.

Theorems to prove: the invariants of the modules above as they come.
