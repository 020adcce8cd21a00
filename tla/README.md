# fft, verified

TLA+ modules, model-checking runs and machine-checked proofs about `fft`, the
command-line client of the fulfillmenttools API in this repository (`src/`).

`fft` looks sequential: one command, one request, one answer. It is not. `fft tui`
runs many commands in one process, with goroutines that wait for each other, for
slots, for a lock and for the user; several `fft` processes share a credential store
and a config file; requests and answers get lost and are sent again; tokens run out,
are refused and are renewed while others use them; the emulator serves concurrent
requests and talks to child processes that hang; bulk uploads stop half-way; a component
is replaced by two renames that something may come between. These are
the parts modelled here. Everything that is only parsing, rendering or wording is left out.

Contents: [Inventory](#inventory), [Modules](#modules), [Runs](#runs),
[Fairness](#fairness), [Proofs](#proofs), [Disagreements](#disagreements),
[Not modelled](#not-modelled), [Plan](#plan).


## Inventory

Each part with its state, its operations, who it interacts with, and what makes it
correct. `PROJECT.json` lists the same parts with the hazards of each, at their lines.

### Session token table — `cmd/fft/tui_tokens.go`

- *State*: under a mutex, `sources` (project key → source), `building` (project key →
  build in progress) and `generation`.
- *Operations*: `source(key, build)` finds a source, waits for a build of another
  call, or builds; `forget()` empties both maps and counts the generation up.
- *Interacts*: called by every run of a TUI session (`Deps.tokenSource`); `build`
  reads the credential store without the mutex and may wait for a keychain dialog;
  the runner calls `forget` after a command that rewrites the config file, and on
  `SetProject` and `SetEmulator`.
- *Correct when* no caller gets a source of credentials older than those of when it
  asked; a project is built once per generation; a failed build answers only those
  who waited for it; nobody waits for ever on a build the table has dropped.

### Command runner of the TUI — `cmd/fft/tui_runner.go`

- *State*: the run IDs, each run's job and cancel function, the chain of exclusive
  runs (`lastExclusive`, `after`, `done`), four slots, the config `RWMutex`, the
  questions on record, the event channel (64), `closed`, the session's context.
- *Operations*: `Start`, `Cancel`, `Answer`, `Events`, `SetProject`, `SetEmulator`,
  `Close` for the UI; `run`, `execute`, `confirmer`, `stream`, `emit`, `finish`,
  `forget` in each run's goroutine.
- *Interacts*: the terminal UI calls it and reads its events; the runs' commands use
  the token table, the API client, the config file.
- *Correct when* an exclusive command shares the file with nobody; a run cancelled
  before its command began never begins it; exclusive commands keep the order they
  were started in; a question is answered by its own answer; `Close` returns; nobody
  sends on the closed channel; every run ends.

### Token cache and sign-in — `internal/auth`, `cmd/fft/auth.go`

- *State*: per process the cached token, under a mutex; in the credential store, which
  all processes share, the three entries `refreshToken`, `idToken`, `idTokenExp` and
  the password.
- *Operations*: `Token`, `Renew`, and inside them `loadToken`, `mint` (refresh, else
  sign in) and `saveToken`; `newTokenSource` decides what a process signs in with.
- *Interacts*: Google over HTTP; the store entry by entry; `project add` and
  `project remove` write and delete the same entries.
- *Correct when* no token with less than the leeway left is served; the password is
  sent only when there is no refresh token or this call had it refused; a crash between
  two writes leaves nothing that vouches for a stale token; goroutines that find the
  same token stale mint one; a process signs in as the account it was started for.

### API client — `internal/client`, `cmd/fft/entity.go`

- *State*: of one call of `Do`: the attempts sent, whether the token was renewed; of
  `UpdateVersioned`: whether the entity was read again; the tenant's entity and version.
- *Operations*: `Do` with its retries, its one renewal after a 401, and its waits;
  `UpdateVersioned` (read, change, write, once more after a 409); `--if-version`;
  paging by cursor and by id (`search.go`, `list.go`).
- *Interacts*: the tenant, over a network that loses and delays; the token source.
- *Correct when* what is not idempotent is carried out once; what is reported is what
  happened; the attempts are bounded; every command ends; a page walk neither
  repeats nor drops what was there all along.

### Project commands and credential stores — `cmd/fft/project_*.go`, `internal/secrets`, `internal/config`

- *State*: the config file (projects, active project), the keychain or the 0600 file,
  the environment as a read-only store.
- *Operations*: `project add [--force]`, `remove`, `use`, `read-only`, the move
  between keychain and file; `Get`, `Set`, `Delete`, `Has` of each store.
- *Correct when* a project that is configured has its credentials, one that is removed
  leaves none, and two processes do not undo each other.

### Local emulator — `internal/emulator`, `pkg/transportproto`, `cmd/fft-emulator*`

- *State*: the versioned store under its lock; the event emitter with its transports,
  a child process or a webhook each; the pages' positions, which clients keep.
- *Operations*: create, read, patch, replace, delete, list and search; the event
  after each; a transport's request and answer frames, its watchdog, `fail`, `Close`.
- *Correct when* it takes and refuses versions as a tenant does, events tell what
  happened, no transport is stuck behind a child that has hung, and `Close` returns.

### Command history — `internal/history`

- *State*: one JSON-lines file that many processes append to.
- *Operations*: `Append`, compaction beside it, `Read`, `Clear`.
- *Correct when* at most what a compaction races with is lost, and never a part of a line.

### Component installation — `internal/component`, `cmd/fft/component_install.go`, `component_remove.go`

- *State*: the directory of each component; beside it the staged tree (`.staging-…`) of
  every install under way, and the tree each has moved aside (`<name>.old-…`).
- *Operations*: `Prepare`, `Commit` (move the old tree aside, rename the staged one into
  place, remove the old one), `Discard`, `Remove`.
- *Interacts*: with other `fft` processes, in the file system; there is no lock.
- *Correct when* an upgrade that fails leaves the component that worked, one that is
  killed leaves a whole tree, and no way out of an install leaves what was staged.

### Bulk commands — `cmd/fft/bulk.go`, `stock_upsert.go`, `listing_upsert.go`

- *State*: the chunks, sent in order, and one result per entry.
- *Correct when* each entry is reported as what became of it, also after a failure.

### The rest

The terminal UI (`internal/tui`) is a single-threaded program that uses the runner;
it appears as the runner's user. The update check keeps one small file. Templates,
skill files and atomic writes are sequential. The command line, its output and its
help, the generated bindings and `tools/` have no behaviour that interleaves.

### What is hard

- *Interleaving*: builds beside forgets; runs beside cancels; loads beside saves of
  another process; requests that arrive after they were given up on.
- *Ordering*: deferred calls in reverse; the chain of exclusive runs; secrets before
  the config file.
- *Failure*: a process killed between two of three writes, a store that fails
  half-way, a Google that is away and one that refuses, a lost answer.
- *Waiting*: a full event channel nobody reads any more, streams that hold the slots,
  questions nobody answers, a mutex, a closed channel.


## Modules

| module | models | composed of |
|---|---|---|
| `SessionTokens` | the token table of a TUI session | |
| `CliRunner` | the runner and the goroutine of each run | |
| `RunnerSession` | both together | `EXTENDS CliRunner`, `INSTANCE SessionTokens` |
| `TokenCache` | the tokens of a project in memory and in the store, Google, `project add --force` | |
| `ApiClient` | `Do` and `UpdateVersioned` against a tenant | |
| `EmulatorTransport` | the emulator's event delivery to a child process: plan, fan-out, round trips, watchdog, `Close` | |
| `EmulatorStore` | the emulator's store, its handlers and pages, and the client's two walks over them | |
| `ProjectCommands` | `project add`, `remove`, `use`, `read-only` over a config file and two stores | |
| `BulkUpsert` | the chunks of an upsert, the tenant's outcomes, and the report | |
| `History` | the history file: append, compaction, clear, death | |
| `ComponentInstall` | install, upgrade and remove of one component's directory | |
| `Sublists` | one operator of both: the elements of a list that are in a set | |
| `SessionTokens_proofs`, `TokenCache_proofs`, `ApiClient_proofs`, `ProjectCommands_proofs`, `ComponentInstall_proofs` | theorems about each | `EXTENDS` the module, `TLAPS` |
| `Emulator_proofs` | theorems about `EmulatorStore` and `EmulatorTransport` | `EXTENDS` both, `TLAPS` |
| `Lists_proofs` | theorems about `History` and `BulkUpsert`, and what they share: induction, folds, sublists | `EXTENDS` both, `TLAPS` |
| `Runner_proofs` | theorems about `CliRunner` and `RunnerSession` | `EXTENDS RunnerSession`, `INSTANCE SessionTokens_proofs` |
| `MCSessionTokens`, `MCTokenCache` | constants for the runs | |

`PROJECT.json` maps every definition to the lines it models.

### SessionTokens

A *caller* is one call of `sessionTokens.source`; since a call makes at most one
build, it also names its `tokenBuild`. `sources`, `building` and `generation` are the
table's fields; `begun`, `outcome` and `builtFrom` those of a build.

`source` is four steps: the first critical section (`FindKept`, `JoinBuild` or
`StartBuild`), the build outside the mutex (`Build`, which may fail), the second
critical section (`Publish`, which is `Unregister` and `Keep`), and `close(done)`
(`Close`; `Wake` is the receiving end). `forget` runs between any two of them.

The credential store is a counter per project, which `Rewrite` advances. A command
that rewrites the config file has it to itself from `BeginRewrite` to
`FinishRewrite`, which forgets the tokens: that a command always does so is what
`CliRunner` and `RunnerSession` show. `asked` is a history variable: the account a
call may rely on, or 0 when it was made while a rewrite was at work.

### CliRunner

A run is a goroutine with a program counter that follows `run` and `execute`:

    launched → behind → slotless → slotted → announcing → locking → draining → locked
             → executing ⇄ posing → asking → ending → unlocking → finishing → leaving → gone

`behind` waits for the exclusive run before it, `slotless` for a slot, `locking` and
`draining` for the config lock (Go's `RWMutex`: a writer first keeps new readers out,
then waits for those there are), `asking` for the user. Each `select` of the code is
one action per case, so that a cancel and what it races with can both be ready.
`Emit` is the code's double select: room in the buffer wins, else the send blocks
until somebody reads or the session is stopped. The deferred calls are steps in the
order they run: tokens, lock, done event, slot and `close(done)`.

`Queue` is what `Start` decides under the runner's mutex. The kind of a run stands
for its classification: `plain` takes the lock for reading, `stream` takes none,
`alone` (the UI asked for it) and `config` (it rewrites the file) take it for
writing. The UI may start, cancel, answer (twice, or late) and close at any time.

What commands do is left out, but for the questions they ask. `acted`, `approved`,
`withdrawn` and `spared` are history variables for the properties.

### RunnerSession

The same goroutines call `source` while their command executes. `rewriting` of the
token table is no variable here: it is that some config command is between the lock
and `ForgetTokens`, an expression over the runner's state. `Rewrite` is a step of
such a command's execution, `Forget` is the runner's deferred call, `SetProject` may
come at any time. A run inside `source` is blocked there.

### TokenCache

A token is known by the number of the mint that made it, so memory and store are
three numbers each, 0 for an entry that is not there; tokens go stale in the order
they were minted (they live equally long), so `stale` is one number too. `loadToken`
is three steps and `saveToken` three more, as each entry is a call of the store, and
every one of them can fail or be the last before the process is killed (`Restart`).
The entries can be read as absent, for an entry that cannot be read or parsed counts
as one. `Refused` is what the code counts as a refusal, any answer below 500 that is no
token: that the refresh token is dead, but as well a wrong API key, a 429 or a proxy's 403;
`Unreachable` is anything else that is no token. So a refusal may come whatever the token is,
and `dead` (what Google has invalidated) only says when a token can still be had. `refusal`, a
history variable, is the refresh token a call had refused. `readOnly` is the store of the
environment, which refuses writes.

`AddSecrets`, `AddConfig` and `AddFails` are `project add --force`, running in another
shell: password first, config file second, and `DeleteAll` if that fails.
`NewSource` is what a new process makes of the store: `firebase` with a password,
`static` with only an id token, else none.

One assumption: an id token outlives the three writes that save it (`Age`). It lives
for an hour, five minutes of which are leeway, and the writes are a local call each.

### ApiClient

A command is a create (POST), a patch (PATCH through `UpdateVersioned`), a replace
(PUT through `UpdateVersioned`) or a write under `--if-version`. `sent`, `refreshed`
and `retried` are the code's local variables. The tenant carries out a write of the
version it holds and answers 409 to any other; the answer can be lost after the
write (`Write` with `fault` or `dropped`), before it (`Deny`), or the request itself
can be late and arrive after the client has given up on it (`Delay`, `Arrive`).
How long a wait is, is left out; whether there is one, is not. `Fail` may end an
attempt at any time, for `--timeout` and Ctrl-C may.

### EmulatorTransport

A *caller* is one round trip's place: the handshake (`Boot`), or one mutation's
subscription. `do` is `Gate` (the check before the mutex), `Lock` (the mutex and the
second check), `Write` (encode) and `Read` (scan, decode, compare the number); each
error path goes through `Fail`, which acts once. The watchdog is a goroutine beside
the round trip whose `select` may find both its timer and `done` ready, so it may fire
after its round trip is over: `straggler` says one is still there, and
`WatchdogFires` may then kill the child during the next round trip. A watchdog of a
closed transport does nothing and is not kept.

The emitter plans subscription after subscription (`AskPlan`), starts the publish
timeout (`FanOut`) and sends to all at once; `CheckContext` is the one look at the
shared deadline. `Close` sets the latch, closes stdin and waits for the exit, `Grace`
is the kill, `Reaped` the return of `cmd.Wait`. The child is external: it answers,
refuses, says something else, stops, or leaves behind a process of its own that keeps
its stdout open, its stderr or both (`holds`). The read side ends when nobody holds the
other end any more (`AtEOF`), or when our own end is closed (`Torn`): `cmd.Wait` does that
when it returns, and `cmd.WaitDelay` some time after the kill, but only while the child's stderr
is still held open. What no timer sees is a process on the stdout alone (`Orphaned`).

### EmulatorStore

A method of `Store` holds its lock from beginning to end and is one step. A handler is
several: `Resolve`, then `Update`, or `ReadDoomed` and `Delete` (which takes the first place
of the id out of `order`, as `slices.Index` and `slices.Delete` do); `Emit` comes after the
lock is released, so another request may do anything in between. `paginateCursor` and
`paginateAfterID` are the operators `SearchPage` and `ListPage` over the collection as
it is at that moment; `SearchNext` and `ListNext` are one turn of the loops in
`SearchAll` and `ListAll`, with `maxItems`, the error for a cursor that does not
advance, and the rule for the last page. The walk's server may cap its pages, or count
nonsense (`cap`, `honest`), as the comments in `list.go` fear of the real one. The event of a
deletion carries the version that was read before it, which may be older than what was
deleted (`EachChangeOnce` counts one such event, of any version). Ids are counted up and none is
given twice; a seed whose entities have ids in the counter's own form, which the counter
could give again once they are deleted, is left out.

### ProjectCommands

A command loads the config once (`cfg`), picks its store, and then writes step by
step: `add` asks, verifies, stores password and API key, saves the config, and on a
failure rolls back, or changes to the file store and begins again (`Switch`) and
empties the keychain at the end; `remove` deletes in its own store, sweeps the other,
and saves. Errors are what `errors.Is` can tell of them: `absent`, `refused`, or both
(`mixed`), since `DeleteAll` joins the errors of several deletes. A password stands for
what `verify` stores with it, and kinds are two of the five. `warned` and
`lost` are history variables. `warned` are the names whose credentials the user knows not to be
where `fft` looks: the command was killed, said that it could not delete or that it went to
another store, or asked whether to remove. `lost` are the names of which nobody said so: a failed
`add --force` deletes what the project had, and reports only why it failed (disagreement 13).

### BulkUpsert

A file is any short sequence of new stocks and stock updates, or of listings with
their costs. `Split` is `chunkUpsert` (and, with every cost 1, `slices.Chunk`).
A request is accepted for any part of its entries, answered unreadably, rejected, lost
and sent again by `Do`, or ends the run. `Reconcile` works out from what was sent and
what was answered which entries failed: by count for stocks (`UnnamedByCount`), by
key for listings (`UnnamedBySet`), as the two commands do. `resent` and `landed` are
history variables: which requests went out more than once, and how often the tenant has
carried out each entry. (`UpsertInit`, `UpsertNext`, `UpsertSpec` and, in `EmulatorTransport`,
`TransportInit`, `TransportNext`, `TransportSpec` have names of their own because a
proof module extends them beside another component.)

### History

Lines are numbers of writes, 0 a broken one; `torn` says that the last has no newline.
`Append` is `Open`, `Write` and, if the size it saw went over the limit, a compaction:
`TryLock` or `SkipTurn`, `ReadFile` (which looks at the size again), `Rename`, `Unlock`.
A handle opened before a rename or a clear writes to a file nobody finds any more
(`fresh`). `Clear` removes the file, an empty one too. Lines have one size: an entry that is over
the limit by itself, which a compaction keeps all the same (`history.go:245-247`), is outside the
model. `Die` may come at any step and gives the lock back, for it is a `flock`.
`excused` collects the entries that something other than compaction may cost, and
`settled` says that the last thing to happen was the end of an append that was `alone` from its
beginning; both are history variables.

### ComponentInstall

A process runs one command on one component: an install (an upgrade is one, of the
source the registry names) or a removal. A tree is named after the process that staged
it, wherever it is: `dir` is the tree under the component's own name, `old[c]` the one
that `c` has moved aside, `tree[t]` what is left of the files in tree `t`. Each call of the
file system that matters is one step: `Look` (is there a tree to move aside), `MoveAside`,
`Swap`, `PutBack`, `Sweep`. Nothing keeps two processes apart, so `dir` may be another tree, or
none, at each of them; a rename onto a directory that is there fails. `Fails` is
that, or one of at most `MaxFaults` renames that fail for no reason of their own. `Sweep` and `Delete`
may leave something: `RemoveAll` goes file by file and its error is not looked at. That the
removal of the *staged* tree (`install.go:251`, `327`, `367`) fails, which nobody looks at either,
is left out: `StagingIsDiscarded` says that every way out asks for it.
What is downloaded, verified and unpacked either is a whole component or ends the
install (`Stage`). `Kill` may come at any step.


## Runs

| run | instance | checks |
|---|---|---|
| `session_tokens` | 3 calls, 1 project, 1 rewrite, 2 generations | `NoOldAccount`, `OneBuildPerGeneration`, `EveryCallReturns` |
| `runner` | 2 runs, a stream or config, then plain or config, 2 slots, buffer of 1, 2 questions in all, 1 cancel, fair | `ExclusiveRunsAlone`, `CancelledNeverBegins`, `InOrderUnlessCancelled`, `NoEventAfterClose`, `ActsOnItsOwnYes`, `CloseReturns`, `RunsEnd` |
| `runner_session` | 3 runs, one of each kind, 1 rewrite, 1 project switch | `SignsAsCurrentAccount`, `TokensAreUsedAsSpecified` |
| `token_cache` | 1 process, 2 goroutines, 2 mints, 1 `add --force`, fair | `ExpiryNeverVouches`, `PasswordIsLastResort`, `ServesFresh`, `OneMintPerExpiry`, `EveryCallReturns` |
| `api_client` | 2 commands of any kinds, 2 attempts, 2 late writes, fair | `NoDuplicate`, `ReportsTheTruth`, `CommandsEnd` |
| `emulator_transport` | 1 mutation with 2 subscriptions at one child, after the handshake, fair | `PublishedWasConfirmed`, `BlamedOnlyIfRude`, `MutationsAnswered`, `CloseReleases` |
| `emulator_store` | 2 clients, 3 changes, up to 4 entities, pages of 2 (or 1 by the server), fair | `EachChangeOnce`, `NothingTwice`, `WholeAnswer`, `NoFalseAlarm`, `WalkEnds` |
| `project_commands` | 1 process running any commands on 2 names | `NothingStranded`, `NamedIsReachable`, `ReadOnlyComesOffByConsent` |
| `bulk_upsert` | all files of up to 4 entries, 2 articles, budget 3, 2 attempts | `FailedIsSafeToResend`, `DroppedStocksAreReported`, `RequestsFit` |
| `history` | 3 processes, 8 writes, a limit of 3 lines | `OnlyRacesLose`, `QuietAppendCompacts` |
| `component_install` | 4 processes, 1 failing rename | `NothingIsLost`, `FailedUpgradeKeepsWorking`, `StagingIsDiscarded` |
| `stocks_twice` | files of up to 2 entries, 2 attempts | violates `StocksAreMadeOnce` |

**Why the bounds are enough.**

- `session_tokens`: a build, a forget, a build of the next generation and a caller
  that waits on either need three calls and two generations. Projects share nothing
  but the generation, so one is enough. The proofs have no such bounds.
- `runner`: two runs wait on each other for the config lock, on a full buffer (1 here,
  where the code has 64), and on a user who does not answer, or who answers twice or too
  late: with two questions each run can ask one, so that there is another's yes to take, or one
  run both, the first answered or withdrawn; one is cancelled at any moment, or both by `Close`. `FirstKinds` and `Kinds` make them
  a writer with a reader or a writer beside it, or a stream with either. A third run, which
  can be overtaken or find no slot, and streams that hold every slot, are in the two larger
  configurations below, and safety for any number is proved. The kind
  `alone` differs from `config` by no step but the forgetting, and is covered by the proofs.
- `runner_session`: a source is wrong only if a build, a rewrite and a use overlap:
  a reader, a writer and a stream (which reads without the lock). Closing is left
  out of it (`Bounded`), for the runner's own runs cover it.
- `token_cache`: two goroutines contend for one mutex and one store; two mints let
  one token replace another, in memory and entry by entry in the store. With two
  processes `ServesFresh` fails (see [Disagreements](#disagreements)).
- `api_client`: two attempts are a first and a retry, and the third after a 401 is
  one more; two late writes of one command, or one of each, are enough to collide.
- `emulator_transport`: what callers share is the mutex, the pipes and the latch; two
  sends at once contend for all three, with the handshake and the plans before them
  and a straggling watchdog of each. A second mutation adds only more callers.
- `emulator_store`: five ids, of which up to four exist, make walks of up to three
  pages, or five of a capping server; three changes are enough for two requests for
  one entity beside a third, between any two pages. `MaxItems` cuts off a walk that
  started again.
- `project_commands`: nothing bounds it but the names; two, because a switch of store
  strands, or fails to, the *other* project.
- `bulk_upsert`: four entries in a budget of three make at least two requests; two
  articles let keys repeat within and across them.
- `history`: a limit of three keeps one line, so that a compaction loses some; an
  appender with an old handle, a compacter and a third that waits for the lock are
  three; eight writes fill the file more than twice.
- `component_install`: an installed component, two upgrades of it that meet between each
  other's renames, and a removal beside them are four commands. With a second failing
  rename the one that puts the old tree back can fail, and nothing looks at it.

**Deadlock** is checked in `token_cache`, where time, Google and new calls never
stop, in `project_commands`, where there is always a next command, and in
`emulator_transport`, where the states in which nothing more happens are spelt out
(`Terminated`, and `Wedged`, see below). The other runs say `CHECK_DEADLOCK FALSE`
because their systems do stop: all calls have returned, all runs have ended and the
runner is closed, all commands have ended, the file is uploaded, the walk is over, or
the bound on changes or writes is reached, or every install has ended. That nobody stops
before that is what their liveness properties say.

Each property of a passing run has a mutant in `PROJECT.json`: a mistaken variant of
one definition, kept beside it in the module, under which TLC finds the property
violated. They say which line each property guards: the comparison before the
delete, the generation check before the keep, the second look at the context after
the lock, the order of the three writes, the unlock on the error path, the number an
answer carries, the kill in `fail`, the wait for a child that `fail` has already
killed, the second look at a delete's result, the count beside the short page, the
distinction of a store that is not there from one that refused.

Beside the runs of `PROJECT.json` there are larger instances that TLC passes:
`CliRunnerThree` (safety of three runs of any kind, 3.4 million states) and
`CliRunnerLiveness` (two runs of any kind, streams too, one question, nobody cancelled). And there are
configurations that each end in a counterexample, for the disagreements below: `CliRunnerOrder`, `TokenAccount`,
`TokenProcesses`, `TokenRefusal`, `ApiClientConflict`, `EmulatorTransportLock`,
`EmulatorTransportLate`, `ProjectCommandsShells`, `ProjectCommandsForce`, `HistoryBadLine`,
`BulkUpsertDropped`, `ComponentInstallLeftover`. Those whose names begin with `Token` are of
`MCTokenCache`, the others of the module they are named after.


## Fairness

- *Goroutines run*: weak fairness of each goroutine's own steps, in all modules.
- *Builds end* (`SessionTokens`): the store answers, or the user answers its dialog.
- *Blocked senders are served in order* (`CliRunner`, strong fairness of `EmitAny`): a
  Go channel queues the goroutines blocked on it and hands them the room a reader
  makes before anybody else can take it.
- *Commands end*: a plain command by itself (it has a `--timeout`, 30 s by default),
  a stream once its context is done. A stream that nobody stops never ends, and
  no question has to be answered: `RunsEnd` says so.
- *The UI reads events* while it is up, and `Close`, once called, goes on.
- *`sync.Mutex` starves nobody* (`TokenCache`, strong fairness of `Lock`): after a
  millisecond of waiting it hands itself to whoever has waited longest.
- *Attempts end* (`ApiClient`): by an answer, the response-header timeout of 60 s or
  the command's own.
- *Timers fire* (`EmulatorTransport`): the watchdog of an open round trip, the grace
  period of `Close`, and the system's end of a process that was killed. The child
  owes nothing, not even an exit when its stdin closes.
- *A walk goes on* (`EmulatorStore`): its next page is asked for and answered.

`ProjectCommands`, `BulkUpsert`, `History` and `ComponentInstall` state safety only. Nothing makes the user start, answer, cancel or switch, a client change an entity, a tenant accept, Google
answer, a process be killed, or a late request arrive.


## Proofs

`tlapm` checks the eight proof modules to the last leaf. The theorems hold for any values of the
constants; TLC had agreed on the small instances first, on the inductive invariants as well
as on the properties.

**`SessionTokens_proofs`.** From `NoneIsNoCaller` (nil is no build) and
`BoundsAreNaturals`. The invariant `IInv` relates the table to the calls: what is in
`building` under a key is a build of that key, not yet published, of this
generation; every build under way in this generation is in `building`; what is kept
is a source of its key, of this generation; and what was begun in this generation
was built from credentials that are those of the store now, unless a command that
rewrites them is at work. `NoOldAccount` alone is not inductive: without knowing
that kept sources and joined builds belong to the current generation a call could
find an older one. From it `TypeCorrect`, `NeverAnOldAccount`, `SingleBuild` and
`KeptAreSources`.

**`Runner_proofs`, the runner alone.** From `RunnerAssumption` (numbers are numbers, there is a slot
and room for an event). `RunnerInv` is the conjunction of `TypeOK` and

- `QueueInv`: `lastExclusive` and `after` link the exclusive runs in the order of
  their numbers, and of two of them, the later one is past its wait only if the
  earlier one has ended or a run between them was cut off;
- `LockInv`: whoever holds or awaits the lock for writing is `writer`, whoever holds
  it for reading is in `readers`, and a writer that holds it faces no reader;
- `CutInv`: what was cut off before its command began is still cut off and has not begun;
- `AskedInv`: a question belongs to one run, the answer waiting for a run is the one
  given to its own question, and questions not yet asked are answered by nobody.

`InOrderUnlessCancelled` needs the whole chain: a run only knows the one before it,
so the invariant carries, for each pair, that the link between them is whole.
The lemmas `RunMoves` and `RunLocks` say which places a step can lead from and to,
and what it does to the locks, so that each part of the invariant is proved from
those instead of from twenty actions. Theorems: `TypeCorrect`, `ExclusivesAreAlone`,
`CancelledInTime`, `ExclusivesInTurn`, `ClosedForGood`, `OnlyItsOwnYes`.

**`Runner_proofs`, a session.** From `SessionAssumption` besides (two more bounds are
numbers). A session is proved from what its parts were proved to do. Every step of
it is a step of the runner or none (`SessionRunsTheRunner`), so `RunnerInv` holds in it.
Every step is a step of `SessionTokens` or none (`TokensUsedAsSpecified`, the runs being
the callers and the table's bound on forgets being the number of runs and switches), so
the table's `IInv` holds in it too, by the theorem of `SessionTokens_proofs`, instantiated.
The second needs the first: `SessionTokens` lets one command rewrite the config at a
time, and it is the runner's lock that keeps two apart. `SignsAsWhoItShould` takes both and two
facts more: from the moment a command under the lock asks for its source until it is done,
the account of its project is the one it had then (`Settled`), and no source was built
from newer credentials than there are (`NoneNewer`). `Generations` counts the forgets,
one for each switch and each config command past its end, and `CallsLate` says that
only a run whose command has begun asks for a source.

**`TokenCache_proofs`.** From `CacheAssumption`. Two invariants. `CacheInv` holds with any
number of processes: whoever is between `mu.Lock` and the unlock holds its process's
mutex (`Locked`), and what it has decided by then still holds of the token it found, that
it is stale, and that where the password is sent there is no refresh token, or the one there
is was refused to this very call (`LastResort`). That the token is then dead does not follow
(disagreement 12). The first makes the second last: only the holder touches the token. From
it `PasswordComesLast` and, for any number of goroutines that find one token stale together,
`MintsWhenStale`.
`StoreInv` is about the three entries of the store and holds under `OneProcess`: one
process uses the project (`project add --force` may run beside it, and processes may die
and be started again). With two, neither property holds: TLC finds that one process
leaves its older id token under the other's expiry (disagreement 4), so the
assumption is necessary. The invariant follows an expiry on its way through the store: what
is saved is the latest mint, which stays fresh until it is saved (`SavesLatest`); nothing is
used before it was loaded (`LoadedFirst`); what is kept, or still to be read, was never
later than its token's (`LoadedWhole`), even if the process dies between two entries. From
it `StaleIsNeverVouchedFor` and `ServedIsFresh`.

**`ApiClient_proofs`.** From `ClientAssumption`. `NoDuplicate` says nothing of the
writes that have yet to arrive, and is not inductive. The invariant says, of one command at
a time, that a create or patch which was carried out, or may be any moment, is one that its
command will not send again (`Once`): every answer after which a retry (`Retry`) or the one
re-read (`ReRead`) is possible comes from a tenant that did not write and will not.
`Informed` says what the answer at hand tells of the write, `WithinAttempts` counts the
requests of the present `Do`. Theorems: `NothingIsDoneTwice`, `OutcomesAreTrue`,
`AttemptsAreBounded` (which no run checks).

**`Emulator_proofs`, the store.** From `BoundsAreSound` (bounds are numbers, pages and caps are not
0). Everything rests on the order of the collection, `Counted`: ids are counted up and
`order` is in their order, so what is created later comes after all that a walk has seen. `Told` says
how often each event has been said or is due, from the step on that makes the change; it is
proved with three lemmas on the bag of events (a step is silent, announces, or delivers).
Of a walk, everything it yielded lies before the place it goes on from
(`SearchGoesOn`, `ListGoesOn`), which a deletion keeps although it moves places, since places only
move to the front; and as long as nothing was deleted, the yield is the beginning of the
collection (`Undisturbed`). That a short page of a list which completes its count is the
last one follows from the second without counting sets. Theorems: `ChangesAreToldOnce`,
`NothingIsYieldedTwice`, `AnswersAreWhole`, `NoAlarmIsFalse`. The lemmas `Removed`, `PageIs`
and `Joined` say what `RemoveFirst`, a page and a truncated page are, element by element.

**`Emulator_proofs`, the transport.** From `CallersAreDistinct` (the handshake, nobody and the
mutations are different). `TransportInv` says that the mutex makes a conversation of the two
pipes: the caller between its number and its answer holds the mutex and has the newest
number (`OneOpen`, `Unfinished`), and what is in the pipes carries a number already
given out, which tells whose question it is (`Numbered`). So an answer that is accepted was
given to that very question, however late a watchdog is or however rude the child:
`OnlyConfirmedIsPublished`. That nobody is blamed who did not misbehave needs more, as long as the
transport is in use: the reader's question or its answer is all that the pipes hold
(`Paired`), since a round trip that is given up ends the transport. From it `NoPoliteChildIsBlamed`.
`TransportTypeCorrect` is the type invariant.

**`ProjectCommands_proofs`.** For any names, under `Alone`: one process runs project
commands. Two shells save over each other's config (disagreement 8), so the assumption is
necessary. `Reach` says that a command works on the config as it is until it
saves it (`Current`), which command can be at which step (`Course`), which store
it writes to (`Chosen`), and what an add has stored by then (`Stored`): a name enters the
config only with both its credentials in the store the config names, and is then no longer `lost`.
That a rollback takes the credentials of one configured name at most, its own, is what the
theorem says of a failed `add --force`; that it takes them is disagreement 13. `Tidy` accounts for what is in a store
under a name the config does not have: an add at work on it, or a warning
(`Unstranded`), and a removal has emptied what it says it has (`Swept`). `Asked` says that a
command that would take a read-only mark off has its yes. Theorems:
`EveryNameIsReachable`, `NothingIsStranded`, `MarkNeedsConsent`.

**`ComponentInstall_proofs`.** From `NoneIsNoProcess` and `FaultBound`, for any number
of processes. The invariant is about where the trees are: a tree is in one place at most, and in
place or aside only if its process is past its rename (`Apart`), so what one process sweeps
is never what another has put, or will put back, in place; all other trees are whole
(`Whole`), and one of them is in place or kept aside (`Somewhere`). From it
`OneTreeIsAlwaysWhole` and `EveryPathDiscards`. `WorkingVersionStays` assumes `OneFault`,
that at most one rename fails for no reason of its own, and carries `Returning`: as long as
nobody is killed between his renames, there is a tree in place, or one about to be brought there,
and the last failure has been spent if that is one put back.

**`Lists_proofs`, lists.** What both components promise is about lists of any length, so this
module begins with induction. The library's induction theorems have an operator as a
parameter, to which no prover here can give a value; `Induction` has a set
in its place (those numbers of which the claim holds), and follows from `LeastElement`,
which is the well-foundedness of `<`. From it comes what a fold is (`FoldExists`,
`IteratorRuns`): there is a sequence of partial results, each made of the one before by
one step. And from that what `Sublist` has of a list (`SublistFrom`): all of its elements in the set
and nothing else, in their order, and the same when the list is taken from some place on.
`Sublist` says the same as `SelectSeq`, which is built into the prover and has no facts there.

**`Lists_proofs`, the history.** From `HalfIsSome` and `NobodyIsNoProcess`, for any number of
processes and writes and any limit. `OnlyRacesLose` is not inductive. A rename brings
back what was read before, so `HistoryInv` says of the data of every process about to rename what it says
of the file (`Accounted`, `ToRename`): it lacks only what is excused, or is older than all it
has and than half a file of entries. It stays true of data already read because each write in
the meantime is excused (`Compacting`), which is the race the property speaks of. That the lines
kept have been followed by `Keep` writes takes `Dated`: a line is followed by no more lines than
there were writes since. `TornLine` says which line is unfinished, and that nobody can read it.
`LockIsHeld`, that the process past the lock is the one that holds it, leaves one
process at most that reads and renames. `QuietAppendCompacts` needs `Undisturbed`: as long as
an append is alone, nobody else is at work, its handle leads to the file, and the size it saw
is the file's. Theorems: `HistoryTypes`, `CompactionIsAlone`,
`HistoryLosesOnlyToRaces`, `QuietAppendsCompact`.

**`Lists_proofs`, bulk upserts.** From `BudgetIsEnough`, for any file, budget and number of attempts.
How a file is split is an induction over its entries (`SplitCuts`): after `k` of them the requests
end to end are those `k` (`CutsFlatten`), each fits, and none could have taken in the one after
it: `UpsertRequestsFit`. That requests share no entry follows, and the report needs it: what the tenant does
for one request changes nothing of what was reported of another. `UpsertInv` says
besides that nothing of a request has been carried out before it is sent (`Untouched`); without it, an
entry of a request that was sent once might have been there already. What is left is one
request (`Honest`): of the entries of a key, by count, those called failed are as many as the tenant
left out, which rests on a fact about ranks (`FromRank`: of the entries of a key all but the
first `w` come behind `w` others); by key, they are no more than it left out. Theorems: `UpsertTypes`,
`UpsertRequestsFit`, `FailedMayBeResent`, `NoStockIsDroppedUnsaid`. `MadeTwiceOnlyIfResent`, which no
run checks, says how far disagreement 1 reaches: an entry of a request that was sent once is carried
out once at most.

**Only model-checked** is all liveness: `EveryCallReturns`, `CloseReturns`, `RunsEnd`,
`CommandsEnd`, `MutationsAnswered`, `CloseReleases`, `WalkEnds`. Liveness under fairness and
`ENABLED` are beyond the prover. `StocksAreMadeOnce` and the properties of the extra
configurations do not hold.


## Disagreements

Where a comment or a page of the docs promises more than the code keeps. The first is a
run of `PROJECT.json`; each of the others names the configuration that shows it.

1. `stocks_twice`: **a stock can be made twice.** The upsert of stocks is a PUT, and
   `Do` sends a PUT again after a lost answer or a 5xx (`do.go:163`); an entry without an
   id is created each time. `docs/guide/troubleshooting.md:28` says "`fft` retries only
   what is safe to send twice", and `bulk.go:22-24` knows that this is not.
2. `CliRunnerOrder`: **exclusive runs can overtake.** Exclusive runs wait for the one
   before them only. If the second of three is cancelled, it closes its `done`
   (`tui_runner.go:510`) while the first may still be waiting or executing, and the
   third follows on. `internal/tui/runner.go:38-39` and `tui_runner.go:309-310`
   promise the order of starting. What does hold, and is proved:
   `InOrderUnlessCancelled`, and `ExclusiveRunsAlone` in any case.
3. `TokenAccount`: **`project add --force` keeps the old account's tokens.** The
   password and the API key are replaced, the three token entries are not
   (`project_add.go:431`), and a process that starts afterwards serves them, and
   refreshes them for as long as Google does. `tui_tokens.go:47-49` takes the
   opposite for granted.
4. `TokenProcesses`: **an expiry of another process's token.** The entries are read
   one by one (`cache.go:227`) and written one by one, so a load beside a save can
   pair an old id token with a new expiry and serve it (`cache.go:75-76` says it
   refreshes). Within one process it cannot happen, whatever fails: `ServesFresh` and
   `ExpiryNeverVouches`. The order of the three writes is what saves a crash.
5. `ApiClientConflict`: **a write can conflict with itself.** A versioned PUT counts as
   idempotent and is sent again after a lost answer (`do.go:163`); if the first was
   carried out, the second gets a 409, which `versioned.go:30-31` takes for somebody
   else's write. Through `UpdateVersioned` the change is then applied once more to
   what it has itself written; under `--if-version` the command reports a conflict.
6. `EmulatorTransportLate`: **the publish timeout bounds less than it says.** `send`
   looks at the shared deadline before it queues for the transport's mutex
   (`transport_process.go:196`), and the fan-out starts all sends at once
   (`eventing.go:125`), so at a slow child every one of them has passed the check long
   before its turn; the comment (lines 189 to 195) says checking there caps the wait.
7. `EmulatorTransportLock`: **a hung child can hold the lock for longer than the
   watchdog allows.** The kill ends the child, but a process the child started and that
   inherited its stdout keeps the pipe open, and the reader with it, until `Close` has
   waited for the child. During the handshake nobody calls `Close` (`Wedged`). `WaitDelay`
   (`transport_process.go:121-125`) comes to the rescue only if that process holds the stderr too,
   for it closes our ends of the pipes when the copying of stderr has not ended in time.
8. `ProjectCommandsShells`: **two shells undo each other's config.** Each command saves
   the whole config it loaded when it started, so `project use` in one shell can take
   off the read-only mark that another has just set.
9. `HistoryBadLine`: **a torn line costs the next one.** After a write that was cut
   short, the next entry is appended to the unfinished line and both are unreadable;
   `history.go:275-277` says one bad line never costs the rest.
10. `BulkUpsertDropped`: **a dropped listing can go unreported.** Listings are matched
    by article and not by count (`listing_upsert.go:425-445`), and a file may name an
    article twice, so one written entry answers for both.
11. `ComponentInstallLeftover`: **nothing cleans up after a killed install.** `install.go:322`
    says a crash in the middle of `Commit` leaves at worst a directory `<name>.old-…`
    "that the next install cleans up". `Commit` removes only the directory that it has
    itself moved aside (lines 357 to 359), and nothing else looks for such a name. If
    the crash came between the two renames, that directory is the component that worked.

12. `TokenRefusal`: **a refusal need not mean that the token is dead.** `Refused` counts every
    status below 500 (`firebase.go:344-347`), so a 429, a wrong API key or a proxy's 403 makes
    `mint` send the password although the refresh token is still good. `cache.go:153-155` says
    "Only a refusal means the token is dead", and `firebase.go:339-343` "Only a refusal
    justifies burning the password on a fresh sign-in". What does hold, and is proved:
    `PasswordIsLastResort`.
13. `ProjectCommandsForce`: **a failed `project add --force` takes the credentials the project
    had.** When the API key or the config cannot be written, the rollback deletes all entries
    under the name (`project_add.go:434-440`, `450-455`), those of before the add too, and returns the
    reason of the failure only. The config still names the project.
    `project_add.go:420-426` says "if a keychain write fails we have written nothing", and
    line 502 "There is no moment in which the config names a project it cannot reach". What does hold,
    and is proved: `NamedIsReachable`, which excepts just these names (`lost`).

Noticed without a configuration: `Retry.MaxAttempts` is documented as "how many
requests may be sent in total" and a renewal after a 401 sends one more
(`AttemptsBounded` states what holds); `Retry-After` in seconds overflows for huge
values; a
`Clear` beside a compaction is undone by its rename; the product that bounds a chunk
of listings "is never larger than the sum of the costs" (`listing_upsert.go:268-271`),
where it is never smaller; a token saved after `DeleteAll` makes the next process
take it for a static one.


## Not modelled

- In the modelled parts: the capped output buffers of the runner, and which chunk of a
  stream is dropped; the request encodings and host allowlist of the sign-in; the
  lengths of waits; the webhook transport (one HTTP request with a timeout) and the
  matching of contexts; `migrateAPIKeys` and the environment as a store; the parsing
  of upload files and the bulk actions of listings; redaction and permissions of
  the history.
- The secrets file's own load, change and save is one step of `ProjectCommands`: two
  processes can undo each other there, the code takes no lock, and says nothing about it.
- Of component installation, what is downloaded, verified and unpacked: it is checked by
  the code and either is a whole component or not. Running a component is one child
  process in the hands of `os/exec`.
- Not planned: routing and seeding of the emulator (built once at startup, strings),
  the update check, templates and skill files (sequential), the terminal UI's screens,
  the command line, output and help, generated code and tools (no state). Generated
  code is more than half of the repository's lines.


## Plan

Done: `SessionTokens`, `CliRunner`, `RunnerSession`; `TokenCache`, `ApiClient`;
`EmulatorTransport`, `EmulatorStore`, `ProjectCommands`, `BulkUpsert`, `History`,
`ComponentInstall`. Proved: every safety and action property that a run checks and that holds.

What may still be proved:

1. `TokenCache`: which of the guarantees of `StoreInv` two processes keep.
2. What saves the properties that the extra configurations show to fail, as
   `MadeTwiceOnlyIfResent` does for `StocksAreMadeOnce`: `ServesFresh` of two processes whose
   loads and saves do not overlap, `NamedIsReachable` of shells that take turns.
