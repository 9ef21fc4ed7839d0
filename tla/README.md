# MiniUsage in TLA+

MiniUsage is a local dashboard for Codex token usage. One process reads the
rollout files under `$CODEX_HOME` incrementally, keeps what it learned in a
SQLite ledger, and serves it over HTTP with a stream of revision numbers that
tells browsers when to read again. This directory holds TLA+ models of its
logic, the TLC runs that check them and the theorems TLAPS proves about them.
Source paths below are relative to the repository (`src/src/...` is the Rust
crate, `src/docs/...` its specifications).

## 1. Inventory

| Part | Code | State it keeps | Operations | What makes it correct |
|---|---|---|---|---|
| Scan lifecycle store | `storage/lifecycle.rs`, `domain.rs` | `scan_runs` rows, the one `app_meta` row | start, reserve follow-up, start follow-up, fail follow-up, complete, fail | projection and rows agree; every written state passes the validation of the next read; history is immutable; each step has its own status revision |
| Source binding | `storage/mod.rs` | binding state and home fingerprint in `app_meta` | `Ledger::open` | another home never runs a scan; its queued follow-up fails visibly |
| Scan coordinator | `scanner/coordinator.rs` | availability atomic, active id, pending results, retry timer, command channel | request, shutdown, worker finished, tick, retry, recovery | one worker; a request is served by a scan that starts after it; nothing is left running or queued for ever; shutdown settles |
| Scan worker | `scanner/mod.rs` | none (one round) | `run(scan_id, cancelled)` | order discovery, commit of observations, metadata round, usage round; cancellation between commits only |
| Discovery | `scanner/discovery.rs`, `codex/session_index.rs` | none | walk directories | completeness flags tell when absence means deletion |
| Source registry | `storage/source.rs` | `source_files`, checkpoints' rebuild flags | plan and commit observations | a moved file keeps its identity; a replaced file is rebuilt, not extended |
| Metadata pipeline | `scanner/pipeline.rs`, `scanner/chunk_reader.rs`, `codex/*`, `storage/metadata.rs` | metadata checkpoints, session metadata | read chunks, plan, commit in groups | offset and content advance together; nothing is read twice or skipped |
| Usage pipeline | `scanner/usage_consumer.rs`, `usage/*`, `storage/usage.rs` | batches, thread and source checkpoints of an epoch | read batches, deltas of cumulative counters, commit | no token is counted twice or lost at a chunk or restart boundary |
| Usage rebuild | `usage/rebuild.rs` | building epoch, manifest, members, carry | begin or resume, freeze, verify, quarantine, activate, replace | readers see one complete epoch; activation only of what was verified |
| Usage queries | `api/query.rs`, `usage/aggregate.rs`, `usage/analytics.rs`, `range.rs` | none | aggregate, page, range | one response comes from one snapshot |
| Cost | `cost/*`, `storage/cost.rs` | the version of the price list the database was priced with, a cost per event | estimate, price all events again when another program opens the database | stored costs are those of the running program; an unknown price is no price and not a guess; nothing is half repriced |
| Thread metadata | `codex/metadata.rs`, `codex/state_index.rs`, `codex/session_index.rs`, `codex/global_state.rs`, `storage/metadata.rs` | `threads` rows, bindings | resolve a round's sources into patches, commit a group, reconcile its usage | a thread stands under its ancestor; no patch the schema refuses; usage moves with its thread |
| Live revisions | `api.rs`, `api/live.rs`, `storage/mod.rs`, `frontend/src/data/revisionFeed.ts` | `watch` channel of (data, status), the page's feed | publish, stream, poll | a page comes to know the published tuple whatever is lost, and is never taken back |
| Dashboard page | `frontend/src/dashboard/useDashboardController.ts`, `session/useSession{Table,Detail}Controller.ts` | requests in flight, snapshots, shown figures, refresh state | load, refresh, change scope, page, sort, open a session | a stale answer is never the last; rows belong to the snapshot shown; a refresh ends with its scan |
| Quota | `codex/quota/*`, `frontend/.../useCodexQuotaController.ts` | last good answer, the credentials it shares with the Codex CLI through `auth.json` | fetch, refresh, save, ask | the CLI is not signed out; the page goes on asking |
| Updates | `update/*`, three handlers of `api.rs` | the check under way, its subscribers, the last result | check, share, finish, open | one check at a time; everyone who asks is answered |
| Process shell | `main.rs`, `launcher.rs`, `windows_shell.rs`, `platform/*` | instance lock | start, health check, stop | the services start after the server answers; a stop waits for requests under way |
| Migrations, presentation | `storage/migrations.rs`, `frontend/` | | | not modelled: one-way SQL scripts and rendering |

How they interact. HTTP handlers, the interval timer and process start-up all
go to the **coordinator**, a thread with a bounded command channel; it is the
only writer of the **lifecycle store** and starts at most one **worker** at a
time. The worker discovers files, commits observations to the **registry**,
runs a metadata round and then a usage round, each a sequence of short
transactions on the same database, and reports back over the same channel.
Every commit publishes (data, status) revisions to the **live** channel, from
which SSE clients are woken. Readers use snapshot transactions and never wait
for the worker.

What is hard here, and where: two-step accesses of an atomic and of the
database between which other threads act (coordinator); database errors that
are retried, given up or forgotten (coordinator); a crash between a commit and
the thread it was meant to start (coordinator, rebuild); files that change,
move or disappear while they are read (registry, pipelines); one group commit
of several failing (metadata pipeline); observations arriving while an epoch is
being built (rebuild); a reader that resumes in the middle of a turn or of a
replayed history (usage pipeline, rollout parser); answers that overtake each
other, a stream that breaks and a timer that races with a late answer (the page);
two programs that rotate one credential through one file (quota); a wake-up sent
between the look at a result and the sleep (updates). `PROJECT.json` lists each hazard at its line, with the
properties that would catch it.

## 2. Plan

The order was: what every other part runs inside, then the two halves of a round,
then what is computed and shown from them, then the services beside them.

1. **Done.** `ScanPromise` <- `ScanLifecycle` <- `ScanCoordinator`; proofs of all
   their safety properties and of both refinements.
2. **Done.** `CodexHome`, `RolloutFiles`, `SourceRegistry` <- `MetadataScan`; proofs
   of the registry, of the refinement, and of the four properties of the rounds.
3. **Done.** `UsageStore` <- `UsageRound`: epochs, manifest, carry, quarantine,
   activation, batches, in rounds that end anywhere; proofs of its three safety
   properties.
4. **Done.** The pure algorithms inside the halves: `RolloutFacts` (whose line is
   it), `TokenLedger` (what a line counts), `CostEstimation` (what it costs),
   `ThreadRows` (what is known of a thread), `LedgerQueries` (what a query answers),
   the last three composed in `SessionLedger`; proofs of `RolloutFacts`, `SessionLedger`
   and `TokenLedger`, so that every safety property of a run is proved.
5. **Done.** `LiveRevisions` under `DashboardPage`/`Dashboard` (which also composes
   the scan lifecycle) and under `SessionTable`/`SessionDetail`/`SessionView`;
   `UpdateService` and `QuotaService` under `AppServices`; proofs of all three
   compositions.
6. **Left.** Proofs of `CountedEventsOccur` (usage), `ShutdownReplyIsSettled`
   (coordinator), `FactIsTheOwners` and `OwnUsageIsCounted` (rollout), `TurnsBalance` and
   `EveryBatchCommits` (token ledger; the second only for totals whose differences are
   usages). The page's update controller, range boundaries, session cursors and the
   instance lock are not modelled yet.

## 3. What is modelled

### ScanPromise (abstract)

A sequence of scans, each `waiting`, `running`, `served` or `refused`. It says
what every reader of the lifecycle relies on: scans are numbered in the order
they were accepted, at most one runs, at most one waits behind it, and a
finished one stays finished.

### ScanLifecycle

Each action is one SQLite `Immediate` transaction of `storage/lifecycle.rs`, or
`bind_codex_home`, which every `Ledger::open` runs. An action is enabled exactly
when the checks of its function pass; a failing call rolls back, so it is no
step.

| Variable | Code |
|---|---|
| `meta` | the `app_meta` row: status revision, scan state, active id, the follow-up slot, last finished scan, binding and fingerprint |
| `runs` | the `scan_runs` table; a scan id is a position, which stands for the fresh UUID of `next_scan_id` |
| `opened` | the fingerprint the open `Ledger` was built with |

`MarkScanStarted`, `ReserveScanFollowup`, `MarkFollowupStarted`,
`MarkFollowupStartFailed`, `MarkScanCompleted`, `MarkScanFailed` and
`BindCodexHome` carry the names of the functions. `ValidScanState` and
`ValidRun` are the `validate` methods that the code applies to every row it
reads; the model does not apply them as guards, so `ReadableState` really asks
whether some sequence of calls writes a row that no later read accepts.
`LifecycleRefinement` is not a module of its own: `Promise == INSTANCE
ScanPromise WITH scans <- Scans`, where `Scans` forgets the projection and maps
each row's state to its phase.

Left out: wall-clock times, triggers and the `last_*` columns that only display
them, the schema and lock checks of `Ledger::open`.

### ScanCoordinator

One event-loop thread, the calls of `ScanHandle::request` and
`ScanHandle::shutdown` as processes of their own, worker threads, the interval
timer and process crashes. The store is `INSTANCE ScanLifecycle` over the same
three variables.

| Variable | Code |
|---|---|
| `availability` | the `AtomicU8` shared by loop and handles |
| `pc`, `job` | position and locals of the loop while it handles one event |
| `active`, `cancelled` | `EventLoop::active`: the spawned worker and its flag |
| `pendingTerminal`, `pendingFailure`, `retry` | results that could not be committed, and `retry_at` |
| `shutdownReply` | the reply channel that waits for the active worker |
| `queue` | the bounded command channel |
| `workers` | worker threads still running |
| `requester`, `stopper` | the callers and what they were answered |
| `spent` | how many of the bounded events have happened |

A step of the loop runs from one point where another thread can interfere to
the next: one load or store of the atomic, or one store call with the local
code after it. So the load of `RECOVERING` and the store of `READY` are two
steps, as are reading the state for a shutdown and failing its follow-up.
Every store call has three outcomes, as in the code: it commits, it fails with
`Busy`, or it fails otherwise; which error goes where follows `is_busy`,
`is_source_changed` and `map_commit_error`. Back-off delays are left out: a retry that is due may fire at any later
time. What a worker does to the rest of the database is not part of this module;
here it runs and reports one of two results.

### CodexHome, RolloutFiles

`CodexHome` names paths, areas, physical identities and threads. `RolloutFiles`
is the environment: what other programs do to the files, as far as the scanner
can tell. A file has a content (`tag`), a size in half lines (so an odd size ends
inside a line) and an mtime. Appending keeps the content, every other write
starts a new one, a move writes nothing. `Kinds` chooses which changes a run
looks at.

### SourceRegistry

Each action is one transaction of `storage/source.rs` or `storage/metadata.rs`.

| Variable | Code |
|---|---|
| `sources` | the `source_files` rows: path, physical identity, generation, observed size and mtime, present or missing, the bound thread, the metadata checkpoint (`cp`) and the safe fact (`fact`) |

`RecordObservations` is `record_source_observations` with its planning: match by
identity first, then by path; refuse the batch if a file moved onto a source that
the batch does not account for; start a new generation if the content may have
changed (`GenerationChanged`); mark the rest missing in areas that were read
completely. `RequireRebuild` is `require_checkpoint_rebuild`, `CommitGroup` is
`commit_group` for all sources of a thread at once. `fact.read` is a ghost: the
contents that the lines behind the fact came from. `RegistrySpec` is the
registry under every legal call, whatever a round may ask of it.

### MetadataScan

One round after another over the registry, with the files changing between any
two steps.

| Variable | Code |
|---|---|
| `pc` | where `run_round_with_report` is |
| `todo`, `found`, `unread` | entries discovery has still to look at, its observations, its incomplete areas |
| `loaded` | the state `load_metadata_scan_state` returned |
| `queue`, `cur`, `parsed` | `parse_sources`: what is left, the open file, the results |
| `pending`, `refused` | groups still to commit, whether one failed |
| `hard` | the round's report holds an error |
| `version` | `METADATA_PARSER_VERSION` of the running build |

Discovery looks at one entry per step (`Look`, `LookFails`), so a rename may be
seen under both paths or under none. `Record` and `Load` are the two transactions
between which nothing else writes. Reading a file takes three steps: the checks
of `read_chunk_bounded` before the read (`Open`), the read (`Read`), the checks
after it (`Check`), where the parser's verdict falls. `Resolve` builds the thread
groups, `Commit` and `CommitFails` take them one by one. `Abandon` is a crash or
a cancellation at any step, `CancelParsing` the cancellation that still persists
rebuilds, `Install` another build.

Abstractions. A guard hash stands for the content it was computed over, so two
contents never share a hash. What a line says is reduced to the thread its
`session_meta` names; a content has one owner and at most one foreign line, after
which it stays replayed. A path has at most one candidate thread (the state index
and the file name do not contradict each other). Hard links and files without a
physical identity are left out, as is the `error` checkpoint status, which the
metadata half never writes. Every write gets an mtime the file never had.
`WholeRewrites` is an assumption of its own: a file overwritten while it is open
does not, until the check after the read, have another length at or above the
planned range. Without it `read_chunk_bounded` takes the overwrite for an append.

### UsageStore, UsageRound

`UsageStore` is the ledger of the usage half: every operator on it is one
transaction of `storage/usage.rs`, `usage/rebuild.rs`, `usage/ledger.rs`, or the
part of a metadata transaction that touches the same tables.

| Variable | Code |
|---|---|
| `src` | the columns of `source_files` that the usage half reads |
| `root` | `threads.root_session_id` |
| `app` | `app_meta`: is there an active epoch and a build, and the parser of each |
| `cp` | the one `usage` checkpoint of a source |
| `act`, `bld` | source states, occurrences, canonical events and quarantine proofs of the active and of the building epoch |
| `member` | `usage_build_sources`: the manifest, with what it was frozen to, the required offset, the carry phase and the completion |
| `rev` | whether `data_revision` moved |

`Plan` is the planner (`load_source_plan`): what to do with a source of the active epoch
or of a build. `BeginBuild` is `begin_or_resume`, `ReplaceMembers` and
`ReplaceOrBegin` the two ways to start members again, `BeginCarry`, `CarryPage` and
`FinalizeCarry` the copy of what the active epoch already has, `QuarantineTree` the
isolation of a tree with bad data, `Activate` the activation with all it verifies.
`CommitUsage` is `commit_usage` for any number of sources of one thread; its guard
is `PayloadIsValid` (`validate_source_payload`), that the source is unchanged, and
the check of the build's progress.

`UsageRound` is the worker's usage half (`scanner/usage_consumer.rs`,
`scanner/mod.rs`) over it: `Observe`, `Bind` and `FindParent` are the metadata half
as far as these tables see it; `GlobalTransition` and `LoadWorkList` decide on
builds and threads; `Control`, `ReadGroup`, `ReadFails`, `Blocked`, `Completed`,
`NothingToRead` are what a thread can lead to; `Finish` activates. Other programs
change the files and a new parser is installed between any two steps, and
`ThreadFails`, `Interrupt` and an incomplete discovery are the faults.

Abstractions: a file starts with its `session_meta`, a line is two bytes and
carries one fact, so an odd size ends in a half line; facts are lines of a content,
and no two copies disagree on an event; a carry copies one page of each of its kinds
(occurrences, turns, anomalies), each in a commit of its own. What a batch stores
of turns and usage is `TokenLedger`'s.

### TokenLedger

The record processor of `usage/processor.rs`, `normalized.rs` and `snapshot.rs`, and
its batches. `ApplyRecord` is the processor's step for one line; `StartTurn`,
`ObserveModel`, `CountTokens`, `EndTurn`, `Recover`, `Compensate` are what it calls.
`CommitUsage` is a batch: process the next lines, write state, turns (`RowsAfter` each of
them) and events, and forget; the next batch begins with `ReadBack`, which is what
`usage/ledger.rs` loads.

| Variable | Code |
|---|---|
| `db` | `usage_source_states`, `usage_turns` and `usage_events` of the source |
| `pending` | complete lines behind the checkpoint |
| `straight` | ghost: the processor that never stopped |
| `spent`, `shown`, `latest`, `started`, `lossy` | ghosts: what the provider really spent and reports |

Two of six counts are kept (one that is added and compared, one that may not exceed
it); `cache_write` is always known; `completed` and `failed` turns are both `ended`;
timestamps are there or not. That one event is kept once among copies of a file is
`UsageStore`'s.

### RolloutFacts

The ownership machine of `codex/rollout.rs`: which lines of a subagent's file are
its own and which repeat the ancestor's history. Both readers run it: the metadata
reader from the stored fact (`Rehydrated`, `from_safe_fact`), the usage reader from
its own checkpoint, each ending anywhere.

| Variable | Code |
|---|---|
| `file`, `view` | the file's complete lines, and how many this round found |
| `meta` | the metadata checkpoint and the safe fact |
| `usage` | the usage checkpoint, and the lines counted |
| `listed` | the thread the state index names for this path |
| `misled` | `InvalidSessionData` of the usage reader |

After a replay own turns carry UUIDv7 ids younger than the thread (`Born`);
timestamps before 1970 are left out.

### ThreadRows, CostEstimation, LedgerQueries, SessionLedger

`ThreadRows` is `ThreadMetadataResolver` with the transactions it feeds: a round
reads the state database, the session index, the global state and the facts of the
files one after the other (`StartRound`, `ReadFiles`), resolves one patch per thread
(`Resolve`), and commits the threads one at a time (`CommitGroup`), reconciling the usage of a moved thread.
`CostEstimation` is what an event costs by the price list of a program: the entry a
model or its alias is charged by, the rates of a long context, and the sum, which is
nothing where a price or count is missing and an error where it leaves 64 bits.
`LedgerQueries` is `usage/aggregate.rs` and `usage/analytics.rs`: summary, sort
index, session rows, detail, models, filter options and both distributions as
functions of one snapshot. `SessionLedger` puts them together with what a reader
sees of the usage half: first batches (`CountThread`) and rebuilds (`Rebuild`) that leave
trees in quarantine, both of which store a cost with each event; and `Open`, by which
another program takes over the database and prices all its events again or none.

| Variable | Code |
|---|---|
| `world`, `facts` | what Codex has written outside and inside the rollout files |
| `rows`, `bound` | `threads`, and which of them a source is bound to |
| `usage` | the root each thread's events are counted under in the active epoch |
| `quarantine` | the proofs of isolated trees |
| `program`, `priced` | the running program's price list; the version the database remembers |
| `costs` | what the counted events of each thread are stored to cost |
| `view`, `patches`, `todo`, `pc`, `roundAt` | the round's locals |

A clock that was set back has its patch refused. A failing group makes the round
report `METADATA_COMMIT_FAILED`. A row keeps its relation, the origin of its title,
and whether path and times are known; the other columns are set in the same way.

### LiveRevisions, DashboardPage, Dashboard

`LiveRevisions` is the published tuple, the event stream of `api.rs` and the feed of
`revisionFeed.ts`: `Emit` and `TakeEvent`, `Broken` and `Reconnect`, `PollTick`,
`AnswerRevision` and `TakeAnswer`. `DashboardPage` is `useDashboardController.ts` as operators over
one record; every handler is one operator, because the page runs one at a time.
`Dashboard` is the composition: a request is sent, the server reads and answers
(from `ScanLifecycle`'s own variables), the answer arrives, and anything may happen
in between.

| Variable | Code |
|---|---|
| `ledger` | the tuple committed and published (`storage/mod.rs`) |
| `stream`, `feed` | one SSE connection with the events on their way; the feed's last tuple, polling and request |
| `meta`, `runs`, `opened` | `ScanLifecycle` |
| `page` | the reducer's state, the generation counters and the requests in flight |
| `acked` | ghost: scans acknowledged to this page |

Every writer publishes before it gives the ledger's connection up and every reader
needs that connection, so that what is committed and what is published are one
variable: nobody can see the one without the other. Of the last status answer only
the binding (`open`) is kept; error codes and times are left out.

### SessionTable, SessionDetail, SessionView

`SessionTable` and `SessionDetail` are the two controllers as operators,
`SessionView` the endpoints and the network under them.

| Variable | Code |
|---|---|
| `table` | snapshots by scope (index and rows), page, order, batches and the request in flight, `retried` |
| `drawer` | the open session, the detail shown, the cache, the request in flight |

Effects run in the step whose commit triggers them; a page has one row and a
window two pages.

### UpdateService, QuotaService, AppServices

`UpdateService` is `update/mod.rs`: the callers' steps through `check_now` with
`CheckFlight`, where the look at the result (`Look`), the registration with `Notify` (`Sleep`)
and `finish` (`Store`) are steps of their own, and a handler may be dropped at an
await (`Drop`). `QuotaService` is `codex/quota`: the background fetch from the read of
`auth.json` to the saved pair and the answer, the Codex CLI as another writer, the
provider that rotates tokens, and the page's controller. `AppServices` is the
process around them.

| Variable | Code |
|---|---|
| `flight`, `checks`, `result` | the shared check, the checks so far and what `finish` stored |
| `calls` | where each HTTP caller and the timer are |
| `update`, `opened` | the `UpdateSnapshot`; the release the browser was sent to |
| `auth`, `cli`, `live`, `issued`, `worn`, `revoked` | `auth.json`; the pair the CLI holds; the refresh token the provider accepts; which access tokens are about to expire or refused |
| `fetch`, `quota`, `page` | the background task's locals, the served snapshot, the page's controller |
| `process`, `lives` | the life of the process |

The flight of the quota client is never shared, because only the background task
calls it, and is left out; the expiry of a token and the eight-day rule are both
"worn". The page's update controller is not modelled.

## 4. Runs

| Run | Instance | What it shows |
|---|---|---|
| `lifecycle` | 2 homes, 4 scans | readable, consistent and announced rows; `ScanPromise` is implemented |
| `coordinator_faults` | 2 homes; a request, a tick, a shutdown; one Busy, one internal error, one crash | safety under interleavings and faults, in recovery too; the store is used only where its operations apply |
| `coordinator_live` | 1 request, 2 shutdowns, 1 Busy, 1 crash | all callers are answered, scans end, follow-ups are resolved |
| `metadata_files` | 2 paths, 2 identities, size 3, 3 changes of every kind, 1 fault, 2 builds | facts of one content, groups advance together, a clean round is current |
| `usage` | 2 sources of 2 threads, 5 bytes, 2 generations, 2 parsers, 2 changes, 2 faults | rows are what was read, one checkpoint, nothing lost at activation, builds end |
| `token_ledger` | 7 lines, batches of 2, 1 odd line, 4 tokens | nothing is counted twice, nothing readable is missed, cuts do not matter |
| `session_ledger` | 3 threads in a chain, 2 changes, 1 fault, 2 price lists | patches fit, usage follows its thread, all views agree, in tokens and in cost |
| `rollout_facts` | 5 lines of 10 kinds | ownership does not depend on where reads end |
| `dashboard` | 2 scopes, 2 scans, 1 click, 1 break | a refresh ends with its scan, a running scan is watched |
| `sessions` | 2 scopes, 4 and then 3 sessions, 2 commits, 2 clicks, 1 break | rows of one snapshot, newest at rest, the feed catches up |
| `services` | 2 lives, 2 clients, 2 checks, 3 token pairs, 1 mishap | one check at a time, credentials kept, the page goes on asking |
| `update_hangs` | the update service alone | violation: the finding below |

**Bounds.** Four scans are enough for a direct scan, its follow-up, a failed
follow-up that leaves the slot and the scan after it; two homes for a change and
a change back. One request beside a tick is enough for one of them to start a scan
while the other coalesces. `Capacity = 1` makes every
sender block, which the code's larger capacity does only under load. One Busy
error reaches every retry path; the retry that meets the second kind of error is
reached by one Busy and one internal error together. A crash may happen at any
step, before and after every commit. `CHECK_DEADLOCK FALSE` because all bounded
events may have happened and the system then rests; whether it rests too early
is what the liveness properties and the properties that end in "settles" ask.

Two identities on two paths in two areas are enough for a move, a move back, a
replacement, a move onto a source that is missing or still there, and a file seen
twice or not at all by one walk. Size 3 is one line and a half: a whole line, a
half line that is completed later, and a resumed read. Three changes and one
fault give a first read, a second content or place, and one more while the round
that meets it runs.

In the usage instance five bytes are two lines and a half: the boundary line, a
batch, and a tail. Two generations and two parsers let a build be overtaken by
either; two faults interrupt a build, and the round that resumes it; one of the
contents is bad, so that a tree is isolated and comes back.

Seven lines hold two turns with a gap, a repeated total and a total that starts
over; four tokens let a sum overflow. Five lines hold a `session_meta`, a replay, its
end, and usage on both sides. A chain of three threads has a middle whose removal
moves the last; of two price lists one knows an alias and a long context that the other
does not, and a largest integer of 20 lets one of the costs overflow. Two scopes, two scans and one click are enough for a request of one
to be answered in the other. In `services` one of the two services rests while the
other is explored (`MCSpec`): they share nothing but the process.

**Further instances.** These configurations belong to no run but are kept: the
properties they name hold, or are refuted where the list of findings says so.
`MCMetadataRewrites.cfg` (every file comes to be registered where it is and fully
read unless a guard is broken, `EventuallyCurrentOrBroken`; with one build, since an
older one is refused by `commit_group` for ever, as it should be), `MCUsageCarry.cfg`,
`MCTokenSkew.cfg`, `MCRolloutLate.cfg`, `MCShutdownHangs.cfg`.
Properties that hold in the listed instances and are stated in the modules without
being listed, those with a star proved: each module's type invariant (most are
proved); `WorkerOwnsActiveScan`*, `StoreIsRespected`*, `ShutdownReplyIsSettled`,
`WaitingShutdownCancels` (coordinator); `TerminalRowsAreFinal`*, `LastFinishedIsLatest`,
`ChangesAreAnnounced` (lifecycle); `RowsAreDistinct`*, `BindingHasFact`*,
`ProgressHasFact`* (registry); `FinishedBuildActivates`, `CountedEventsOccur`,
`ReadersAreTold` (usage); `TurnsBalance`, `EveryBatchCommits` (token ledger);
`RoundsComeToRest`, `OnlyDemotedRootsAreUnlisted` (sessions); `FactIsTheOwners`,
`OwnUsageIsCounted` (rollout); `OptionsAreFlagged` (dashboard); `PageIsAttended`*,
`DrawerIsAttended`*, `DrawerSettles`* (session view).

**Fairness.** `FairSpec` of the coordinator assumes weak fairness of the event loop,
of each call that is inside `send`, and of worker rounds: operating-system threads
that can run do run, and a round reads finitely many files. Nothing is assumed of
users, of the timer (a tick may never come), of process start, or of the faults. A
due retry is part of the loop's steps: `recv_timeout` returns.

`MetadataScan` and `LiveSpec` of `UsageRound` assume weak fairness of the round's
steps: the timer starts round after round, and a round that runs proceeds. Nothing is
assumed of the files, of faults or of the installation of builds.

`LiveViewSpec` assumes that the event stream delivers and that the page's polling
timer fires (`Announce`, `Poll`); answers to table and drawer requests may take for
ever, so the safety properties "settle" at rest say what they must say.
`FairUpdates` assumes that a task which can run does run, and that the provider
answers or times out.

**Finding.** `update_hangs`: `CheckFlight::wait` (`update/mod.rs:99`) looks for the
result under the lock, gives the lock up, and only then calls `notified()`. Between
the two, `finish` may store the result and call `notify_waiters`, which wakes only
those who already listen; the runtime has several threads. The caller, an HTTP
request or the update timer itself, then sleeps for ever. The distribution
document (`MiniUsage_v0.1.0_跨平台分发与更新机制实施方案_v0.1.md`, :1247 and :1271) has the
timer go on after four hours and lets a later request wait for the check under way.

**What else the code does and a document or comment does not say.** Each has been seen
with the instance and the property named; none is a run of its own.

- *Follow-up forgotten.* An internal error when the loop reads the state to start
  the queued follow-up (`coordinator.rs:635`) is returned from without a retry;
  requests and ticks then only coalesce into the slot. Spec_03:168 says scheduling is
  never given up. (`FollowupIsResolved`, one requester, `MaxInternal = 1`.)
- *Shutdown waits.* A terminal commit that fails for good on its retry stores
  `STOPPED` without leaving the loop (`coordinator.rs:606`); a shutdown already in the
  channel waits for a worker that has ended. Spec_03:588. (`MCShutdownHangs.cfg`.)
- *Guard mismatch for ever.* A source whose guard no longer matches is reported and
  dropped (`scanner/mod.rs:315`), never marked for rebuild; Spec_03:488 has it rebuilt
  from 0. (`GuardMismatchRebuilds`, `Kinds = {"grow"}`.)
- *Oversized offset.* A shorter file with the identity of a missing source keeps the
  old offset (`storage/source.rs:550`), and from then on the whole state is rejected.
  Spec_03:281. (`OversizedOffsetIsRebuilt`, `Kinds = {"remove", "reuse"}`.)
- *Blocked move.* A file moved to the path of a removed one is refused as occupied,
  and the batch with it (`storage/source.rs:525`), in every round. Spec_03:251.
  (`MovesAreFollowed`, `Kinds = {"remove", "rename", "cover"}`, `MaxSize = 2`,
  `MaxChanges = 4`.) One more: a file overwritten to the same size while its source is
  missing comes back as unchanged.
- *Missing files do not block activation.* Spec_04:915 has a missing source block the
  activation; a thread that is blocked is isolated instead
  (`MissingSourceBlocksActivation`).
- *A quarantined root has rows.* The comment at `rebuild.rs:413` says it contributes
  none; a second tree that was moved under it later does (`QuarantinedRootIsEmpty`;
  `ListedOnce` with `Left <- MCApart`).
- *A carry loses its tail.* An intermediate batch sets the manifest's tail back to
  `unverified` (`storage/usage.rs:3997`); a carry of that member never restores it,
  and the activation is refused in every round (`rebuild.rs:1906`), against the
  comment at `storage/usage.rs:2323`. (`MCUsageCarry.cfg`; `EventuallySettled` names
  this history as its exception, `Stuck`.)
- *Skewed totals.* Where the difference of two totals is not a usage, a batch writes a
  turn that its own postconditions refuse, so that the file never advances
  (`processor.rs:589`, `storage/usage.rs:4063`). (`MCTokenSkew.cfg`.) And a total that
  starts over above the last one, on a line without a last usage, is then taken for one
  that cannot be read (`processor.rs:509`): the line leaves the baseline where it was, and
  the same snapshot, repeated in a later turn, is counted for that turn.
  (`NeverOvercounts`, `Amounts <- Skewed`, `MaxOdd = 3`.) With unreadable totals of the
  parent (`BadPrefix = TRUE`) a subagent is counted too much.
- *Missing parents* are no issue of their own in the code (`metadata.rs:838`, Spec_02:848);
  the hint of a thread whose middle ancestor's file is gone is dropped (Spec_03:412).
- *Late replay.* Own usage before a replay is skipped by a reader that starts behind
  it and counted by one that ended before (`MCRolloutLate.cfg`, Spec_04:42, :650). With
  `Other` among `Listings` the boundary of a fact need not be found again. A
  `session_meta` without an id makes every round rebuild (Spec_04:651).
- *Figures.* A summary that was sent before the data changed may be the last one
  (`FiguresSettle`, `MaxStatus = 3`, one scope; Spec_06_01:210). After a failed poll and a
  success with the same tuple the page still shows an error, and after a failed row
  batch the table does, when the next page comes from the cache.
- *Summary against table.* A session whose root was demoted is counted in the summary
  and not listed (`SummaryCountsTheTable`, `aggregate.rs:504` against `:1270`).
- *Updates.* The owner of a check whose client goes away leaves its flight behind
  (`api.rs:470`), so that no later check is started.
- *Credentials.* `auth.json` is written whole, without a lock and not atomically; a
  rotated token is lost if the process ends before the write. `NeverRespends` is
  refuted: a token the CLI has just consumed may be sent (`client.rs:140`).

## 5. Proofs

`ScanLifecycleProofs` proves, for every set of homes and every number of scans,
type correctness, `ReadableState`, `ProjectionMatchesRows`,
`RevisionsNameOneStep`, `TerminalRowsAreFinal`, `FollowupIsHandedOver` and that
the lifecycle implements `ScanPromise`. The only assumption is
`HomesAssumption` (no fingerprint equals the value for "none").

None of the first three invariants is inductive alone: that a started follow-up
has a valid row needs that the slot's row is queued, and that it is queued needs
the projection to have been right before. The inductive invariant is
`Consistent == TypeOK /\ ReadableState /\ ProjectionMatchesRows`;
`RevisionsNameOneStep` is inductive relative to it. The argument goes through
one lemma, `RowStep`, which says what every action does to the rows: it appends
one row, or rewrites one row, or leaves all alone, and never touches a terminal
one. `HistoryIsFinal`, `FollowupHandedOver` and each step of the refinement
follow from it.

`ScanCoordinatorProofs` proves, for any number of callers, ticks, faults and crashes and
a channel of any capacity, the four properties of `coordinator_faults`,
`WorkerOwnsActiveScan`, type correctness, and that the coordinator implements the
lifecycle (`StoreIsRespected`) and with it `ScanPromise`. The invariant is `Typed`,
`Consistent` of the store, `Control` and `AllHonest`. `Control` has nine parts, since at
every location of the loop something is relied on that another step established.
`Where` says what each location takes for granted; `Agree` that the loop and the workers
run the scan the database calls active; `ResultFits`, `TerminalFits` and `FailureFits` that
a result exists in one place only: a worker, the channel, the retry slot or the handler
that commits it. So a second result can never be committed (`StoreCallsAreLegal`), and
none can get lost (`Attended`, `Scheduled`). `SlotClear` is the part one would not
guess: a follow-up that failed to start while a scan runs blocks the slot for any
later request, which is legal only because no request gets that far then. `AllHonest`
says of every caller that what it was told stays true of the rows.

`MetadataScanProofs` proves, first, for every `RegistrySpec`, that is for every batch
of observations, rebuild request and group commit on any number of paths, files
and threads, type correctness, `RowsAreDistinct`, `BindingHasFact` and
`ProgressHasFact`. The assumptions are those of `CodexHome`. The invariant is
`Distinct /\ AllSound`, where `Distinct` is types and distinct rows and `AllSound`
says the other two of every row. Distinctness is needed to go on being distinct:
only because two rows never share an identity does every observation match at
most one row (`MatchedOnce`), only then do two observations of a batch never claim
the same row (`ClaimedOnce`), and only because an unclaimed row's path is not the
target of a move (`~ Occupied`) does a row that is left alone stay clear of those
that moved (`KeptIsClear`). Then it proves that `MetadataScan` implements `RegistrySpec`:
what a round asks of the registry, on any interleaving with changes, faults and builds,
is a call that `RegistrySpec` allows. With that, the three properties hold of the
rounds. The inductive invariant of the types is `IInv`.

On top of it come the four properties of `metadata_files`. `FactIsOfOneContent` is what
the guard and the checks around a read exist for. Its invariant `Pure` adds, beside the
property itself for the rows, for the copies the round loaded and for its results: tags and
mtimes are at most the number of changes so far, so the next one is fresh
(`Dated`), and what is known while a file is open (`Reading`): if its content is
not the one it was opened with, it is shorter than planned or has the size it was
opened with and another mtime. `ReadingStays` needs `WholeRewrites` for that, and
no other step of the proof does; `CheckedContent` concludes that a file that
passes the last checks was not changed. `CleanRoundIsCurrent` and
`ThreadAdvancesTogether` rest on `Lines` (what is stored, loaded and read ends where a
line ends) and on `Progress`, which follows a source through the round: with all areas read
every present source is observed and loaded (`Accounted`), a loaded source stays as
it was loaded until its own group is committed (`Agrees`), and no source is forgotten
between loading and committing (`Planful`, `Pending`, `Settled`).
`NewGenerationIsNewContent` rests on `Origins`: no content is in two files, what was
read was in the file of that identity, and a file that still has the content it was
seen with has not shrunk, nor been touched unless it grew. The assumptions are
`NamesAssumption`, `BoundsAssumption` and `ContentsAssumption`, which say what the constants
are.

`UsageRoundProofs` proves, for every number of sources, threads, bytes, generations,
parsers, changes and faults, `FactsAreTheReadPrefix`, `CheckpointFollowsWork` and
`ActivationLosesNothing`. The assumptions are `StoreAssumption` and
`RoundAssumption`, which say what the constants are. The invariant `IInv` adds to the
first two what they rest on. `StatesFit`: a source state has read a prefix of an
observed view of its generation, and a state that claims to know the tail has read
to the last complete line of that view. `MembersFit`: a manifest row describes what was last observed, a
carry only runs for a member, and whoever has no manifest row has built nothing.
`NothingElse`: an epoch that does not exist has no rows. `FilesGrow`: what was observed
never runs ahead of the file, so that the next observation only grows it or starts a
generation; without it a state could claim more bytes than its source has. Most
transactions start some sources again and leave the others alone, and go through one
lemma, `RestartHolds`; carries go through `CarryStepHolds`, batches through
`CommittedRows`, whose leaf `BatchesAreRead` says that reading stops where a line
ends. `NothingIsLost` follows from the invariant alone: only an activation ends a
build (`BuildEnds`), whoever was counted is a member of it, and a member that passed
the checks was built to the last complete line of the content that was observed
(`ActivatableMembers`), which is no less than what the active epoch had read.

`ViewsAndServicesProofs` proves of the services, for any number of clients, checks,
tokens, dropped requests and lives of the process, `OneCheckAtATime`, `CredentialKept`,
`PageKeepsAsking` and type correctness. `OneCheckAtATime` is not inductive: that nobody
can open a second check needs that the slot is held from before the request to after
its answer by whoever opened it (`OneOwner`), and that the status stops saying
"checking" before the slot is given up (`CheckingIsOwned`). For `CredentialKept`, what
the CLI is about to write must be the newest token (`CliIsAhead`), and what this program
is about to save the one the provider accepts, as long as nothing went wrong
(`QuotaInv`).

Of the session view it proves `RowsAreOfTheSnapshot`, `TableSettles`, `DrawerSettles`,
`PageIsAttended`, `DrawerIsAttended` and type correctness, for any number of scopes,
sessions, commits, clicks and faults and any window size. `RowsFit`: the rows a
snapshot holds are of its revision, and those of a batch of the revision the batch asked for.
`Dated`: nothing is newer than the data, and an answer is not older than what made
the table ask again. `Follows`: a table that waits for nothing and shows no error
shows what the feed has announced, or something newer. `Attended`: whoever looks at a
page with a row missing has a request, an urgent batch or an error. `DrawerInv`: an open
drawer shows the newest revision it has heard of, has asked for it, or says that
it failed. The proof shows two branches of the code to be unreachable in the model: the
second retry for one revision, at which the table would give up, and the drawer's
asking again because an answer is of another revision than the newest it knows.

`DashboardProofs` proves `RefreshEndsWithTheScan`, `RunningIsAttended` and type
correctness for any number of scopes, scans, clicks and events on their way, on top of
`ScanLifecycleProofs`. An acknowledged scan that has not ended must be the one the
page follows (`AckedIsFollowed`), the page asks about the scan it follows (`Tracks`),
what an answer says was true when it was read (`AnswerIsHonest`), and, since an answer
may be overtaken, whatever is on its way or has been taken over is not newer than the
ledger (`NothingIsAhead`), and an answer that shows a row as it no longer is is older.

`LedgerProofs` proves, for every set of threads, whoever spawned whom, whatever
part of that the sources tell at a time, and every price list, the four properties of
`session_ledger`, type correctness, and that stored costs are always those of the running
program (`CostsAreCurrent`). `PatchesFit` and `OwnAncestry` need that the sources are
honest (`TruthAssumption`: they tell a part of one tree) and that a chain of parents which
the resolver follows is one of that tree, whatever part of it is known;
`RoundFits` says that the rows still to be written are as the round saw them, since nobody
else writes them. `UsageFits` says that what is counted or isolated refers to rows that
are there. `ChartsAddUp` and `ViewsOfASessionAgree` are about the queries: that a
sum over a set is the sum over the parts of any partition (`SumSplits`), and that
merging the totals of parts gives the total of the whole, with all the flags for what
is unknown (`MergeIsTotals`, `MergeAllIsTotals`).

In its second part `LedgerProofs` proves the four properties of `token_ledger` and type
correctness (`TokenTypesHold`), for files of any length, any amounts and batches of any size
that end anywhere. `Caught` is the processor that never stopped, at the last line that has been
written; each invariant adds to the one before:

- `ResumeInv`: the processor that a batch starts from the rows differs from `Caught` only
  in the turns that are over and the events that are written (`Lifted`), which no line looks
  at: `ResumesExactly`. Nothing is assumed of the file (`BatchesResumeExactly`).
- `NamesInv`, `OnceInv`: every turn and every event names a start that stands in the file, and
  the events since the open turn's start are those that name it (`Follows`). A turn that
  nothing blocks has one model if its events have (`ModelsFit`): `CompensationIsAttributed`, if
  no id is started twice.
- `CountInv`: what is counted, with what the next total or the end of the turn may still
  add, is within what was spent (`TotalsFit`); while nothing was lost it is all of it, and
  nothing is left to add (`Complete`): `CountsEverythingReadable` and the first half of
  `NeverOvercounts`, if the parent's part is readable (`BadPrefix = FALSE`), which is
  needed, see the findings.
- `TurnInv`: the same turn by turn (`TurnsFit`): the second half of `NeverOvercounts`.
  It needs that a total which starts over is not taken for one that cannot be
  (`Covers`; skewed amounts refute it, see the findings). The hypothesis holds of the run's
  amounts, and `NothingPlainIsCountedTwice` does without it where no amount has the part
  that may not exceed the rest.

`CountTokensDoes`, `StartTurnDoes` and `EndTurnDoes` say what a line may do to the
processor, and everything above is proved from them, never from the code of the operators.

`RolloutFactsProofs` proves the three properties of `rollout_facts` for files of any
length, of any lines, read in any pieces. The invariant `RInv` says of the
metadata reader that the stored fact is, but for the line of the model, that of one reading
from the first line (`FactInv`), and of the usage reader that it knows at its
checkpoint whether it stands in a replay (`UsageInv`). Lines stand only where Codex may
write them (`Goes`), and from that `StraightHolds` shows that a parser which reads from
the first line knows the owner and whether a replay is open, `ReadAlike` that
reading on from a stored fact gives the fact of reading on without a stop, and `Twins`
that the classes of the usage reader do not depend on the fact it borrows. All three
theorems have a hypothesis: the state index does not name another thread than the file
does (`Other \notin Listings`). It is needed: with it, TLC refutes `BoundaryIsFoundAgain`.

**Induction.** The induction theorems of the library take an operator as a parameter,
which none of the provers can instantiate. Where a proof needs induction over
the natural numbers (`LedgerProofs`, `RolloutFactsProofs`) it is stated of sets of
numbers (`LeastElement`, `Induction`) and derived from the well-foundedness of `<`, which is
a fact without parameters. A recursive function is unfolded by proving first, by that
induction, that a function with its defining equation exists. This is why the modules that are
proved about have recursive functions and no `RECURSIVE` operators.

**What the proofs changed.** Attempts that failed showed the models wrong, or silent, in
places. A batch of rows in flight is known by its revision too (`SessionTable`), and a
detail kept by the drawer by its scope (`SessionDetail`). The sources tell parts of one
tree, which is now an assumption with a name (`TruthAssumption`). Two equal usages of
one thread are two events (`Snap`), and what a thread reports is finite. A claim
without a value leaves the known one alone (`MergeClaim`). That a turn is never counted too
much does not hold of all amounts: TLC refuted the invariant meant for that proof (the
finding on skewed totals), and `Covers` is what was missing.

**Only model-checked.** Every liveness property, since the prover does not reason about
`ENABLED`: `RequestIsAnswered`, `ShutdownIsAnswered`, `ScanEnds`, `FollowupIsResolved`,
`EventuallySettled`, `FeedCatchesUp`. The properties without a star in the list of
section 4.

## 6. Not modelled

- Of *cost*: how the price catalog that is built into the program is parsed and
  validated.
- *Migrations*: SQL scripts in one immediate transaction, run before any component.
- *Native windows, tray, rendering, browser launch*: I/O and layout.
- Of *discovery*: symbolic links and name filters. Of the *registry*: hard links and
  files without a physical identity. Of *source binding*: how a fingerprint is
  computed, schema checks, file locks.
- Of the *usage pipeline*: four of six counts, reasoning effort, skills and anomaly
  rows (which are written and deleted with the events).
- Of the *queries*: time buckets, calendar ranges, cursor syntax.
- Of the *services*: the page's update controller, the detection of a second instance,
  the launcher's choice of ports.

What is external to `src/` appears as an environment: the files and what Codex writes
to them (`RolloutFiles`, `ThreadRows`, `TokenLedger`), the release and the quota
provider, the Codex CLI, the network between page and server, and the user.
