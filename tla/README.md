# Verification of Infra Sentinel

TLA+ models of the Infra Agent and its desktop processes, the TLC runs that
check them on small instances, and TLAPS proofs of what matters most for every
instance. Paths are those of the repository; Python paths are relative to
`src/infra_sentinel/`. `PROJECT.json` maps every definition that models code to
the lines it stands for.

## 1. The system

A desktop shell (Tauri: Rust plus a TypeScript view) supervises one local
**Infra Agent** (Python). Every five seconds the Agent's main loop polls the
sources, applies queued commands, updates an observation session, ingests
metric points, evaluates alerts, appends to a diagnostic journal and publishes
a *projection* that the view renders. Around the loop run a reader thread
(queries), a maintenance thread (compaction), and poll threads of the facility,
upstream, telemetry and pricing components. A second process may run
`--maintain` or a read-only CLI on the same files. The supervisor relaunches
the Agent two seconds after it ends for any reason.

| Component | State | Operations | Talks to | What is hard | Correct means |
|---|---|---|---|---|---|
| Command queue (`app/protocol.py`, loops in `app/agent.py`, `agent_bridge.rs`, `agent_client.ts`) | request, processing and result files | submit, list, claim, apply, complete, expire, poll, give up | desktop, CLI, both Agent threads | two scanners of one directory, crash between effect and unlink, I/O errors, timeouts | exclusive claims, nothing vanishes, repetition only for cause, answers |
| Usage receipts (`metrics/usage_receipts.py`) | SQLite table keyed by identity | record, summary | queue, collector | repeated execution | one usage per identity, truthful replies |
| Supervisor (`agent_supervisor.rs`) | child process | launch, wait, relaunch | Agent | restarts at any time | saved settings take effect |
| Metric pipeline (`metrics/pipeline.py`, `aggregation.py`) | open buckets in memory | ingest, flush, flush_all, query | sampler, reader, store | failed flush, query between drain and commit | every point in one place |
| Metric store (`metrics/store.py`) | SQLite rows of four resolutions | write, query, compact, import, vacuum | pipeline, maintenance thread, `--maintain` | overlapping compactions, late points, cutoffs, locks | nothing lost, doubled or moved to another period |
| Local metering (`resources/network/mihomo.py`, `session.py`, `core/collectors.py`) | counter baseline, session, their files | poll, record, reset, checkpoint, load | core, pipeline | counter resets, crash between commit and save | exact totals, no replay |
| Remote metering (`resources/network/vps.py`, `session.py`, `metrics.py`) | counter file, sample log, session | poll, append, baseline, record, emit | SSH, session, pipeline | failures at each step, retained samples, reboots | no unit twice, session keeps its start |
| Status stabilizer (`core/status_stability.py`) | confirmed and pending status | observe | seven users | counts across candidates | a blip changes nothing |
| Diagnostic journal (`metrics/diagnostics.py`, `core/diagnostics.py`) | SQLite: active, checks, events | observe_projection, query | sampler, reader thread, CLI | stale evidence, clock steps, caps, crash in commit, readers | told once, ends only for cause |
| Alerts and guards (`app/agent.py`, `billing_policy.py`, `upstream/status.py`) | levels in memory, transition queues | evaluate, drain | sampler, notifications | restarts, thread hand-over | each change notified once |
| Facility observer (`resources/facilities/`) | records per facility | refresh, snapshot, stop | Infra Protocol providers | generations, sequences, failures | no regression within a generation |
| AI usage (`resources/ai/`) | ledgers, checkpoints, seen-sets | scan, replay, rebuild, price | Codex, OpenCode, DSH, Infer, Antigravity | partial lines, forks, crashes between ledger and metrics | each request counted once |
| Pricing catalog (`resources/ai/pricing_catalog.py`) | cache files, state | refresh, activate | network, queue | concurrent refreshes | last good version stays |
| System resources (`resources/system/`) | previous counters, windows | collect | OS | counter gaps | rates only from adjacent readings |
| Configuration (`app/configuration.py`) | `config.toml` | read, validate, write | queue | atomic replacement | invalid settings change nothing |
| Projection (`core/projection.py`, `app/projection_publisher.py`, `projection_cache.rs`) | last frame, checkpoint | publish, checkpoint, replace | desktop | broken stream | desktop shows a whole frame |

Desktop views, CLI reports, OS backends, transports and packaging keep no state
that a model checker would say anything about; `PROJECT.json` lists each with
its reason.

## 2. The modules

| Module | Models | Composition |
|---|---|---|
| `StatusStabilizer` | `core/status_stability.py` as operators on a record | INSTANCEd by its users, each with its ranks and windows |
| `ReceiptLedger` | what the receipt ledger promises (abstract) | refined by `CommandQueue` |
| `CommandQueue` | files, both threads, submitters, crash, relaunch | `Ledger == INSTANCE ReceiptLedger` |
| `MetricPipeline` | open buckets, flush, rows, compaction, queries | |
| `LocalMetering` | core counter to metrics and session | `StatusStabilizer` |
| `RemoteMetering` | server counter to log, metrics and session | `StatusStabilizer` twice |
| `DiagnosticJournal` | the journal, its writer and readers | |
| `CodexLedger` | rollout scan, durable ledger, history migration | part of `UsageSources` |
| `DayCounters` | OpenCode, Antigravity and Infer Runtime: increments of daily totals | part of `UsageSources` |
| `DshReports` | the fold of session logs and the set of reported calls | part of `UsageSources` |
| `CodexTelemetry` | pairing of request events into timings | part of `UsageSources` |
| `UsageSources` | the four beside each other | composition |
| `FacilityObserver` | discovery, exchange, confirmation, publication | part of `Monitors` |
| `AlertEvents` | traffic alert and daily-usage guards, their events | part of `Monitors` |
| `UpstreamStatus` | poll thread and sampler of the status pages | part of `Monitors` |
| `PriceCatalog` | two refreshers, two files, lookups | part of `Monitors` |
| `XrayStats` | baseline, session and reset of one server's users | part of `Monitors` |
| `SystemResources` | host and process counters to points, health events | part of `Monitors` |
| `Monitors` | the six beside each other | composition |
| `*Proofs` | theorems of the module they extend | extend it and TLAPS |
| `MC*` | instances for TLC | |

`UsageSources` and `Monitors` compose components that share no state: each
source has its own rows and registry window, each observer its own file and
events. A behaviour of all is then one behaviour of each, and a run follows one
of them, chosen in the initial state (`turn`, `observed`), while the others
stand still. The components that do share state (threads on one directory, one
lock, one database, one session) are modelled together in one module.

**CommandQueue.** `file[c]` is the name a command's file has on disk
(`.request.json`, `.processing.json`, none), `result[c]` its reply file. Each
`Worker` (`sampler`, `reader`) has a program counter: `List` takes the snapshot
of `consume_commands`, `Skip`/`Claim`/`ClaimFails`/`ReadFails` visit one path,
a handler action runs the effect, and `WriteResult` and `Unlink` are the two
file operations of `complete_command`, so that a crash can fall between any two
of them. The sampler continues with the rest of its sample (`SampleDone`,
`SampleFails`); the reader's uncaught exception ends its thread (`Escape`).
`restart` is `restart_requested`, local to a sample.

**MetricPipeline.** A bucket is the set of points merged into it, and a row
is one record per point, so that double counting is visible although sums are
abstracted. `lock` is `MetricPipeline._lock`; `StoreFree` is
`MetricStore._lock`, held by a maintenance run of the Agent. A compaction takes
its chunks of a day one by one: `FindOldest` finds where the first starts,
`ReadChunk` is the SELECT, which runs in autocommit, and `MergeChunk` the
transaction that adds what was read to the next resolution and deletes what the
chunk's period then holds (`sqlite3` begins it with the first INSERT,
`metrics/store.py:553`). The `offline` maintainer is a `--maintain` process; it
shares no lock with the Agent but SQLite's, so a flush or a compaction of either
may fall between the two steps of the other. `raced` holds the points of the
chunk whose rows were changed then, `doubled` those that a merge added to a row
that had them already.

**LocalMetering, RemoteMetering.** Traffic is a set of numbered units rather
than a sum, for the same reason. `pc` walks through `handle_sample` in the
order of the code; `Raise` is an exception at any step, `Crash` a death at any
step, `Stop` the `finally` block. The two directions of the counters behave
alike and are one.

**DiagnosticJournal.** `journal` is the committed content of the file;
`Commit` is the transaction of `observe_projection` with the final `_retain`.
A reader's transaction keeps its snapshot; in rollback-journal mode a commit
waits for it (`NoSharedLock`), and a commit that died leaves a hot journal that
a read-only reader cannot roll back. A table is a function of the checks, and
what a sample does to it is said per check (`Evidence`, `Moved`, `Covered`): the
loop of the code visits each check once and reads only what it found before.

**CodexLedger.** A rollout is a script of records (`meta`, `turn`, `task`,
`token`); Codex writes it in half-lines (`WriteRollout`), so a file may end in a
torn line, and may move (`MoveRollout`). `Poll` opens a scan over the sizes it
sees, `IngestFile` folds the complete lines that fit the budget through
`Consume` (fork replay, stale and reset counters, deduplication keys), `Save`
makes the ledger durable and `ReportPoints` commits what was found. A start runs
`StartMigration`, `Backup`, `ReplaceHistory` and `Load`, and `CodexCrash` may
fall between any two steps. The requests behind a record (`rec.requests`) are
known to the model only, which is how it can tell "once" from the right sum.
`Parsed` and `Increment` are what parsing a file alone gives; the assumption
`CountersTellRequests` is about them.

**DayCounters.** `memory` and `checkpoint` are the totals last seen, in memory
and on disk, `deltas` the increments of the poll under way per model and for
`"all"`. Three poll actions stand for the three collectors, whose rules differ:
OpenCode drops a checkpoint of another day, Antigravity keeps its baseline in
memory only, Infer Runtime settles against its durable history.

**DshReports.** `PollDsh` folds every readable log from its start
(`FoldRecord`: streamed usage, retries, steps that a fork inherited) and
compares the settled calls with `seen`, whose checkpoint is saved before the
points are reported.

**CodexTelemetry.** `Receive` admits the events of a batch, sorts and pairs them
per stream (conversation and model), withdraws a sample when an older event of
its stream arrives late, and evicts the oldest stream, fingerprint and model at
their bounds. `event.request` is known to the model only.

**FacilityObserver.** `BeginRefresh` lists the registrations (`candidates`),
`Exchange` asks one provider and normalises its body, `Confirm` reads the
registration again and drops an answer whose provider moved, and
`PublishRecords` replaces `records` as a whole. `RewriteManifest` may happen
before any of them.

**AlertEvents.** A sample evaluates the traffic window, then the guards; each
change appends to `outbox`, and `WriteEvent` appends one line to the event log.
`WriteEventFails` loses what is still in `outbox`, since the engines have moved
on. `RestartAlerts` forgets the levels, which are in memory only.

**UpstreamStatus.** The poll thread (`PollProviders`) decodes pages and queues
transitions under its lock; the sampler runs `TakeSnapshot`, `DrainTransitions`,
`WriteTransition` and `PublishUpstream` with polls in between.

**PriceCatalog.** The refreshers `command` and `thread` pass through manifest,
catalog, previous file, catalog file, activation and check state, one step per
request or file, under `refreshLock`.

**XrayStats.** `tracker` and `session` have a file each; the steps of a poll
save the tracker, append the sample, record the session, and an epoch is the
number of the reading or reset.

**SystemResources.** `Collect` is one reading with its processes: intervals are
measured only between adjacent readings, kept in a window and turned into
points; apps beyond a bound (`First`) fold into `OtherApp`. A row is a function
of the apps it names. The module is one process: a restart forgets the status
told last (`resources/system/collector.py:209`, `:273`), so the events tell the
status within a process only. A clock that steps back counts as one that stands,
and a process that the OS backend skips as one that is not there.

**Observers.** Some variables exist only in the models. They record a history
that a property speaks about, or the cause for which it may fail, and no guard
reads them: `lost`, `doubled`, `raced` (pipeline), `torn`, `outage`, `blind`
(metering), `told`, `capped` (journal),
`codexCause` (misread, dropped, withheld, lost, migrated), `counterCause` (lost,
shrunk, dropped, withheld, midnight), `dshCause` (lost, withheld, dropped),
`forgotten` (telemetry: a restart, an eviction, an expiry of a stream in use;
facilities), `wrong`, `amiss` (alerts), `untold`
(upstream), `highest`, `damaged` (prices), `moved`, `disturbed` (Xray),
`irregular`, `unwritten` (system). Each cause is set by the one step of the code
that brings it about, so that a property with a cause also says which steps
cannot.

## 3. The runs

| Run | Properties and what they show |
|---|---|
| `queue_receipts` | no submitted command vanishes (`CommandsAreAccountedFor`), and replies refine the ledger (`ReceiptsAreIdempotent`) |
| `queue_settings` | `TypeOK`, `ClaimsAreExclusive`, `MutationsRepeatForCause`; a waiting mutation is answered (`MutationsAreAnswered`, liveness) |
| `metric_pipeline` | `TypeOK`, `PointsAreConserved`, `RowsKeepThePeriod`, `AnswersCountOnce`, `OnlyDyingLoses`: a point is in one place and period, counted once, and only the end of a process loses it, unless two processes changed its rows at once (`raced`); queries end (`QueriesEnd`, liveness) |
| `local_metering` | `TypeOK`; traffic is replayed only after a torn save (`OnlyTornSavesReplay`); orderly runs are exact (`OrderlyRunsAreExact`) |
| `remote_metering` | `TypeOK`, `NothingReplayed`, `SessionCountsOnce`, `BaselinedSessionsKeepTheirStart`, `OrderlyRunsAreExact` |
| `diagnostics` | `TypeOK`; history and conditions agree (`HistoryMatchesConditions`, `OccurrencesAreToldOnce`, `ConditionsEndForCause`); an answer is of one commit (`AnswersAreSnapshots`); "observed" rests on fresh evidence (`ObservedMeansNow`) |
| `usage_sources` | `SourcesTypeOK`; Codex: `LedgerIsExact`, `RowsMatchTheLedger`, `MigrationKeepsHistory`; daily totals: `CountersAreExact`; DSH: `DshCallsOnce`; telemetry: `SamplesTimeOneRequest` |
| `observers` | `MonitorsTypeOK`, `FacilitiesAreCurrent`, `EventsTellTheLevels`, `ShownLevelsAreTold`, `PricesNeverGoBack`, `SessionTellsTheTraffic`, `SystemTellsTheHost` |
| `queries_answered`, `settings_take_effect`, `local_replay`, `session_start` | each a counterexample to one sentence of the repository (section 6) |

Every property of a passing run has a mutant of the code in `PROJECT.json` that
violates it.

**Bounds and why they are enough.** The hazards are races of two actors around
one object, so one identity (two receipts), one update beside one query, one
server, or two units of traffic per direction of a split let every order occur.
`MaxCrashes` and `MaxFaults` are 1 except in `local_metering` (two crashes: one
to tear a save, one after the replay); a second fault at the same place repeats
the first.

- `metric_pipeline` counts in quarters of a day (hot 1, hour 2, day 4) with
  local midnight at 2, so a chunk of a day, an hour across two hot buckets and a
  day boundary that is not a multiple of the day all occur. Three points give a
  legacy row, a late AI event and a later fact, and the clock stops at the last of
  them, by when the rows of the first two are due at every resolution. Two
  maintenance runs overlap, so the run reaches both ends of their race: a fact
  merged twice, and a late row deleted that no compaction had read.
- `diagnostics` has three checks, four samples and a clock that steps back once,
  and caps of one condition, two events and two coverage rows: each is exceeded.
- `usage_sources` has three scripts of two rollouts (a fork that replays its
  parent, a resumption, sparse counters with a second session), each with torn
  ends at the places where a state changes, a scan budget of three lines, so
  that scans stop within a file, and one fault; three requests on two models,
  settled over two days, with two faults; three DSH logs of which two hold one
  session and one is a fork; five telemetry batches of three conversations, in
  one of which two requests overlap, each delivered up to twice and in any order,
  with a window of two ticks of four, two streams, three fingerprints and one
  model.
- `observers` has one facility with three registrations and three rewrites (a
  facility's records depend on no other's); two policies; two providers, one per
  page format, and three polls; five releases of three versions, two published;
  one Xray user with three bytes, four epochs and two faults; three processes of
  two apps with caps of one, and three readings.

`diagnostics`, `usage_sources` and `observers` turn off the deadlock check
because the number of their samples, polls and deliveries is bounded. Times are
abstract ticks; only their order against each other and the retention matters.

**Fairness.** `CommandQueue!Fairness`: both threads loop until the Agent ends,
the supervisor relaunches in an endless loop (`agent_supervisor.rs`), and a
submitter that has not given up polls every 100 ms. Nothing forces a
submission, a time-out, a crash or a fault. `MetricPipeline!Fairness`: a thread
that holds a lock goes on, and a maintenance run, a finite sequence of
transactions, ends; the sampler's ingests, queries and the offline process are
not assumed to happen.

## 4. What is proved

Each proof module proves, for every value of the constants that its assumption
allows, `Init => IInv` and `IInv /\ [Next]_vars => IInv'` with one lemma or step
per action, and cites the result for each property. Every `IInv` was checked by
TLC before its proof.

| Module | Theorems | What the inductive invariant adds |
|---|---|---|
| `CommandQueueProofs` | `TypeCorrect`, `ExclusiveClaims`, `AccountedCommands`, `RepetitionsHaveACause`, and the refinement `QueueImplementsLedger` | `Holding` ties a thread's program counter to the claim it works on; `Fresh`: nothing exists of a command before its submission; `Published` and `Reported` tie `outcome` and the reply to the position between write and unlink; `TruthfulReplies`: every status under way agrees with the ledger; `CountedApplications` counts executions against crashes and faults |
| `MetricPipelineProofs` | `PipelineTypes`, `EveryPointIsKept`, `PeriodsAreKept`, `AnswersAreExact`, `OnlyTheDyingLose` | `LockIsHeld`: who may hold drained points; `RowsStandInTheirPeriod`; `ChunksAreCurrent`: between the read and the write of a compaction its chunk is what is stored of the chunk's period, but for the points in `raced`; `QueryIsOfDays` and `ReplyIsStored`: what a reader knows between its two reads. `EveryPointIsKept`, `AnswersAreExact` and `OnlyTheDyingLose` except the points in `raced`, and so say that the race of two processes is the only cause. Lemmas on division (`DivisionBounds` to `SlotKeepsTheDay`) say that nested buckets keep the hour and day of a point |
| `LocalMeteringProofs` | `LocalTypes`, `ReplaysAreTorn`, `OrderlyMeteringIsExact` | the order of saved, last and present poll (`PollsAreOrdered`), a counter bounded by the reloads since a poll (`BaselinesAreCurrent`), durable units older than the baseline a restart would load except between commit and save (`Stored`); a second invariant, `OrderlyInv`, holds while nothing failed |
| `RemoteMeteringProofs` | `RemoteTypes`, `RemoteTrafficIsNotReplayed`, `SessionsCountOnce`, `BaselinedSessionsAreSound`, `OrderlyServersAreExact` | `CountersAreCurrent`, `LogIsOrdered`, `MetricsAreLogged`, `UnsentIsNew`, `MetersAreLogged`, `BeginningIsKnown`: the order of counter, log, session and metrics, and what each step between two files may leave; a second invariant, `OrderlyInv`: while nothing failed, every logged interval is in the metrics, in the queue to them, or the sample under way, and the session holds what was logged since its start |
| `DiagnosticJournalProofs` | `JournalTypes`, `HistoryIsConsistent`, `OccurrencesOnce`, `EndsForCause`, `AnswersAreConsistent`, `ObservedIsFresh` | `TablesAgree`: condition, coverage and what was told of each check; `EventsAreOrdered`: ids grow with time and the newest event of a check is its last transition; `WithinCaps`; the same of what a reader's transaction sees. `FirstOf` keeps the newest rows of a finite set: the lemmas on it say that what is cut is older than what stays |
| `UsageSourcesProofs` | `HistoryIsKept`; `LedgerStaysExact`, `RowsStayMatched`, `CodexKeepsTypes`; `CountersStayExact`, `CountersKeepTypes`; `SamplesAreSound`, `TelemetryKeepsTypes`; `CallsAreStoredOnce`, `DshKeepsTypes`; `SourcesKeepTypes`, `SourcesAreIndependent` | migration: what each step of a start finds on disk, and that only rebuilt ledgers are saved after one. Codex ledger: `LedgersAreRead` (a file's entry is what parsing it alone up to its offset gives; keys and tokens are those of the records consumed), `StepsAreOrdered` (what is on disk, in memory and found at each step), `RowsAreNew` (a request that is stored or found is told by the keys of the ledger, so no later record brings it again), `NoneIsMissed`. Day counters: `PollsAreOrdered` (what a collector's position says of its increments), `TotalsAreRead` (memory and checkpoint against the requests read), `WholeIsTheSum`, and what is counted, under way and missed add up to what was read unless a cause is noted. Telemetry: `StreamsFollow` (a stream stands at the latest event known of its key; unless it is ambiguous every send but the pending one was followed by an end) and `SamplesAreTimed` (no known event lies between the send and the completion of a sample, and every earlier send was followed by an end before the sample's own), kept by each event that a batch folds in. DSH: `DshPollsAreOrdered` (what a poll is about to save and report), `RowsAreOnce` (a call is stored only once its marker is remembered), `NothingIsMissed` |
| `MonitorsProofs` | `EventsAreTold`; `ShownIsTold`; `FacilitiesStayCurrent`; `PriceTypes`, `PricesStand`; `XrayTypes`, `SessionIsTheTraffic`; `HostIsTold`; `MonitorsKeepTypes`, `MonitorsAreIndependent` | alerts: per source at most one event waits, and it leads from the last one told to the level held. Upstream: the changes of a provider are told, or wait in one of two queues in their order. Facilities: every record is an answer for its registration and succeeds the one before, in the published set and in the refresh under way. Prices: one refresh under the lock (`OneRefresh`), a fetched release compared with what is in use (`Compared`), files in step with it (`InStep`). Xray: traffic grows and epochs are ordered; baselines, samples and both session copies are bounded by the traffic since their epoch, and exact while undisturbed. System: `HostIsConserved` and `AppsAreConserved` say that what is stored, open in the window and grown since the last reading never exceeds what was moved, of the host, of each app and over all apps, and equals it in a regular run; `StatusIsTold`: the last event, written or not, tells the status |
| `SumTheorems` | lemmas only | sums over finite sets: they take any element away, split at any part, and add up over a partition; folds over sequences: a step that stays within a set of states folds every sequence, and what holds of one prefix and is passed on to the next holds of all |

The theorems on a part of a composition are about its own specification
(`CodexSpec`, `CountersSpec`, `AlertSpec`, ...), and `SourcesAreIndependent` and
`MonitorsAreIndependent` say that the composed specification implies each.

The library defines a sum by a fold over the set in an order nobody knows, and
proofs by induction take an operator, which the provers cannot instantiate.
`SumTheorems` therefore argues by the smallest counterexample: a set of subsets
that is not empty has a smallest element (`FS_StrictSubsetOrderingWellFounded`
and `WFMin`), and of the subsets for which a law of sums fails there is none. Folds over
sequences (`FoldsUpTo`, `Stepwise`) are argued in the same way over prefixes.

The exactness of the Codex ledger rests on the same lemmas. `Consume` reads the
keys, which all files share, only to decide whether a record is counted, never
for the parser's state; so the state after n records of a file is that of
parsing it alone (`TailIsRead`), wherever the polls stopped and whatever was
read in between. A record is counted when its keys are new, and by
`CountersTellRequests` its requests are then new (`TailIsCounted`); so what is
counted up to the offsets of all files does not depend on their order, and the
audit, which reads one file after the other with keys of its own, comes to the
same sum (`AuditCounts`).

**Assumptions.** `ConstantsAssumption` (`CommandQueue`, `LocalMetering`,
`MetricPipeline`, `DiagnosticJournal`), `BoundsAssumption` (`RemoteMetering`),
`DayCountersAssumption`, `FacilityAssumption`, `PriceCatalogAssumption`,
`XrayAssumption`, `AlertAssumption`, `UpstreamAssumption`, `SystemAssumption`,
`TelemetryAssumption`, `DshAssumption` and `CodexAssumption`: types of the constants and of what the world may answer;
finite sets of checks, requests, policies, providers, processes and apps;
whole-hour zones with resolutions that divide one another; and a sample of the
journal never holds more checks than the history keeps events (512 and 10,000 in
the code), so that no event of a sample is cut in the commit that wrote it. Of DSH's logs
it is assumed that a settled call is the only one of its marker in every log that
shows it, and settles with its final usage (`MarkersTellCalls`). Of Codex's
rollouts it is assumed that each begins with its header and that their counters
tell requests (`CountersTellRequests`): parsed alone, a record yields the tokens
of the requests it stands for, and two records share their key exactly when they
stand for the same requests. The code has nothing else to tell a copy by: its key
is the scope, the model and the four counters (`codex_sampling.py:1173`), so two
branches of one session that reach the same counters in different requests would
count once. TLC
evaluates each in a passing run, and in `MCMonitors` also that the releases give
a day one price (`OnePrice`).

**Only model-checked.**

- Liveness (`MutationsAreAnswered`, `QueriesEnd`): fairness and ENABLED are
  beyond the prover.
- That the markers of a DSH log tell its calls (`MarkersTellCalls`) and the
  counters of a rollout its requests (`CountersTellRequests`): what a fold makes
  of a file is data, which TLC evaluates on the files of the run (forks,
  resumptions, repeated, stale, reset and missing counters), and the proofs
  assume of every other. All other safety properties of the runs are proved.

## 5. Not modelled, and why

Numbers, labels and texts that no property tells apart are abstracted: sums and
means of buckets, per-service attribution, directions, filters of queries, costs
and hours of usage. `Overlay` ignores SQLite's busy timeout other than as a
failing write or select. The watch lock is assumed to hold. Three shortcuts of
single actions: `RecordReceipt` takes every receipt for well-formed (a malformed
one is answered "rejected" and changes nothing); `LocalMetering!Ingest` makes all
open points durable at a checkpoint, although a flush may write only another
bucket (`metrics/pipeline.py:37-61`), which can hide a loss in a crash but no
replay; `XrayStats!ResetMeter` covers the automatic start of a first session
(`app/agent.py:851-854`), where nothing has been counted yet.

- Windows facility transport, remote transport (SSH) and system backends: calls
  into the operating system without state of their own; their failures are
  outcomes in the models that use them.
- Traffic estimation: floating-point arithmetic over one session's totals, which
  keeps no state. AI usage contract and performance: shapes of records.
- Configuration: validation and rewriting of `config.toml`; its two outcomes are
  those of `UpdateConfiguration`.
- Projection: built afresh from every sample; a broken stream ends the process,
  which the models have as `Stop` or `Crash` at any step.
- Process lock and host process, command-line tools, desktop views, desktop
  shell: one lock, read-only reports, rendering, tray and paths.
- Of the metric store: the legacy import, `rebuild_remote_history`, schema
  upgrades and vacuum. Of the AI sources: timings, prices, summaries and the
  audit by date. Of the queue: commands of an unknown type.

Two properties leave out part of the hazard they are listed for, and name the
part: `EventsTellTheLevels` excepts alert levels over a restart, and the
properties of the pipeline the points that two processes changed at once (both
in section 6). That an update answered "rejected" may be on disk
(`app/agent.py:732`) is no property: no text promises more.

Three hazards have no property. Two settings updates of one interval are
visited in the order of their random ids (`app/protocol.py:129`), and no text
promises another. `--maintain` expires results and temporary files of a running
Agent (`app/agent.py:980`), which looks to a submitter like a time-out. Days are
cut at one offset from UTC (`metrics/store.py:581`), so with a half-hour zone or
across a change of summer time an hour row straddles midnight; the model assumes
whole hours and one offset.

## 6. Where the code and its texts disagree

1. **A storage error ends the reader thread** (`queries_answered`).
   `run_read_only_command_service` (`app/agent.py:686`) has no `try`, and the
   query handlers catch `ValueError` and `TypeError` only. Afterwards no query
   is answered until the Agent restarts.
2. **A saved setting may not take effect** (`settings_take_effect`). The request
   for a restart is lost when the same sample fails later
   (`app/agent.py:1110-1119`), although the update was answered `ok`.
3. **A restart may replay an interval** (`local_replay`). A crash between the
   flush's commit and `save_tracker` (`app/agent.py:876-879`) counts the
   committed traffic again. `ROADMAP.md:75` excludes it. The proved
   `OnlyTornSavesReplay` shows that there is no other way.
4. **A session may count traffic from before its start** (`session_start`). A
   reset while the server is failing sets no baseline
   (`session.py:239-240`), and the next interval is counted whole (`:321`).

Behaviours that the passing runs contain as named causes. The properties except
them by name, and fail without the exception; no run of their own expects it.
All but the sixth disagree with a text, which `PROJECT.json` quotes:

5. **A late migration deletes newer rows** (`migrated`). The docstring at
   `app/codex_migration.py:75` speaks of old points only. When the first starts
   after an update could not migrate, rows reported meanwhile belong to the
   history that `app/codex_migration.py:84` replaces, and a rebuilt ledger does
   not report them again. A backup is made only once, so it holds them only if
   it was made at that same start.
6. **A rollout read that fails half-way may lose usage** (`misread`). The keys
   of its lines are already in the deduplication set when the file's state is
   dropped (`resources/ai/codex_sampling.py:731`).
7. **A facility's sequence may be forgotten** (`forgotten`). A failed poll of a
   new offer drops the prior observation, and an older snapshot of the same
   generation is accepted afterwards (`resources/facilities/observer.py:320`),
   though `tests/test_facility_observer.py:271` means it to be refused.
8. **A restart forgets alert levels** (`amiss`). They are in memory only, so a
   limit that is still exceeded is told again
   (`resources/network/billing_policy.py:78`). The docstring at `:42` calls them
   persistent.
9. **Overlapping requests may produce a rate** (`EndedBetween`). The end of any
   request of a conversation clears its doubt, so the completion of an older
   request that still runs is paired with the next send
   (`resources/ai/codex_telemetry/state.py:109`); so it is when the events in
   between are missing. The note at `state.py:145` and
   `docs/codex-telemetry.md:99-102` exclude both.
10. **`--maintain` beside a running Agent may double or drop points** (`raced`).
    `_compact_resolution` reads a chunk before its transaction begins
    (`metrics/store.py:540-553`) and the lock of `MetricStore` is per process.
    Two compactions that read the same rows both merge them, and the upsert
    adds; a row that the Agent flushes between the read and the range DELETE
    (`:554-557`) is deleted unmerged. The option's help calls it offline
    (`app/agent.py:942`), but nothing refuses it while an Agent runs.

## 7. Working on the project

`tlc -config <run's cfg> <run's module>` repeats a run and `tlapm <module>` a
proof. The leaves of the proofs are cut so small that a slow machine proves them
too: all of them also go through with a fifth of the usual time limits
(`tlapm --nofp --stretch 0.2 <module>`). A lemma whose conclusion is long is stated
through a named operator (`Joined`, `SpoiledBy`, `KeepFollows`, `SplitsAt`, ...),
which a proof that cites it expands in a step of its own. A change of the code starts at the definitions that `PROJECT.json` maps
to its lines. What would add most next: a legacy import and
`rebuild_remote_history` beside a live Agent in `MetricPipeline`, and the expiry
of `--maintain` in `CommandQueue`.
