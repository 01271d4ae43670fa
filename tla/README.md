# TradeEngine in TLA+

TLA+ models, TLC runs and TLAPS proofs for the parts of TradeFramework whose
correctness depends on the order of steps: threads, child processes, durable
rows, archives on disk, crashes and recovery; and for the contract and Graph
algorithms whose inputs are too many to test. The reference is the code; every
definition that models code is listed with its source lines under `map` in
`PROJECT.json`.

1. [Inventory](#1-inventory)
2. [Modules and the code they model](#2-modules-and-the-code-they-model)
3. [Runs](#3-runs)
4. [Proofs](#4-proofs)
5. [Where code and its own statements disagree](#5-where-code-and-its-own-statements-disagree)
6. [Observations](#6-observations)
7. [What is not modelled, and the plan](#7-what-is-not-modelled-and-the-plan)

## 1. Inventory

The Engine is one Python process that owns a control root: one SQLite
database, JSON indices and archive directories. HTTP handler threads call
services; services use repositories for durable state and registries for child
processes. Every heavy computation runs in a disposable process under an *outer
subreaper*, a small supervisor that adopts every descendant and exits only when
the kernel says it has no child left. The right to write the control root is a
file lock whose descriptor every subreaper inherits. Mining is a second service
with a database and worker processes of its own.

| Component | State | Operations | Hard behaviour | Correct when |
|---|---|---|---|---|
| Backtest Job manager and rows (`engine/jobs`) | `backtest_jobs` rows, thread pool and its queue, retained execution roots | submit, execute, progress, fail, complete, shutdown, startup recovery | submit racing shutdown, a Runtime that outlives its thread, a crash between any two durable writes | a row is final only when nothing writes any more; completed means a verified Result; every Job is settled in the end |
| Runtime supervision (`engine/worker/backtest_supervisor.py`) | the Runtime process, its status document | launch, poll, cancel, terminate, collect | termination that times out | no writer is forgotten |
| Backtest Runtime (`engine/worker/backtest_execution.py`, `engine/runtime/sampler*.py`, `backtest_provider.py`, `result_writer.py`) | Sampler process and its pipe, frames, staged Result | start, count, iterate, append, finalize, seal, publish, discard | a script that dies, ends early, prints noise or counts wrongly; a limit; colliding cycle ids | what is published is complete, ordered and as its manifest says |
| Process sessions (`engine/runtime/process_session.py`) | registry of sessions | start, stop, close, retry, shutdown | failed start after the fork, failed release | a session leaves the registry only when its process tree is gone |
| Owner lease (`engine/control/owner.py`) | the locked descriptor | claim, inherit, release | the Engine dies and its subreapers do not | one generation of writers at a time |
| Engine start and stop (`engine_service.py`) | phase of the main thread | recovery before serving; ordered stop | handlers still running during the stop | the lease is released only with nothing left |
| Result verification, catalog and projections (`engine/runtime/result_runtime.py`, `engine/worker/result_verifier.py`, `engine/repository/backtest_results.py`) | verifier processes, scratch directories, pending releases, catalog rows | verify in shards, index, recover, project, shut down | an archive that changes meanwhile, a verifier that dies, a shutdown at the same time | the verdict is that of one sequential reader; a row states the archive on disk; nothing is removed under a live process |
| Version archive transaction (`engine/archive`), Dataset Recipes | version index, sealed directories, staging | begin, recover, deduplicate, seal, commit, reconcile, discard | a commit that is durable although it raises, a crash after the rename, an interrupted rollback | index and disk agree; history has no gap and no repeat |
| Prepared submissions (`engine/service/backtest_submissions.py`) | tokens with expiry, Build cache | prepare, consume, expire | two consumers of one token, a clock read before the lock, a Dataset archived meanwhile | a token is used once, in time, for what it was issued for |
| Mining store and workers (`mining`) | job rows with leases, refills, pages and their files | create, pause, resume, run now, refill, claim, fetch, commit, recover | a worker that dies, is stopped or outlives its lease | no page is skipped or loses its files; pauses and refills are served |
| Dataset Builds (`engine/service/dataset_builds.py`, `engine/repository/dataset_*`) | Build rows, Workspaces, receipts, scratch, Dataset Versions | submit, run, publish, recover, delete | a failed commit whose receipt cannot be read, a crash between sealing and rows, two publications of one content | completed means a sealed, indexed Version; every interrupted Build is decided |
| Jupyter Workspaces (`engine/service/jupyter_workspaces.py`) | instance records, server process, Workspace row | open, stop, lifecycle guard, shut down | an open racing a deletion, a publication or the stop | one server, under authority; none in a guarded Workspace |
| Module Graphs (`engine/compiler/graph.py`, `engine/authority`, `engine/runtime/graph.py`) | compiled plan, wires of a cycle, invokers | compile, seal, construct, run, finalize, close | optional values, dynamic contracts, cycles | what compiles runs without a missing or unfit value |
| Composition and cycles (`engine/composition`, `engine/contracts`, `engine/runtime/pipeline.py`, `graph_cycle.py`) | frozen composition, Data Dicts that share objects, `last` | compose, bind, run the stages of a cycle, read a Result through temporary Modules | a fixed point over mutual contracts, nested optional writes, aliasing | a frozen composition binds again and its run matches its contracts |
| Module processes and the SDK (`engine/runtime/process_module_*.py`, `module_invoker.py`, `strategy_devkit/module_sdk.py`) | one instance, its pipes and process tree, reusable outputs | initialize, invoke, snapshot, restore, finalize, close | stray lines, late answers, helpers, outputs rewritten after validation | an answer is the answer to its own call; close is honest |
| Control state (`engine/repository/control_state.py`) | JSON indices, the control lock | read, replace, locked section | a replace that raises after it is durable | one writer at a time |
| Pipelines, Modules, Environments, Analyses, Samplers | Drafts and versions | edit, publish, delete | publication racing a reader | as the transaction |
| Dataset and Module Workspaces, folders | files under one lock | edit, delete, publish | against Jupyter and Builds | as those |
| Authentication, Agent grants and bridge, Agent web application, builtin strategies and pages | small tables or separate products | request handling | outside the Engine's core | not studied here |

How the components interact:

- a handler prepares a request under the control lock, exchanges the token for
  a Job row, then hands the Job to the pool; the pool thread starts a session,
  polls it, verifies the Result, inserts the catalog row, then updates the Job
  row. None of these writes is atomic with another;
- pool threads, handler threads and the main thread share the registry, the
  retained roots and the stop flag;
- a Runtime process communicates with its Job only through files and its exit
  code, and survives the Engine. Inside it the Sampler's process feeds the
  cycle loop, each cycle runs the Graphs of the composition, and each Module of
  a Graph may be a process again;
- Builds, Jupyter servers, verifiers and projections are sessions of the same
  registry;
- the next Engine learns about all this only from the lock, the rows and the
  directories.

The hazards that follow from this are listed, each at its line and with the
properties that would catch it, under `hazards` in `PROJECT.json`.

## 2. Modules and the code they model

| Module | Content |
|---|---|
| `BacktestLifecycle` | abstract specification: what a client may rely on about a Job |
| `BacktestJobs` | the Job service: handlers, pool, Runtimes, registry, lease, shutdown, crash, recovery; instantiates `BacktestLifecycle` |
| `VersionArchive` | the publication transaction of one versioned resource, with and without the control lock |
| `PreparedSubmissions` | tokens and the Build cache |
| `MiningJobs` | the mining queue and its workers |
| `DatasetBuilds` | Build Jobs and the publication of Dataset Versions |
| `JupyterWorkspaces` | the Jupyter server of one Workspace over the session registry |
| `ModuleGraph` | one Graph: compiler, semantic proof, Runtime |
| `ModuleSession` | one Module instance: invoker, adapters, SDK, process tree |
| `BacktestPipeline` | composition of all contracts, the cycle on real data, reading of the Result |
| `BacktestRun` | one Runtime from the request to the published Result |
| `ResultRecovery` | extends `BacktestRun`: verification, catalog, projection and shutdown around that Result |
| `BacktestJobsProofs`, `VersionArchiveProofs`, `JupyterWorkspacesProofs`, `DatasetBuildsProofs`, `MiningJobsProofs`, `ResultRecoveryProofs`, `FrozenBacktestProofs` (`PreparedSubmissions` and `BacktestPipeline`), `ModuleProofs` (`ModuleSession` and `ModuleGraph`) | the theorems of section 4 |
| `MC...` | constants, instances and symmetry for TLC |

The modules meet where one leaves off: `PreparedSubmissions` ends at the
insert of the row with which `BacktestJobs` begins; `BacktestJobs` treats a
Runtime as a process that stages, publishes, succeeds or fails, and
`BacktestRun` is what happens inside it; `BacktestRun` treats a cycle as a step
that succeeds or fails, and `BacktestPipeline` is that step; `BacktestPipeline`
treats a Graph as one function and a Module's answer as a choice, `ModuleGraph`
and `ModuleSession` open these up. `ResultRecovery` composes the Runtime with
the Engine's readers in one state space.

A comment "Mutant" (or "As the code, with ...") marks a deliberately wrong
variant of the definition that follows; it is used to show that a property can fail.

### BacktestJobs

A Job of the model is a job id with its backtest id, execution root and session
key, which the code mints together and never reuses. Progress counters, error
texts, events and the content of Results are left out.

| Variable | Code |
|---|---|
| `status`, `phase` | columns of `backtest_jobs` |
| `result` | the Result directory: none, staging, sealed |
| `catalog` | rows of `backtests` and `backtest_result_metadata` |
| `scratch` | `backtest-runs/<job>` |
| `outer` | the subreaper and its tree: none, live, signalled (`term`), exited `ok` or `error` |
| `engine` | position of the main thread: startup, serving, each stage of the stop, exited |
| `pc` | position of the thread that works for a Job: in `submit`, in `_execute`, or in the main thread's settle and adopt loops |
| `queue` | the executor's queue |
| `sessions` | the process-session registry |
| `retained` | `_retained_execution_roots` |
| `todo`, `firstError` | locals of the main thread |

| Actions | Code |
|---|---|
| `Submit`, `SubmitInsert`, `SubmitToExecutor` | `BacktestJobManager.submit` |
| `PoolTake` … `Finally` | `_execute` and the supervisor call inside it, split wherever another thread or a process can come in between |
| `WorkerStage`, `WorkerPublish`, `WorkerSucceed`, `WorkerFail`, `OuterQuiesce`, `OuterSeesParentDeath` | the Runtime, the Result writer and the subreaper |
| `RequestStop`, `StopManager`, `CancelFutures`, `JoinPool`, `Reap*`, `Settle*`, `InterruptQueued`, `Exit` | `_shutdown_engine_service` and `BacktestJobManager.shutdown` |
| `ClaimOwner`, `ReconcileStaging`, `Scan`, `Adopt`, `InterruptActive` | the claim and the startup recovery |
| `Crash` | the Engine process dies: memory is lost, rows, directories and subreapers remain |

`Works` and `Raises` stand for a database, filesystem or spawn call that
returns or raises. Where a call may be durable and still raise, both outcomes
are in the action. `MaxFaults` bounds the raises, `MaxCrashes` the crashes.

Finding completion evidence (`_completed_evidence`) is one step: it reads the row, the
directory and the catalog row of one Job, which at that time only the thread
that executes it changes.

### VersionArchive

One resource and several calls of `archive_if_changed` for it. A call also
stands for the record it creates, since `createdAt` makes records of different
calls differ; `draft` gives the content of each. `index` is the version table
(or JSON index), `archive` what is in each version directory: nothing, a
record, or `broken`, the remains of a removal that did not finish. `known` is
the length of the local `records`, `pending` the record about to be committed.
`locked`, chosen initially and never changed, says whether the callers hold
`control_state_lock`: all do except Dataset Recipes.

Digests and manifests are abstracted to whether a directory *verifies*: it
holds exactly the indexed record. Files altered by other programs are out of
scope.

| Actions | Code |
|---|---|
| `Begin` | the lock, and `verify_record_collection` |
| `Recover` | one turn of the recovery loop |
| `Stage`, `Check` | `prepare_staging`, `unchanged_version`, `destination.exists()` |
| `Seal`, `Publish`, `VerifySealed` | `seal_directory`, `publish_staging_directory`, `verify_record` |
| `Commit`, `Reconcile` | `commit_record`, and what follows its error |
| `DiscardBegin`, `DiscardEnd` | `discard_archive`, which is not atomic |
| `Tidy`, `Fail` | removal of the staging directory |
| `Crash`, `Restart` | the Engine dies; `reconcile_staging_directories` |

### PreparedSubmissions

`entries` is the store's `_entries`, `cache` its `_build_cache` in LRU order,
`issued` remembers every token (its number is its place), `archived` the
requests whose Dataset is archived, `controlLock` the control-state lock. Each
handler has its local `now`, since the code reads the clock before it takes the
store's lock. Sessions and requests stand for their digests. (Where two modules
share a proof module, one has its names prefixed: `SubmissionInit`, `SubmissionNext`,
`SubmissionSpec` here, `GraphInit`, `GraphNext`, `GraphSpec` in `ModuleGraph`.)

| Actions | Code |
|---|---|
| `BeginPrepare`, `Lookup`, `Freeze`, `Issue`, `CacheBuild` | the prepare route: `_get_cached_build`, `freeze_backtest_request`, `_issue_prepared_submission`, `_cache_build` |
| `BeginConsume`, `Consume`, `Admit`, `Insert` | the run route: `consume`, `require_frozen_backtest_admission`, `insert_queued` |
| `ArchiveDataset`, `Tick`, `Restart` | `archive_dataset` (which does not take the control lock), time, a new Engine |

### MiningJobs

The variables are the columns of `jobs` and `refill_tasks`, the positions with a
committed page (`have`), page files (`filed`, `missing`), the file lock
(`holder`) and the locals of each worker. Every store method is one
`BEGIN IMMEDIATE` transaction and therefore one step. Time is kept as order:
`line` holds the due jobs in the order of `next_run_at`. The loop of `claim_next`
is one step: everything due before the first admitted job is blocked
(`DueBefore`, `Refuse`), then that job is leased (`ClaimFirst`) or there is none
(`ClaimNothing`).

| Actions | Code |
|---|---|
| `CreateJob`, `PauseJob`, `ResumeJob`, `RunNow`, `QueueRefill` | the API calls of `mining/store.py` |
| `StartWorker`, `ScanPages`, `MoveOrphans`, `RecoverExpiredLeases`, `ClaimNext` | `run`: the lock, `recover_orphans`, `recover_expired_leases`, `claim_next` |
| `BeginActive`, `PageTop`, `RateWait`, `Fetching`, `Fetch`, `ProviderFails`, `WriteFiles`, `CommitPage`, `PageBudget` | `_process_job`, the HTTP client and `commit_page` |
| `StopWorker`, `Crash`, `BecomeDue`, `LeaseExpires` | the signal, the death of a worker, time |

### DatasetBuilds

`row`, `ws`, `source`, `output` and `index` are the tables; `archive`, `scratch`,
`evidence` and `staging` the disk; `writer` the Scripts that may write,
`authority` the sessions retained; `dbLock` SQLite's single write lock. All Jobs
publish to one output Dataset, the case in which they can collide. An `Empty`
directory is the parent made for a Version and not filled yet.

| Actions | Code |
|---|---|
| `Submit`, `MakeScratch`, `CommitSubmission`, `MarkRunning` | the claim of the Workspace, the submission's receipt, the running row |
| `StartScript`, `ScriptEnds`, `ScriptIsRetained`, `WriteEvidence` | the sandbox and its completion evidence |
| `Stage`, `Begin`, `Move`, `Seal`, `Commit`, `Cleanup` | `publish_dataset` and the discard of what its transaction created |
| `Except`, `Settle`, `Recover` | the error path, and `reconcile_interrupted_builds` |
| `DeleteWorkspace`, `FinishDeletion`, `ArchiveDataset`, `Crash`, `Start`, `FinishStart` | the operations beside it; archiving the upstream Dataset archives the output with it once a Version has made the lineage edge |

### JupyterWorkspaces

One Workspace. `rec` are the records the service ever put in `_instances`,
`current` the one there now, `registry` the session under the Workspace's key,
`live` the sessions whose processes may run, `blocked` and `lifecycle` the guard.
An opener that made a record reads its state again outside the lock (`Begin`):
when a stop has marked it meanwhile, the opener goes on to the health check.
Openers run `Look` … `SettleStart`, whoever stops a server `Mark` … `StopSettle`,
a deletion or publication `Enter` … `Leave`, the Engine's stop `BeginShutdown`,
`Leftover`, `CloseRegistry`; `ServerExits` may happen at any time. A step is one
section under `_state_lock` or the registry's lock, or one effect outside both.

### ModuleGraph

A Graph is a record of nodes in editor order, ports with schemas, and boundaries.
A schema is the set of values it admits. `Compile` is `compile_module_graph`,
`Seal` the semantic proof, `Construct`, `BeginCycle`, `RunNode`, `Export`,
`Finalize`, `Close` the Runtime. The topology is layer after layer of
ready nodes, each in editor order, as the code computes it. Modules answer anything their output ports admit, and may fail.

### ModuleSession

One instance in `python` or `process` mode. The owner calls `Invoke`, `Snapshot`,
`Restore`, `Finalize`, `Close`; the adapter carries the call (`CallPython`,
`ReturnPlain`, `ReturnHandle`, `UpdateRaises`, `ReadResponse`, `TransportFails`,
`ShutDown`); the Module's process serves requests, prints stray lines, registers
reusable outputs and rewrites them; primary, helper and supervisor end in any
order, and a process may be unkillable (`immortal`). A primary that exits after
an acknowledged close may still exit nonzero, which its owner reports as an error. `answer` records for which
call, by which call and in which state era the outputs were made.

### BacktestPipeline

A DataKey is `<<root>>` or `<<root, field>>`, a schema a set of shapes (the
alternatives of an `anyOf`), a contract state the schema of each root with the
guaranteed roots. `ComposePreliminary` … `CompileAnalysis` are one round of
`compose_backtest_plans`, repeated to its fixed point and, with `binding`, again
by `bind_frozen_backtest_composition`. `NextSample` … `AppendCycle` run a cycle;
values live in a `heap`, because Data Dicts share them and a write in place
would be seen by every owner. `OpenResult` … `ProveProjection` are the temporary
Modules of a reader, ordered by `compile_temporary_module_plan`.

The constants are `DataKeys` in their canonical order, the scalar `Types`, the
`Designs` (the resources a user may put together), the `Temporaries` (the lists
of Modules a reader may run) and `MaxCycles`. `KeysAssumption`, `DesignsAssumption`,
`TemporariesAssumption` and `CyclesAssumption` say what these are: a DataKey comes
after its root and occurs once; a Sampler declares a well-formed state; a
port's schema fits its key; at most one Module output and one wire end at a
DataKey. Depth is the model's own limit: values have one level of fields, so a port at a
field is scalar, and a Data Output at a field is wired from a field. The code
also takes deeper values and a scalar root wired to a field.

### BacktestRun and ResultRecovery

`BacktestRun` has the position of `execute_backtest` (`phase`), the Sampler's
process and its `pipe`, the `frames` yielded, the `writer`'s buffer, the
directory and its two files. A digest is the content it was computed from.

| Actions | Code |
|---|---|
| `Admit` … `OpenProvider`, `CountRows`, `CountScript`, `BuildGraphs`, `OpenWriter`, `Refuse`, `BuildFails` | preparation and start |
| `EmitSample`, `EmitEnd`, `Noise`, `WorkerExits`, `WorkerDies` | the sandboxed script |
| `NextRow`, `ReadMessage`, `ScriptEnds`, `RowsEnd`, `LimitEnds` | the provider's iteration; a limit closes the iterator, and when the script cannot be ended then, the error is swallowed and the run goes on beside it (process state `left`) |
| `AppendCycle`, `EndOfFrames`, `Finalize`, `CloseRuntimes`, `FlushCycles`, `Seal`, `Publish`, `Discard` | the cycle loop and the Result writer |
| `StepFails`, `RuntimeDies` | a call raises; the process dies |

`ResultRecovery` adds the catalog `row`, the request in progress (`task`), every
worker process with its session, scratch, outcome and destination (`entries`)
and the shutdown (`stopping`, `shut`). A verification cuts the lines
into shards, starts one process per shard while the parent reads the rest of the file,
interprets the outcomes, cleans up, commits and asks for the receipt. The row has
what the code indexes: the digest and the number of cycles.
A projection is written in one step (`ProjectWrites`: validated, renamed to its destination) and
its worker ends in another (`ProjectEnds`), so a request or a shutdown can
find a live worker whose destination exists. A release removes the destination, then the
scratch directory, and either may fail; a shutdown releases what is pending
one by one (`ShutdownRetains`, `ShutdownReleases`), and what failed stays pending.
`Damage` changes the archive behind the Engine's back and gives it a new
identity; the code claims to notice, so this is part of the model.

## 3. Runs

Each `.cfg` names its bounds. State counts are distinct states.

| Run | cfg | Expected | States | Question |
|---|---|---|---|---|
| `jobs` | `MCBacktestJobs.cfg` | pass | 239 632 | Are the safety properties, the abstract life cycle and the two liveness properties kept by every interleaving of two Jobs, one pool thread, one crash and one failing call? |
| `archive` | `MCVersionArchive.cfg` | pass | 827 894 | What does the transaction keep with the lock, and what without it, under a crash and a failing call? Does every call end? |
| `prepared` | `MCPreparedSubmissions.cfg` | pass | 3 077 498 | Is a token good once, in time and for its own request only, and is an archived Dataset refused? |
| `mining` | `MCMiningJobs.cfg` | pass | 260 429 | Is every page collected and kept, is no request undone by a late worker, and are pauses and refills served, when workers die, stop or lose their lease? |
| `dataset_builds` | `MCDatasetBuilds.cfg` | pass | 40 680 | Do rows, Version directories and scratch agree through failures and crashes, and is every interrupted Build decided? |
| `jupyter_workspaces` | `MCJupyterWorkspaces.cfg` | pass | 1 703 084 | Is no server forgotten, doubled, alive in a guarded Workspace or started after the stop? |
| `graph` | `MCModuleGraph.cfg` | pass | 197 417 | Does every Graph that compiles also seal, and run without a missing or unfit value? |
| `module_session` | `MCModuleSession.cfg` | pass | 1 193 466 | Does a Module's owner get its own, current, valid answer, and an honest close? |
| `pipeline` | `MCBacktestPipeline.cfg` | pass | 167 936 | Does a frozen composition bind again, and does its run keep to its contracts and read one cycle? |
| `recovery` | `MCResultRecovery.cfg` | pass | 3 114 605 | Is the published Result complete, and are verification, catalog, projection and shutdown sound around it? |
| `dataset_collision` | `MCDatasetCollision.cfg` | violation | | Is an indexed Version's directory there when two Builds publish the same content? |
| `optional_last` | `MCOptionalLast.cfg` | violation | | Is a path that the entry proof demands guaranteed to exist? |

### The properties

Of the Job service:

- `QuiescentWhenTerminal`: a row is final only when no process of its Runtime
  can write;
- `EveryWriterIsRegistered`: a live Engine has every possible writer in its own
  registry. It needs the inherited lease (nobody else's writers), and the rule
  that a timed-out termination or a failed start keeps the session;
- `CompletedHasResult`: completed rows are backed by sealed, indexed Results;
- `SealedFailsOnlyInShutdown`: when no call fails, a sealed Result is recorded
  as failed by a shutdown only, never while serving and never by recovery. The
  shutdown is an exception the code makes (section 6); no property forbids it;
- `LifecycleSpec`: the service implements `BacktestLifecycle`;
- `QueuedIsServed`, `StoppedIsSettled`: every queued Job is settled or retained,
  and a stop or crash settles every active Job, unless a call fails.

Of the archive transaction:

- `IndexedIsArchived`: under the lock every indexed version is on disk as recorded
  (not without it: section 6);
- `HistoryIsGapFree`, `NoRepeatInARow`, `AnswerIsTrue`: versions without a gap, no
  retry that publishes the same content twice in a row, answers that have the
  content of the call, also without the lock;
- `SuccessLeavesNoLeftover`: after a success under the lock every directory is
  indexed;
- `EveryAttemptEnds`: the recovery loop terminates.

Of prepared submissions: `TokenIsOneShot` (one Job per token, of the session and
request it was issued for, asked for before it expired) and `ArchivedIsRefused`
(an old token or cached Build does not get past an archiving).

Of mining: `EvidenceIsComplete` (every position before the checkpoint is committed,
and orphan recovery never takes the files of a committed page);
`NoRequestIsLost`, a property of every step that is not an API call: nobody
commits to or gives back a job that a resume took away (`ResumeStands`), a pause
flag becomes the status however the job ends (`PauseStands`), and a job with a
queued refill does not fall back to its schedule (`RefillStands`);
`PauseIsHonoured`, `RefillIsServed`.

Of Dataset Builds: `CompletedHasVersion` (a row is completed exactly when its
Version is indexed), `IndexedIsSealed`, `WriterOwnsScratch` (neither directory
nor row is given up under a Script), `InterruptedIsDecided`.

Of Jupyter Workspaces: `EveryServerHasItsAuthority`, `GuardedWorkspaceIsQuiet`,
`ShutdownIsFinal`.

Of Graphs: `CompiledNeverStarves`, `PortsAdmitWhatTheyGet` (inputs are not
validated where they are used), `CompiledIsSealed`.

Of Module instances: `AnswerIsItsOwn`, `ReuseIsCurrent` (outputs reused without
validation were made since the last restore), `CloseIsHonest`.

Of the composition: `FrozenCompositionBinds`, `ComposedNeverStarves`,
`ResultIsAsDeclared`, `StagesReadOneCycle` (no write is seen through `sample` or
`last`).

Of the Runtime and its Result: `PublishedIsComplete`; `VerdictIsSequential`
(shards give the verdict of one reader, first error first), `RecoveredIsSound`,
`ReleaseAfterQuiet` (no scratch directory is given up and no destination removed
under a live worker, which may have put its destination in place and not yet
ended).

### Bounds and why they are enough to be interesting

The mutants show that the bounds reach the cases: within them each property is
broken by a small change of the code.

*Jobs.* Two Jobs and one pool thread make a Job wait in the queue while the
other runs, be retained, or be recovered. One crash lies at any point, so also
inside a shutdown or a recovery. One fault hits any call.

*Archive.* Three calls of two contents are needed for one call to crash, a
second to recover and a third to find the result. `MaxVersion` is one more than
the number of calls, each of which creates at most one record, so the bound
never stops a call.

*Prepared.* Two handlers, sessions and requests, room for one token, so that
capacity, replacement and eviction all happen; two ticks let tokens and cached
Builds expire; a restart empties the store. Handlers, sessions and requests are
symmetric.

*Mining.* Two jobs, one of a provider that is not admitted, two workers of which
one may die, two records with an overlap of one, two pages per run: a run ends
by budget, by end of data or by yielding to the refill. One request (pause,
resume, run-now) and one provider failure.

*Dataset Builds.* Two Jobs from two Workspaces, one of them internal, with one
failing call and one crash; contents differ in the passing run and agree in
`dataset_collision`, which needs neither failure nor crash.

*Jupyter.* Two openers, one deletion or publication, one stop; two records, so
that a stop may find a newer record than it marked.

*Graphs.* Three nodes in two editor orders (the others differ by names) with
every wiring of a required and an optional port, cycles included; and two nodes
under every combination of port requirements, schemas and boundary contracts.

*Modules.* Four calls of one instance, one slot with two handles, one stray
line: enough for register, restore and reuse in one behaviour.

*Pipeline.* Two roots with two fields, two cycles (the first without `last`), 1 440
designs of which many are refused, five lists of temporary Modules: among them an empty one,
two that write the same key, two that read what the other writes, and a cycle
of dependencies. The proofs lift the number of roots, fields, designs, Modules
and cycles.

*Recovery.* Three samples, so that two shards can both be wrong and one id can
collide across them; one fault or crash, one change of the archive, two
requests of which one recovers.

Deadlock is checked where the system always has a step (`jobs`, `archive`,
`mining`, `pipeline`). The other instances end when their bounded threads,
calls or Graphs have ended.

### Fairness

*Jobs.* Weak fairness of each handler thread, pool thread and Runtime with its
subreaper (the operating system runs them; a Backtest ends; a signalled
subreaper kills until no child is left), of the shutdown once requested, and of
the startup (somebody starts the Engine again). There is none for `Submit`,
`RequestStop` or `Crash`: nothing makes a client submit or an operator stop.
Weak fairness suffices because a thread's step, once possible, stays possible
until it is taken. Liveness is promised only while no call fails (see the
observations), which the properties say.

*Archive.* Weak fairness of each call's step and of `Restart`; none for `Begin`.

*Mining.* Weak fairness of each worker's step and of its page fetch (the HTTP
client has a timeout), of `StartWorker` (the supervisor restarts workers) and of
time (`BecomeDue`, `LeaseExpires`). None for API calls, deaths and failures.

*Dataset Builds.* Weak fairness of each Job's step (threads run, a Script ends by
its timeout) and of `Start` and `FinishStart`.

## 4. Proofs

`tlapm` proves all obligations of the eight proof modules, for all values of the
constants that satisfy the assumptions named in each section. No theorem
assumes a bound on Jobs, threads, calls, samples, shards, nodes, DataKeys, cycles,
crashes or faults: the bounds are arbitrary naturals, and the sets of Jobs,
handlers, workers, Graphs or designs are arbitrary (finite where a property counts them).
Each safety property that a passing run checks is stated by a theorem.

Each component follows the same pattern. The property that matters is not
inductive; its module ends with an `IndInv` (`SubmissionIndInv`, `GraphIndInv`,
`PipelineInv`), a conjunction of named parts that says what the code relies on,
and TLC has checked it on the instance of the component's run. The proof module
has one lemma per action or group of actions, the theorem `Inductive`
(`SubmissionInductive`, `SessionInductive`, `GraphInductive`, `PipelineInductive`:
`Spec => []IndInv`), and the properties as corollaries. Where a property speaks of a step (`[][...]_vars`), the theorem adds
the argument for that step.

| Theorem | Property of a run |
|---|---|
| `TerminalIsQuiescent`, `WritersAreRegistered`, `CompletionIsBacked`, `SealedJobsComplete`, `Refinement` | `QuiescentWhenTerminal`, `EveryWriterIsRegistered`, `CompletedHasResult`, `SealedFailsOnlyInShutdown`, `LifecycleSpec` |
| `IndexIsBacked`, `HistoryIsComplete`, `NoDoublePublication`, `AnswersAreTrue`, `SuccessIsClean` | `IndexedIsArchived`, `HistoryIsGapFree`, `NoRepeatInARow`, `AnswerIsTrue`, `SuccessLeavesNoLeftover` (under the lock) |
| `TokensAreOneShot`, `LateIsRefused` | `TokenIsOneShot`, `ArchivedIsRefused` |
| `FrozenBinds`, `OneCycleIsRead`, `NothingStarves`, `RecordedIsDeclared` | `FrozenCompositionBinds`, `StagesReadOneCycle`, `ComposedNeverStarves`, `ResultIsAsDeclared` |
| `GraphCompiledNeverStarves`, `GraphPortsAdmitWhatTheyGet`, `GraphCompiledIsSealed` | `CompiledNeverStarves`, `PortsAdmitWhatTheyGet`, `CompiledIsSealed` |
| `ServersHaveAuthority`, `GuardedIsQuiet`, `ShutdownHolds` | `EveryServerHasItsAuthority`, `GuardedWorkspaceIsQuiet`, `ShutdownIsFinal` |
| `CompletedMeansIndexed`, `WritersOwnTheirScratch`, `IndexedVersionsAreSealed` | `CompletedHasVersion`, `WriterOwnsScratch`, `IndexedIsSealed` (under `DisjointWrites`) |
| `CheckpointsHaveEvidence`, `RequestsAreKept` | `EvidenceIsComplete`, `NoRequestIsLost` |
| `AnswersAreTheirOwn`, `ReusedIsCurrent`, `ClosesAreHonest` | `AnswerIsItsOwn`, `ReuseIsCurrent`, `CloseIsHonest` |
| `PublishedResultsAreComplete`, `ReleasesAreQuiet`, `VerdictsAreSequential`, `RecoveredResultsAreSound` | `PublishedIsComplete`, `ReleaseAfterQuiet`, `VerdictIsSequential`, `RecoveredIsSound` |

### BacktestJobsProofs

Assumptions: `JobsAssumption` (finitely many Jobs), `BoundsAssumption`.
`Inductive` proves `Spec => []IndInv`; `Typing`, `TerminalIsQuiescent`,
`WritersAreRegistered`, `CompletionIsBacked` follow from it, and `Refinement`
proves `Spec => LifecycleSpec` with its help. Three more properties are proved
and not repeated in a run: `ScratchIsSafe` (no scratch directory is removed
under a writer), `CatalogIsSafe` (catalog rows are backed by sealed Results that
nobody writes), `ReleaseIsSafe` (after an orderly exit no writer is left).

The properties are not inductive: `QuiescentWhenTerminal` in itself allows a
running row without a session whose writer is alive, and the next step of its
thread would make the row final. `IndInv` adds what the code relies on
without saying so:

- `MemoryAgrees`: an exited Engine has no session, a starting one no writer
  (this is where the lease enters), and after the pool is joined no thread can
  launch;
- `NothingBeforeRunning`: a row that never ran has no process and no Result;
- `ThreadAgrees`: what a thread has established at each label;
- `WriterAgrees`: a writer belongs to a running row with a scratch directory
  and, while the Engine lives, a session;
- `SessionAgrees`: a session belongs to a running row whose thread has not gone
  on to settle it.

The proof has one step per action. Refinement maps `writing` to the Jobs whose
subreaper has not exited and `indexed` to the catalog; every action is shown to
be one abstract action or a stutter.

`SealedJobsComplete` needs a second invariant, `SealedInv`, on top of `IndInv`: as
long as no call failed, a thread that is about to fail a Job with a sealed Result
was refused its verification by a shutdown, and the startup's scan adopts every
sealed Job it has seen before it fails the first row. A handler that refuses a
Job refuses one that never ran.

### VersionArchiveProofs

Assumptions: `RequestsAssumption` (finitely many calls, none equal to the markers
`none` and `broken`), `DraftsAssumption`, `LimitsAssumption`.
`LockedInvariant` proves `Spec => [](locked => IndInv)`, and `IndexIsBacked`,
`HistoryIsComplete`, `NoDoublePublication`, `AnswersAreTrue` and `SuccessIsClean`
follow. `RowsAreFinal` proves that a version row is never rewritten or removed,
with or without the lock.

`IndexedIsArchived` is not inductive: a call about to discard must be known not
to discard an indexed directory. `AttemptInv` says for each label how far the
call's `records` agree with the index, whether its version is free or holds its
pending record, and that a new record differs from the latest version;
`ArchiveInv` that only one call works at a time and that neighbouring
directories differ in content. The last point is what makes `NoRepeatInARow`
survive a crash between rename and commit: the leftover was compared with its
predecessor before it was sealed.

### FrozenBacktestProofs

*The token.* Assumption: `NumbersAssumption`. `TokenIsOneShot` says nothing of tokens still in
the store, so a second handler could take one that a Job already has. `StoreInv`
closes this: a token is in the store, with one handler, or in one Job, and
wherever it is, it is what was issued under its number; `HandlerInv` carries
session, request and the lifetime from `Consume` to `Insert`. `LateInv` uses that
nothing takes an archiving back: the admission check after the arrival of a
late request therefore sees it. The Build cache takes no part in the argument,
which shows that neither property depends on it; its capacity
(`CacheTypeOK`) and with it `SubmissionTypeOK` are left to TLC.

*The composition.* Assumptions: `KeysAssumption`, `DesignsAssumption`,
`TemporariesAssumption`, `CyclesAssumption`. `FrozenInv` says for each step of the
composition which contracts of the plan have already the value that a binding
of the same design computes, and that a chain of direct Modules has come as far as its
position. `FrozenBinds` follows: when an accepted composition is bound again, no
step finds something other than what was frozen.

*The data.* `PipelineInv` adds

- `HeapInv`: what a stage holds are live cells of the heap;
- `StagesReadOneCycle`: the stages of a cycle read one sample and one `last`, however
  much is written in between;
- `FitInv`: the data of a stage has all the roots and fields that its contract
  guarantees, and each value fits its schema; `last` fits what the Pipeline leaves; the
  recorded cycle fits what the Result declares.

The proof rests on one lemma per idea:

- `ApplySound`: if the data fits a contract and a write of the declared schema takes
  place (or is optional and does not), the new data fits the new contract. This
  is where the union with "created by this write" is needed: a field written to
  an optional root may find no root. `ApplyAllAccepted`, `OutputsSound` and
  `ExecuteSound` lift it to a list of writes, by induction on its length, to a
  Graph and to a Module;
- `WriteSound`: a write makes new cells and changes none, so all other owners of
  a Data Dict keep what they have;
- `ProjectionSound`: the whitelist copies what it takes into cells that it made, so that
  the deletions of the blacklist in place change nothing shared. The result has
  the selected shapes that the contract was restricted to;
- `LastSound`: a stage gets from `last` the keys it reads, one by one, and each
  served value fits the contract at its key. The restricted values taken as whole
  roots need not fit the contract, since required fields may be left out; they are
  only ever read key by key. A `last` that lacks a key can be refused by the
  entry proof, which is the second finding of section 5: `failure` may be
  `"entry"`, and the theorem is that it is nothing else;
- `ReorderedFits`, `TemporariesForm`: the layers of `compile_temporary_module_plan`
  order Modules of the reader's list, and the state they are compiled against is the
  end of their chain of contracts, so that `DirectSound` applies to a reader's
  Modules as it does to the Pipeline's own.

An attempt without `ContractState` for a Sampler failed: what a Sampler declares
has to be a well-formed state (the code validates it before it composes), and
`SamplerFits` now says so.

### JupyterWorkspacesProofs

Assumptions: `Bounds`, `ThreadsAreDistinct`, `NobodyIsNoThread`. The three properties
are about `live`, and what may become live depends on where threads stand.
`StarterInv`: a record has one starter, it stays in the table until its spawn
is over, and no stop gets past its wait before that. `GuardInv`: one guard is
inside, and while it is, the record its stop marked is the only one there can be.
`ShutdownInv`: after the registry is closed, what the stopper took is the last
session there is. The proof of `GuardedWorkspaceIsQuiet` is the interplay of the
first two: an opener that was admitted before the guard is exactly the starter
the guard waits for.

### DatasetBuildsProofs

Assumptions: `ConstantsAssumption`, `NoneAssumption` (the markers are no Job and no
content). `WriterInv` says where the handler of a running Script can be and that
an Engine that starts has no writer; `PublicationInv` that a publication has the
write lock and an unindexed content from `Move` to `Commit`.
`CompletedHasVersion` and `WriterOwnsScratch` hold for all Jobs. `IndexedIsSealed`
does not: `dataset_collision` shows two Jobs with equal output. The theorem
`IndexedVersionsAreSealed` therefore has the hypothesis `DisjointWrites`, and shows
that equal output is the only way: with it, cleanups, failures and
crashes in any order leave every indexed directory sealed (`SealInv`).

### MiningJobsProofs

Assumptions: `SetsAssumption`, `NumbersAssumption`, `NoneAssumption`. `RequestInv`
extends `EvidenceIsComplete` to the position a worker is fetching: everything before
it has a page, whoever committed it and whoever owns the lease now. This is why
a worker that lost its lease does no harm. `LockInv` and `FilesInv` are
the file lock: between the scan for orphans and their removal nothing is
committed. `IndInv` contains the typing of rows without `line` (`RowTypeOK`),
since the order of due jobs takes no part.

`RequestsAreKept` is about steps. Every method that touches a leased job first
looks for a row with its job and owner (`Has`); `LeaseInv`, the theorem
`ActiveJobsHaveOwners`, says that a job is active exactly as long as somebody owns
it. What remains is one lemma per method: a worker without the lease changes nothing of the row,
and one that has it, or the recovery that takes it, gives the row the status
that the pause flag or the queued refill calls for.

### ModuleProofs

*One Module.* Assumptions: `Constants`, `Bounds`. `PipeInv`: the call in progress is the newest
request, a line on the pipe answers the request whose id it carries, and an
answer to the newest request means that all requests were served, so it was
computed in the current era. With it, stray and late lines cannot be accepted
for another call. `EpochInv` is the same for handles: whatever has the current
epoch was made in the current era. `TreeInv` ties exit codes to the close hook.

*One Graph.* Assumption: `GraphsAssumption` (Graphs are normalized, as
`compile_module_graph` makes them; the marker for a missing value is no value).
`LayersOfTheRest` proves by induction on the set of nodes not yet ordered that the
topology is made of layers, each of which needs only earlier ones;
`TopologyIsAnOrder` that a Graph that compiles has each node in it once and after its
producers; and `TopologyVerifies` that the compiler's order passes the check the semantic
proof makes of it, whence `GraphCompiledIsSealed`. `GraphIndInv` has
`PlanInv` (the compiled order does not change), `InvokersInv` (who has been constructed)
and `CycleInv`: a wire carries nothing without a producer, what its producer guarantees
is there once the producer has run, and a value of unknown schema that was
proved at the entry fits every edge. A required port therefore finds its value
(`GraphCompiledNeverStarves`), and no Module is given what its port does not
admit (`GraphPortsAdmitWhatTheyGet`).

### ResultRecoveryProofs

Assumptions: `RunAssumption`, `RecoveryAssumption`. `RunInv` is the invariant of the
run: frames have distinct ids and are in order (`FramesInv`); what is in
memory and in the file are the frames so far, all but the last within a cycle
(`WrittenInv`); at the end the worker is gone and the Sampler was read to its end
(`EndInv`). `PublishedIsComplete` follows at `Publish`. All steps of a recovery
change `entries` only in certain ways (`Evolves`: an outcome or a session may end,
a scratch directory goes only after it), so most lemmas prove that and cite the
rest.

`VerdictIsSequential` is about the merge of the shards. `Partition`: the shards
are disjoint ranges in order that cover all lines. `VerifyInv`: while the archive
is unchanged, each outcome is what the verifier's range holds now. From these
the proof shows that the lines before the first bad shard are right, that
a duplicate across the ledgers of accepted shards is the first repeated id of
the whole file, and that the comparison in `_raise_earliest_cycle_domain_error`
therefore picks the line a sequential reader stops at. `RecoveredIsSound` needs
`AcceptInv`: evidence that was accepted is sound in itself, and describes the file
as long as the identity is the same, which the receipt checks.
`ReleaseAfterQuiet` needs `SessionInv` (a live worker has a session, a released
entry none), `SnapInv` and `FreshInv` (a shutdown touches only workers that were
started). The attempt to prove it for any number of requests showed that the
destination belongs to the entry of its projection: two projections in
succession have two.

### Only model-checked

- All liveness (`QueuedIsServed`, `StoppedIsSettled`, `EveryAttemptEnds`,
  `PauseIsHonoured`, `RefillIsServed`, `InterruptedIsDecided`): fairness and `ENABLED`
  are outside the prover's reach.
- The unlocked instance of `HistoryIsGapFree`, `NoRepeatInARow` and `AnswerIsTrue`.
- Of the type invariants the parts that come from `SelectSeq`: the capacity of the
  Build cache and the order of due jobs.

Recursive data needs a word. The library's induction theorems take an operator as a
parameter and cannot be used here. `SetInduction` and `BoundedInduction`, which are
proved once from the well-foundedness of `<` on the naturals, take a set instead:
a set that has 0, and `n + 1` with `n`, has every natural.
Every fold of the models is a function
`upto[i \in 0 .. n]` in a `LET`; a lemma `...Unfolds` proves that it exists and
obeys its equation, and the lemmas that follow use the equation with
`BoundedInduction`.

## 5. Where code and its own statements disagree

1. **Two Builds of one content** (`dataset_collision`). A second publication of
   the same content removes the empty parent directory the first made, so that
   the first's rename fails; before the first cleans up, the second creates,
   fills and verifies the directory, the first's cleanup sees no index row and
   removes it, and the second commits an indexed, completed Version without a
   directory. `discard_archive` is documented to remove "an uncommitted archive
   after its state transaction failed" (`archive/version.py:522`); here it
   removes another transaction's. Needs two Jobs with equal output to the same
   Dataset at the same time, nothing else.
2. **Optional `last` values** (`optional_last`). `cycle_input_contract_state`
   (`contracts/graph_cycle.py:65`) passes every `last` contract on as required
   once `last` exists. A Graph that reads two `last` keys, one of them an
   optional Pipeline output that the first cycle left out, is refused by the
   entry proof at the second cycle, although the composition was accepted.
   `contract_path_required` promises the opposite
   (`contracts/contract_expansion.py:513`).

## 6. Observations

Behaviour found while modelling. None of it is the subject of a run of its own.

Job service and stop:

- `docs/architecture.md:303-305` says that handlers are joined before the sessions
  are cleared; `engine_service.py:2224-2256` clears the sessions first. No safety
  property depends on it: a late `submit` is refused by the closed executor and
  fails its own row;
- the stop ends the Result runtimes first, so a Result sealed but not yet
  indexed at that moment is recorded as failed;
- a retained Job stays `running` until the Engine stops, even when its process
  ends a moment later;
- an error after the INSERT of a row (reading it back) leaves a `queued` row no
  thread will take until the next stop or start;
- a transient evidence error in the settle loop of the stop fails a Job whose
  Result is sealed;
- an executor that cannot start a thread raises but keeps the work item; the
  row is failed, and the later execution of the item stops at `mark_running`;
- the scratch directory of a Job whose Engine crashed is not removed by the
  recovery.

Archive transaction:

- two unlocked Recipe saves may pass the existence checks for one version; the
  loser's `publish_staging_directory` raises and the `except` clause of
  `seal_directory` (`archive/version.py:510-511`) removes the directory that the
  index now names. Locked callers are not affected (`IndexIsBacked`);
- a removal in `discard_archive` that is cut short leaves a directory that does
  not verify (`archive/version.py:560`); every later call then raises in the
  recovery loop, although `version_transaction.py:199-202` says that a retry
  cannot be permanently blocked.

Prepared submissions:

- a preparation that hits the Build cache answers "valid" for a Dataset that has
  been archived since; the admission check refuses the token later;
- `archive_dataset` does not take the control-state lock, so a Dataset may be
  archived between the admission check and the insert.

Mining:

- `block_job` leaves `pause_requested` set: a later run-now or refill gives a
  `queued` row that is not claimed until somebody resumes it;
- with an overlap of at least pages-per-run times page size the cursor never
  advances;
- `block_job` fails leased refills without asking who owns them, and
  `resume_job` takes the lease of an active job;
- a pause at a page boundary, or a resume of an active job, leaves the refill
  `leased` to nobody (`mining/store.py:963`, `:537`), against the comment at
  `:968`; this is why `RefillIsServed` excludes API calls;
- a gap stays `backfill_queued` after a refill that found no data.

Dataset Builds:

- a crash between the rename of a Version directory and the chmod of its root
  leaves a directory whose permissions do not verify: recovery fails the Build,
  and the directory blocks the same content for later Builds. A crash after the
  seal is recovered as the comment of `reconcile_interrupted_builds` says;
- a sealed directory without rows also remains when the cleanup cannot read the
  database, with the same effect on other Jobs;
- a Build whose mark-failed did not go through may be published at the next start.

Workspaces:

- a Jupyter stop is by key, so a late stop may end the server of a newer record;
- a stop that marks a new record before its opener has read the state again
  (`service/jupyter_workspaces.py:292`) leaves the record `stopping`: the opener
  takes the health path, nobody sets the event of its spawn, and every later opener and stop of that
  Workspace waits for it and times out until the Engine restarts;
- a failed deletion of a Dataset Workspace leaves its row `deleting`, yet it can
  be opened;
- `_open_edit_workspace` of the Module Workspaces runs without a lock and is not
  cleaned up when it fails.

Graphs, contracts, Modules:

- `compose_backtest_plans` speaks of a unique fixed point; what it finds is the
  one its iteration reaches from below;
- `compile_temporary_module_plan` orders "by declared DataKey dependencies, not
  UI order"; writers of overlapping keys do run in UI order;
- a response that fails validation does not abort the process adapter, so one
  stray line makes every later call of the instance fail, close included;
- the restore of a Graph is node by node: a failure leaves earlier nodes restored.

Runtime and Results:

- the script Sampler's `_iterate` drops its transport before a termination that
  may fail, so nothing retries it; when a limit closes the iterator a failing
  termination is swallowed, and the run goes on while the script may live until the subreaper ends it;
- an exception other than `OSError` after the rename in `finish` reports failure
  while the Result stays published;
- `commit_recovered_result_catalog` inserts the row before
  `require_recovered_result_commit` compares identities: a changed archive is
  reported but its row stays;
- a shutdown may remove a projection's destination between the handler's check
  and its answer, and a killed projection worker leaves `<destination>.tmp`.

## 7. What is not modelled, and the plan

Left out:

- the content of mining records, their revisions, gap rows and derived Datasets;
- editing of Drafts, Workspaces' files and folders (files behind one lock), and
  listing, renaming and archiving of Backtests (single statements);
- full JSON Schema and the normalisation of documents: schemas are sets of
  shapes or values, which is what compatibility and the contract states tell
  apart;
- slices of a Result without temporary Modules: they read in the Engine's own
  process with the reader that the projection uses;
- appending publications of `dataset_transfer.py` and of the adapters;
- authentication and Agent grants (short sequential tables), HTTP dispatch and path
  checks, sandbox command lines, resource limits;
- numeric strategy code, browser pages, and the Agent web application, a
  separate TypeScript product.

What a continuation would take up:

1. `SubmissionTypeOK` in full and the order of due jobs in `MiningJobs`, which need
   lemmas on `SelectSeq` that the library does not have;
2. values of more than one level of fields in `BacktestPipeline`;
3. the gap rows and revisions of mining, which `EvidenceIsComplete` does not speak of.

Liveness stays with TLC.
