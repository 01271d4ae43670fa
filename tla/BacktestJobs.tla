---------------------------- MODULE BacktestJobs ----------------------------
(***************************************************************************)
(* The persistent Backtest Job service of TradeEngine: the HTTP threads    *)
(* that submit Jobs, the bounded thread pool that executes them, the       *)
(* disposable Runtime process of each Job under its outer subreaper, the   *)
(* process-session registry, the durable Job rows, Result archives and     *)
(* Result catalog, the Engine's orderly shutdown, its crash, and the       *)
(* recovery that the next Engine runs before it serves.                    *)
(*                                                                         *)
(* Sources: engine/jobs/manager.py, engine/jobs/repository.py,             *)
(* engine/worker/backtest_supervisor.py, engine/runtime/process_session.py,*)
(* engine/control/owner.py, engine_service.py.                             *)
(*                                                                         *)
(* One element of Jobs is one job_id together with its backtest_id, its    *)
(* execution root and its session key: the code mints all of them fresh    *)
(* for a submission and never reuses one.                                  *)
(***************************************************************************)
EXTENDS Naturals, Sequences, FiniteSets

CONSTANTS
    Jobs,           \* identities that submissions may mint
    MaxWorkers,     \* BacktestJobManager.max_workers
    MaxCrashes,     \* bound: abrupt Engine exits in one behaviour
    MaxFaults       \* bound: failing database, filesystem or spawn calls

ASSUME JobsAssumption == IsFiniteSet(Jobs)
ASSUME BoundsAssumption ==
    /\ MaxWorkers \in Nat \ {0}
    /\ MaxCrashes \in Nat
    /\ MaxFaults \in Nat

VARIABLES
    \* durable: the backtest_jobs rows, the archives, the catalog, scratch
    status,     \* backtest_jobs.status, "absent" before the INSERT
    phase,      \* backtest_jobs.phase
    result,     \* _backtests/<id>: "none", writer "staging", or "sealed"
    catalog,    \* with rows in backtests and backtest_result_metadata
    scratch,    \* with a directory backtest-runs/<job>
    \* processes, which outlive the Engine
    outer,      \* the outer subreaper: see OuterStates
    \* volatile Engine memory
    engine,     \* where the Engine's main thread is: see EngineStates
    pc,         \* where the thread that works for a Job is: see Pcs
    queue,      \* the executor's work queue
    sessions,   \* execution roots with a session in the registry
    retained,   \* _retained_execution_roots
    todo,       \* items the main thread's current loop has still to visit
    firstError, \* first_error of shutdown(): "none" or "raised"
    \* bounds
    crashes, faults

durable  == <<status, phase, result, catalog, scratch>>
memory   == <<engine, pc, queue, sessions, retained, todo, firstError>>
bounds   == <<crashes, faults>>
vars     == <<durable, outer, memory, bounds>>

-----------------------------------------------------------------------------

ActiveStatuses   == {"queued", "running"}
TerminalStatuses == {"completed", "failed"}
Statuses         == {"absent"} \cup ActiveStatuses \cup TerminalStatuses
Phases == {"none", "queued", "preparing", "running", "completed",
           "failed", "interrupted"}

(* "live": the subreaper and its writer tree run.  "term": a SIGTERM has   *)
(* reached the subreaper, whose tree may still write until the kernel      *)
(* proves it has no child.  "ok" and "error": exited, with that code.      *)
OuterStates == {"none", "live", "term", "ok", "error"}

MayWrite(j) == outer[j] \in {"live", "term"}

(* "released": a serving Engine shut down in order and closed the owner    *)
(* lease; "down": every other exit, an aborted startup included; "drain":  *)
(* the accept loop and the Result runtimes have been stopped, but not yet  *)
(* the Job manager.                                                        *)
BootStates == {"reconcile", "scan"}
StopStates == {"cancel", "join", "reap", "settle", "close"}
EngineStates ==
    {"down", "released", "up", "drain"} \cup BootStates \cup StopStates

Stopping == engine \in StopStates       \* _stopping.is_set()
ExecutorOpen == engine \in {"up", "drain", "cancel"}
Exited   == engine \in {"down", "released"}

(* Positions of the HTTP thread inside submit(), ...                       *)
SubmitPcs == {"admitted", "inserted"}
(* ... of a pool thread inside _execute(), ...                             *)
PoolPcs == {"start", "launch", "poll", "terminate", "await", "collect",
            "markCompleted", "except", "recoverCompleted", "fail", "finally"}
(* ... and of the main thread's work on one Job in shutdown or startup.    *)
MainPcs == {"settleCompleted", "settleFailed", "adoptCompleted"}
Pcs == {"idle", "pooled", "done"} \cup SubmitPcs \cup PoolPcs \cup MainPcs

Busy == {j \in Jobs : pc[j] \in PoolPcs}

TypeOK ==
    /\ status \in [Jobs -> Statuses]
    /\ phase \in [Jobs -> Phases]
    /\ result \in [Jobs -> {"none", "staging", "sealed"}]
    /\ catalog \in SUBSET Jobs
    /\ scratch \in SUBSET Jobs
    /\ outer \in [Jobs -> OuterStates]
    /\ engine \in EngineStates
    /\ pc \in [Jobs -> Pcs]
    /\ queue \in Seq(Jobs)
    /\ sessions \in SUBSET Jobs
    /\ retained \in SUBSET Jobs
    /\ todo \in SUBSET Jobs
    /\ firstError \in {"none", "raised"}
    /\ crashes \in 0..MaxCrashes
    /\ faults \in 0..MaxFaults

(* An empty control root and no Engine process.                            *)
Init ==
    /\ status = [j \in Jobs |-> "absent"]
    /\ phase = [j \in Jobs |-> "none"]
    /\ result = [j \in Jobs |-> "none"]
    /\ catalog = {}
    /\ scratch = {}
    /\ outer = [j \in Jobs |-> "none"]
    /\ engine = "down"
    /\ pc = [j \in Jobs |-> "idle"]
    /\ queue = <<>>
    /\ sessions = {}
    /\ retained = {}
    /\ todo = {}
    /\ firstError = "none"
    /\ crashes = 0
    /\ faults = 0

Goto(j, label) == pc' = [pc EXCEPT ![j] = label]

(* A call that may fail either works, or raises and uses up one fault.  A  *)
(* raise leaves its transaction undone, or comes after the commit: in the  *)
(* acknowledgement, or in the row read back for the event that follows.    *)
Works == faults' = faults
Raises == faults < MaxFaults /\ faults' = faults + 1

-----------------------------------------------------------------------------
(* The SQL of BacktestJobRepository: each is one transaction.              *)

InsertRow(j) ==
    /\ status' = [status EXCEPT ![j] = "queued"]
    /\ phase' = [phase EXCEPT ![j] = "queued"]

MarkRunningRow(j) ==
    /\ status[j] = "queued"
    /\ status' = [status EXCEPT ![j] = "running"]
    /\ phase' = [phase EXCEPT ![j] = "preparing"]

RecordProgressRow(j, p) ==
    /\ status[j] = "running"
    /\ phase' = [phase EXCEPT ![j] = p]

(* A completed row is left alone; any other non-running row raises.        *)
MarkCompletedRow(j) ==
    /\ status[j] \in {"running", "completed"}
    /\ status' = [status EXCEPT ![j] = "completed"]
    /\ phase' = [phase EXCEPT ![j] = "completed"]

(* fail_active, interrupt_active and interrupt_queued are one UPDATE whose *)
(* WHERE clause selects rows by status.                                    *)
FailRows(selected, p) ==
    /\ status' = [j \in Jobs |-> IF j \in selected THEN "failed" ELSE status[j]]
    /\ phase' = [j \in Jobs |-> IF j \in selected THEN p ELSE phase[j]]

InStatus(s) == {j \in Jobs : status[j] = s}

(* Mutants: the WHERE clause matches too few rows, or too many.            *)
ActiveQueuedOnly == InStatus("queued")
ActiveAnyRow == {j \in Jobs : status[j] # "absent"}

Active == {j \in Jobs : status[j] \in ActiveStatuses}

(***************************************************************************)
(* _completed_evidence: completion evidence exists only for an active Job  *)
(* whose Result is sealed; finding it verifies an unindexed Result in      *)
(* Result runtimes and commits its catalog row.  The rows it reads belong  *)
(* to the one thread that runs it, so it is one step.  A raise may come    *)
(* before or after the catalog transaction is durable.                     *)
(***************************************************************************)
(* Mutants: a staging directory counts, or recovery is left out.           *)
HasEvidenceStaged(j) ==
    status[j] \in ActiveStatuses /\ (j \in catalog \/ result[j] # "none")
HasEvidenceIndexed(j) == status[j] \in ActiveStatuses /\ j \in catalog

HasEvidence(j) ==
    status[j] \in ActiveStatuses /\ (j \in catalog \/ result[j] = "sealed")

(* The first thing an orderly shutdown does is to stop the Result runtimes,*)
(* and from then on none can be started.                                   *)
VerificationRefused == engine = "drain" \/ Stopping

Evidence(j, verdict) ==
    \/ /\ verdict = "some"
       /\ HasEvidence(j) /\ (j \in catalog \/ ~VerificationRefused)
       /\ catalog' = catalog \cup {j}
       /\ Works
    \/ /\ verdict = "raise"
       /\ HasEvidence(j) /\ j \notin catalog /\ VerificationRefused
       /\ Works
       /\ UNCHANGED catalog
    \/ /\ verdict = "none"
       /\ ~HasEvidence(j)
       /\ Works
       /\ UNCHANGED catalog
    \/ /\ verdict = "raise"
       /\ Raises
       /\ \/ UNCHANGED catalog
          \/ HasEvidence(j) /\ catalog' = catalog \cup {j}

-----------------------------------------------------------------------------
(* The process-session registry and the owner lease.                       *)

(* runtime_process_authority: a session with this execution root exists.   *)
ProcessAuthority(j) == j \in sessions

(* Mutant: a timed-out termination drops the session.                      *)
StopSessionAnyway(j) == sessions' = sessions \ {j}

(* terminate, close, pop: the session is released only once the subreaper  *)
(* has exited, and stays registered when the grace period runs out.        *)
StopSession(j) == sessions' = IF MayWrite(j) THEN sessions ELSE sessions \ {j}

(* The lock file stays locked while any process holds the descriptor of    *)
(* the lease, which the registry passes to every outer subreaper.          *)
LeaseHeldBySubreaper == \E j \in Jobs : MayWrite(j)

(* release_proven: nothing raised and the registry is empty.               *)
ReleaseProven == firstError = "none" /\ sessions = {}

-----------------------------------------------------------------------------
(* submit(), on an HTTP handler thread.                                    *)

(* The stop check, then freezing or consuming a prepared submission.       *)
Submit(j) ==
    /\ engine \in {"up", "drain"}
    /\ pc[j] = "idle" /\ status[j] = "absent"
    /\ Goto(j, "admitted")
    /\ UNCHANGED <<durable, outer, engine, queue, sessions, retained, todo,
                   firstError, bounds>>

(* An error after the INSERT leaves a queued row that no thread owns.      *)
SubmitInsert(j) ==
    /\ pc[j] = "admitted"
    /\ \/ Works /\ InsertRow(j) /\ Goto(j, "inserted")
       \/ Raises /\ InsertRow(j) /\ Goto(j, "done")
       \/ Raises /\ Goto(j, "idle") /\ UNCHANGED <<status, phase>>
    /\ UNCHANGED <<result, catalog, scratch, outer, engine, queue, sessions,
                   retained, todo, firstError, crashes>>

Refuse(j) == FailRows({j} \cap Active, "failed")

(* The executor refuses work once its shutdown began; submit() then fails  *)
(* the row it has just inserted.  An executor that cannot start a thread   *)
(* also raises, and yet keeps the work item in its queue.                  *)
SubmitToExecutor(j) ==
    /\ pc[j] = "inserted"
    /\ \/ /\ ExecutorOpen
          /\ Works
          /\ Goto(j, "pooled")
          /\ queue' = Append(queue, j)
          /\ UNCHANGED <<status, phase>>
       \/ /\ ExecutorOpen
          /\ Raises
          /\ Goto(j, "pooled")
          /\ queue' = Append(queue, j)
          /\ Refuse(j)
       \/ /\ ~ExecutorOpen
          /\ Goto(j, "done")
          /\ \/ Works /\ Refuse(j)
             \/ Raises /\ UNCHANGED <<status, phase>>
          /\ UNCHANGED queue
    /\ UNCHANGED <<result, catalog, scratch, outer, engine, sessions,
                   retained, todo, firstError, crashes>>

-----------------------------------------------------------------------------
(* _execute(), on a pool thread.                                           *)

PoolFull == Cardinality(Busy) >= MaxWorkers

PoolTake(j) ==
    /\ ExecutorOpen
    /\ queue # <<>> /\ Head(queue) = j /\ pc[j] = "pooled"
    /\ ~PoolFull
    /\ Goto(j, "start")
    /\ queue' = Tail(queue)
    /\ UNCHANGED <<durable, outer, engine, sessions, retained, todo,
                   firstError, bounds>>

(* The stop check, mark_running, and the scratch directory.                *)
MarkRunning(j) ==
    /\ pc[j] = "start"
    /\ \/ /\ ~Stopping /\ Works
          /\ MarkRunningRow(j)
          /\ scratch' = scratch \cup {j}
          /\ Goto(j, "launch")
       \/ /\ ~Stopping /\ Raises
          /\ MarkRunningRow(j)
          /\ Goto(j, "except")
          /\ UNCHANGED scratch
       \/ /\ \/ (Stopping \/ status[j] # "queued") /\ Works
             \/ Raises
          /\ Goto(j, "except")
          /\ UNCHANGED <<status, phase, scratch>>
    /\ UNCHANGED <<result, catalog, outer, engine, queue, sessions, retained,
                   todo, firstError, crashes>>

(* registry.start registers the session before it forks.  A failed start   *)
(* releases it again unless the fork happened and is not proved gone.      *)
Launch(j) ==
    /\ pc[j] = "launch"
    /\ \/ /\ Works
          /\ Goto(j, "poll")
          /\ sessions' = sessions \cup {j}
          /\ outer' = [outer EXCEPT ![j] = "live"]
       \/ /\ Raises
          /\ Goto(j, "except")
          /\ UNCHANGED <<sessions, outer>>
       \/ /\ Raises
          /\ Goto(j, "terminate")
          /\ sessions' = sessions \cup {j}
          /\ outer' = [outer EXCEPT ![j] = "term"]
    /\ UNCHANGED <<durable, engine, queue, retained, todo, firstError,
                   crashes>>

(* One turn of the poll loop while the subreaper runs: a stop or an        *)
(* unreadable status document ends the loop with an error, a newer         *)
(* "running" document is recorded in the row.                              *)
PollRunning(j) ==
    /\ pc[j] = "poll" /\ MayWrite(j)
    /\ \/ /\ ((Stopping \/ status[j] # "running") /\ Works) \/ Raises
          /\ Goto(j, "terminate")
          /\ UNCHANGED phase
       \/ /\ ~Stopping /\ Works
          /\ RecordProgressRow(j, "running")
          /\ UNCHANGED pc
    /\ UNCHANGED <<status, result, catalog, scratch, outer, engine, queue,
                   sessions, retained, todo, firstError, crashes>>

(* The subreaper has exited: release the session, then judge its code and  *)
(* terminal status.  The final progress callback raises when stopping.  A  *)
(* failing release keeps the session registered.                           *)
PollExited(j) ==
    /\ pc[j] = "poll" /\ ~MayWrite(j)
    /\ \/ /\ outer[j] = "ok" /\ ~Stopping /\ Works
          /\ RecordProgressRow(j, "completed")
          /\ sessions' = sessions \ {j}
          /\ Goto(j, "collect")
       \/ /\ \/ (outer[j] # "ok" \/ Stopping \/ status[j] # "running") /\ Works
             \/ Raises
          /\ sessions' = sessions \ {j}
          /\ Goto(j, "except")
          /\ UNCHANGED phase
       \/ /\ Raises
          /\ Goto(j, "except")
          /\ UNCHANGED <<sessions, phase>>
    /\ UNCHANGED <<status, result, catalog, scratch, outer, engine, queue,
                   retained, todo, firstError, crashes>>

(* finish(terminate=True): SIGTERM to the subreaper, never SIGKILL (the    *)
(* signalling may fail), ...                                               *)
Terminate(j) ==
    /\ pc[j] = "terminate"
    /\ \/ Works /\ outer' = [outer EXCEPT ![j] = IF @ = "live" THEN "term" ELSE @]
       \/ Raises /\ UNCHANGED outer
    /\ Goto(j, "await")
    /\ UNCHANGED <<durable, engine, queue, sessions, retained, todo,
                   firstError, crashes>>

(* ... then the grace period.                                              *)
AwaitQuiescence(j) ==
    /\ pc[j] = "await"
    /\ \/ Works /\ StopSession(j)
       \/ Raises /\ UNCHANGED sessions
    /\ Goto(j, "except")
    /\ UNCHANGED <<durable, outer, engine, queue, retained, todo,
                   firstError, crashes>>

Collect(j) ==
    /\ pc[j] = "collect"
    /\ \/ Evidence(j, "some") /\ Goto(j, "markCompleted")
       \/ Evidence(j, "none") /\ Goto(j, "except")
       \/ Evidence(j, "raise") /\ Goto(j, "except")
    /\ UNCHANGED <<status, phase, result, scratch, outer, engine, queue,
                   sessions, retained, todo, firstError, crashes>>

MarkCompleted(j) ==
    /\ pc[j] = "markCompleted"
    /\ \/ Works /\ MarkCompletedRow(j) /\ Goto(j, "finally")
       \/ Raises /\ MarkCompletedRow(j) /\ Goto(j, "except")
       \/ /\ (status[j] \notin {"running", "completed"} /\ Works) \/ Raises
          /\ Goto(j, "except")
          /\ UNCHANGED <<status, phase>>
    /\ UNCHANGED <<result, catalog, scratch, outer, engine, queue, sessions,
                   retained, todo, firstError, crashes>>

(* Mutant: the except clause settles the Job whatever still runs.          *)
ExceptAtOnce(j) ==
    /\ pc[j] = "except"
    /\ \/ Evidence(j, "some") /\ Goto(j, "recoverCompleted")
       \/ Evidence(j, "none") /\ Goto(j, "fail")
       \/ Evidence(j, "raise") /\ Goto(j, "fail")
    /\ UNCHANGED <<status, phase, result, scratch, outer, engine, queue,
                   sessions, retained, todo, firstError, crashes>>

(* The except clause.  A registered session ends it at once: the Job may   *)
(* not become terminal while its process may still write.                  *)
Except(j) ==
    /\ pc[j] = "except"
    /\ \/ /\ ProcessAuthority(j) /\ Works
          /\ Goto(j, "finally")
          /\ UNCHANGED catalog
       \/ /\ ~ProcessAuthority(j)
          /\ \/ Evidence(j, "some") /\ Goto(j, "recoverCompleted")
             \/ Evidence(j, "none") /\ Goto(j, "fail")
             \/ Evidence(j, "raise") /\ Goto(j, "fail")
    /\ UNCHANGED <<status, phase, result, scratch, outer, engine, queue,
                   sessions, retained, todo, firstError, crashes>>

(* An error in either of these leaves the row as it is and the thread ends.*)
RecoverCompleted(j) ==
    /\ pc[j] = "recoverCompleted"
    /\ \/ Works /\ MarkCompletedRow(j)
       \/ /\ (status[j] \notin {"running", "completed"} /\ Works) \/ Raises
          /\ UNCHANGED <<status, phase>>
    /\ Goto(j, "finally")
    /\ UNCHANGED <<result, catalog, scratch, outer, engine, queue, sessions,
                   retained, todo, firstError, crashes>>

(* Mutant: the failure is not recorded.                                    *)
FailJobUnrecorded(j) ==
    /\ pc[j] = "fail"
    /\ Works
    /\ Goto(j, "finally")
    /\ UNCHANGED <<durable, outer, engine, queue, sessions, retained, todo,
                   firstError, crashes>>

FailJob(j) ==
    /\ pc[j] = "fail"
    /\ \/ /\ Works
          /\ FailRows({j} \cap Active, IF Stopping THEN "interrupted" ELSE "failed")
       \/ Raises /\ UNCHANGED <<status, phase>>
    /\ Goto(j, "finally")
    /\ UNCHANGED <<result, catalog, scratch, outer, engine, queue, sessions,
                   retained, todo, firstError, crashes>>

(* The finally clause keeps the scratch of a registered session.           *)
Finally(j) ==
    /\ pc[j] = "finally"
    /\ \/ ProcessAuthority(j) /\ retained' = retained \cup {j} /\ UNCHANGED scratch
       \/ /\ ~ProcessAuthority(j)
          /\ scratch' = scratch \ {j}
          /\ UNCHANGED retained
    /\ Goto(j, "done")
    /\ UNCHANGED <<status, phase, result, catalog, outer, engine, queue,
                   sessions, todo, firstError, bounds>>

-----------------------------------------------------------------------------
(* The Runtime process of a Job and its outer subreaper.                   *)

WorkerStage(j) ==
    /\ MayWrite(j) /\ result[j] = "none"
    /\ result' = [result EXCEPT ![j] = "staging"]
    /\ UNCHANGED <<status, phase, catalog, scratch, outer, memory, bounds>>

(* The manifest is in place; one rename publishes the sealed Result.       *)
WorkerPublish(j) ==
    /\ MayWrite(j) /\ result[j] = "staging"
    /\ result' = [result EXCEPT ![j] = "sealed"]
    /\ UNCHANGED <<status, phase, catalog, scratch, outer, memory, bounds>>

WorkerSucceed(j) ==
    /\ outer[j] = "live" /\ result[j] = "sealed"
    /\ outer' = [outer EXCEPT ![j] = "ok"]
    /\ UNCHANGED <<durable, memory, bounds>>

(* A failing worker discards its staging directory unless it died          *)
(* abruptly; a Result it had already published stays.                      *)
WorkerFail(j) ==
    /\ outer[j] = "live"
    /\ outer' = [outer EXCEPT ![j] = "error"]
    /\ \/ UNCHANGED result
       \/ result[j] = "staging" /\ result' = [result EXCEPT ![j] = "none"]
    /\ UNCHANGED <<status, phase, catalog, scratch, memory, bounds>>

(* The kernel has proved to a signalled subreaper that it has no child.    *)
OuterQuiesce(j) ==
    /\ outer[j] = "term"
    /\ outer' = [outer EXCEPT ![j] = "error"]
    /\ UNCHANGED <<durable, memory, bounds>>

(* Parent-death SIGTERM, or the subreaper's own look at its parent.        *)
OuterSeesParentDeath(j) ==
    /\ Exited /\ outer[j] = "live"
    /\ outer' = [outer EXCEPT ![j] = "term"]
    /\ UNCHANGED <<durable, memory, bounds>>

-----------------------------------------------------------------------------
(* Shutdown, on the Engine's main thread.                                  *)

(* server.shutdown() ends the accept loop and shutdown_result_runtimes()   *)
(* the verifiers.  Handler threads that have a request run on.             *)
RequestStop ==
    /\ engine = "up"
    /\ engine' = "drain"
    /\ UNCHANGED <<durable, outer, pc, queue, sessions, retained, todo,
                   firstError, bounds>>

(* manager.shutdown() sets _stopping.                                      *)
StopManager ==
    /\ engine = "drain"
    /\ engine' = "cancel"
    /\ UNCHANGED <<durable, outer, pc, queue, sessions, retained, todo,
                   firstError, bounds>>

(* executor.shutdown(wait=True, cancel_futures=True): drop what is queued, *)
CancelFutures ==
    /\ engine = "cancel"
    /\ engine' = "join"
    /\ queue' = <<>>
    /\ pc' = [j \in Jobs |-> IF pc[j] = "pooled" THEN "done" ELSE pc[j]]
    /\ UNCHANGED <<durable, outer, sessions, retained, todo, firstError,
                   bounds>>

(* then wait for the threads that run.                                     *)
JoinPool ==
    /\ engine = "join" /\ Busy = {}
    /\ engine' = "reap"
    /\ todo' = sessions
    /\ UNCHANGED <<durable, outer, pc, queue, sessions, retained,
                   firstError, bounds>>

(* shutdown_backtest_runtimes: registry.stop on every session left.        *)
ReapSignal(j) ==
    /\ engine = "reap" /\ j \in todo
    /\ outer[j] = "live"
    /\ outer' = [outer EXCEPT ![j] = "term"]
    /\ UNCHANGED <<durable, memory, bounds>>

(* stop() tries the termination twice and reports the first error even     *)
(* when the second attempt released the session.                           *)
ReapStop(j) ==
    /\ engine = "reap" /\ j \in todo
    /\ outer[j] # "live"
    /\ \/ /\ Works
          /\ StopSession(j)
          /\ firstError' \in IF MayWrite(j) THEN {"raised"}
                                            ELSE {firstError, "raised"}
       \/ Raises /\ firstError' = "raised" /\ UNCHANGED sessions
    /\ todo' = todo \ {j}
    /\ UNCHANGED <<durable, outer, engine, pc, queue, retained, crashes>>

ReapDone ==
    /\ engine = "reap" /\ todo = {}
    /\ engine' = "settle"
    /\ todo' = {j \in retained : ~ProcessAuthority(j)}
    /\ UNCHANGED <<durable, outer, pc, queue, sessions, retained,
                   firstError, bounds>>

(* The retained Jobs whose process is now proved gone become terminal.     *)
Settle(j) ==
    /\ engine = "settle" /\ j \in todo /\ pc[j] = "done"
    /\ \/ /\ Evidence(j, "some") /\ Goto(j, "settleCompleted")
          /\ UNCHANGED firstError
       \/ /\ Evidence(j, "none") /\ Goto(j, "settleFailed")
          /\ UNCHANGED firstError
       \/ /\ Evidence(j, "raise") /\ Goto(j, "settleFailed")
          /\ firstError' = "raised"
    /\ UNCHANGED <<status, phase, result, scratch, outer, engine, queue,
                   sessions, retained, todo, crashes>>

SettleRow(j) ==
    /\ engine = "settle" /\ pc[j] \in {"settleCompleted", "settleFailed"}
    /\ \/ /\ Works
          /\ \/ pc[j] = "settleCompleted" /\ MarkCompletedRow(j)
             \/ pc[j] = "settleFailed" /\ FailRows({j} \cap Active, "interrupted")
          /\ retained' = retained \ {j}
          /\ UNCHANGED firstError
       \/ /\ Raises
          /\ firstError' = "raised"
          /\ \/ UNCHANGED <<status, phase>>
             \/ pc[j] = "settleCompleted" /\ MarkCompletedRow(j)
             \/ pc[j] = "settleFailed" /\ FailRows({j} \cap Active, "interrupted")
          /\ UNCHANGED retained
    /\ scratch' = scratch \ {j}
    /\ todo' = todo \ {j}
    /\ Goto(j, "done")
    /\ UNCHANGED <<result, catalog, outer, engine, queue, sessions, crashes>>

InterruptQueued ==
    /\ engine = "settle" /\ todo = {}
    /\ engine' = "close"
    /\ \/ /\ Works
          /\ FailRows(InStatus("queued"), "interrupted")
          /\ UNCHANGED firstError
       \/ Raises /\ firstError' = "raised" /\ UNCHANGED <<status, phase>>
    /\ UNCHANGED <<result, catalog, scratch, outer, pc, queue, sessions,
                   retained, todo, crashes>>

(* What dies with the Engine process.                                      *)
LoseMemory ==
    /\ pc' = [j \in Jobs |-> "idle"]
    /\ queue' = <<>>
    /\ sessions' = {}
    /\ retained' = {}
    /\ todo' = {}
    /\ firstError' = "none"

(* server_close() joins the handler threads, then the owner lease is       *)
(* closed only when nothing failed and the registry is empty.              *)
Exit ==
    /\ engine = "close"
    /\ \A j \in Jobs : pc[j] \notin SubmitPcs
    /\ engine' = IF ReleaseProven THEN "released" ELSE "down"
    /\ LoseMemory
    /\ UNCHANGED <<durable, outer, bounds>>

Crash ==
    /\ ~Exited
    /\ crashes < MaxCrashes
    /\ crashes' = crashes + 1
    /\ engine' = "down"
    /\ LoseMemory
    /\ UNCHANGED <<durable, outer, faults>>

-----------------------------------------------------------------------------
(* Startup.  An error ends the new process; its operator may try again.    *)

BootAbort ==
    /\ Raises
    /\ engine' = "down"
    /\ LoseMemory
    /\ UNCHANGED <<status, phase, result>>

(* claim_control_owner fails while the lock is held.                       *)
ClaimOwner ==
    /\ Exited
    /\ ~LeaseHeldBySubreaper
    /\ engine' = "reconcile"
    /\ UNCHANGED <<durable, outer, pc, queue, sessions, retained, todo,
                   firstError, bounds>>

(* reconcile_result_staging, then active_references.                       *)
ReconcileStaging ==
    /\ engine = "reconcile"
    /\ \/ /\ Works
          /\ result' = [j \in Jobs |->
                           IF result[j] = "staging" THEN "none" ELSE result[j]]
          /\ engine' = "scan"
          /\ todo' = InStatus("running")
          /\ UNCHANGED <<status, phase, pc, queue, sessions, retained,
                         firstError>>
       \/ BootAbort
    /\ UNCHANGED <<catalog, scratch, outer, crashes>>

(* _fail_interrupted_jobs collects the evidence of every running Job ...   *)
Scan(j) ==
    /\ engine = "scan" /\ j \in todo
    /\ \/ /\ \/ Evidence(j, "some") /\ Goto(j, "adoptCompleted")
             \/ Evidence(j, "none") /\ UNCHANGED pc
          /\ todo' = todo \ {j}
          /\ UNCHANGED <<status, phase, result, engine, queue, sessions,
                         retained, firstError>>
       \/ Evidence(j, "raise") /\ BootAbort
    /\ UNCHANGED <<scratch, outer, crashes>>

(* ... before it writes the first row, ...                                 *)
Adopt(j) ==
    /\ engine = "scan" /\ todo = {} /\ pc[j] = "adoptCompleted"
    /\ \/ /\ Works
          /\ MarkCompletedRow(j)
          /\ Goto(j, "idle")
          /\ UNCHANGED <<result, engine, queue, sessions, retained, todo,
                         firstError>>
       \/ BootAbort
    /\ UNCHANGED <<catalog, scratch, outer, crashes>>

(* ... and fails what is still active.                                     *)
InterruptActive ==
    /\ engine = "scan" /\ todo = {}
    /\ \A j \in Jobs : pc[j] # "adoptCompleted"
    /\ \/ /\ Works
          /\ FailRows(Active, "interrupted")
          /\ engine' = "up"
          /\ UNCHANGED <<result, pc, queue, sessions, retained, todo,
                         firstError>>
       \/ BootAbort
    /\ UNCHANGED <<catalog, scratch, outer, crashes>>

-----------------------------------------------------------------------------

HandlerStep(j) == SubmitInsert(j) \/ SubmitToExecutor(j)

PoolStep(j) ==
    \/ PoolTake(j) \/ MarkRunning(j) \/ Launch(j)
    \/ PollRunning(j) \/ PollExited(j)
    \/ Terminate(j) \/ AwaitQuiescence(j)
    \/ Collect(j) \/ MarkCompleted(j)
    \/ Except(j) \/ RecoverCompleted(j) \/ FailJob(j) \/ Finally(j)

WorkerStep(j) ==
    \/ WorkerStage(j) \/ WorkerPublish(j) \/ WorkerSucceed(j) \/ WorkerFail(j)
    \/ OuterQuiesce(j) \/ OuterSeesParentDeath(j)

ShutdownStep ==
    \/ StopManager \/ CancelFutures \/ JoinPool \/ ReapDone \/ InterruptQueued \/ Exit
    \/ \E j \in Jobs : ReapSignal(j) \/ ReapStop(j) \/ Settle(j) \/ SettleRow(j)

StartupStep ==
    \/ ClaimOwner \/ ReconcileStaging \/ InterruptActive
    \/ \E j \in Jobs : Scan(j) \/ Adopt(j)

Next ==
    \/ \E j \in Jobs : Submit(j) \/ HandlerStep(j) \/ PoolStep(j) \/ WorkerStep(j)
    \/ RequestStop \/ ShutdownStep
    \/ Crash
    \/ StartupStep

Spec == Init /\ [][Next]_vars

(***************************************************************************)
(* Threads run on, a worker ends, a signalled subreaper is rid of its      *)
(* tree, a subreaper sees its parent die, a stop runs to its end, and      *)
(* somebody starts the Engine again.  Nothing makes a client submit or an  *)
(* operator stop the Engine.                                               *)
(***************************************************************************)
Fairness ==
    /\ \A j \in Jobs : /\ WF_vars(HandlerStep(j))
                       /\ WF_vars(PoolStep(j))
                       /\ WF_vars(WorkerStep(j))
    /\ WF_vars(ShutdownStep)
    /\ WF_vars(StartupStep)

FairSpec == Spec /\ Fairness

-----------------------------------------------------------------------------
(* Safety.                                                                 *)

(* A Job row is terminal only when no process of its Runtime can write its *)
(* Result or runtime files any more: the authority check in _execute's     *)
(* except clause and in shutdown, and the owner lease at startup.          *)
QuiescentWhenTerminal ==
    \A j \in Jobs : status[j] \in TerminalStatuses => ~MayWrite(j)

(* The scratch directory a Runtime lives in is never removed under it: the *)
(* finally clause of _execute and the retained roots of shutdown.          *)
ScratchOutlivesWriter ==
    \A j \in Jobs : MayWrite(j) => j \in scratch

(* While an Engine runs, every writer that may still run is registered in  *)
(* its own process-session registry: no writer of an earlier Engine and    *)
(* none that a failed start or a timed-out termination dropped.            *)
EveryWriterIsRegistered ==
    ~Exited => \A j \in Jobs : MayWrite(j) => j \in sessions

(* A completed Job has a sealed Result and its catalog rows, across every  *)
(* crash between the rename, the catalog commit and the row update.        *)
CompletedHasResult ==
    \A j \in Jobs : status[j] = "completed" => result[j] = "sealed" /\ j \in catalog

(* _completed_evidence indexes only what nobody writes any more.           *)
CatalogIsTrustworthy ==
    \A j \in Jobs : j \in catalog => result[j] = "sealed" /\ ~MayWrite(j)

(* The Engine closes the owner lease itself only when no writer is left.   *)
ReleasedIsQuiet ==
    engine = "released" => \A j \in Jobs : ~MayWrite(j)

(***************************************************************************)
(* The inductive strengthening behind the four invariants above.  Where    *)
(* the Engine is decides what its memory may hold; where the thread of a   *)
(* Job is decides what its row, its session and its Result can be.         *)
(***************************************************************************)

(* An exited Engine has no memory, a starting one no process, and one that *)
(* has joined its pool no thread that could start a process.               *)
MemoryAgrees ==
    /\ Exited => sessions = {} /\ \A j \in Jobs : pc[j] = "idle"
    /\ engine \in BootStates =>
          /\ sessions = {}
          /\ \A j \in Jobs : pc[j] \in {"idle", "adoptCompleted"} /\ ~MayWrite(j)
    /\ engine \in {"reap", "settle", "close"} =>
          \A j \in Jobs : pc[j] \notin PoolPcs
    /\ engine = "settle" => todo \cap sessions = {}
    /\ engine = "released" => \A j \in Jobs : ~MayWrite(j)

(* Nothing of a Job exists before it runs.                                 *)
NothingBeforeRunning ==
    \A j \in Jobs :
        status[j] \in {"absent", "queued"} =>
            outer[j] = "none" /\ result[j] = "none" /\ j \notin catalog

(* What a thread has established by the time it is at its label.           *)
ThreadAgrees ==
    \A j \in Jobs :
        /\ pc[j] = "admitted" => status[j] = "absent"
        /\ pc[j] = "launch" =>
              status[j] = "running" /\ j \in scratch /\ j \notin catalog
        /\ pc[j] \in {"markCompleted", "recoverCompleted", "settleCompleted",
                       "adoptCompleted"} => j \in catalog

(* A writer belongs to a running Job and, while the Engine lives, to a     *)
(* registered session.                                                     *)
WriterAgrees ==
    \A j \in Jobs :
        MayWrite(j) =>
            status[j] = "running" /\ j \in scratch /\ (Exited \/ j \in sessions)

(* A registered session belongs to a thread between its start and the end  *)
(* of _execute, never to one that has gone on to settle the Job.           *)
SessionAgrees ==
    \A j \in sessions :
        /\ status[j] = "running"
        /\ pc[j] \in {"poll", "terminate", "await", "except", "finally", "done"}

(* The conjunction is preserved by every step of threads, processes,       *)
(* shutdown, crash and recovery.                                           *)
IndInv ==
    /\ TypeOK
    /\ MemoryAgrees
    /\ NothingBeforeRunning
    /\ ThreadAgrees
    /\ WriterAgrees
    /\ SessionAgrees
    /\ CatalogIsTrustworthy
    /\ CompletedHasResult

(* As long as no call fails, a Job whose Runtime did seal its Result is    *)
(* reported as failed only by an Engine that is shutting down (which has   *)
(* stopped the Result runtimes first, so its evidence check raises): never *)
(* while it serves, and never by the startup after any crash.              *)
SealedFailsOnlyInShutdown ==
    [][\A j \in Jobs :
          status[j] # "failed" /\ status'[j] = "failed" /\ result[j] = "sealed"
              => VerificationRefused \/ faults > 0]_vars

(* What it rests on: without a failing call a thread that is about to fail *)
(* a sealed Job was refused its verification, the scan of the startup      *)
(* adopts every sealed Job it has seen, and a handler refuses only Jobs    *)
(* that never ran.                                                         *)
SealedInv ==
    /\ \A j \in Jobs : pc[j] = "inserted" => status[j] # "running"
    /\ faults = 0 =>
          /\ \A j \in Jobs :
                pc[j] = "fail" /\ status[j] = "running" /\ result[j] = "sealed"
                    => VerificationRefused
          /\ engine = "scan" => \A j \in Jobs \ todo :
                status[j] = "running" /\ result[j] = "sealed"
                    => pc[j] = "adoptCompleted"

Lifecycle == INSTANCE BacktestLifecycle WITH
    writing <- {j \in Jobs : MayWrite(j)},
    indexed <- catalog

(* The Job rows, catalog and writers behave as BacktestLifecycle promises. *)
LifecycleSpec == Lifecycle!Spec

-----------------------------------------------------------------------------
(* Liveness, as long as no call fails.                                     *)

(* Every queued Job is settled or handed over to the shutdown retry.       *)
QueuedIsServed ==
    \A j \in Jobs :
        status[j] = "queued"
            ~> (status[j] \in TerminalStatuses \/ j \in retained \/ faults > 0)

(* Once the Engine stops or dies, every active Job becomes terminal, at    *)
(* the latest in the startup of the next Engine.                           *)
StoppedIsSettled ==
    \A j \in Jobs :
        (engine # "up" /\ status[j] \in ActiveStatuses)
            ~> (status[j] \in TerminalStatuses \/ faults > 0)
=============================================================================
