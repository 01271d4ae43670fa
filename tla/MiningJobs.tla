----------------------------- MODULE MiningJobs -----------------------------
(***************************************************************************)
(* The durable mining queue: API handlers that create, pause, resume and   *)
(* hurry jobs and queue gap refills, and the worker processes that claim a *)
(* job under a lease, fetch provider pages and commit them.  A worker may  *)
(* die anywhere; the next one waits for the file lock and for the leases   *)
(* to expire.                                                              *)
(*                                                                         *)
(* Sources: mining/store.py, mining/worker.py, mining/api.py,              *)
(* mining/http_client.py, mining/providers.                                *)
(*                                                                         *)
(* Every store method is one BEGIN IMMEDIATE transaction, so one step.  A  *)
(* page is one provider record at position 0..End-1; the content of        *)
(* records, their revisions and the rows of gaps are left out.  Time is    *)
(* kept as order: `line` holds the jobs whose next_run_at has come, by     *)
(* next_run_at.                                                            *)
(***************************************************************************)
EXTENDS Naturals, Sequences, FiniteSets, SequencesExt

CONSTANTS
    Jobs,
    Enabled,        \* jobs whose provider the workers admit
    Workers,        \* worker processes, each with its own worker_id
    Refills,        \* refill_tasks rows that may be inserted
    End,            \* positions of the provider's records: 0 .. End - 1
    Overlap,        \* overlap_records
    MaxPages,       \* miningMaxPagesPerRun
    MaxCalls,       \* bound: pause, resume and run-now requests
    MaxExits,       \* bound: worker processes that die or are stopped
    MaxFaults       \* bound: provider failures

ASSUME SetsAssumption == IsFiniteSet(Jobs) /\ Enabled \subseteq Jobs
ASSUME NumbersAssumption ==
    /\ End \in Nat \ {0} /\ Overlap \in Nat /\ MaxPages \in Nat \ {0}
    /\ MaxCalls \in Nat /\ MaxExits \in Nat /\ MaxFaults \in Nat
ASSUME NoneAssumption == "none" \notin Jobs \cup Workers \cup Refills

VARIABLES
    \* the jobs table
    status, cursor, owner, lease, pause, line,
    \* refill_tasks: its status, its job, its cursor
    refill, refillJob, refillCursor,
    \* pages: positions committed for each job; the page files
    have,           \* job -> committed positions
    filed,          \* workers with page files that no row refers to
    missing,        \* jobs with a committed page whose files are gone
    \* worker processes
    holder,         \* the worker that has worker.lock
    pc, job, task, request, count, referenced,
    \* bounds
    calls, exits, faults

rows    == <<status, cursor, owner, lease, pause, line>>
tasks   == <<refill, refillJob, refillCursor>>
pages   == <<have, missing>>
process == <<job, task, request, count, referenced>>
bounds  == <<calls, exits, faults>>
vars    == <<rows, tasks, pages, filed, holder, pc, process, bounds>>

Positions == 0..End

ActiveStatuses == {"leased", "fetching", "committing"}
Claimable == {"queued", "retry_wait", "succeeded"}
Statuses == {"absent", "blocked", "paused"} \cup ActiveStatuses \cup Claimable

(* Where a worker is: in run() ("scan" to "claim") or in _process_job().   *)
WorkingPcs == {"begin", "page", "rate", "fetch", "files", "commit", "budget"}
Pcs == {"off", "scan", "orphans", "recover", "claim", "gone"} \cup WorkingPcs

JobTypeOK ==
    /\ status \in [Jobs -> Statuses]
    /\ cursor \in [Jobs -> Positions]
    /\ owner \in [Jobs -> Workers \cup {"none"}]
    /\ lease \in [Jobs -> {"none", "valid", "expired"}]
    /\ pause \in [Jobs -> BOOLEAN]

TaskTypeOK ==
    /\ refill \in [Refills -> {"absent", "queued", "leased", "succeeded", "failed"}]
    /\ refillJob \in [Refills -> Jobs \cup {"none"}]
    /\ refillCursor \in [Refills -> Positions]

PageTypeOK ==
    /\ have \in [Jobs -> SUBSET Positions]
    /\ filed \subseteq Workers
    /\ referenced \in [Jobs -> SUBSET Positions]
    /\ missing \subseteq Jobs

WorkTypeOK ==
    /\ holder \in Workers \cup {"none"}
    /\ pc \in [Workers -> Pcs]
    /\ job \in [Workers -> Jobs \cup {"none"}]
    /\ task \in [Workers -> Refills \cup {"none"}]
    /\ request \in [Workers -> Positions]
    /\ count \in [Workers -> 0..MaxPages]
    /\ \A w \in Workers :
          /\ pc[w] \in WorkingPcs => job[w] \in Jobs
          /\ pc[w] \in WorkingPcs \ {"budget"} => count[w] < MaxPages

BoundTypeOK == calls \in 0..MaxCalls /\ exits \in 0..MaxExits /\ faults \in 0..MaxFaults

RowTypeOK == JobTypeOK /\ TaskTypeOK /\ PageTypeOK /\ WorkTypeOK /\ BoundTypeOK
TypeOK == RowTypeOK /\ line \in Seq(Jobs)

Init ==
    /\ status = [j \in Jobs |-> "absent"]
    /\ cursor = [j \in Jobs |-> 0]
    /\ owner = [j \in Jobs |-> "none"]
    /\ lease = [j \in Jobs |-> "none"]
    /\ pause = [j \in Jobs |-> FALSE]
    /\ line = <<>>
    /\ refill = [r \in Refills |-> "absent"]
    /\ refillJob = [r \in Refills |-> "none"]
    /\ refillCursor = [r \in Refills |-> 0]
    /\ have = [j \in Jobs |-> {}]
    /\ filed = {} /\ missing = {}
    /\ holder = "none"
    /\ pc = [w \in Workers |-> "off"]
    /\ job = [w \in Workers |-> "none"]
    /\ task = [w \in Workers |-> "none"]
    /\ request = [w \in Workers |-> 0]
    /\ count = [w \in Workers |-> 0]
    /\ referenced = have
    /\ calls = 0 /\ exits = 0 /\ faults = 0

Goto(w, label) == pc' = [pc EXCEPT ![w] = label]

-----------------------------------------------------------------------------
(* Parts of the UPDATE statements.                                         *)

Without(j) == SelectSeq(line, LAMBDA k : k # j)

(* next_run_at = now, or later.                                            *)
DueNow(j) == line' = Append(Without(j), j)
DueLater(j) == line' = Without(j)

SetStatus(j, s) == status' = [status EXCEPT ![j] = s]

DropLease(j) ==
    /\ owner' = [owner EXCEPT ![j] = "none"]
    /\ lease' = [lease EXCEPT ![j] = "none"]

(* lease_expires_at = now + lease_seconds                                  *)
RenewLease(j) == lease' = [lease EXCEPT ![j] = "valid"]

ClearPause(j) == pause' = [pause EXCEPT ![j] = FALSE]

RefillsIn(jobs, s) == {r \in Refills : refillJob[r] \in jobs /\ refill[r] = s}

SetRefills(selected, s) ==
    refill' = [r \in Refills |-> IF r \in selected THEN s ELSE refill[r]]

(* Mutant: whoever worked on a job may still give it back.                 *)
HadIt(w, j) == TRUE

(* WHERE lease_owner = worker_id                                           *)
Has(w, j) == owner[j] = w
Owns(w, j) == Has(w, j) /\ status[j] \in ActiveStatuses

-----------------------------------------------------------------------------
(* Requests of the API.                                                    *)

CreateJob(j) ==
    /\ status[j] = "absent"
    /\ SetStatus(j, "queued")
    /\ DueNow(j)
    /\ UNCHANGED <<cursor, owner, lease, pause, tasks, pages, filed, holder,
                   pc, process, bounds>>

Call ==
    /\ calls < MaxCalls /\ calls' = calls + 1
    /\ UNCHANGED <<cursor, tasks, pages, filed, holder, pc, process, exits, faults>>

PauseJob(j) ==
    /\ Call /\ status[j] # "absent"
    /\ \/ /\ status[j] \in ActiveStatuses
          /\ pause' = [pause EXCEPT ![j] = TRUE]
          /\ UNCHANGED <<status, owner, lease, line>>
       \/ /\ status[j] \notin ActiveStatuses
          /\ SetStatus(j, "paused") /\ ClearPause(j) /\ DropLease(j) /\ DueNow(j)

(* No condition on the status: an active job loses its lease.              *)
ResumeJob(j) ==
    /\ Call /\ status[j] # "absent"
    /\ SetStatus(j, "queued") /\ ClearPause(j) /\ DropLease(j) /\ DueNow(j)

(* An active job is left alone and a paused one refused.                   *)
RunNow(j) ==
    /\ Call
    /\ status[j] \notin ActiveStatuses \cup {"absent", "paused"}
    /\ SetStatus(j, "queued") /\ DueNow(j)
    /\ UNCHANGED <<owner, lease, pause>>

(* A job has one gap in this model; a refill of it in progress is reused.  *)
QueueRefill(j, r) ==
    /\ status[j] # "absent"
    /\ refill[r] = "absent"
    /\ RefillsIn({j}, "queued") \cup RefillsIn({j}, "leased") = {}
    /\ refill' = [refill EXCEPT ![r] = "queued"]
    /\ refillJob' = [refillJob EXCEPT ![r] = j]
    /\ SetStatus(j, IF status[j] \in ActiveStatuses \cup {"paused"}
                    THEN status[j] ELSE "queued")
    /\ DueNow(j)
    /\ UNCHANGED <<cursor, owner, lease, pause, refillCursor, pages, filed,
                   holder, pc, process, bounds>>

-----------------------------------------------------------------------------
(* Time.                                                                   *)

BecomeDue(j) ==
    /\ status[j] # "absent" /\ j \notin ToSet(line)
    /\ DueNow(j)
    /\ UNCHANGED <<status, cursor, owner, lease, pause, tasks, pages, filed,
                   holder, pc, process, bounds>>

LeaseExpires(j) ==
    /\ lease[j] = "valid"
    /\ lease' = [lease EXCEPT ![j] = "expired"]
    /\ UNCHANGED <<status, cursor, owner, pause, line, tasks, pages, filed,
                   holder, pc, process, bounds>>

-----------------------------------------------------------------------------
(* MiningWorker.run                                                        *)

(* Mutant: no file lock.                                                   *)
LockIgnored == TRUE

(* SingleWriterLock: a second worker exits at once (status 73).            *)
LockFree == holder = "none"

StartWorker(w) ==
    /\ pc[w] = "off" /\ LockFree
    /\ holder' = w
    /\ Goto(w, "scan")
    /\ UNCHANGED <<rows, tasks, pages, filed, process, bounds>>

(* recover_orphans reads which files the pages refer to ...                *)
ScanPages(w) ==
    /\ pc[w] = "scan"
    /\ referenced' = have
    /\ Goto(w, "orphans")
    /\ UNCHANGED <<rows, tasks, pages, filed, holder, job, task, request, count,
                   bounds>>

(* ... and moves every other one away, those of a page committed meanwhile *)
(* included.                                                               *)
MoveOrphans(w) ==
    /\ pc[w] = "orphans"
    /\ filed' = {}
    /\ missing' = missing \cup {j \in Jobs : ~(have[j] \subseteq referenced[j])}
    /\ referenced' = [j \in Jobs |-> {}]
    /\ Goto(w, "recover")
    /\ UNCHANGED <<rows, tasks, have, holder, job, task, request, count, bounds>>

(* Mutant: only a lease whose expiry was recorded is recovered.            *)
NeverExpired(j) == FALSE
Expired(j) == status[j] \in ActiveStatuses /\ lease[j] # "valid"

RecoveredStatus(j) == IF pause[j] THEN "paused" ELSE "retry_wait"

(* Mutant: recovery forgets the refill that the dead worker had.           *)
NothingRequeued(expired) == {}
Requeued(expired) == RefillsIn(expired, "leased")

RecoverExpiredLeases(w) ==
    /\ pc[w] = "recover"
    /\ LET expired == {j \in Jobs : Expired(j)} IN
       /\ status' = [j \in Jobs |-> IF j \in expired THEN RecoveredStatus(j)
                                                     ELSE status[j]]
       /\ owner' = [j \in Jobs |-> IF j \in expired THEN "none" ELSE owner[j]]
       /\ lease' = [j \in Jobs |-> IF j \in expired THEN "none" ELSE lease[j]]
       /\ pause' = [j \in Jobs |-> j \notin expired /\ pause[j]]
       /\ line' = SelectSeq(line, LAMBDA k : k \notin expired) \o SetToSeq(expired)
       /\ SetRefills(Requeued(expired), "queued")
    /\ Goto(w, "claim")
    /\ UNCHANGED <<cursor, refillJob, refillCursor, pages, filed, holder, process,
                   bounds>>

IsDue(j) == status[j] \in Claimable /\ ~pause[j]

(* ORDER BY next_run_at: the due jobs before place i of the line.          *)
DueBefore(i) == {line[k] : k \in {k \in 1..(i - 1) : IsDue(line[k])}}

(* The main lane starts Overlap records before its checkpoint.             *)
OverlapCursor(j) == IF cursor[j] > Overlap THEN cursor[j] - Overlap ELSE 0

(* The queued refills of refused jobs fail; one other refill is leased.    *)
Refuse(refused, leased) ==
    refill' = [t \in Refills |-> IF t = leased THEN "leased"
                 ELSE IF t \in RefillsIn(refused, "queued") THEN "failed" ELSE refill[t]]

ClaimNothing(w) ==
    LET refused == DueBefore(Len(line) + 1) IN
    /\ refused \cap Enabled = {}
    /\ status' = [j \in Jobs |-> IF j \in refused THEN "blocked" ELSE status[j]]
    /\ Refuse(refused, "none")
    /\ Goto(w, "recover")
    /\ UNCHANGED <<owner, lease, job, task, request, count>>

ClaimFirst(w, i, j) ==
    LET refused == DueBefore(i)
        queued == RefillsIn({j}, "queued") IN
    /\ line[i] = j /\ IsDue(j) /\ refused \cap Enabled = {}
    /\ status' = [k \in Jobs |-> IF k = j THEN "leased"
                                 ELSE IF k \in refused THEN "blocked" ELSE status[k]]
    /\ owner' = [owner EXCEPT ![j] = w]
    /\ RenewLease(j)
    /\ job' = [job EXCEPT ![w] = j]
    /\ count' = [count EXCEPT ![w] = 0]
    /\ Goto(w, "begin")
    /\ \/ /\ queued = {}
          /\ Refuse(refused, "none")
          /\ task' = [task EXCEPT ![w] = "none"]
          /\ request' = [request EXCEPT ![w] = OverlapCursor(j)]
       \/ \E r \in queued :
             /\ Refuse(refused, r)
             /\ task' = [task EXCEPT ![w] = r]
             /\ request' = [request EXCEPT ![w] = refillCursor[r]]

(***************************************************************************)
(* claim_next: due jobs of providers that are not admitted are blocked,    *)
(* the first other one is leased, with its queued refill if it has one.    *)
(***************************************************************************)
ClaimNext(w) ==
    /\ pc[w] = "claim"
    /\ ClaimNothing(w) \/ \E i \in DOMAIN line, j \in Enabled : ClaimFirst(w, i, j)
    /\ UNCHANGED <<cursor, pause, line, refillJob, refillCursor, pages, filed,
                   holder, referenced, bounds>>

-----------------------------------------------------------------------------
(* The ways in which _process_job gives a job back.  Each finds the row    *)
(* only if it still has this owner.                                        *)

GiveBack(w, s, next) ==
    LET j == job[w] IN
    /\ Goto(w, next)
    /\ job' = [job EXCEPT ![w] = "none"]
    /\ task' = [task EXCEPT ![w] = "none"]
    /\ UNCHANGED <<cursor, refillJob, refillCursor, pages, request, count,
                   referenced, calls>>
    /\ \/ /\ Has(w, j)
          /\ SetStatus(j, IF pause[j] THEN "paused" ELSE s)
          /\ DropLease(j) /\ ClearPause(j)
          /\ SetRefills(RefillsIn({j}, "leased"), "queued")
       \/ /\ ~Has(w, j)
          /\ UNCHANGED <<status, owner, lease, pause, refill>>

RetryJob(w) ==
    /\ GiveBack(w, "retry_wait", "recover")
    /\ UNCHANGED <<holder, exits>>
    /\ IF Has(w, job[w]) THEN DueLater(job[w]) ELSE UNCHANGED line

ReleaseAnd(w, next) ==
    /\ GiveBack(w, "queued", next)
    /\ IF Has(w, job[w]) THEN DueNow(job[w]) ELSE UNCHANGED line

ReleaseJob(w) == ReleaseAnd(w, "recover") /\ UNCHANGED <<holder, exits>>

(* The pause request survives, and the refill fails whoever owns the job.  *)
BlockJob(w) ==
    LET j == job[w] IN
    /\ Goto(w, "recover")
    /\ job' = [job EXCEPT ![w] = "none"]
    /\ task' = [task EXCEPT ![w] = "none"]
    /\ \/ Has(w, j) /\ SetStatus(j, "blocked") /\ DropLease(j)
       \/ ~Has(w, j) /\ UNCHANGED <<status, owner, lease>>
    /\ SetRefills(RefillsIn({j}, "leased"), "failed")
    /\ UNCHANGED <<cursor, pause, line, refillJob, refillCursor, pages, holder,
                   request, count, referenced, calls, exits>>

-----------------------------------------------------------------------------
(* MiningWorker._process_job                                               *)

Reach(w, label) ==
    /\ Goto(w, label)
    /\ UNCHANGED <<cursor, owner, pause, line, tasks, pages, holder, process,
                   calls, exits>>

(* A lost lease raises, and retry_job then finds no row.                   *)
BeginActive(w) ==
    /\ pc[w] = "begin"
    /\ \/ /\ Has(w, job[w]) /\ status[job[w]] = "leased"
          /\ RenewLease(job[w])
          /\ Reach(w, "page") /\ UNCHANGED status
       \/ ~(Has(w, job[w]) /\ status[job[w]] = "leased") /\ RetryJob(w)
    /\ UNCHANGED <<filed, faults>>

(* Top of the page loop: a stop or a pause request gives the job back.     *)
PageTop(w) ==
    /\ pc[w] = "page"
    /\ \/ Has(w, job[w]) /\ pause[job[w]] /\ ReleaseJob(w)
       \/ /\ ~(Has(w, job[w]) /\ pause[job[w]])
          /\ Reach(w, "rate") /\ UNCHANGED <<status, lease>>
    /\ UNCHANGED <<filed, faults>>

(* _wait_for_rate_slot: heartbeats, which notice a lost lease, ...         *)
RateWait(w) ==
    /\ pc[w] = "rate"
    /\ \/ Owns(w, job[w]) /\ RenewLease(job[w]) /\ Reach(w, "rate") /\ UNCHANGED status
       \/ ~Owns(w, job[w]) /\ ReleaseJob(w)
    /\ UNCHANGED <<filed, faults>>

(* ... then the transition to fetching.                                    *)
Fetching(w) ==
    /\ pc[w] = "rate"
    /\ \/ /\ Owns(w, job[w])
          /\ SetStatus(job[w], "fetching") /\ RenewLease(job[w])
          /\ Reach(w, "fetch")
       \/ ~Owns(w, job[w]) /\ RetryJob(w)
    /\ UNCHANGED <<filed, faults>>

(* fetch_page, validate_page and the pagination checks; then the           *)
(* transition to committing.                                               *)
Fetch(w) ==
    /\ pc[w] = "fetch"
    /\ \/ /\ Owns(w, job[w])
          /\ SetStatus(job[w], "committing") /\ RenewLease(job[w])
          /\ Reach(w, "files")
          /\ UNCHANGED faults
       \/ ~Owns(w, job[w]) /\ RetryJob(w) /\ UNCHANGED faults
    /\ UNCHANGED filed

(* A transport error or a transient status is retried, a refusal or an     *)
(* invalid page blocks the job.                                            *)
ProviderFails(w) ==
    /\ pc[w] = "fetch"
    /\ faults < MaxFaults /\ faults' = faults + 1
    /\ RetryJob(w) \/ BlockJob(w)
    /\ UNCHANGED filed

(* Both page files are durable before the transaction.                     *)
WriteFiles(w) ==
    /\ pc[w] = "files"
    /\ filed' = filed \cup {w}
    /\ Reach(w, "commit")
    /\ UNCHANGED <<status, lease, faults>>

(* The page at End is empty and has no next cursor (a job without an end   *)
(* time); a refill ends with the gap, before End.                          *)
IsMain(w) == task[w] = "none"
HasNext(w) == IF IsMain(w) THEN request[w] < End ELSE request[w] + 1 < End

(* Mutant: a page is skipped.                                              *)
NextCursorSkips(w) == IF request[w] + 2 <= End THEN request[w] + 2 ELSE End
NextCursor(w) == request[w] + 1

(* Mutant: the page in flight ends the run.                                *)
NeverYields(w) == FALSE

(* A refill that was queued while a main page was in flight goes first.    *)
Yields(w) == IsMain(w) /\ RefillsIn({job[w]}, "queued") # {}

(***************************************************************************)
(* commit_page's transaction: the page, the cursor, the refill task and    *)
(* the job's next status.  A short page ends the run although it has a     *)
(* next cursor.                                                            *)
(***************************************************************************)
CommitRow(w, continue) ==
    LET j == job[w]
        keep == ~pause[j] /\ ~Yields(w) /\ continue IN
    /\ have' = [have EXCEPT ![j] = @ \cup ({request[w]} \ {End})]
    /\ missing' = IF w \in filed THEN missing ELSE missing \cup {j}
    /\ cursor' = IF IsMain(w) /\ HasNext(w)
                 THEN [cursor EXCEPT ![j] = NextCursor(w)] ELSE cursor
    /\ refill' = IF IsMain(w) \/ continue THEN refill
                 ELSE [refill EXCEPT ![task[w]] = "succeeded"]
    /\ refillCursor' = IF IsMain(w) \/ ~continue THEN refillCursor
                       ELSE [refillCursor EXCEPT ![task[w]] = NextCursor(w)]
    /\ ClearPause(j)
    /\ \/ /\ keep
          /\ SetStatus(j, "leased") /\ RenewLease(j)
          /\ UNCHANGED <<owner, line>>
       \/ /\ ~keep
          /\ DropLease(j)
          /\ \/ pause[j] /\ SetStatus(j, "paused") /\ DueNow(j)
             \/ /\ ~pause[j] /\ (Yields(w) \/ ~IsMain(w))
                /\ SetStatus(j, "queued") /\ DueNow(j)
             \/ /\ ~pause[j] /\ ~Yields(w) /\ IsMain(w)
                /\ SetStatus(j, "succeeded") /\ DueLater(j)

(* After the commit the worker fetches the next page, or gives the job     *)
(* back after MaxPages pages, or is done with it.                          *)
CommitPage(w) ==
    LET j == job[w]
        done == /\ Goto(w, "recover")
                /\ job' = [job EXCEPT ![w] = "none"]
                /\ task' = [task EXCEPT ![w] = "none"]
                /\ UNCHANGED <<request, count>> IN
    /\ pc[w] = "commit"
    /\ \/ /\ Has(w, j) /\ status[j] = "committing"
          /\ \E continue \in IF HasNext(w) THEN BOOLEAN ELSE {FALSE} :
                /\ CommitRow(w, continue)
                /\ filed' = filed \ {w}
                /\ \/ /\ status'[j] = "leased"
                      /\ count' = [count EXCEPT ![w] = @ + 1]
                      /\ request' = [request EXCEPT ![w] = NextCursor(w)]
                      /\ Goto(w, IF count[w] + 1 >= MaxPages THEN "budget" ELSE "page")
                      /\ UNCHANGED <<job, task>>
                   \/ status'[j] # "leased" /\ done
          /\ UNCHANGED <<refillJob, holder, referenced, bounds>>
       \/ /\ ~(Has(w, j) /\ status[j] = "committing")
          /\ RetryJob(w)
          /\ UNCHANGED <<filed, faults>>

PageBudget(w) ==
    /\ pc[w] = "budget"
    /\ ReleaseJob(w)
    /\ UNCHANGED <<filed, faults>>

-----------------------------------------------------------------------------
(* A worker process ends, and with it its hold on worker.lock.             *)

Exit(w) ==
    /\ exits < MaxExits /\ exits' = exits + 1
    /\ holder' = "none"

(* The stop event is seen at the top of either loop and in the rate wait.  *)
StopWorker(w) ==
    /\ Exit(w)
    /\ \/ /\ pc[w] = "recover" /\ Goto(w, "gone")
          /\ UNCHANGED <<rows, tasks, pages, process, calls>>
       \/ pc[w] \in {"page", "rate"} /\ ReleaseAnd(w, "gone")
    /\ UNCHANGED <<filed, faults>>

(* Killed anywhere: rows, tasks and page files stay as they are.           *)
Crash(w) ==
    /\ Exit(w)
    /\ pc[w] \notin {"off", "gone"}
    /\ Goto(w, "gone")
    /\ job' = [job EXCEPT ![w] = "none"]
    /\ task' = [task EXCEPT ![w] = "none"]
    /\ UNCHANGED <<rows, tasks, pages, filed, request, count, referenced, calls,
                   faults>>

-----------------------------------------------------------------------------
WorkerStep(w) ==
    \/ ScanPages(w) \/ MoveOrphans(w) \/ RecoverExpiredLeases(w) \/ ClaimNext(w)
    \/ BeginActive(w) \/ PageTop(w) \/ RateWait(w) \/ Fetching(w) \/ Fetch(w)
    \/ ProviderFails(w) \/ WriteFiles(w) \/ CommitPage(w) \/ PageBudget(w)

Next ==
    \/ \E j \in Jobs :
          \/ CreateJob(j) \/ PauseJob(j) \/ ResumeJob(j) \/ RunNow(j)
          \/ BecomeDue(j) \/ LeaseExpires(j)
          \/ \E r \in Refills : QueueRefill(j, r)
    \/ \E w \in Workers : StartWorker(w) \/ WorkerStep(w) \/ StopWorker(w) \/ Crash(w)

Spec == Init /\ [][Next]_vars

(***************************************************************************)
(* The supervisor keeps a worker running, a running worker goes on with    *)
(* its loop and its rate wait ends, and time passes.  Nobody has to call   *)
(* the API, and no worker has to die.                                      *)
(***************************************************************************)
Fairness ==
    /\ \A w \in Workers :
          /\ WF_vars(StartWorker(w)) /\ WF_vars(WorkerStep(w))
          /\ WF_vars(Fetching(w))
    /\ \A j \in Jobs : WF_vars(BecomeDue(j)) /\ WF_vars(LeaseExpires(j))

FairSpec == Spec /\ Fairness

-----------------------------------------------------------------------------
(***************************************************************************)
(* The evidence behind a checkpoint is complete: every position before it  *)
(* has a committed page, whatever was fetched twice, given back, stolen by *)
(* a resume or lost with a worker, and no committed page has lost its      *)
(* files to recover_orphans of a starting worker (commit_page,             *)
(* SingleWriterLock).                                                      *)
(***************************************************************************)
NothingSkipped == \A j \in Jobs : \A p \in 0..(cursor[j] - 1) : p \in have[j]
EvidenceIsKept == missing = {}
EvidenceIsComplete == NothingSkipped /\ EvidenceIsKept

(***************************************************************************)
(* No request is lost that comes while a worker has the job.  A job that a *)
(* resume took away is touched by nobody before it is claimed again: a     *)
(* late worker commits nothing of it and does not give it back.  A pause   *)
(* request turns into the status on every way in which a job ends (commit, *)
(* retry, release, recovery), or stays with a blocked job.  And a job with *)
(* a refill queued meanwhile goes back to the queue, instead of waiting    *)
(* for its schedule.                                                       *)
(***************************************************************************)
ResumeStands(j) ==
    owner[j] = "none" =>
        /\ UNCHANGED <<cursor[j], have[j]>>
        /\ status'[j] \in {status[j], "queued", "leased", "blocked"}
        /\ status[j] = "paused" => status'[j] = "paused"
PauseStands(j) ==
    /\ pause[j] /\ ~pause'[j] => status'[j] = "paused"
    /\ pause[j] /\ owner[j] # "none" /\ owner'[j] = "none"
         => status'[j] \in {"paused", "blocked"}
RefillStands(j) ==
    owner[j] # "none" /\ owner'[j] = "none" /\ RefillsIn({j}, "queued") # {}
        => status'[j] # "succeeded"
RequestsStand == \A j \in Jobs : ResumeStands(j) /\ PauseStands(j) /\ RefillStands(j)
NoRequestIsLost == [][calls' = calls => RequestsStand]_vars

(***************************************************************************)
(* A pause request is answered: the worker comes to a page boundary, or    *)
(* dies and its lease is recovered.  A job that its provider blocks        *)
(* meanwhile keeps the request.                                            *)
(***************************************************************************)
PauseIsHonoured ==
    \A j \in Jobs : pause[j] /\ status[j] \in ActiveStatuses
                       ~> ~pause[j] \/ status[j] = "blocked"

(***************************************************************************)
(* A refill task is carried through, or fails or waits with its blocked    *)
(* job: without pause and resume requests (which leave it leased to        *)
(* nobody) it survives every death of a worker.                            *)
(***************************************************************************)
RefillIsServed ==
    \A r \in Refills :
        refill[r] = "queued"
            ~> \/ refill[r] \in {"succeeded", "failed"} \/ calls > 0
               \/ \E j \in Jobs : refillJob[r] = j /\ status[j] = "blocked"

-----------------------------------------------------------------------------
(* The inductive invariant behind EvidenceIsComplete.                      *)

(* Every position before the one a worker works on in the main lane has a  *)
(* page already, whoever committed it.                                     *)
RequestInv ==
    \A w \in Workers : pc[w] \in WorkingPcs /\ IsMain(w)
        => \A p \in 0..(request[w] - 1) : p \in have[job[w]]

(* Only the holder of worker.lock does anything.                           *)
LockInv == \A w \in Workers : pc[w] \notin {"off", "gone"} => holder = w

(* No page is committed between the scan for orphans and their removal,    *)
(* and none without its files.                                             *)
FilesInv ==
    \A w \in Workers :
        /\ pc[w] = "orphans" => referenced = have
        /\ pc[w] = "commit" => w \in filed

IndInv ==
    /\ RowTypeOK
    /\ RequestInv /\ NothingSkipped
    /\ LockInv /\ FilesInv /\ EvidenceIsKept

(* Behind NoRequestIsLost: a job is active as long as somebody has it.     *)
LeaseInv == \A j \in Jobs : status[j] \in ActiveStatuses <=> owner[j] # "none"
=============================================================================
