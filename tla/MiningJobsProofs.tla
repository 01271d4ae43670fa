-------------------------- MODULE MiningJobsProofs --------------------------
(***************************************************************************)
(* For any jobs, workers, refills, pages and failures: a job's checkpoint  *)
(* never passes a position without a page, no committed page loses its     *)
(* files, and no request is lost that comes while a worker has the job.    *)
(* All follow from IndInv, the last together with LeaseInv.                *)
(*                                                                         *)
(* The order of the line is not part of IndInv: it decides which job is    *)
(* claimed, never what a claimed job may commit.                           *)
(***************************************************************************)
EXTENDS MiningJobs, TLAPS

-----------------------------------------------------------------------------
(* The invariant holds when the store opens.                               *)
LEMMA InitEstablishes == Init => IndInv
<1> SUFFICES ASSUME Init PROVE IndInv
    OBVIOUS
<1>1. RowTypeOK
    BY NumbersAssumption
    DEF Init, RowTypeOK, JobTypeOK, TaskTypeOK, PageTypeOK, WorkTypeOK, BoundTypeOK,
        Positions, Statuses, Pcs, WorkingPcs
<1>2. /\ \A w \in Workers : pc[w] = "off"
      /\ missing = {}
      /\ \A j \in Jobs : cursor[j] = 0
    BY DEF Init
<1> QED
    BY <1>1, <1>2 DEF IndInv, RequestInv, NothingSkipped, LockInv, FilesInv, EvidenceIsKept,
                      WorkingPcs

(* Steps that move no worker, commit nothing and leave the files alone.    *)
LEMMA RowsOnly ==
    ASSUME IndInv, JobTypeOK', TaskTypeOK', BoundTypeOK', cursor' = cursor,
           UNCHANGED <<pages, filed, holder, pc, process>>
    PROVE  IndInv'
<1> USE DEF pages, process
<1>1. RowTypeOK'
    BY DEF IndInv, RowTypeOK, PageTypeOK, WorkTypeOK
<1> QED
    BY <1>1 DEF IndInv, RequestInv, NothingSkipped, LockInv, FilesInv, EvidenceIsKept, IsMain

(* Requests of a user, and time passing.                                   *)
LEMMA RequestsPreserve ==
    ASSUME IndInv, NEW j \in Jobs,
           \/ CreateJob(j) \/ PauseJob(j) \/ ResumeJob(j) \/ RunNow(j)
           \/ BecomeDue(j) \/ LeaseExpires(j)
           \/ \E r \in Refills : QueueRefill(j, r)
    PROVE  IndInv'
<1> USE DEF tasks, bounds, SetStatus, DropLease, ClearPause, Call
<1>1. JobTypeOK'
  <2> USE DEF IndInv, RowTypeOK, JobTypeOK, Statuses, ActiveStatuses, Claimable
  <2>1. CASE CreateJob(j)
    BY <2>1 DEF CreateJob
  <2>2. CASE PauseJob(j)
    BY <2>2 DEF PauseJob
  <2>3. CASE ResumeJob(j)
    BY <2>3 DEF ResumeJob
  <2>4. CASE RunNow(j)
    BY <2>4 DEF RunNow
  <2>5. CASE BecomeDue(j) \/ LeaseExpires(j)
    BY <2>5 DEF BecomeDue, LeaseExpires
  <2>6. CASE \E r \in Refills : QueueRefill(j, r)
    BY <2>6 DEF QueueRefill
  <2> QED
    BY <2>1, <2>2, <2>3, <2>4, <2>5, <2>6
<1>2. TaskTypeOK'
    BY DEF IndInv, RowTypeOK, TaskTypeOK, CreateJob, PauseJob, ResumeJob, RunNow,
           BecomeDue, LeaseExpires, QueueRefill
<1>3. BoundTypeOK'
    BY NumbersAssumption
    DEF IndInv, RowTypeOK, BoundTypeOK, CreateJob, PauseJob, ResumeJob, RunNow,
        BecomeDue, LeaseExpires, QueueRefill
<1>4. cursor' = cursor /\ UNCHANGED <<pages, filed, holder, pc, process>>
    BY DEF CreateJob, PauseJob, ResumeJob, RunNow, BecomeDue, LeaseExpires, QueueRefill
<1> QED
    BY <1>1, <1>2, <1>3, <1>4, RowsOnly

-----------------------------------------------------------------------------
(* MiningWorker.run.                                                       *)

(* A worker starts.                                                        *)
LEMMA StartWorkerPreserves ==
    ASSUME IndInv, NEW w \in Workers, StartWorker(w)
    PROVE  IndInv'
<1> USE DEF StartWorker, Goto, rows, tasks, pages, process, bounds
<1>1. RowTypeOK'
    BY DEF IndInv, RowTypeOK, JobTypeOK, TaskTypeOK, PageTypeOK, WorkTypeOK, BoundTypeOK,
           Pcs, WorkingPcs
<1>2. RequestInv' /\ NothingSkipped' /\ EvidenceIsKept' /\ FilesInv'
    BY DEF IndInv, RowTypeOK, WorkTypeOK, RequestInv, NothingSkipped, EvidenceIsKept, FilesInv,
           IsMain, WorkingPcs
<1>3. LockInv'
    BY NoneAssumption DEF IndInv, RowTypeOK, WorkTypeOK, LockInv, LockFree
<1> QED
    BY <1>1, <1>2, <1>3 DEF IndInv

(* The holder of the lock scans alone, so what it takes for an orphan is.  *)
LEMMA RecoverOrphansPreserves ==
    ASSUME IndInv, NEW w \in Workers, ScanPages(w) \/ MoveOrphans(w)
    PROVE  IndInv'
<1> USE DEF ScanPages, MoveOrphans, Goto, rows, tasks, pages, process, bounds
<1>1. \A v \in Workers \ {w} : pc[v] \in {"off", "gone"}
    BY DEF IndInv, LockInv
<1>2. /\ pc[w] \in {"scan", "orphans"} /\ pc'[w] \in {"orphans", "recover"}
      /\ \A v \in Workers \ {w} : pc'[v] = pc[v]
    BY DEF IndInv, RowTypeOK, WorkTypeOK
<1>3. missing' = missing
    BY DEF IndInv, FilesInv
<1>4. RowTypeOK'
  <2>1. WorkTypeOK'
    BY DEF IndInv, RowTypeOK, WorkTypeOK, Pcs, WorkingPcs
  <2>2. PageTypeOK'
    BY <1>3 DEF IndInv, RowTypeOK, PageTypeOK
  <2> QED
    BY <2>1, <2>2 DEF IndInv, RowTypeOK, JobTypeOK, TaskTypeOK, BoundTypeOK
<1>5. RequestInv' /\ NothingSkipped' /\ EvidenceIsKept'
    BY <1>1, <1>2, <1>3 DEF IndInv, RequestInv, NothingSkipped, EvidenceIsKept, WorkingPcs
<1>6. LockInv'
    BY <1>2 DEF IndInv, LockInv
<1>7. FilesInv'
  <2>1. pc'[w] = "orphans" => referenced' = have'
    BY DEF IndInv, RowTypeOK, WorkTypeOK
  <2> QED
    BY <1>1, <1>2, <2>1 DEF FilesInv
<1> QED
    BY <1>4, <1>5, <1>6, <1>7 DEF IndInv

(* Steps of the holder that neither claim nor commit nor touch the files.  *)
LEMMA HolderMoves ==
    ASSUME IndInv, NEW w \in Workers, pc[w] \notin {"off", "gone"},
           NEW label \in Pcs \ {"off", "orphans", "commit"}, Goto(w, label),
           JobTypeOK', TaskTypeOK', BoundTypeOK',
           holder' = IF label = "gone" THEN "none" ELSE holder,
           UNCHANGED <<cursor, pages, filed, request, count, referenced>>,
           \/ UNCHANGED <<job, task>>
              /\ (label \in WorkingPcs \ {"budget"} => pc[w] \in WorkingPcs \ {"budget"})
              /\ (label = "budget" => pc[w] = "budget")
           \/ label \notin WorkingPcs /\ job' = [job EXCEPT ![w] = "none"]
              /\ task' = [task EXCEPT ![w] = "none"]
    PROVE  IndInv'
<1> USE DEF Goto, pages
<1>1. \A v \in Workers \ {w} : pc[v] \in {"off", "gone"}
    BY DEF IndInv, LockInv
<1>2. pc'[w] = label /\ \A v \in Workers \ {w} : pc'[v] = pc[v]
    BY DEF IndInv, RowTypeOK, WorkTypeOK
<1>3. WorkTypeOK'
    BY DEF IndInv, RowTypeOK, WorkTypeOK, WorkingPcs
<1>4. RowTypeOK'
    BY <1>3 DEF IndInv, RowTypeOK, PageTypeOK
<1>5. RequestInv'
    BY <1>1, <1>2 DEF IndInv, RequestInv, IsMain, WorkingPcs
<1>6. NothingSkipped' /\ EvidenceIsKept' /\ FilesInv'
    BY <1>1, <1>2 DEF IndInv, NothingSkipped, EvidenceIsKept, FilesInv
<1>7. LockInv'
    BY <1>1, <1>2 DEF IndInv, LockInv
<1> QED
    BY <1>4, <1>5, <1>6, <1>7 DEF IndInv

(* RecoverExpiredLeases.                                                   *)
LEMMA RecoverPreserves ==
    ASSUME IndInv, NEW w \in Workers, RecoverExpiredLeases(w)
    PROVE  IndInv'
<1> USE DEF RecoverExpiredLeases, bounds, process, pages
<1>1. JobTypeOK'
    BY DEF IndInv, RowTypeOK, JobTypeOK, RecoveredStatus, Statuses, Claimable
<1>2. TaskTypeOK'
    BY DEF IndInv, RowTypeOK, TaskTypeOK, SetRefills
<1>3. BoundTypeOK'
    BY DEF IndInv, RowTypeOK, BoundTypeOK
<1>4. "claim" \in Pcs \ {"off", "orphans", "commit", "gone"} /\ "claim" \notin WorkingPcs
    BY DEF Pcs, WorkingPcs
<1> QED
    BY <1>1, <1>2, <1>3, <1>4, HolderMoves

(* The main lane is claimed at or before the checkpoint.                   *)
LEMMA ClaimPreserves ==
    ASSUME IndInv, NEW w \in Workers, ClaimNext(w)
    PROVE  IndInv'
<1> USE DEF bounds, pages
<1>1. CASE ClaimNothing(w)
  <2> USE <1>1 DEF ClaimNext, ClaimNothing
  <2>1. JobTypeOK'
    BY DEF IndInv, RowTypeOK, JobTypeOK, Statuses
  <2>2. TaskTypeOK'
    BY DEF IndInv, RowTypeOK, TaskTypeOK, Refuse
  <2>3. BoundTypeOK'
    BY DEF IndInv, RowTypeOK, BoundTypeOK
  <2>4. "recover" \in Pcs \ {"off", "orphans", "commit", "gone"} /\ "recover" \notin WorkingPcs
    BY DEF Pcs, WorkingPcs
  <2> QED
    BY <2>1, <2>2, <2>3, <2>4, HolderMoves
<1>2. ASSUME NEW i, NEW j \in Jobs, ClaimFirst(w, i, j) PROVE IndInv'
  <2>1. /\ pc[w] = "claim" /\ pc' = [pc EXCEPT ![w] = "begin"]
        /\ job' = [job EXCEPT ![w] = j] /\ count' = [count EXCEPT ![w] = 0]
        /\ UNCHANGED <<cursor, have, missing, filed, holder, referenced>>
    BY <1>2 DEF ClaimNext, ClaimFirst, Goto
  <2>2. \/ /\ task' = [task EXCEPT ![w] = "none"]
           /\ request' = [request EXCEPT ![w] = OverlapCursor(j)]
        \/ \E r \in Refills : /\ task' = [task EXCEPT ![w] = r]
                              /\ request' = [request EXCEPT ![w] = refillCursor[r]]
    BY <1>2 DEF ClaimFirst, RefillsIn
  <2>3. OverlapCursor(j) \in Positions /\ OverlapCursor(j) <= cursor[j]
    BY NumbersAssumption DEF OverlapCursor, IndInv, RowTypeOK, JobTypeOK, Positions
  <2>4. JobTypeOK'
    BY <1>2 DEF ClaimNext, ClaimFirst, RenewLease, IndInv, RowTypeOK, JobTypeOK, Statuses,
                ActiveStatuses
  <2>5. TaskTypeOK'
    BY <1>2 DEF ClaimNext, ClaimFirst, Refuse, IndInv, RowTypeOK, TaskTypeOK
  <2>6. BoundTypeOK'
    BY <1>2 DEF ClaimNext, IndInv, RowTypeOK, BoundTypeOK
  <2>7. WorkTypeOK'
    BY <2>1, <2>2, <2>3, NumbersAssumption
    DEF IndInv, RowTypeOK, WorkTypeOK, TaskTypeOK, Pcs, WorkingPcs
  <2>8. RowTypeOK'
    BY <2>1, <2>4, <2>5, <2>6, <2>7 DEF IndInv, RowTypeOK, PageTypeOK
  <2>9. \A v \in Workers \ {w} : pc[v] \in {"off", "gone"} /\ pc'[v] = pc[v]
    BY <2>1 DEF IndInv, LockInv, RowTypeOK, WorkTypeOK
  <2>10. pc'[w] = "begin" /\ job'[w] = j
    BY <2>1 DEF IndInv, RowTypeOK, WorkTypeOK
  <2>11. RequestInv'
    <3>1. task'[w] = "none" => request'[w] = OverlapCursor(j)
      BY <2>2, NoneAssumption DEF IndInv, RowTypeOK, WorkTypeOK
    <3>2. \A p \in 0..(OverlapCursor(j) - 1) : p \in have[j]
      BY <2>3 DEF IndInv, NothingSkipped, RowTypeOK, JobTypeOK, Positions
    <3> QED
      BY <2>1, <2>9, <2>10, <3>1, <3>2 DEF RequestInv, IsMain, WorkingPcs
  <2>12. NothingSkipped' /\ EvidenceIsKept' /\ LockInv' /\ FilesInv'
    BY <2>1, <2>9, <2>10 DEF IndInv, NothingSkipped, EvidenceIsKept, LockInv, FilesInv
  <2> QED
    BY <2>8, <2>11, <2>12 DEF IndInv
<1> QED
    BY <1>1, <1>2, SetsAssumption DEF ClaimNext

-----------------------------------------------------------------------------
(* MiningWorker._process_job.                                              *)

(* However a job is given back, nothing of it is committed.                *)
LEMMA GiveBackTypes ==
    ASSUME IndInv, NEW w \in Workers, job[w] \in Jobs,
           NEW s \in Statuses, NEW next, GiveBack(w, s, next)
    PROVE  JobTypeOK' /\ TaskTypeOK'
<1> USE DEF GiveBack
<1>1. JobTypeOK'
  <2>1. (IF pause[job[w]] THEN "paused" ELSE s) \in Statuses
    BY DEF Statuses
  <2>2. status' \in [Jobs -> Statuses]
    BY <2>1 DEF IndInv, RowTypeOK, JobTypeOK, SetStatus
  <2>3. /\ owner' \in [Jobs -> Workers \cup {"none"}]
        /\ lease' \in [Jobs -> {"none", "valid", "expired"}]
    BY DEF IndInv, RowTypeOK, JobTypeOK, DropLease
  <2>4. pause' \in [Jobs -> BOOLEAN]
    BY DEF IndInv, RowTypeOK, JobTypeOK, ClearPause
  <2> QED
    BY <2>2, <2>3, <2>4 DEF IndInv, RowTypeOK, JobTypeOK
<1>2. TaskTypeOK'
    BY DEF IndInv, RowTypeOK, TaskTypeOK, SetRefills
<1> QED
    BY <1>1, <1>2

(* A job is retried, released or blocked.                                  *)
LEMMA GiveBackPreserves ==
    ASSUME IndInv, NEW w \in Workers, pc[w] \in WorkingPcs, BoundTypeOK', filed' = filed,
           \/ RetryJob(w) \/ ReleaseJob(w) \/ BlockJob(w)
           \/ ReleaseAnd(w, "gone") /\ holder' = "none"
    PROVE  IndInv'
<1>0. job[w] \in Jobs /\ {"queued", "retry_wait"} \subseteq Statuses /\ pc[w] \notin {"off", "gone"}
    BY DEF IndInv, RowTypeOK, WorkTypeOK, Statuses, Claimable, WorkingPcs
<1>1. {"recover", "gone"} \subseteq Pcs \ {"off", "orphans", "commit"}
      /\ {"recover", "gone"} \cap WorkingPcs = {}
    BY DEF Pcs, WorkingPcs
<1>2. CASE BlockJob(w)
  <2>1. JobTypeOK'
    BY <1>0, <1>2 DEF BlockJob, IndInv, RowTypeOK, JobTypeOK, SetStatus, DropLease, Statuses
  <2>2. TaskTypeOK'
    BY <1>2 DEF BlockJob, IndInv, RowTypeOK, TaskTypeOK, SetRefills
  <2> QED
    BY <1>0, <1>1, <1>2, <2>1, <2>2, HolderMoves DEF BlockJob, pages
<1>3. CASE RetryJob(w) \/ ReleaseJob(w)
  <2>1. /\ \E s \in Statuses : GiveBack(w, s, "recover")
        /\ holder' = holder
    BY <1>0, <1>3 DEF RetryJob, ReleaseJob, ReleaseAnd
  <2>2. JobTypeOK' /\ TaskTypeOK'
    BY <1>0, <2>1, GiveBackTypes
  <2> QED
    BY <1>0, <1>1, <2>1, <2>2, HolderMoves DEF GiveBack, pages
<1>4. CASE ReleaseAnd(w, "gone") /\ holder' = "none"
  <2>1. GiveBack(w, "queued", "gone")
    BY <1>4 DEF ReleaseAnd
  <2>2. JobTypeOK' /\ TaskTypeOK'
    BY <1>0, <2>1, GiveBackTypes
  <2> QED
    BY <1>0, <1>1, <1>4, <2>1, <2>2, HolderMoves DEF GiveBack, pages
<1> QED
    BY <1>2, <1>3, <1>4

(* A step within the page loop, up to the files.                           *)
LEMMA ReachPreserves ==
    ASSUME IndInv, NEW w \in Workers, pc[w] \in WorkingPcs \ {"budget"},
           NEW label \in {"page", "rate", "fetch", "files"}, Reach(w, label),
           status' \in [Jobs -> Statuses], lease' \in [Jobs -> {"none", "valid", "expired"}],
           faults' = faults, filed' = filed
    PROVE  IndInv'
<1>1. JobTypeOK' /\ TaskTypeOK' /\ BoundTypeOK'
    BY DEF Reach, IndInv, RowTypeOK, JobTypeOK, TaskTypeOK, BoundTypeOK, tasks
<1>2. label \in Pcs \ {"off", "orphans", "commit", "gone"} /\ label \in WorkingPcs \ {"budget"}
      /\ pc[w] \notin {"off", "gone"}
    BY DEF Pcs, WorkingPcs
<1> QED
    BY <1>1, <1>2, HolderMoves DEF Reach, pages, process

(* The page loop between two commits.                                      *)
LEMMA PageLoopPreserves ==
    ASSUME IndInv, NEW w \in Workers,
           \/ BeginActive(w) \/ PageTop(w) \/ RateWait(w) \/ Fetching(w) \/ Fetch(w)
           \/ ProviderFails(w) \/ PageBudget(w)
    PROVE  IndInv'
<1>1. /\ pc[w] \in WorkingPcs /\ filed' = filed /\ job[w] \in Jobs
      /\ pc[w] = "budget" => PageBudget(w)
    BY DEF BeginActive, PageTop, RateWait, Fetching, Fetch, ProviderFails, PageBudget,
           WorkingPcs, IndInv, RowTypeOK, WorkTypeOK
<1>2. CASE RetryJob(w) \/ ReleaseJob(w) \/ BlockJob(w)
  <2>1. BoundTypeOK'
    BY <1>2, NumbersAssumption
    DEF BeginActive, PageTop, RateWait, Fetching, Fetch, ProviderFails, PageBudget,
        RetryJob, ReleaseJob, ReleaseAnd, BlockJob, GiveBack, Reach, IndInv, RowTypeOK, BoundTypeOK
  <2> QED
    BY <1>1, <1>2, <2>1, GiveBackPreserves
<1>3. CASE ~(RetryJob(w) \/ ReleaseJob(w) \/ BlockJob(w))
  <2>1. /\ pc[w] # "budget"
        /\ \E label \in {"page", "rate", "fetch", "files"} : Reach(w, label)
        /\ faults' = faults
    BY <1>1, <1>3 DEF BeginActive, PageTop, RateWait, Fetching, Fetch, ProviderFails, PageBudget
  <2>2. /\ status' \in [Jobs -> Statuses]
        /\ lease' \in [Jobs -> {"none", "valid", "expired"}]
    BY <1>1, <1>3
    DEF BeginActive, PageTop, RateWait, Fetching, Fetch, ProviderFails, PageBudget,
        RenewLease, SetStatus, IndInv, RowTypeOK, JobTypeOK, Statuses, ActiveStatuses
  <2> QED
    BY <1>1, <2>1, <2>2, ReachPreserves
<1> QED
    BY <1>2, <1>3

(* The evidence files of a page are written before its commit.             *)
LEMMA WriteFilesPreserves ==
    ASSUME IndInv, NEW w \in Workers, WriteFiles(w)
    PROVE  IndInv'
<1> USE DEF WriteFiles, Reach, Goto, tasks, pages, process
<1>1. RowTypeOK'
    BY DEF IndInv, RowTypeOK, JobTypeOK, TaskTypeOK, PageTypeOK, WorkTypeOK, BoundTypeOK,
           Pcs, WorkingPcs
<1>2. RequestInv' /\ NothingSkipped' /\ EvidenceIsKept'
    BY DEF IndInv, RowTypeOK, WorkTypeOK, RequestInv, NothingSkipped, EvidenceIsKept, IsMain,
           WorkingPcs
<1>3. LockInv' /\ FilesInv'
    BY DEF IndInv, RowTypeOK, WorkTypeOK, LockInv, FilesInv
<1> QED
    BY <1>1, <1>2, <1>3 DEF IndInv

(* commit_page moves the cursor to just behind the page it commits, and    *)
(* that page's files are there.                                            *)
LEMMA CommitRowPages ==
    ASSUME IndInv, NEW w \in Workers, pc[w] = "commit", NEW continue \in BOOLEAN,
           continue => HasNext(w), CommitRow(w, continue)
    PROVE  /\ have' = [have EXCEPT ![job[w]] = @ \cup ({request[w]} \ {End})]
           /\ have' \in [Jobs -> SUBSET Positions]
           /\ missing' = missing
           /\ cursor' \in [Jobs -> Positions]
           /\ NothingSkipped'
<1>1. /\ job[w] \in Jobs /\ request[w] \in Positions /\ w \in filed
      /\ have \in [Jobs -> SUBSET Positions] /\ cursor \in [Jobs -> Positions]
    BY DEF IndInv, RowTypeOK, WorkTypeOK, JobTypeOK, PageTypeOK, FilesInv, WorkingPcs
<1>2. /\ have' = [have EXCEPT ![job[w]] = @ \cup ({request[w]} \ {End})]
      /\ missing' = missing
      /\ cursor' = IF IsMain(w) /\ HasNext(w)
                   THEN [cursor EXCEPT ![job[w]] = NextCursor(w)] ELSE cursor
    BY <1>1 DEF CommitRow
<1>3. have' \in [Jobs -> SUBSET Positions]
    BY <1>1, <1>2
<1>4. \A j \in Jobs : have[j] \subseteq have'[j]
    BY <1>1, <1>2
<1>5. CASE IsMain(w) /\ HasNext(w)
  <2>1. /\ request[w] < End /\ NextCursor(w) \in Positions
        /\ NextCursor(w) = request[w] + 1
    BY <1>1, <1>5, NumbersAssumption DEF HasNext, NextCursor, Positions
  <2>2. \A p \in 0..request[w] : p \in have'[job[w]]
    <3>1. \A p \in 0..(request[w] - 1) : p \in have[job[w]]
      BY <1>5 DEF IndInv, RequestInv, WorkingPcs
    <3>2. request[w] \in have'[job[w]]
      BY <1>1, <1>2, <2>1, NumbersAssumption DEF Positions
    <3> QED
      BY <1>1, <1>4, <3>1, <3>2 DEF Positions
  <2>3. cursor' \in [Jobs -> Positions]
    BY <1>1, <1>2, <1>5, <2>1
  <2>4. ASSUME NEW j \in Jobs, NEW p \in 0..(cursor'[j] - 1) PROVE p \in have'[j]
    <3>1. CASE j = job[w]
      <4>1. cursor'[j] - 1 = request[w]
        BY <1>1, <1>2, <1>5, <2>1, <3>1 DEF Positions
      <4> QED
        BY <2>2, <3>1, <4>1
    <3>2. CASE j # job[w]
      <4>1. cursor'[j] = cursor[j]
        BY <1>1, <1>2, <1>5, <3>2
      <4> QED
        BY <1>4, <4>1 DEF IndInv, NothingSkipped
    <3> QED
      BY <3>1, <3>2
  <2> QED
    BY <1>2, <1>3, <2>3, <2>4 DEF NothingSkipped
<1>6. CASE ~(IsMain(w) /\ HasNext(w))
    BY <1>1, <1>2, <1>3, <1>4, <1>6 DEF IndInv, NothingSkipped
<1> QED
    BY <1>5, <1>6

(* A committed row is typed.                                               *)
LEMMA CommitRowTypes ==
    ASSUME IndInv, NEW w \in Workers, pc[w] = "commit", NEW continue \in BOOLEAN,
           continue => HasNext(w), CommitRow(w, continue), refillJob' = refillJob
    PROVE  JobTypeOK' /\ TaskTypeOK'
<1> USE DEF CommitRow
<1>1. job[w] \in Jobs /\ request[w] \in Positions
    BY DEF IndInv, RowTypeOK, WorkTypeOK, WorkingPcs
<1>2. status' \in [Jobs -> Statuses]
    BY <1>1 DEF IndInv, RowTypeOK, JobTypeOK, SetStatus, Statuses, ActiveStatuses, Claimable
<1>3. /\ owner' \in [Jobs -> Workers \cup {"none"}]
      /\ lease' \in [Jobs -> {"none", "valid", "expired"}]
    BY <1>1 DEF IndInv, RowTypeOK, JobTypeOK, DropLease, RenewLease
<1>4. pause' \in [Jobs -> BOOLEAN]
    BY <1>1 DEF IndInv, RowTypeOK, JobTypeOK, ClearPause
<1>5. refill' \in [Refills -> {"absent", "queued", "leased", "succeeded", "failed"}]
    BY DEF IndInv, RowTypeOK, TaskTypeOK
<1>6. refillCursor' \in [Refills -> Positions]
  <2>1. HasNext(w) => NextCursor(w) \in Positions
    BY <1>1, NumbersAssumption DEF HasNext, NextCursor, Positions
  <2> QED
    BY <2>1 DEF IndInv, RowTypeOK, TaskTypeOK
<1> QED
    BY <1>2, <1>3, <1>4, <1>5, <1>6, CommitRowPages DEF JobTypeOK, TaskTypeOK, IndInv, RowTypeOK

(* commit_page: the cursor moves with the rows.                            *)
LEMMA CommitPagePreserves ==
    ASSUME IndInv, NEW w \in Workers, CommitPage(w)
    PROVE  IndInv'
<1>1. pc[w] = "commit" /\ job[w] \in Jobs /\ pc[w] \in WorkingPcs \ {"budget"}
    BY DEF CommitPage, IndInv, RowTypeOK, WorkTypeOK, WorkingPcs
<1>2. CASE RetryJob(w) /\ UNCHANGED <<filed, faults>>
  <2>1. BoundTypeOK'
    BY <1>2 DEF RetryJob, GiveBack, IndInv, RowTypeOK, BoundTypeOK
  <2> QED
    BY <1>1, <1>2, <2>1, GiveBackPreserves
<1>3. ASSUME NEW continue \in BOOLEAN, continue => HasNext(w), CommitRow(w, continue),
             filed' = filed \ {w}, UNCHANGED <<refillJob, holder, referenced, bounds>>,
             \/ /\ status'[job[w]] = "leased"
                /\ count' = [count EXCEPT ![w] = @ + 1]
                /\ request' = [request EXCEPT ![w] = NextCursor(w)]
                /\ Goto(w, IF count[w] + 1 >= MaxPages THEN "budget" ELSE "page")
                /\ UNCHANGED <<job, task>>
             \/ /\ status'[job[w]] # "leased"
                /\ Goto(w, "recover")
                /\ job' = [job EXCEPT ![w] = "none"]
                /\ task' = [task EXCEPT ![w] = "none"]
                /\ UNCHANGED <<request, count>>
      PROVE  IndInv'
  <2>1. JobTypeOK' /\ TaskTypeOK' /\ BoundTypeOK'
    BY <1>1, <1>3, CommitRowTypes DEF bounds, IndInv, RowTypeOK, BoundTypeOK
  <2>2. /\ have' = [have EXCEPT ![job[w]] = @ \cup ({request[w]} \ {End})]
        /\ have' \in [Jobs -> SUBSET Positions] /\ missing' = missing
        /\ NothingSkipped'
    BY <1>1, <1>3, CommitRowPages
  <2>3. PageTypeOK' /\ EvidenceIsKept'
    BY <1>3, <2>2 DEF IndInv, RowTypeOK, PageTypeOK, EvidenceIsKept
  <2>4. status'[job[w]] = "leased" => continue
    BY <1>1, <1>3 DEF CommitRow, SetStatus, IndInv, RowTypeOK, JobTypeOK
  <2>5. HasNext(w) => /\ NextCursor(w) \in Positions /\ NextCursor(w) = request[w] + 1
                      /\ request[w] < End
    BY NumbersAssumption DEF HasNext, NextCursor, Positions, IndInv, RowTypeOK, WorkTypeOK
  <2>6. \A v \in Workers \ {w} : pc[v] \in {"off", "gone"}
    BY <1>1 DEF IndInv, LockInv
  <2>7. /\ pc'[w] \in {"budget", "page", "recover"} /\ pc' \in [Workers -> Pcs]
        /\ pc'[w] = "page" => count[w] + 1 < MaxPages
        /\ pc'[w] \in WorkingPcs => status'[job[w]] = "leased"
        /\ \A v \in Workers \ {w} : pc'[v] = pc[v]
    <3>1. PICK l \in {"budget", "page", "recover"} :
              /\ pc' = [pc EXCEPT ![w] = l]
              /\ l = "page" => count[w] + 1 < MaxPages
              /\ l # "recover" => status'[job[w]] = "leased"
      BY <1>3, NumbersAssumption DEF Goto, IndInv, RowTypeOK, WorkTypeOK
    <3> QED
      BY <3>1 DEF IndInv, RowTypeOK, WorkTypeOK, Pcs, WorkingPcs
  <2>8. WorkTypeOK'
    <3>1. request' \in [Workers -> Positions]
      BY <1>3, <2>4, <2>5 DEF IndInv, RowTypeOK, WorkTypeOK
    <3>2. count' \in [Workers -> 0..MaxPages] /\ (pc'[w] = "page" => count'[w] < MaxPages)
      BY <1>1, <1>3, <2>7, NumbersAssumption DEF IndInv, RowTypeOK, WorkTypeOK, WorkingPcs
    <3>3. /\ job' \in [Workers -> Jobs \cup {"none"}]
          /\ task' \in [Workers -> Refills \cup {"none"}]
          /\ pc'[w] \in WorkingPcs => job'[w] \in Jobs
      BY <1>1, <1>3, <2>7 DEF IndInv, RowTypeOK, WorkTypeOK
    <3> QED
      BY <1>3, <2>6, <2>7, <3>1, <3>2, <3>3 DEF IndInv, RowTypeOK, WorkTypeOK, WorkingPcs
  <2>9. RequestInv'
    <3> SUFFICES ASSUME pc'[w] \in WorkingPcs, IsMain(w)',
                        NEW p \in 0..(request'[w] - 1)
                 PROVE  p \in have'[job'[w]]
      BY <2>6, <2>7 DEF RequestInv, WorkingPcs
    <3>1. /\ job' = job /\ task' = task /\ request'[w] = request[w] + 1 /\ request[w] < End
          /\ request[w] \in Positions
      BY <1>3, <2>4, <2>5, <2>7 DEF IndInv, RowTypeOK, WorkTypeOK
    <3>2. \A q \in 0..(request[w] - 1) : q \in have[job[w]]
      BY <1>1, <3>1 DEF IndInv, RequestInv, IsMain
    <3>3. request[w] \in have'[job[w]] /\ have[job[w]] \subseteq have'[job[w]]
      BY <1>1, <2>2, <3>1, NumbersAssumption DEF IndInv, RowTypeOK, PageTypeOK, Positions
    <3> QED
      BY <3>1, <3>2, <3>3 DEF Positions
  <2>10. LockInv' /\ FilesInv'
    BY <1>1, <1>3, <2>6, <2>7 DEF IndInv, LockInv, FilesInv
  <2> QED
    BY <2>1, <2>2, <2>3, <2>8, <2>9, <2>10 DEF IndInv, RowTypeOK
<1> QED
  <2>1. CASE /\ owner[job[w]] = w /\ status[job[w]] = "committing"
    <3>1. PICK continue \in IF HasNext(w) THEN BOOLEAN ELSE {FALSE} :
                /\ CommitRow(w, continue)
                /\ filed' = filed \ {w}
                /\ \/ /\ status'[job[w]] = "leased"
                      /\ count' = [count EXCEPT ![w] = @ + 1]
                      /\ request' = [request EXCEPT ![w] = NextCursor(w)]
                      /\ Goto(w, IF count[w] + 1 >= MaxPages THEN "budget" ELSE "page")
                      /\ UNCHANGED <<job, task>>
                   \/ /\ status'[job[w]] # "leased"
                      /\ Goto(w, "recover")
                      /\ job' = [job EXCEPT ![w] = "none"]
                      /\ task' = [task EXCEPT ![w] = "none"]
                      /\ UNCHANGED <<request, count>>
      BY <2>1 DEF CommitPage, Has
    <3>2. UNCHANGED <<refillJob, holder, referenced, bounds>>
      BY <2>1 DEF CommitPage, Has
    <3>3. continue \in BOOLEAN /\ (continue => HasNext(w))
      OBVIOUS
    <3> QED
      BY <1>3, <3>1, <3>2, <3>3
  <2>2. CASE ~(owner[job[w]] = w /\ status[job[w]] = "committing")
    BY <1>2, <2>2 DEF CommitPage, Has
  <2> QED
    BY <2>1, <2>2

(* A worker stops or crashes.                                              *)
LEMMA ExitPreserves ==
    ASSUME IndInv, NEW w \in Workers, StopWorker(w) \/ Crash(w)
    PROVE  IndInv'
<1>1. BoundTypeOK' /\ holder' = "none" /\ filed' = filed
    BY NumbersAssumption
    DEF StopWorker, Crash, Exit, ReleaseAnd, GiveBack, IndInv, RowTypeOK, BoundTypeOK
<1>2. CASE pc[w] \in {"page", "rate"} /\ ReleaseAnd(w, "gone")
    BY <1>1, <1>2, GiveBackPreserves DEF WorkingPcs
<1>3. CASE ~(pc[w] \in {"page", "rate"} /\ ReleaseAnd(w, "gone"))
  <2>1. /\ Goto(w, "gone") /\ pc[w] \notin {"off", "gone"}
        /\ UNCHANGED <<rows, tasks, pages, request, count, referenced>>
        /\ \/ UNCHANGED <<job, task>>
           \/ job' = [job EXCEPT ![w] = "none"] /\ task' = [task EXCEPT ![w] = "none"]
    BY <1>3 DEF StopWorker, Crash, process
  <2>2. JobTypeOK' /\ TaskTypeOK' /\ cursor' = cursor
    BY <2>1 DEF rows, tasks, IndInv, RowTypeOK, JobTypeOK, TaskTypeOK
  <2>3. "gone" \in Pcs \ {"off", "orphans", "commit"} /\ "gone" \notin WorkingPcs
    BY DEF Pcs, WorkingPcs
  <2> QED
    BY <1>1, <2>1, <2>2, <2>3, HolderMoves
<1> QED
    BY <1>2, <1>3

-----------------------------------------------------------------------------
(* IndInv is an invariant of the mining queue and its workers              *)
(* (mining/store.py, mining/worker.py).                                    *)
THEOREM Inductive == Spec => []IndInv
<1>1. IndInv /\ [Next]_vars => IndInv'
  <2> SUFFICES ASSUME IndInv, [Next]_vars PROVE IndInv'
    OBVIOUS
  <2>1. CASE UNCHANGED vars
    <3>1. /\ cursor' = cursor /\ UNCHANGED <<pages, filed, holder, pc, process>>
          /\ JobTypeOK' /\ TaskTypeOK' /\ BoundTypeOK'
      BY <2>1 DEF vars, rows, tasks, bounds, IndInv, RowTypeOK, JobTypeOK, TaskTypeOK,
                  BoundTypeOK
    <3> QED
      BY <3>1, RowsOnly
  <2>2. ASSUME NEW j \in Jobs,
               \/ CreateJob(j) \/ PauseJob(j) \/ ResumeJob(j) \/ RunNow(j)
               \/ BecomeDue(j) \/ LeaseExpires(j)
               \/ \E r \in Refills : QueueRefill(j, r)
        PROVE  IndInv'
    BY <2>2, RequestsPreserve
  <2>3. ASSUME NEW w \in Workers, StartWorker(w) \/ WorkerStep(w) PROVE IndInv'
    BY <2>3, StartWorkerPreserves, RecoverOrphansPreserves, RecoverPreserves, ClaimPreserves,
       PageLoopPreserves, WriteFilesPreserves, CommitPagePreserves DEF WorkerStep
  <2>4. ASSUME NEW w \in Workers, StopWorker(w) \/ Crash(w) PROVE IndInv'
    BY <2>4, ExitPreserves
  <2> QED
    BY <2>1, <2>2, <2>3, <2>4 DEF Next
<1> QED
    BY <1>1, InitEstablishes, PTL DEF Spec

(* The evidence behind every checkpoint is complete, whatever was fetched  *)
(* twice, given back, stolen by a resume or lost with a worker             *)
(* (commit_page, recover_orphans).                                         *)
THEOREM CheckpointsHaveEvidence == Spec => []EvidenceIsComplete
<1>1. IndInv => EvidenceIsComplete
    BY DEF IndInv, EvidenceIsComplete
<1> QED
    BY <1>1, Inductive, PTL

-----------------------------------------------------------------------------
(* The requests that come while a worker has the job.                      *)

(* The statuses, apart.                                                    *)
LEMMA StatusesApart ==
    /\ ActiveStatuses \cap Claimable = {}
    /\ {"absent", "blocked", "paused", "queued", "retry_wait", "succeeded"}
         \cap ActiveStatuses = {}
    /\ {"queued", "retry_wait", "succeeded"} = Claimable
    /\ {"leased", "fetching", "committing"} = ActiveStatuses
BY DEF ActiveStatuses, Claimable

(* Requests, and time.                                                     *)
LEMMA LeaseOfRequests ==
    ASSUME RowTypeOK, LeaseInv, NEW j \in Jobs,
           \/ CreateJob(j) \/ PauseJob(j) \/ ResumeJob(j) \/ RunNow(j)
           \/ BecomeDue(j) \/ LeaseExpires(j)
           \/ \E r \in Refills : QueueRefill(j, r)
    PROVE  LeaseInv'
BY StatusesApart
DEF RowTypeOK, JobTypeOK, LeaseInv, CreateJob, PauseJob, ResumeJob, RunNow, BecomeDue,
    LeaseExpires, QueueRefill, SetStatus, DropLease, Call

(* A job that is given back is nobody's and not active.                    *)
LEMMA LeaseOfGiveBack ==
    ASSUME RowTypeOK, LeaseInv, NEW w \in Workers, job[w] \in Jobs,
           \/ RetryJob(w) \/ ReleaseJob(w) \/ BlockJob(w) \/ ReleaseAnd(w, "gone")
    PROVE  LeaseInv'
<1>1. CASE BlockJob(w)
    BY <1>1, StatusesApart
    DEF BlockJob, Has, RowTypeOK, JobTypeOK, LeaseInv, SetStatus, DropLease
<1>2. ASSUME NEW s \in {"queued", "retry_wait"}, NEW next, GiveBack(w, s, next) PROVE LeaseInv'
    BY <1>2, StatusesApart
    DEF GiveBack, Has, RowTypeOK, JobTypeOK, LeaseInv, SetStatus, DropLease
<1> QED
    BY <1>1, <1>2 DEF RetryJob, ReleaseJob, ReleaseAnd

(* A committed page keeps the lease or ends it with the status.            *)
LEMMA LeaseOfCommit ==
    ASSUME RowTypeOK, LeaseInv, NEW w \in Workers, job[w] \in Jobs, Has(w, job[w]),
           NEW continue \in BOOLEAN, CommitRow(w, continue)
    PROVE  LeaseInv'
BY StatusesApart, NoneAssumption
DEF CommitRow, Has, RowTypeOK, JobTypeOK, LeaseInv, SetStatus, DropLease

(* Every step keeps the relation of status and owner.                      *)
LEMMA LeaseOfWorker ==
    ASSUME IndInv, LeaseInv, NEW w \in Workers,
           StartWorker(w) \/ WorkerStep(w) \/ StopWorker(w) \/ Crash(w)
    PROVE  LeaseInv'
<1>1. RowTypeOK /\ (pc[w] \in WorkingPcs => job[w] \in Jobs)
    BY DEF IndInv, RowTypeOK, WorkTypeOK
<1>2. CASE UNCHANGED <<status, owner>>
    BY <1>2 DEF LeaseInv
<1>3. CASE \/ BeginActive(w) \/ PageTop(w) \/ RateWait(w) \/ Fetching(w) \/ Fetch(w)
           \/ ProviderFails(w) \/ PageBudget(w) \/ StopWorker(w)
  <2>1. CASE RetryJob(w) \/ ReleaseJob(w) \/ BlockJob(w) \/ ReleaseAnd(w, "gone")
    <3>1. pc[w] \in WorkingPcs \/ UNCHANGED <<status, owner>>
      BY <1>3
      DEF BeginActive, PageTop, RateWait, Fetching, Fetch, ProviderFails, PageBudget, StopWorker,
          WorkingPcs, rows
    <3> QED
      BY <1>1, <1>2, <2>1, <3>1, LeaseOfGiveBack
  <2>2. CASE ~(RetryJob(w) \/ ReleaseJob(w) \/ BlockJob(w) \/ ReleaseAnd(w, "gone"))
    <3>1. \/ UNCHANGED <<status, owner>>
          \/ /\ Owns(w, job[w]) /\ owner' = owner /\ job[w] \in Jobs
             /\ \E s \in ActiveStatuses : SetStatus(job[w], s)
      BY <1>1, <1>3, <2>2, StatusesApart
      DEF BeginActive, PageTop, RateWait, Fetching, Fetch, ProviderFails, PageBudget, StopWorker,
          Reach, WorkingPcs, rows
    <3> QED
      BY <1>1, <1>2, <3>1 DEF Owns, SetStatus, LeaseInv, RowTypeOK, JobTypeOK
  <2> QED
    BY <2>1, <2>2
<1>4. CASE RecoverExpiredLeases(w)
    BY <1>1, <1>4, StatusesApart
    DEF RecoverExpiredLeases, RecoveredStatus, Expired, LeaseInv, RowTypeOK, JobTypeOK
<1>5. CASE ClaimNext(w)
  <2>1. CASE ClaimNothing(w)
    BY <1>1, <1>5, <2>1, StatusesApart
    DEF ClaimNothing, DueBefore, IsDue, LeaseInv, RowTypeOK, JobTypeOK
  <2>2. ASSUME NEW i, NEW j \in Jobs, ClaimFirst(w, i, j) PROVE LeaseInv'
    BY <1>1, <2>2, StatusesApart, NoneAssumption
    DEF ClaimFirst, DueBefore, IsDue, LeaseInv, RowTypeOK, JobTypeOK
  <2> QED
    BY <1>5, <2>1, <2>2, SetsAssumption DEF ClaimNext
<1>6. CASE CommitPage(w)
  <2>1. job[w] \in Jobs
    BY <1>1, <1>6 DEF CommitPage, WorkingPcs
  <2>2. CASE RetryJob(w)
    BY <1>1, <2>1, <2>2, LeaseOfGiveBack
  <2>3. CASE ~RetryJob(w)
    <3>1. Has(w, job[w]) /\ \E continue \in BOOLEAN : CommitRow(w, continue)
      BY <1>6, <2>3 DEF CommitPage
    <3> QED
      BY <1>1, <2>1, <3>1, LeaseOfCommit
  <2> QED
    BY <2>2, <2>3
<1>7. CASE StartWorker(w) \/ ScanPages(w) \/ MoveOrphans(w) \/ WriteFiles(w) \/ Crash(w)
    BY <1>2, <1>7 DEF StartWorker, ScanPages, MoveOrphans, WriteFiles, Crash, Reach, rows
<1> QED
    BY <1>3, <1>4, <1>5, <1>6, <1>7 DEF WorkerStep

(* A job is active as long as somebody has it                              *)
(* (the UPDATE statements of mining/store.py).                             *)
THEOREM ActiveJobsHaveOwners == Spec => []LeaseInv
<1>1. Init => LeaseInv
    BY StatusesApart DEF Init, LeaseInv
<1>2. IndInv /\ LeaseInv /\ [Next]_vars => LeaseInv'
  <2> SUFFICES ASSUME IndInv, LeaseInv, [Next]_vars PROVE LeaseInv'
    OBVIOUS
  <2>1. CASE UNCHANGED vars
    BY <2>1 DEF vars, rows, LeaseInv
  <2>2. RowTypeOK
    BY DEF IndInv
  <2> QED
    BY <2>1, <2>2, LeaseOfRequests, LeaseOfWorker DEF Next
<1> QED
    BY <1>1, <1>2, Inductive, PTL DEF Spec

(* A step that leaves a job's status, owner, pause flag and pages alone.   *)
LEMMA NothingHappens ==
    ASSUME NEW j \in Jobs, cursor'[j] = cursor[j], have'[j] = have[j],
           status'[j] = status[j], owner'[j] = owner[j], pause'[j] = pause[j]
    PROVE  ResumeStands(j) /\ PauseStands(j) /\ RefillStands(j)
BY DEF ResumeStands, PauseStands, RefillStands

(* Requests that are not counted, and time.                                *)
LEMMA StandBesideRequests ==
    ASSUME RowTypeOK, LeaseInv, NEW k \in Jobs,
           \/ CreateJob(k) \/ BecomeDue(k) \/ LeaseExpires(k)
           \/ \E r \in Refills : QueueRefill(k, r)
    PROVE  RequestsStand
<1> SUFFICES ASSUME NEW j \in Jobs PROVE ResumeStands(j) /\ PauseStands(j) /\ RefillStands(j)
    BY DEF RequestsStand
<1>1. /\ cursor' = cursor /\ have' = have /\ owner' = owner /\ pause' = pause
      /\ status'[j] \in {status[j], "queued"}
      /\ status[j] = "paused" => status'[j] = "paused"
    BY DEF CreateJob, BecomeDue, LeaseExpires, QueueRefill, SetStatus, pages, RowTypeOK, JobTypeOK
<1> QED
    BY <1>1 DEF ResumeStands, PauseStands, RefillStands

(* A worker gives back only a job it still has, and a pause goes first.    *)
LEMMA StandGivenBack ==
    ASSUME RowTypeOK, NEW w \in Workers, job[w] \in Jobs,
           \/ RetryJob(w) \/ ReleaseJob(w) \/ BlockJob(w) \/ ReleaseAnd(w, "gone")
    PROVE  RequestsStand
<1> SUFFICES ASSUME NEW j \in Jobs PROVE ResumeStands(j) /\ PauseStands(j) /\ RefillStands(j)
    BY DEF RequestsStand
<1>1. cursor' = cursor /\ have' = have
    BY DEF RetryJob, ReleaseJob, ReleaseAnd, GiveBack, BlockJob, pages
<1>2. \/ UNCHANGED <<status[j], owner[j], pause[j]>>
      \/ /\ owner[j] # "none"
         /\ pause[j] => status'[j] \in {"paused", "blocked"}
         /\ pause[j] /\ ~pause'[j] => status'[j] = "paused"
         /\ status'[j] # "succeeded"
  <2>1. CASE BlockJob(w)
    BY <2>1, NoneAssumption DEF BlockJob, Has, SetStatus, DropLease, RowTypeOK, JobTypeOK
  <2>2. ASSUME NEW s \in {"queued", "retry_wait"}, NEW next, GiveBack(w, s, next)
        PROVE  \/ UNCHANGED <<status[j], owner[j], pause[j]>>
               \/ /\ owner[j] # "none" /\ status'[j] # "succeeded"
                  /\ pause[j] => status'[j] = "paused"
    BY <2>2, NoneAssumption
    DEF GiveBack, Has, SetStatus, DropLease, ClearPause, RowTypeOK, JobTypeOK
  <2> QED
    BY <2>1, <2>2 DEF RetryJob, ReleaseJob, ReleaseAnd
<1> QED
    BY <1>1, <1>2 DEF ResumeStands, PauseStands, RefillStands

(* commit_page turns a pause into the status and yields to a refill.       *)
LEMMA StandCommitted ==
    ASSUME RowTypeOK, NEW w \in Workers, job[w] \in Jobs, Has(w, job[w]),
           NEW continue \in BOOLEAN, CommitRow(w, continue)
    PROVE  RequestsStand
<1> SUFFICES ASSUME NEW j \in Jobs PROVE ResumeStands(j) /\ PauseStands(j) /\ RefillStands(j)
    BY DEF RequestsStand
<1>1. CASE j # job[w]
  <2>1. /\ cursor'[j] = cursor[j] /\ have'[j] = have[j] /\ status'[j] = status[j]
        /\ owner'[j] = owner[j] /\ pause'[j] = pause[j]
    BY <1>1 DEF CommitRow, SetStatus, DropLease, ClearPause, RowTypeOK, JobTypeOK, PageTypeOK
  <2> QED
    BY <2>1, NothingHappens
<1>2. CASE j = job[w]
  <2>1. owner[j] # "none"
    BY <1>2, NoneAssumption DEF Has
  <2>2. pause[j] => status'[j] = "paused"
    BY <1>2 DEF CommitRow, SetStatus, RowTypeOK, JobTypeOK
  <2>3. status'[j] = "succeeded" => ~Yields(w) /\ IsMain(w)
    BY <1>2 DEF CommitRow, SetStatus, RowTypeOK, JobTypeOK
  <2> QED
    BY <1>2, <2>1, <2>2, <2>3 DEF ResumeStands, PauseStands, RefillStands, Yields
<1> QED
    BY <1>1, <1>2

(* Recovery of leases that expired, and claims.                            *)
LEMMA StandClaimed ==
    ASSUME RowTypeOK, LeaseInv, NEW w \in Workers, RecoverExpiredLeases(w) \/ ClaimNext(w)
    PROVE  RequestsStand
<1> SUFFICES ASSUME NEW j \in Jobs PROVE ResumeStands(j) /\ PauseStands(j) /\ RefillStands(j)
    BY DEF RequestsStand
<1>1. cursor' = cursor /\ have' = have
    BY DEF RecoverExpiredLeases, ClaimNext, pages
<1>2. CASE RecoverExpiredLeases(w)
  <2>1. CASE ~Expired(j)
    BY <1>1, <1>2, <2>1, NothingHappens DEF RecoverExpiredLeases, RowTypeOK, JobTypeOK
  <2>2. CASE Expired(j)
    <3>1. owner[j] # "none"
      BY <2>2 DEF Expired, LeaseInv
    <3>2. status'[j] = RecoveredStatus(j) /\ ~pause'[j]
      BY <1>2, <2>2 DEF RecoverExpiredLeases
    <3> QED
      BY <3>1, <3>2 DEF RecoveredStatus, ResumeStands, PauseStands, RefillStands
  <2> QED
    BY <2>1, <2>2
<1>3. CASE ClaimNext(w)
  <2>1. /\ pause' = pause
        /\ owner'[j] \in {owner[j], w}
        /\ status'[j] \in {status[j], "leased", "blocked"}
        /\ status[j] = "paused" => status'[j] = "paused"
    <3>1. CASE ClaimNothing(w)
      BY <1>3, <3>1 DEF ClaimNext, ClaimNothing, DueBefore, IsDue, Claimable, RowTypeOK, JobTypeOK
    <3>2. ASSUME NEW i, NEW k \in Jobs, ClaimFirst(w, i, k)
          PROVE  /\ owner'[j] \in {owner[j], w}
                 /\ status'[j] \in {status[j], "leased", "blocked"}
                 /\ status[j] = "paused" => status'[j] = "paused"
      BY <3>2 DEF ClaimFirst, DueBefore, IsDue, Claimable, RowTypeOK, JobTypeOK
    <3> QED
      BY <1>3, <3>1, <3>2, SetsAssumption DEF ClaimNext
  <2> QED
    BY <1>1, <2>1, NoneAssumption DEF ResumeStands, PauseStands, RefillStands
<1> QED
    BY <1>2, <1>3

(* Every step of a worker.                                                 *)
LEMMA StandBesideWorkers ==
    ASSUME IndInv, LeaseInv, NEW w \in Workers,
           StartWorker(w) \/ WorkerStep(w) \/ StopWorker(w) \/ Crash(w)
    PROVE  RequestsStand
<1>1. RowTypeOK /\ (pc[w] \in WorkingPcs => job[w] \in Jobs)
    BY DEF IndInv, RowTypeOK, WorkTypeOK
<1>2. CASE UNCHANGED <<status, owner, pause, cursor, have>>
    BY <1>2, NothingHappens DEF RequestsStand
<1>3. CASE \/ BeginActive(w) \/ PageTop(w) \/ RateWait(w) \/ Fetching(w) \/ Fetch(w)
           \/ ProviderFails(w) \/ PageBudget(w) \/ StopWorker(w)
  <2>1. CASE RetryJob(w) \/ ReleaseJob(w) \/ BlockJob(w) \/ ReleaseAnd(w, "gone")
    <3>1. pc[w] \in WorkingPcs \/ UNCHANGED <<status, owner, pause, cursor, have>>
      BY <1>3
      DEF BeginActive, PageTop, RateWait, Fetching, Fetch, ProviderFails, PageBudget, StopWorker,
          WorkingPcs, rows, pages
    <3> QED
      BY <1>1, <1>2, <2>1, <3>1, StandGivenBack
  <2>2. CASE ~(RetryJob(w) \/ ReleaseJob(w) \/ BlockJob(w) \/ ReleaseAnd(w, "gone"))
    <3>1. /\ UNCHANGED <<owner, pause, cursor, have>>
          /\ \/ status' = status
             \/ /\ Owns(w, job[w]) /\ job[w] \in Jobs
                /\ \E s \in {"fetching", "committing"} : SetStatus(job[w], s)
      BY <1>1, <1>3, <2>2
      DEF BeginActive, PageTop, RateWait, Fetching, Fetch, ProviderFails, PageBudget, StopWorker,
          Reach, WorkingPcs, rows, pages
    <3>2. CASE status' = status
      BY <1>2, <3>1, <3>2
    <3>3. CASE status' # status
      <4>1. \A j \in Jobs : owner[j] = "none" => status'[j] = status[j]
        BY <1>1, <3>1, <3>3, NoneAssumption DEF Owns, Has, SetStatus, RowTypeOK, JobTypeOK
      <4> QED
        BY <3>1, <4>1 DEF RequestsStand, ResumeStands, PauseStands, RefillStands
    <3> QED
      BY <3>2, <3>3
  <2> QED
    BY <2>1, <2>2
<1>4. CASE RecoverExpiredLeases(w) \/ ClaimNext(w)
    BY <1>1, <1>4, StandClaimed
<1>5. CASE CommitPage(w)
  <2>1. job[w] \in Jobs
    BY <1>1, <1>5 DEF CommitPage, WorkingPcs
  <2>2. CASE RetryJob(w)
    BY <1>1, <2>1, <2>2, StandGivenBack
  <2>3. CASE ~RetryJob(w)
    <3>1. Has(w, job[w]) /\ \E continue \in BOOLEAN : CommitRow(w, continue)
      BY <1>5, <2>3 DEF CommitPage
    <3> QED
      BY <1>1, <2>1, <3>1, StandCommitted
  <2> QED
    BY <2>2, <2>3
<1>6. CASE StartWorker(w) \/ ScanPages(w) \/ MoveOrphans(w) \/ WriteFiles(w) \/ Crash(w)
    BY <1>2, <1>6 DEF StartWorker, ScanPages, MoveOrphans, WriteFiles, Crash, Reach, rows, pages
<1> QED
    BY <1>3, <1>4, <1>5, <1>6 DEF WorkerStep

(* A resume, a pause or a refill that comes while a worker has the job     *)
(* stands, whatever that worker, its death or a recovery does next         *)
(* (resume_job, pause_job, queue_refill, commit_page).                     *)
THEOREM RequestsAreKept == Spec => NoRequestIsLost
<1>1. IndInv /\ LeaseInv /\ [Next]_vars => [calls' = calls => RequestsStand]_vars
  <2> SUFFICES ASSUME IndInv, LeaseInv, Next, calls' = calls PROVE RequestsStand
    OBVIOUS
  <2>1. RowTypeOK /\ calls \in Nat
    BY NumbersAssumption DEF IndInv, RowTypeOK, BoundTypeOK
  <2>2. \A j \in Jobs : ~PauseJob(j) /\ ~ResumeJob(j) /\ ~RunNow(j)
    BY <2>1 DEF PauseJob, ResumeJob, RunNow, Call
  <2> QED
    BY <2>1, <2>2, StandBesideRequests, StandBesideWorkers DEF Next
<1> QED
    BY <1>1, Inductive, ActiveJobsHaveOwners, PTL DEF Spec, NoRequestIsLost
=============================================================================
