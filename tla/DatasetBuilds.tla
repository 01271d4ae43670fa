---------------------------- MODULE DatasetBuilds ----------------------------
(***************************************************************************)
(* Dataset Build Jobs: a handler claims a Workspace, runs the submitted    *)
(* Script in a sandbox over the Job's scratch directory, persists evidence *)
(* that it completed, and publishes the output as an immutable Dataset     *)
(* Version: a directory and rows that commit together with the Job's.      *)
(*                                                                         *)
(* Sources: engine/service/dataset_builds.py, dataset_workspaces.py,       *)
(* engine/repository/dataset_build_jobs.py, dataset_publication.py,        *)
(* dataset_staging.py, dataset_workspaces.py, datasets.py,                 *)
(* engine/runtime/dataset_build.py, engine/archive/dataset.py.             *)
(*                                                                         *)
(* All Jobs read one upstream Dataset and publish to one output Dataset    *)
(* with the same descriptor, the case in which they can collide; what a    *)
(* Script writes is a member of Contents and names the Version's           *)
(* directory.  A write transaction holds the database's only write lock    *)
(* from BEGIN IMMEDIATE to its commit; Faults are calls of the database or *)
(* the file system that fail.                                              *)
(***************************************************************************)
EXTENDS Naturals, FiniteSets

CONSTANTS
    Jobs, Workspaces, Contents,
    Writes,      \* what each Job's Script may write
    Internal,    \* Workspaces of process_recipe
    MaxFaults,   \* bound: failing database and file-system calls
    MaxCrashes   \* bound: ends of the Engine process

ASSUME ConstantsAssumption ==
    /\ Writes \in [Jobs -> SUBSET Contents]
    /\ Internal \subseteq Workspaces
    /\ MaxFaults \in Nat /\ MaxCrashes \in Nat
ASSUME NoneAssumption == "none" \notin Jobs \cup Contents /\ "empty" \notin Jobs

VARIABLES
    engine,      \* "up", "down", "starting"
    row,         \* dataset_build_jobs.status, "none" without a row
    ws,          \* dataset_workspaces: status and submitted_job_id
    source, output,  \* datasets.status of the upstream and the output Dataset
    index,       \* dataset_versions: content -> building Job
    archive,     \* the Version directories on disk
    scratch,     \* Jobs with a scratch directory
    evidence,    \* completion evidence in the scratch: the content it lists
    staging,     \* Jobs with a staging directory
    writer,      \* Jobs whose Script may be writing
    authority,   \* Jobs whose ProcessSession is retained
    dbLock,      \* the Job whose transaction holds the write lock, or "none"
    pc, work,    \* each handler's next step and its Workspace
    created,     \* Jobs whose transaction created the Version directory
    faults, crashes

rows   == <<row, ws, source, output, index>>
disk   == <<archive, scratch, evidence, staging>>
procs  == <<writer, authority>>
counts == <<faults, crashes>>
vars   == <<engine, rows, disk, procs, dbLock, pc, work, created, counts>>

Absent == [job |-> "none", sealed |-> FALSE]
Empty  == [job |-> "empty", sealed |-> FALSE]
Active == {"submitted", "running"}
Terminal == {"completed", "failed"}

TypeOK ==
    /\ engine \in {"up", "down", "starting"}
    /\ row \in [Jobs -> Active \cup Terminal \cup {"none"}]
    /\ ws \in [Workspaces -> [status : {"draft", "submitted", "published", "failed",
                                        "deleting", "absent"},
                              job : Jobs \cup {"none"}]]
    /\ source \in {"active", "archived"} /\ output \in {"absent", "active", "archived"}
    /\ index \in [Contents -> Jobs \cup {"none"}]
    /\ archive \in [Contents -> {Absent, Empty} \cup [job : Jobs, sealed : BOOLEAN]]
    /\ scratch \subseteq Jobs /\ staging \subseteq Jobs
    /\ evidence \in [Jobs -> Contents \cup {"none"}]
    /\ writer \subseteq Jobs /\ authority \subseteq Jobs
    /\ dbLock \in Jobs \cup {"none"}
    /\ pc \in [Jobs -> {"idle", "prepare", "commit", "start", "execute", "executing",
                        "evidence", "publish", "begin", "move", "seal", "index",
                        "cleanup", "except", "settle", "recover", "lost", "done"}]
    /\ work \in [Jobs -> Workspaces \cup {"none"}]
    /\ created \subseteq Jobs
    /\ faults \in 0..MaxFaults /\ crashes \in 0..MaxCrashes

Init ==
    /\ engine = "up"
    /\ row = [j \in Jobs |-> "none"]
    /\ ws = [w \in Workspaces |-> [status |-> "draft", job |-> "none"]]
    /\ source = "active" /\ output = "absent"
    /\ index = [c \in Contents |-> "none"]
    /\ archive = [c \in Contents |-> Absent]
    /\ scratch = {} /\ staging = {}
    /\ evidence = [j \in Jobs |-> "none"]
    /\ writer = {} /\ authority = {}
    /\ dbLock = "none"
    /\ pc = [j \in Jobs |-> "idle"]
    /\ work = [j \in Jobs |-> "none"]
    /\ created = {} /\ faults = 0 /\ crashes = 0

Goto(j, label) == pc' = [pc EXCEPT ![j] = label]
Fault == faults < MaxFaults /\ faults' = faults + 1 /\ UNCHANGED crashes
NoFault == UNCHANGED counts
Unlocked == dbLock = "none"

(* discard_execution_workspace: scratch and the evidence in it             *)
DiscardScratch(j) ==
    /\ scratch' = scratch \ {j}
    /\ evidence' = [evidence EXCEPT ![j] = "none"]

-----------------------------------------------------------------------------
(* Submission.                                                             *)

(* submit_build up to the scratch directory: the checks                    *)
Submit(j, w) ==
    /\ engine = "up" /\ pc[j] = "idle" /\ row[j] = "none"
    /\ ws[w].status = "draft" /\ output = "absent" /\ source = "active"
    /\ work' = [work EXCEPT ![j] = w]
    /\ Goto(j, "prepare")
    /\ UNCHANGED <<engine, rows, disk, procs, dbLock, created, counts>>

(* the Job directory is created exclusively; a failure discards it         *)
MakeScratch(j) ==
    /\ pc[j] = "prepare"
    /\ \/ /\ j \notin scratch
          /\ scratch' = scratch \cup {j}
          /\ Goto(j, "commit")
          /\ NoFault
       \/ /\ Fault
          /\ Goto(j, "idle")
          /\ UNCHANGED scratch
    /\ UNCHANGED <<engine, rows, archive, evidence, staging, procs, dbLock, work, created>>

Claimable(j) == ws[work[j]].status = "draft" /\ output = "absent"

(* commit_build_submission                                                 *)
Claim(j) ==
    /\ row' = [row EXCEPT ![j] = "submitted"]
    /\ ws' = [ws EXCEPT ![work[j]] = [status |-> "submitted", job |-> j]]
    /\ UNCHANGED <<source, output, index>>

(* build_submission_commit_state is "unknown": nothing is discarded        *)
KeepUnresolved(j) == Goto(j, "lost") /\ UNCHANGED <<scratch, evidence>>

CommitSubmission(j) ==
    /\ pc[j] = "commit" /\ Unlocked
    /\ \/ Claimable(j) /\ Claim(j) /\ Goto(j, "start")
          /\ NoFault /\ UNCHANGED <<scratch, evidence>>
       \/ ~Claimable(j) /\ DiscardScratch(j) /\ Goto(j, "idle")
          /\ NoFault /\ UNCHANGED rows
       \/ Fault /\ UNCHANGED rows /\ DiscardScratch(j) /\ Goto(j, "idle")
       \/ Fault /\ Claimable(j) /\ Claim(j) /\ KeepUnresolved(j)
       \/ Fault /\ UNCHANGED rows /\ KeepUnresolved(j)
    /\ UNCHANGED <<engine, archive, staging, procs, dbLock, work, created>>

MarkRunning(j) ==
    /\ pc[j] = "start" /\ Unlocked
    /\ \/ /\ row[j] = "submitted"
          /\ row' = [row EXCEPT ![j] = "running"]
          /\ Goto(j, "execute")
          /\ NoFault
       \/ /\ Fault
          /\ Goto(j, "except")
          /\ UNCHANGED row
    /\ UNCHANGED <<engine, ws, source, output, index, disk, procs, dbLock, work, created>>

-----------------------------------------------------------------------------
(* The sandboxed Script.                                                   *)

StartScript(j) ==
    /\ pc[j] = "execute"
    /\ \/ /\ writer' = writer \cup {j} /\ authority' = authority \cup {j}
          /\ Goto(j, "executing")
          /\ NoFault
       \/ Fault /\ Goto(j, "except") /\ UNCHANGED procs
    /\ UNCHANGED <<engine, rows, disk, dbLock, work, created>>

(* the Script ended, timed out or exceeded a limit, and its quiescence is  *)
(* proven: the session is released                                         *)
ScriptEnds(j) ==
    /\ pc[j] = "executing"
    /\ writer' = writer \ {j} /\ authority' = authority \ {j}
    /\ Goto(j, "evidence") \/ Goto(j, "except")
    /\ UNCHANGED <<engine, rows, disk, dbLock, work, created, counts>>

(* its termination is not proven: the session is retained                  *)
ScriptIsRetained(j) ==
    /\ pc[j] = "executing"
    /\ Fault
    /\ Goto(j, "except")
    /\ UNCHANGED <<engine, rows, disk, procs, dbLock, work, created>>

(* write_build_completion_evidence: refused for an empty or invalid output *)
WriteEvidence(j) ==
    /\ pc[j] = "evidence"
    /\ \/ /\ \E c \in Writes[j] : evidence' = [evidence EXCEPT ![j] = c]
          /\ Goto(j, "publish")
       \/ Goto(j, "except") /\ UNCHANGED evidence
    /\ UNCHANGED <<engine, rows, archive, scratch, staging, procs, dbLock, work,
                   created, counts>>

-----------------------------------------------------------------------------
(* Publication.                                                            *)

Content(j) == evidence[j]

(* _verify_container: its bytes, manifest and permissions                  *)
SealedBy(j, container) == container = [job |-> j, sealed |-> TRUE]

(* an unindexed container may be published again by the Job that made it   *)
IsOwnOrphan(j) ==
    /\ index[Content(j)] = "none"
    /\ SealedBy(j, archive[Content(j)])
IsFree(j) == archive[Content(j)] \in {Absent, Empty}

(* publish_dataset up to BEGIN IMMEDIATE: staging is filled and sealed     *)
Stage(j) ==
    /\ pc[j] = "publish"
    /\ \/ /\ j \notin authority /\ row[j] = "running" /\ ws[work[j]].status = "submitted"
          /\ output # "archived" /\ IsFree(j)
          /\ archive' = [archive EXCEPT ![Content(j)] = Absent]
          /\ staging' = staging \cup {j}
          /\ Goto(j, "begin") /\ NoFault
       \/ /\ j \notin authority /\ row[j] = "running" /\ ws[work[j]].status = "submitted"
          /\ output # "archived" /\ IsOwnOrphan(j)
          /\ Goto(j, "begin") /\ NoFault
          /\ UNCHANGED <<archive, staging>>
       \/ /\ output = "archived" \/ ~(IsFree(j) \/ IsOwnOrphan(j))
          /\ Goto(j, "except") /\ NoFault
          /\ UNCHANGED <<archive, staging>>
       \/ /\ Fault
          /\ Goto(j, "except")
          /\ UNCHANGED <<archive, staging>>
    /\ UNCHANGED <<engine, rows, scratch, evidence, procs, dbLock, work, created>>

(* _require_active_dataset_lineage                                         *)
ActiveLineage == source = "active"

Admitted(j) ==
    /\ ActiveLineage /\ output = "absent" /\ index[Content(j)] = "none"
    /\ j \in staging => archive[Content(j)] = Absent

(* BEGIN IMMEDIATE, the checks, and the Version's parent directory         *)
Begin(j) ==
    /\ pc[j] = "begin" /\ Unlocked
    /\ \/ /\ Admitted(j) /\ j \in staging
          /\ archive' = [archive EXCEPT ![Content(j)] = Empty]
          /\ created' = created \cup {j}
          /\ dbLock' = j
          /\ Goto(j, "move") /\ NoFault
       \/ /\ Admitted(j) /\ j \notin staging
          /\ dbLock' = j
          /\ Goto(j, "index") /\ NoFault
          /\ UNCHANGED <<archive, created>>
       \/ /\ ~Admitted(j)
          /\ Goto(j, "cleanup") /\ NoFault
          /\ UNCHANGED <<archive, created, dbLock>>
       \/ /\ Fault
          /\ Goto(j, "cleanup")
          /\ UNCHANGED <<archive, created, dbLock>>
    /\ UNCHANGED <<engine, rows, scratch, evidence, staging, procs, work>>

Rollback(j) == dbLock' = "none" /\ Goto(j, "cleanup")

(* publish_staging_directory: the rename.  It makes the parent directory   *)
(* again when another Job's Stage removed it, and fails when that happens  *)
(* between the two.                                                        *)
Move(j) ==
    /\ pc[j] = "move"
    /\ \/ /\ archive' = [archive EXCEPT ![Content(j)] = [job |-> j, sealed |-> FALSE]]
          /\ Goto(j, "seal") /\ NoFault /\ UNCHANGED dbLock
       \/ archive[Content(j)] = Absent /\ Rollback(j) /\ NoFault /\ UNCHANGED archive
       \/ Fault /\ Rollback(j) /\ UNCHANGED archive
    /\ UNCHANGED <<engine, rows, scratch, evidence, staging, procs, work, created>>

(* the moved root becomes read-only and is verified                        *)
Seal(j) ==
    /\ pc[j] = "seal"
    /\ \/ /\ archive[Content(j)].job = j
          /\ archive' = [archive EXCEPT ![Content(j)].sealed = TRUE]
          /\ Goto(j, "index") /\ NoFault /\ UNCHANGED dbLock
       \/ archive[Content(j)].job # j /\ Rollback(j) /\ NoFault /\ UNCHANGED archive
       \/ Fault /\ Rollback(j) /\ UNCHANGED archive
    /\ UNCHANGED <<engine, rows, scratch, evidence, staging, procs, work, created>>

(* Mutant: the Version's rows commit before the Job's.                     *)
IndexWithoutJob(j) ==
    /\ index' = [index EXCEPT ![Content(j)] = j]
    /\ output' = "active"
    /\ UNCHANGED <<row, ws, source>>

(* the rows of the Dataset, its Version and its lineage                    *)
IndexRows(j) ==
    /\ index' = [index EXCEPT ![Content(j)] = j]
    /\ output' = "active"

(* with them the Job and the Workspace                                     *)
Publish(j) ==
    /\ IndexRows(j)
    /\ row[j] = "running" /\ ws[work[j]] = [status |-> "submitted", job |-> j]
    /\ row' = [row EXCEPT ![j] = "completed"]
    /\ ws' = [ws EXCEPT ![work[j]].status = "published"]
    /\ UNCHANGED source

(* the commit; when it fails the receipt says whether it took effect, and  *)
(* is missing or unreadable otherwise                                      *)
Commit(j) ==
    /\ pc[j] = "index"
    /\ \/ Publish(j) /\ Goto(j, "settle") /\ NoFault
       \/ Fault /\ Publish(j) /\ Goto(j, "cleanup")
       \/ Fault /\ UNCHANGED rows /\ Goto(j, "cleanup")
    /\ dbLock' = "none"
    /\ staging' = IF pc'[j] = "settle" THEN staging \ {j} ELSE staging
    /\ UNCHANGED <<engine, archive, scratch, evidence, procs, work, created>>

(* Mutant: the created directory is discarded unseen.                      *)
DiscardUnseen(j) == archive' = [archive EXCEPT ![Content(j)] = Absent]

(* a created directory goes once the database says it is not indexed       *)
DiscardUnindexed(j) ==
    archive' = IF index[Content(j)] = "none" THEN [archive EXCEPT ![Content(j)] = Absent]
               ELSE archive

(* the finally block of an uncommitted publication                         *)
Cleanup(j) ==
    /\ pc[j] = "cleanup"
    /\ staging' = staging \ {j}
    /\ \/ j \in created /\ DiscardUnindexed(j) /\ NoFault
       \/ j \notin created /\ UNCHANGED archive /\ NoFault
       \/ j \in created /\ Fault /\ UNCHANGED archive
    /\ created' = created \ {j}
    /\ Goto(j, "except")
    /\ UNCHANGED <<engine, rows, scratch, evidence, procs, dbLock, work>>

-----------------------------------------------------------------------------
(* The end of a Build.                                                     *)

(* Mutant: the retained session is not asked for.                          *)
IgnoreAuthority(j) == FALSE

(* execution_process_authority                                             *)
HasAuthority(j) == j \in authority

HasVersion(j) == \E c \in Contents : index[c] = j

(* mark_build_failed                                                       *)
MarkFailed(j) ==
    /\ row[j] \in Active
    /\ row' = [row EXCEPT ![j] = "failed"]
    /\ ws' = [ws EXCEPT ![work[j]].status = "failed"]
    /\ UNCHANGED <<source, output, index>>

(* submit_build's handler of every error.  At startup scratch stays for    *)
(* reconcile_terminal_build_workspaces, and an error ends the startup.     *)
Except(j) ==
    /\ pc[j] = "except" /\ Unlocked
    /\ \/ /\ HasAuthority(j)
          /\ Goto(j, "lost") /\ NoFault
          /\ UNCHANGED <<engine, rows, scratch, evidence>>
       \/ /\ ~HasAuthority(j) /\ HasVersion(j)
          /\ Goto(j, "settle") /\ NoFault
          /\ UNCHANGED <<engine, rows, scratch, evidence>>
       \/ /\ ~HasAuthority(j) /\ ~HasVersion(j)
          /\ MarkFailed(j)
          /\ Goto(j, "done") /\ NoFault
          /\ IF engine = "up" THEN DiscardScratch(j) ELSE UNCHANGED <<scratch, evidence>>
          /\ UNCHANGED engine
       \/ /\ ~HasAuthority(j) /\ ~HasVersion(j)
          /\ Fault
          /\ Goto(j, "lost")
          /\ engine' = IF engine = "starting" THEN "down" ELSE engine
          /\ UNCHANGED <<rows, scratch, evidence>>
    /\ UNCHANGED <<archive, staging, procs, dbLock, work, created>>

(* _discard_committed_execution_workspace: best effort                     *)
Settle(j) ==
    /\ pc[j] = "settle"
    /\ \/ engine = "up" /\ DiscardScratch(j) /\ NoFault
       \/ engine = "starting" /\ UNCHANGED <<scratch, evidence>> /\ NoFault
       \/ engine = "up" /\ Fault /\ UNCHANGED <<scratch, evidence>>
    /\ created' = created \ {j}
    /\ Goto(j, "done")
    /\ UNCHANGED <<engine, rows, archive, staging, procs, dbLock, work>>

-----------------------------------------------------------------------------
(* Workspaces and Datasets.                                                *)

Deletable(w) == ws[w].status \in {"draft", "published", "failed"}

DeleteWorkspace(w) ==
    /\ engine = "up" /\ Unlocked
    /\ Deletable(w)
    /\ ws' = [ws EXCEPT ![w].status = "deleting"]
    /\ UNCHANGED <<engine, row, source, output, index, disk, procs, dbLock, pc, work,
                   created, counts>>

FinishDeletion(w) ==
    /\ engine = "up" /\ Unlocked
    /\ ws[w].status = "deleting"
    /\ ws' = [ws EXCEPT ![w] = [status |-> "absent", job |-> "none"]]
    /\ UNCHANGED <<engine, row, source, output, index, disk, procs, dbLock, pc, work,
                   created, counts>>

(* dataset_lineage has the edge once a Version is indexed: every Job reads  *)
(* the upstream Dataset                                                    *)
OutputIsDownstream == \E c \in Contents : index[c] # "none"

(* archive_dataset, with what it archives in cascade                       *)
ArchiveDataset ==
    /\ engine = "up" /\ Unlocked
    /\ \/ /\ source = "active" /\ source' = "archived"
          /\ output' = IF output = "active" /\ OutputIsDownstream THEN "archived" ELSE output
       \/ output = "active" /\ output' = "archived" /\ UNCHANGED source
    /\ UNCHANGED <<engine, row, ws, index, disk, procs, dbLock, pc, work, created, counts>>

-----------------------------------------------------------------------------
(* The Engine's end and start.                                             *)

(* the outer subreaper ends every process of the Engine; an open           *)
(* transaction is rolled back                                              *)
Crash ==
    /\ engine # "down" /\ crashes < MaxCrashes
    /\ engine' = "down"
    /\ writer' = {} /\ authority' = {}
    /\ dbLock' = "none"
    /\ created' = {}
    /\ pc' = [j \in Jobs |-> IF row[j] = "none" THEN "idle" ELSE "lost"]
    /\ crashes' = crashes + 1
    /\ UNCHANGED <<rows, disk, work, faults>>

(* staging directories, claimed deletions, unindexed scratch               *)
Start ==
    /\ engine = "down"
    /\ engine' = "starting"
    /\ staging' = {}
    /\ ws' = [w \in Workspaces |-> IF ws[w].status = "deleting"
                                   THEN [status |-> "absent", job |-> "none"] ELSE ws[w]]
    /\ scratch' = {j \in scratch : row[j] # "none"}
    /\ evidence' = [j \in Jobs |-> IF row[j] # "none" THEN evidence[j] ELSE "none"]
    /\ pc' = [j \in Jobs |-> IF row[j] \in Active THEN "recover"
                             ELSE IF row[j] = "none" THEN "idle" ELSE "done"]
    /\ UNCHANGED <<row, source, output, index, archive, procs, dbLock, work, created, counts>>

(* Mutant: recovery leaves a Job whose Script completed.                   *)
RecoverUnfinished(j) == Goto(j, IF evidence[j] = "none" THEN "except" ELSE "done")

(* reconcile_interrupted_builds: one attempt for a completed Script        *)
RecoverJob(j) == Goto(j, IF evidence[j] = "none" THEN "except" ELSE "publish")

Recover(j) ==
    /\ engine = "starting" /\ pc[j] = "recover"
    /\ \A k \in Jobs \ {j} : pc[k] \in {"idle", "recover", "done"}
    /\ RecoverJob(j)
    /\ UNCHANGED <<engine, rows, disk, procs, dbLock, work, created, counts>>

(* terminal scratch and internal Workspaces go                             *)
FinishStart ==
    /\ engine = "starting"
    /\ \A j \in Jobs : pc[j] \in {"idle", "done"}
    /\ engine' = "up"
    /\ scratch' = {j \in scratch : row[j] \notin Terminal}
    /\ evidence' = [j \in Jobs |-> IF row[j] \in Terminal THEN "none" ELSE evidence[j]]
    /\ ws' = [w \in Workspaces |-> IF w \in Internal
                                   THEN [status |-> "absent", job |-> "none"] ELSE ws[w]]
    /\ UNCHANGED <<row, source, output, index, archive, staging, procs, dbLock, pc, work,
                   created, counts>>

JobStep(j) ==
    \/ MakeScratch(j) \/ CommitSubmission(j) \/ MarkRunning(j)
    \/ StartScript(j) \/ ScriptEnds(j) \/ ScriptIsRetained(j) \/ WriteEvidence(j)
    \/ Stage(j) \/ Begin(j) \/ Move(j) \/ Seal(j) \/ Commit(j) \/ Cleanup(j)
    \/ Except(j) \/ Settle(j) \/ Recover(j)

Next ==
    \/ \E j \in Jobs, w \in Workspaces : Submit(j, w)
    \/ \E j \in Jobs : JobStep(j)
    \/ \E w \in Workspaces : DeleteWorkspace(w) \/ FinishDeletion(w)
    \/ ArchiveDataset
    \/ Crash \/ Start \/ FinishStart

Spec == Init /\ [][Next]_vars

(* The threads of the Engine run, a Script ends by its timeout, and the    *)
(* service manager starts the Engine again.                                *)
Fairness ==
    /\ \A j \in Jobs : WF_vars(JobStep(j))
    /\ WF_vars(Start) /\ WF_vars(FinishStart)

LiveSpec == Spec /\ Fairness

-----------------------------------------------------------------------------
(* Properties.                                                             *)

(* A Job is completed exactly when the Version it built is indexed,        *)
(* whatever its commit reported: publish_dataset commits both or neither.  *)
CompletedHasVersion == \A j \in Jobs : row[j] = "completed" <=> HasVersion(j)

(* The directory of an indexed Version is there, sealed, and made by the   *)
(* Job the index names; no cleanup removes it.                             *)
IndexedIsSealed ==
    \A c \in Contents : index[c] # "none" => archive[c] = [job |-> index[c], sealed |-> TRUE]

(* A Script writes only into the scratch of its own running Job: neither   *)
(* the directory nor the row is given up while the writer may be alive.    *)
WriterOwnsScratch ==
    \A j \in writer : j \in scratch /\ row[j] = "running" /\ j \in authority

(* Every Job the Engine left active when it ended is decided after it      *)
(* starts again.                                                           *)
InterruptedIsDecided ==
    \A j \in Jobs : (engine = "down" /\ row[j] \in Active) ~> row[j] \in Terminal
-----------------------------------------------------------------------------
(* The inductive invariant behind the three.                               *)

(* A Script runs only under its own handler, or under none after its end   *)
(* could not be proven; up to there the Job has its scratch, and nothing   *)
(* of this happens while the Engine starts.                                *)
WriterInv ==
    /\ \A j \in writer : pc[j] \in {"executing", "except", "lost"}
    /\ engine # "up" => writer = {}
    /\ \A j \in Jobs :
          /\ pc[j] \in {"prepare", "commit", "start", "execute", "executing"} => engine = "up"
          /\ pc[j] \in {"commit", "start", "execute", "executing"} => j \in scratch
          /\ pc[j] \in {"execute", "executing"} => row[j] = "running"

(* A publication has evidence of what it publishes.  Inside its            *)
(* transaction it has the write lock, and no Version of that content.      *)
PublicationInv ==
    \A j \in Jobs :
        /\ pc[j] \in {"prepare", "commit"} => row[j] = "none"
        /\ pc[j] \in {"publish", "begin", "move", "seal", "index"} => evidence[j] \in Contents
        /\ pc[j] \in {"move", "seal", "index"} => dbLock = j /\ index[Content(j)] = "none"

IndInv ==
    /\ TypeOK
    /\ WriterInv /\ WriterOwnsScratch
    /\ PublicationInv /\ CompletedHasVersion

(* Jobs that cannot write the same content: the case in which the names of *)
(* the Version directories keep their Jobs apart.                          *)
DisjointWrites == \A j, k \in Jobs : j # k => Writes[j] \cap Writes[k] = {}

(* What is published is what the Script wrote; a directory that is taken   *)
(* for this Job's, sealed or left by an earlier attempt, still is when it  *)
(* is indexed.                                                             *)
SealInv ==
    /\ \A j \in Jobs :
          /\ evidence[j] \in Writes[j] \cup {"none"}
          /\ pc[j] = "begin" /\ j \notin staging => SealedBy(j, archive[Content(j)])
          /\ pc[j] = "index" => SealedBy(j, archive[Content(j)])
    /\ IndexedIsSealed

=============================================================================
