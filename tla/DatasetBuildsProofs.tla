------------------------ MODULE DatasetBuildsProofs -------------------------
(***************************************************************************)
(* For any Jobs, Workspaces, contents, faults and crashes: a Job is        *)
(* completed exactly when its Version is indexed, and a Script only ever   *)
(* writes into the scratch of its own running Job.  When no two Jobs can   *)
(* write the same content, an indexed Version is also sealed on disk; the  *)
(* run MCDatasetCollision shows why the hypothesis is needed.              *)
(***************************************************************************)
EXTENDS DatasetBuilds, TLAPS

-----------------------------------------------------------------------------
(* Types.                                                                  *)

(* Typing, for the steps of a build job.                                   *)
LEMMA TypesHold ==
    ASSUME TypeOK, NEW j \in Jobs, JobStep(j)
    PROVE  TypeOK'
<1> USE ConstantsAssumption, NoneAssumption
    DEF TypeOK, Goto, Fault, NoFault, Unlocked, rows, disk, procs, counts, Active, Terminal
<1>1. CASE MakeScratch(j)
    BY <1>1 DEF MakeScratch
<1>2. CASE CommitSubmission(j)
  <2> USE DEF CommitSubmission, Claim, DiscardScratch, KeepUnresolved
  <2>1. row' \in [Jobs -> Active \cup Terminal \cup {"none"}]
    BY <1>2
  <2>2. ws' \in [Workspaces -> [status : {"draft", "submitted", "published", "failed",
                                         "deleting", "absent"},
                               job : Jobs \cup {"none"}]]
    BY <1>2
  <2>3. scratch' \subseteq Jobs /\ evidence' \in [Jobs -> Contents \cup {"none"}]
    BY <1>2
  <2>4. faults' \in 0..MaxFaults /\ crashes' \in 0..MaxCrashes
    BY <1>2
  <2> QED
    BY <1>2, <2>1, <2>2, <2>3, <2>4
<1>3. CASE MarkRunning(j)
    BY <1>3 DEF MarkRunning
<1>4. CASE StartScript(j)
    BY <1>4 DEF StartScript
<1>5. CASE ScriptEnds(j)
    BY <1>5 DEF ScriptEnds
<1>6. CASE ScriptIsRetained(j)
    BY <1>6 DEF ScriptIsRetained
<1>7. CASE WriteEvidence(j)
    BY <1>7 DEF WriteEvidence
<1>8. CASE Stage(j)
    BY <1>8 DEF Stage, Content, Absent
<1>9. CASE Begin(j)
  <2>1. archive' \in [Contents -> {Absent, Empty} \cup [job : Jobs, sealed : BOOLEAN]]
    BY <1>9 DEF Begin, Content
  <2>2. created' \subseteq Jobs /\ dbLock' \in Jobs \cup {"none"}
    BY <1>9 DEF Begin
  <2>3. faults' \in 0..MaxFaults /\ crashes' \in 0..MaxCrashes
    BY <1>9 DEF Begin
  <2>4. \E label \in {"move", "index", "cleanup"} : Goto(j, label)
    BY <1>9 DEF Begin
  <2> QED
    BY <1>9, <2>1, <2>2, <2>3, <2>4 DEF Begin
<1>10. CASE Move(j)
  <2>1. archive' \in [Contents -> {Absent, Empty} \cup [job : Jobs, sealed : BOOLEAN]]
    <3> DEFINE moved == [job |-> j, sealed |-> FALSE]
    <3>1. moved \in [job : Jobs, sealed : BOOLEAN]
      OBVIOUS
    <3>2. archive' = archive \/ archive' = [archive EXCEPT ![Content(j)] = moved]
      BY <1>10 DEF Move
    <3> HIDE DEF moved
    <3> QED
      BY <3>1, <3>2
  <2> QED
    BY <1>10, <2>1 DEF Move, Rollback
<1>11. CASE Seal(j)
  <2>1. archive' \in [Contents -> {Absent, Empty} \cup [job : Jobs, sealed : BOOLEAN]]
    <3>1. CASE archive' = archive
      BY <3>1
    <3>2. CASE /\ archive[Content(j)].job = j /\ Content(j) \in Contents
               /\ archive' = [archive EXCEPT ![Content(j)].sealed = TRUE]
      <4>1. archive[Content(j)] \in [job : Jobs, sealed : BOOLEAN]
        BY <3>2 DEF Absent, Empty
      <4> QED
        BY <3>2, <4>1
    <3>3. CASE /\ Content(j) \notin Contents
               /\ archive' = [archive EXCEPT ![Content(j)].sealed = TRUE]
      BY <3>3
    <3> QED
      BY <1>11, <3>1, <3>2, <3>3 DEF Seal
  <2> QED
    BY <1>11, <2>1 DEF Seal, Rollback
<1>12. CASE Commit(j)
  <2>0. /\ row' = row \/ row' = [row EXCEPT ![j] = "completed"]
        /\ ws' = ws \/ ws' = [ws EXCEPT ![work[j]].status = "published"]
    BY <1>12 DEF Commit, Publish, IndexRows
  <2>1. row' \in [Jobs -> Active \cup Terminal \cup {"none"}]
    BY <2>0 DEF Terminal
  <2>2. ws' \in [Workspaces -> [status : {"draft", "submitted", "published", "failed",
                                         "deleting", "absent"},
                               job : Jobs \cup {"none"}]]
    BY <2>0
  <2>3. /\ source' = source /\ output' \in {"absent", "active", "archived"}
        /\ index' \in [Contents -> Jobs \cup {"none"}]
    BY <1>12 DEF Commit, Publish, IndexRows
  <2>4. faults' \in 0..MaxFaults /\ crashes' \in 0..MaxCrashes
    BY <1>12 DEF Commit, Publish, IndexRows
  <2>5. staging' \subseteq Jobs /\ \E label \in {"settle", "cleanup"} : Goto(j, label)
    BY <1>12 DEF Commit, Publish, IndexRows
  <2> QED
    BY <1>12, <2>1, <2>2, <2>3, <2>4, <2>5 DEF Commit
<1>13. CASE Cleanup(j)
    BY <1>13 DEF Cleanup, DiscardUnindexed, Content, Absent
<1>14. CASE Except(j)
  <2> USE DEF Except, MarkFailed, DiscardScratch
  <2>1. row' \in [Jobs -> Active \cup Terminal \cup {"none"}]
    BY <1>14
  <2>2. ws' \in [Workspaces -> [status : {"draft", "submitted", "published", "failed",
                                         "deleting", "absent"},
                               job : Jobs \cup {"none"}]]
    BY <1>14
  <2>3. scratch' \subseteq Jobs /\ evidence' \in [Jobs -> Contents \cup {"none"}]
    BY <1>14
  <2>4. /\ faults' \in 0..MaxFaults /\ crashes' \in 0..MaxCrashes
        /\ engine' \in {"up", "down", "starting"}
        /\ source' = source /\ output' = output /\ index' = index
    BY <1>14
  <2> QED
    BY <1>14, <2>1, <2>2, <2>3, <2>4
<1>15. CASE Settle(j)
    BY <1>15 DEF Settle, DiscardScratch
<1>16. CASE Recover(j)
    BY <1>16 DEF Recover, RecoverJob
<1> QED
    BY <1>1, <1>2, <1>3, <1>4, <1>5, <1>6, <1>7, <1>8, <1>9, <1>10, <1>11, <1>12, <1>13, <1>14, <1>15, <1>16 DEF JobStep

(* What happens beside the handlers.                                       *)
Elsewhere ==
    \/ \E w \in Workspaces : DeleteWorkspace(w) \/ FinishDeletion(w)
    \/ ArchiveDataset \/ Crash \/ Start \/ FinishStart

(* Typing, for the steps of everybody else.                                *)
LEMMA TypesHoldElsewhere ==
    ASSUME TypeOK, Elsewhere \/ \E j \in Jobs, w \in Workspaces : Submit(j, w)
    PROVE  TypeOK'
<1> USE ConstantsAssumption
    DEF TypeOK, Goto, Unlocked, rows, disk, procs, counts, Active, Terminal
<1>1. CASE \E j \in Jobs, w \in Workspaces : Submit(j, w)
    BY <1>1 DEF Submit
<1>2. CASE \E w \in Workspaces : DeleteWorkspace(w) \/ FinishDeletion(w)
  <2>1. ASSUME NEW w \in Workspaces, DeleteWorkspace(w) PROVE TypeOK'
    BY <2>1 DEF DeleteWorkspace
  <2>2. ASSUME NEW w \in Workspaces, FinishDeletion(w) PROVE TypeOK'
    BY <2>2 DEF FinishDeletion
  <2> QED
    BY <1>2, <2>1, <2>2
<1>3. CASE ArchiveDataset
    BY <1>3 DEF ArchiveDataset
<1>4. CASE Crash
    BY <1>4 DEF Crash
<1>5. CASE Start
    BY <1>5 DEF Start
<1>6. CASE FinishStart
    BY <1>6 DEF FinishStart
<1> QED
    BY <1>1, <1>2, <1>3, <1>4, <1>5, <1>6 DEF Elsewhere

-----------------------------------------------------------------------------
(* The writers.                                                            *)

(* A writer and its scratch directory, for the steps of a build job.       *)
LEMMA WritersHold ==
    ASSUME IndInv, NEW j \in Jobs, JobStep(j)
    PROVE  WriterInv' /\ WriterOwnsScratch'
<1> USE DEF IndInv, TypeOK, WriterInv, WriterOwnsScratch, Goto, Fault, NoFault,
            rows, disk, procs, counts, Active
<1>1. CASE MakeScratch(j)
    BY <1>1 DEF MakeScratch
<1>2. CASE CommitSubmission(j)
    BY <1>2 DEF CommitSubmission, Claim, DiscardScratch, KeepUnresolved
<1>3. CASE MarkRunning(j)
    BY <1>3 DEF MarkRunning
<1>4. CASE StartScript(j)
    BY <1>4 DEF StartScript
<1>5. CASE ScriptEnds(j)
    BY <1>5 DEF ScriptEnds
<1>6. CASE ScriptIsRetained(j)
    BY <1>6 DEF ScriptIsRetained
<1>7. CASE WriteEvidence(j)
    BY <1>7 DEF WriteEvidence
<1>8. CASE Stage(j)
    BY <1>8 DEF Stage
<1>9. CASE Begin(j)
    BY <1>9 DEF Begin
<1>10. CASE Move(j)
    BY <1>10 DEF Move, Rollback
<1>11. CASE Seal(j)
    BY <1>11 DEF Seal, Rollback
<1>12. CASE Commit(j)
    BY <1>12 DEF Commit, Publish, IndexRows
<1>13. CASE Cleanup(j)
    BY <1>13 DEF Cleanup
<1>14. CASE Except(j)
    BY <1>14 DEF Except, MarkFailed, DiscardScratch, HasAuthority
<1>15. CASE Settle(j)
    BY <1>15 DEF Settle, DiscardScratch
<1>16. CASE Recover(j)
    BY <1>16 DEF Recover, RecoverJob
<1> QED
    BY <1>1, <1>2, <1>3, <1>4, <1>5, <1>6, <1>7, <1>8, <1>9, <1>10, <1>11, <1>12, <1>13, <1>14, <1>15, <1>16 DEF JobStep

(* ... and for the steps of everybody else.                                *)
LEMMA WritersHoldElsewhere ==
    ASSUME IndInv, Elsewhere \/ \E j \in Jobs, w \in Workspaces : Submit(j, w)
    PROVE  WriterInv' /\ WriterOwnsScratch'
<1> USE DEF IndInv, TypeOK, WriterInv, WriterOwnsScratch, Goto, rows, disk, procs, counts,
            Active, Terminal
<1>1. CASE \E j \in Jobs, w \in Workspaces : Submit(j, w)
    BY <1>1 DEF Submit
<1>2. CASE \E w \in Workspaces : DeleteWorkspace(w) \/ FinishDeletion(w)
    BY <1>2 DEF DeleteWorkspace, FinishDeletion
<1>3. CASE ArchiveDataset
    BY <1>3 DEF ArchiveDataset
<1>4. CASE Crash
    BY <1>4 DEF Crash
<1>5. CASE Start
    BY <1>5 DEF Start
<1>6. CASE FinishStart
    BY <1>6 DEF FinishStart
<1> QED
    BY <1>1, <1>2, <1>3, <1>4, <1>5, <1>6 DEF Elsewhere

-----------------------------------------------------------------------------
(* The publications.                                                       *)

(* What a publication in progress has on disk, for the steps of a build    *)
(* job.                                                                    *)
LEMMA PublicationsHold ==
    ASSUME IndInv, NEW j \in Jobs, JobStep(j)
    PROVE  PublicationInv'
<1> USE ConstantsAssumption, NoneAssumption
    DEF IndInv, TypeOK, PublicationInv, Content, Goto, Fault, NoFault, Unlocked,
        rows, disk, procs, counts, Active
<1>1. CASE MakeScratch(j)
    BY <1>1 DEF MakeScratch
<1>2. CASE CommitSubmission(j)
    BY <1>2 DEF CommitSubmission, Claim, DiscardScratch, KeepUnresolved
<1>3. CASE MarkRunning(j)
    BY <1>3 DEF MarkRunning
<1>4. CASE StartScript(j)
    BY <1>4 DEF StartScript
<1>5. CASE ScriptEnds(j)
    BY <1>5 DEF ScriptEnds
<1>6. CASE ScriptIsRetained(j)
    BY <1>6 DEF ScriptIsRetained
<1>7. CASE WriteEvidence(j)
    BY <1>7 DEF WriteEvidence
<1>8. CASE Stage(j)
    BY <1>8 DEF Stage
<1>9. CASE Begin(j)
    BY <1>9 DEF Begin, Admitted
<1>10. CASE Move(j)
    BY <1>10 DEF Move, Rollback
<1>11. CASE Seal(j)
    BY <1>11 DEF Seal, Rollback
<1>12. CASE Commit(j)
    BY <1>12 DEF Commit, Publish, IndexRows
<1>13. CASE Cleanup(j)
    BY <1>13 DEF Cleanup
<1>14. CASE Except(j)
    BY <1>14 DEF Except, MarkFailed, DiscardScratch, HasAuthority
<1>15. CASE Settle(j)
    BY <1>15 DEF Settle, DiscardScratch
<1>16. CASE Recover(j)
    BY <1>16 DEF Recover, RecoverJob
<1> QED
    BY <1>1, <1>2, <1>3, <1>4, <1>5, <1>6, <1>7, <1>8, <1>9, <1>10, <1>11, <1>12, <1>13, <1>14, <1>15, <1>16 DEF JobStep

(* ... and for the steps of everybody else.                                *)
LEMMA PublicationsHoldElsewhere ==
    ASSUME IndInv, Elsewhere \/ \E j \in Jobs, w \in Workspaces : Submit(j, w)
    PROVE  PublicationInv'
<1> USE DEF IndInv, TypeOK, PublicationInv, Content, Goto, rows, disk, procs, counts,
            Active, Terminal
<1>1. CASE \E j \in Jobs, w \in Workspaces : Submit(j, w)
    BY <1>1 DEF Submit
<1>2. CASE \E w \in Workspaces : DeleteWorkspace(w) \/ FinishDeletion(w)
    BY <1>2 DEF DeleteWorkspace, FinishDeletion
<1>3. CASE ArchiveDataset
    BY <1>3 DEF ArchiveDataset
<1>4. CASE Crash
    BY <1>4 DEF Crash
<1>5. CASE Start
    BY <1>5 DEF Start
<1>6. CASE FinishStart
    BY <1>6 DEF FinishStart
<1> QED
    BY <1>1, <1>2, <1>3, <1>4, <1>5, <1>6 DEF Elsewhere

-----------------------------------------------------------------------------
(* The Job's row and the index.                                            *)

(* Steps that neither end a Job's row nor index a Version.                 *)
LEMMA CompletedKept ==
    ASSUME IndInv, index' = index,
           \A j \in Jobs : (row[j] = "completed") = (row'[j] = "completed")
    PROVE  CompletedHasVersion'
BY DEF IndInv, CompletedHasVersion, HasVersion

(* A completed job has its Version row, for the steps of a build job.      *)
LEMMA CompletedHolds ==
    ASSUME IndInv, NEW j \in Jobs, JobStep(j)
    PROVE  CompletedHasVersion'
<1>1. CASE \/ MakeScratch(j) \/ StartScript(j) \/ ScriptEnds(j) \/ ScriptIsRetained(j)
           \/ WriteEvidence(j) \/ Stage(j) \/ Begin(j) \/ Move(j) \/ Seal(j)
           \/ Cleanup(j) \/ Settle(j) \/ Recover(j)
  <2>1. index' = index /\ row' = row
    BY <1>1 DEF MakeScratch, StartScript, ScriptEnds, ScriptIsRetained, WriteEvidence,
                Stage, Begin, Move, Seal, Cleanup, Settle, Recover, rows
  <2> QED
    BY <2>1, CompletedKept
<1>2. CASE CommitSubmission(j) \/ MarkRunning(j) \/ Except(j)
  <2>1. index' = index
    BY <1>2 DEF CommitSubmission, MarkRunning, Except, Claim, MarkFailed, rows
  <2>2. \A k \in Jobs : (row[k] = "completed") = (row'[k] = "completed")
    <3>1. CASE CommitSubmission(j)
      BY <3>1 DEF CommitSubmission, Claim, rows, IndInv, TypeOK, PublicationInv
    <3>2. CASE MarkRunning(j)
      BY <3>2 DEF MarkRunning, IndInv, TypeOK
    <3>3. CASE Except(j)
      BY <3>3 DEF Except, MarkFailed, rows, IndInv, TypeOK, Active
    <3> QED
      BY <1>2, <3>1, <3>2, <3>3
  <2> QED
    BY <2>1, <2>2, CompletedKept
<1>3. CASE Commit(j)
  <2>1. CASE UNCHANGED rows
    BY <2>1, CompletedKept DEF rows
  <2>2. CASE Publish(j)
    <3>1. /\ Content(j) \in Contents /\ index[Content(j)] = "none"
          /\ index' = [index EXCEPT ![Content(j)] = j]
          /\ row' = [row EXCEPT ![j] = "completed"]
      BY <1>3, <2>2 DEF Commit, Publish, IndexRows, IndInv, PublicationInv, Content
    <3>2. \A k \in Jobs \ {j} : HasVersion(k)' <=> HasVersion(k)
      BY <3>1, NoneAssumption DEF HasVersion, IndInv, TypeOK
    <3>3. HasVersion(j)' /\ row'[j] = "completed"
      BY <3>1 DEF HasVersion, IndInv, TypeOK
    <3>4. \A k \in Jobs \ {j} : row'[k] = row[k]
      BY <3>1 DEF IndInv, TypeOK
    <3> QED
      BY <3>2, <3>3, <3>4 DEF CompletedHasVersion, IndInv
  <2> QED
    BY <1>3, <2>1, <2>2 DEF Commit
<1> QED
    BY <1>1, <1>2, <1>3 DEF JobStep

-----------------------------------------------------------------------------
(* The invariant holds when the Engine starts.                             *)
LEMMA InitEstablishes == Init => IndInv
<1> SUFFICES ASSUME Init PROVE IndInv
    OBVIOUS
<1>1. TypeOK
    BY ConstantsAssumption DEF Init, TypeOK, Active, Terminal
<1>2. WriterInv /\ WriterOwnsScratch /\ PublicationInv
    BY DEF Init, WriterInv, WriterOwnsScratch, PublicationInv
<1>3. CompletedHasVersion
    BY NoneAssumption DEF Init, CompletedHasVersion, HasVersion
<1> QED
    BY <1>1, <1>2, <1>3 DEF IndInv

(* Every step keeps it.                                                    *)
LEMMA NextPreserves == IndInv /\ [Next]_vars => IndInv'
<1> SUFFICES ASSUME IndInv, [Next]_vars PROVE IndInv'
    OBVIOUS
<1>1. CASE UNCHANGED vars
    BY <1>1 DEF vars, rows, disk, procs, counts, IndInv, TypeOK, WriterInv, WriterOwnsScratch,
                PublicationInv, CompletedHasVersion, HasVersion, Content
<1>2. ASSUME NEW j \in Jobs, JobStep(j) PROVE IndInv'
    BY <1>2, TypesHold, WritersHold, PublicationsHold, CompletedHolds DEF IndInv
<1>3. CASE Elsewhere \/ \E j \in Jobs, w \in Workspaces : Submit(j, w)
  <2>1. index' = index /\ row' = row
    BY <1>3 DEF Elsewhere, DeleteWorkspace, FinishDeletion, ArchiveDataset, Crash, Start,
                FinishStart, Submit, rows
  <2> QED
    BY <1>3, <2>1, TypesHoldElsewhere, WritersHoldElsewhere, PublicationsHoldElsewhere,
       CompletedKept DEF IndInv
<1> QED
    BY <1>1, <1>2, <1>3 DEF Next, Elsewhere

(* IndInv is an invariant of the Build Jobs (service/dataset_builds.py,    *)
(* repository/dataset_publication.py).                                     *)
THEOREM Inductive == Spec => []IndInv
BY InitEstablishes, NextPreserves, PTL DEF Spec

(* A Job is completed exactly when its Version is indexed, whatever the    *)
(* commits reported and whenever the Engine ended (publish_dataset,        *)
(* reconcile_interrupted_builds).                                          *)
THEOREM CompletedMeansIndexed == Spec => []CompletedHasVersion
<1>1. IndInv => CompletedHasVersion
    BY DEF IndInv
<1> QED
    BY <1>1, Inductive, PTL

(* Neither the scratch directory nor the running row of a Job is given up  *)
(* while its Script may be alive (execution_process_authority).            *)
THEOREM WritersOwnTheirScratch == Spec => []WriterOwnsScratch
<1>1. IndInv => WriterOwnsScratch
    BY DEF IndInv
<1> QED
    BY <1>1, Inductive, PTL

-----------------------------------------------------------------------------
(* The sealed directories, for Jobs that write different contents.         *)

(* Two publications are of different contents.                             *)
LEMMA ContentsDiffer ==
    ASSUME DisjointWrites, TypeOK, SealInv, NEW j \in Jobs, NEW k \in Jobs, j # k,
           evidence[j] # "none"
    PROVE  Content(j) # Content(k)
BY DEF DisjointWrites, SealInv, Content

(* A step that touches at most the directory of its own, unindexed content *)
(* keeps the sealed directories of all others.                             *)
LEMMA SealsKept ==
    ASSUME DisjointWrites, IndInv, SealInv, NEW j \in Jobs, evidence' = evidence,
           index' = index,
           \A c \in Contents : archive'[c] # archive[c] => c = Content(j) /\ index[c] = "none",
           \A k \in Jobs \ {j} : pc'[k] = pc[k] /\ (k \in staging' <=> k \in staging),
           pc'[j] = "begin" /\ j \notin staging' => SealedBy(j, archive'[Content(j)]),
           pc'[j] = "index" => SealedBy(j, archive'[Content(j)])
    PROVE  SealInv'
<1>1. IndexedIsSealed'
    BY DEF SealInv, IndexedIsSealed
<1>2. \A k \in Jobs \ {j} : pc[k] \in {"begin", "index"} =>
          Content(k) \in Contents /\ archive'[Content(k)] = archive[Content(k)]
  <2> SUFFICES ASSUME NEW k \in Jobs \ {j}, pc[k] \in {"begin", "index"}
               PROVE  Content(k) \in Contents /\ archive'[Content(k)] = archive[Content(k)]
    OBVIOUS
  <2>1. evidence[k] \in Contents
    BY DEF IndInv, PublicationInv
  <2>2. CASE Content(j) \notin Contents
    BY <2>1, <2>2 DEF Content
  <2>3. CASE Content(j) \in Contents
    BY <2>1, <2>3, NoneAssumption, ContentsDiffer DEF Content, IndInv
  <2> QED
    BY <2>2, <2>3
<1> QED
    BY <1>1, <1>2 DEF SealInv, Content

(* Indexed Versions are sealed, for the steps of a build job.              *)
LEMMA SealsHold ==
    ASSUME DisjointWrites, IndInv, SealInv, NEW j \in Jobs, JobStep(j)
    PROVE  SealInv'
<1> USE DEF Goto, Fault, NoFault, rows, disk, procs, counts
<1>1. CASE \/ MakeScratch(j) \/ MarkRunning(j) \/ StartScript(j) \/ ScriptEnds(j)
           \/ ScriptIsRetained(j) \/ Recover(j)
    BY <1>1, SealsKept
    DEF MakeScratch, MarkRunning, StartScript, ScriptEnds, ScriptIsRetained, Recover,
        RecoverJob, IndInv, TypeOK
<1>2. CASE CommitSubmission(j) \/ Except(j) \/ Settle(j)
  <2>1. /\ index' = index /\ archive' = archive /\ staging' = staging
        /\ \A k \in Jobs : evidence'[k] \in {evidence[k], "none"}
        /\ \A k \in Jobs \ {j} : pc'[k] = pc[k] /\ evidence'[k] = evidence[k]
        /\ pc'[j] \notin {"begin", "index"}
    BY <1>2 DEF CommitSubmission, Except, Settle, Claim, KeepUnresolved, DiscardScratch,
                MarkFailed, IndInv, TypeOK
  <2> QED
    BY <2>1 DEF SealInv, IndexedIsSealed, Content
<1>3. CASE WriteEvidence(j)
  <2>1. /\ index' = index /\ archive' = archive /\ staging' = staging
        /\ evidence'[j] \in Writes[j] \cup {"none"}
        /\ \A k \in Jobs \ {j} : pc'[k] = pc[k] /\ evidence'[k] = evidence[k]
        /\ pc'[j] \notin {"begin", "index"}
    BY <1>3 DEF WriteEvidence, SealInv, IndInv, TypeOK
  <2> QED
    BY <2>1 DEF SealInv, IndexedIsSealed, Content
<1>4. CASE Stage(j)
  <2>1. \A c \in Contents : archive'[c] # archive[c] => c = Content(j) /\ index[c] = "none"
    <3>1. IsFree(j) /\ Content(j) \in Contents => index[Content(j)] = "none"
      BY NoneAssumption
      DEF IsFree, SealInv, IndexedIsSealed, Absent, Empty, IndInv, TypeOK
    <3> QED
      BY <1>4, <3>1 DEF Stage, IndInv, TypeOK
  <2>2. /\ \A k \in Jobs \ {j} : pc'[k] = pc[k] /\ (k \in staging' <=> k \in staging)
        /\ pc'[j] # "index" /\ evidence' = evidence /\ index' = index
    BY <1>4 DEF Stage, IndInv, TypeOK
  <2>3. pc'[j] = "begin" /\ j \notin staging' => SealedBy(j, archive'[Content(j)])
    BY <1>4 DEF Stage, IsOwnOrphan, IndInv, TypeOK
  <2> QED
    BY <2>1, <2>2, <2>3, SealsKept
<1>5. CASE Begin(j)
  <2>1. \A c \in Contents : archive'[c] # archive[c] => c = Content(j) /\ index[c] = "none"
    BY <1>5 DEF Begin, Admitted, IndInv, TypeOK
  <2>2. /\ \A k \in Jobs \ {j} : pc'[k] = pc[k] /\ (k \in staging' <=> k \in staging)
        /\ pc'[j] # "begin" /\ evidence' = evidence /\ index' = index
    BY <1>5 DEF Begin, IndInv, TypeOK
  <2>3. pc'[j] = "index" => SealedBy(j, archive'[Content(j)])
    BY <1>5 DEF Begin, SealInv, IndInv, TypeOK
  <2> QED
    BY <2>1, <2>2, <2>3, SealsKept
<1>6. CASE Move(j)
  <2>1. \A c \in Contents : archive'[c] # archive[c] => c = Content(j) /\ index[c] = "none"
    BY <1>6 DEF Move, PublicationInv, IndInv, TypeOK
  <2>2. /\ \A k \in Jobs \ {j} : pc'[k] = pc[k] /\ (k \in staging' <=> k \in staging)
        /\ pc'[j] \notin {"begin", "index"} /\ evidence' = evidence /\ index' = index
    BY <1>6 DEF Move, Rollback, IndInv, TypeOK
  <2> QED
    BY <2>1, <2>2, SealsKept
<1>7. CASE Seal(j)
  <2>1. \A c \in Contents : archive'[c] # archive[c] => c = Content(j) /\ index[c] = "none"
    BY <1>7 DEF Seal, PublicationInv, IndInv, TypeOK
  <2>2. /\ \A k \in Jobs \ {j} : pc'[k] = pc[k] /\ (k \in staging' <=> k \in staging)
        /\ pc'[j] # "begin" /\ evidence' = evidence /\ index' = index
    BY <1>7 DEF Seal, Rollback, IndInv, TypeOK
  <2>3. pc'[j] = "index" => SealedBy(j, archive'[Content(j)])
    <3>1. CASE /\ archive[Content(j)].job = j
               /\ archive' = [archive EXCEPT ![Content(j)].sealed = TRUE]
      <4>1. Content(j) \in Contents
        BY <1>7 DEF Seal, Content, IndInv, PublicationInv
      <4>2. archive[Content(j)] \in [job : Jobs, sealed : BOOLEAN]
        BY <3>1, <4>1, NoneAssumption DEF IndInv, TypeOK, Absent, Empty
      <4> QED
        BY <3>1, <4>1, <4>2 DEF SealedBy, IndInv, TypeOK
    <3>2. CASE pc'[j] # "index"
      BY <3>2
    <3> QED
      BY <1>7, <3>1, <3>2 DEF Seal, Rollback, IndInv, TypeOK
  <2> QED
    BY <2>1, <2>2, <2>3, SealsKept
<1>8. CASE Commit(j)
  <2>1. /\ archive' = archive /\ evidence' = evidence
        /\ \A k \in Jobs \ {j} : pc'[k] = pc[k] /\ (k \in staging' <=> k \in staging)
        /\ pc'[j] \notin {"begin", "index"}
    BY <1>8 DEF Commit, IndInv, TypeOK
  <2>2. index' = index \/ index' = [index EXCEPT ![Content(j)] = j]
    BY <1>8 DEF Commit, Publish, IndexRows
  <2>3. SealedBy(j, archive[Content(j)])
    BY <1>8 DEF Commit, SealInv
  <2>4. IndexedIsSealed'
    BY <2>1, <2>2, <2>3 DEF SealInv, IndexedIsSealed, SealedBy, IndInv, TypeOK
  <2> QED
    BY <2>1, <2>4 DEF SealInv, Content
<1>9. CASE Cleanup(j)
  <2>1. \A c \in Contents : archive'[c] # archive[c] => c = Content(j) /\ index[c] = "none"
    BY <1>9 DEF Cleanup, DiscardUnindexed, IndInv, TypeOK
  <2>2. /\ \A k \in Jobs \ {j} : pc'[k] = pc[k] /\ (k \in staging' <=> k \in staging)
        /\ pc'[j] \notin {"begin", "index"} /\ evidence' = evidence /\ index' = index
    BY <1>9 DEF Cleanup, IndInv, TypeOK
  <2> QED
    BY <2>1, <2>2, SealsKept
<1> QED
    BY <1>1, <1>2, <1>3, <1>4, <1>5, <1>6, <1>7, <1>8, <1>9 DEF JobStep

(* ... and for the steps of everybody else.                                *)
LEMMA SealsHoldElsewhere ==
    ASSUME IndInv, SealInv, Elsewhere \/ \E j \in Jobs, w \in Workspaces : Submit(j, w)
    PROVE  SealInv'
<1>1. /\ index' = index /\ archive' = archive
      /\ \A k \in Jobs : /\ evidence'[k] \in {evidence[k], "none"}
                           /\ \/ pc'[k] \notin {"begin", "index"}
                              \/ pc'[k] = pc[k] /\ evidence'[k] = evidence[k]
                                 /\ (k \in staging' <=> k \in staging)
  <2> USE DEF rows, disk, Goto, IndInv, TypeOK
  <2>1. CASE \E j \in Jobs, w \in Workspaces : Submit(j, w)
    BY <2>1 DEF Submit
  <2>2. CASE \E w \in Workspaces : DeleteWorkspace(w) \/ FinishDeletion(w)
    BY <2>2 DEF DeleteWorkspace, FinishDeletion
  <2>3. CASE ArchiveDataset \/ Crash
    BY <2>3 DEF ArchiveDataset, Crash
  <2>4. CASE Start \/ FinishStart
    BY <2>4 DEF Start, FinishStart
  <2> QED
    BY <2>1, <2>2, <2>3, <2>4 DEF Elsewhere
<1> QED
    BY <1>1 DEF SealInv, IndexedIsSealed, Content

(* When no two Jobs can write the same content, the directory of every     *)
(* indexed Version is there, sealed and its builder's, whatever cleanups,  *)
(* faults and crashes came in between (_discard_unindexed_container,       *)
(* publish_staging_directory).                                             *)
THEOREM IndexedVersionsAreSealed ==
    ASSUME DisjointWrites
    PROVE  Spec => []IndexedIsSealed
<1>1. Init => SealInv
    BY DEF Init, SealInv, IndexedIsSealed
<1>2. IndInv /\ SealInv /\ [Next]_vars => SealInv'
  <2> SUFFICES ASSUME IndInv, SealInv, [Next]_vars PROVE SealInv'
    OBVIOUS
  <2>1. CASE UNCHANGED vars
    BY <2>1 DEF vars, rows, disk, SealInv, IndexedIsSealed, Content
  <2>2. ASSUME NEW j \in Jobs, JobStep(j) PROVE SealInv'
    BY <2>2, SealsHold
  <2>3. CASE Elsewhere \/ \E j \in Jobs, w \in Workspaces : Submit(j, w)
    BY <2>3, SealsHoldElsewhere
  <2> QED
    BY <2>1, <2>2, <2>3 DEF Next, Elsewhere
<1>3. SealInv => IndexedIsSealed
    BY DEF SealInv
<1> QED
    BY <1>1, <1>2, <1>3, Inductive, PTL DEF Spec
=============================================================================
