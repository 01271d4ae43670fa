--------------------------- MODULE VersionArchive ---------------------------
(***************************************************************************)
(* The Draft-to-Archived transaction of one versioned resource: version    *)
(* allocation, deduplication, sealing, index commit, rollback, and the     *)
(* recovery of a version that was sealed but never indexed.  Pipelines,    *)
(* Modules, Environments, Analyses and Samplers run it under the control   *)
(* lock (locked = TRUE); Dataset Recipes run it without any lock.          *)
(*                                                                         *)
(* Sources: engine/archive/version_transaction.py,                         *)
(* engine/archive/version.py, engine/repository/dataset_recipes.py.        *)
(*                                                                         *)
(* One element of Requests is one call of archive_if_changed.  It also     *)
(* stands for the record the call creates: the record's createdAt makes    *)
(* records of different calls differ even when their content is the same.  *)
(***************************************************************************)
EXTENDS Naturals, FiniteSets

CONSTANTS
    Requests,       \* publication attempts
    Drafts,         \* contents (digests) an attempt may publish
    MaxVersion,     \* bound: versions of the resource
    MaxCrashes,     \* bound: Engine exits in the middle of an attempt
    MaxFaults       \* bound: failing filesystem or database calls

ASSUME RequestsAssumption ==
    IsFiniteSet(Requests) /\ {"none", "broken"} \cap Requests = {}
ASSUME DraftsAssumption == "none" \notin Drafts
ASSUME LimitsAssumption ==
    MaxVersion \in Nat \ {0} /\ MaxCrashes \in Nat /\ MaxFaults \in Nat

VARIABLES
    locked,     \* whether this resource's callers hold control_state_lock
    \* durable
    index,      \* version -> the record indexed for it, or "none"
    archive,    \* version -> the record sealed in its directory, "none", or
                \* "broken": a directory whose removal did not finish
    staging,    \* attempts with a staging directory
    draft,      \* attempt -> its content
    \* volatile
    engine,     \* "up" or "down"
    pc,         \* where each attempt is
    known,      \* attempt -> length of the history it has in `records`
    pending,    \* attempt -> the record it is about to commit
    answer,     \* attempt -> the version it returned to its caller
    \* bounds
    crashes, faults

vars == <<locked, index, archive, staging, draft, engine, pc, known, pending, answer,
          crashes, faults>>

Versions == 1..MaxVersion

WorkingPcs == {"recover", "stage", "check", "seal", "publish", "sealed",
               "commit", "reconcile", "discard", "discarding", "tidy",
               "failing"}
EndPcs == {"done", "failed", "lost"}
Pcs == {"idle"} \cup WorkingPcs \cup EndPcs

Working == {r \in Requests : pc[r] \in WorkingPcs}

TypeOK ==
    /\ index \in [Versions -> Requests \cup {"none"}]
    /\ archive \in [Versions -> Requests \cup {"none", "broken"}]
    /\ staging \in SUBSET Requests
    /\ draft \in [Requests -> Drafts \cup {"none"}]
    /\ engine \in {"up", "down"}
    /\ pc \in [Requests -> Pcs]
    /\ known \in [Requests -> 0..MaxVersion]
    /\ pending \in [Requests -> Requests \cup {"none"}]
    /\ answer \in [Requests -> 0..MaxVersion]
    /\ crashes \in 0..MaxCrashes
    /\ faults \in 0..MaxFaults

Init ==
    /\ locked \in BOOLEAN
    /\ index = [v \in Versions |-> "none"]
    /\ archive = [v \in Versions |-> "none"]
    /\ staging = {}
    /\ draft = [r \in Requests |-> "none"]
    /\ engine = "up"
    /\ pc = [r \in Requests |-> "idle"]
    /\ known = [r \in Requests |-> 0]
    /\ pending = [r \in Requests |-> "none"]
    /\ answer = [r \in Requests |-> 0]
    /\ crashes = 0
    /\ faults = 0

Goto(r, label) == pc' = [pc EXCEPT ![r] = label]

(* A call that may fail either works, or raises and uses up one fault.     *)
Works == faults' = faults
Raises == faults < MaxFaults /\ faults' = faults + 1

-----------------------------------------------------------------------------

Indexed == {v \in Versions : index[v] # "none"}

(* Mutant: the version after the last one is skipped.                      *)
NextVersionSkips(r) == known[r] + 2

(* next_version                                                            *)
NextVersion(r) == known[r] + 1

(* verify_record: the record's directory holds exactly this record.        *)
Verifies(v) == archive[v] = index[v]

(* validate_record_collection_material: the versions are 1..n without gap. *)
Complete(n) == Indexed = 1..n

(* Mutant: only a version identical to the first one counts.               *)
UnchangedFromFirst(r) == known[r] > 0 /\ draft[index[1]] = draft[r]

(* Mutant: an older version with this content counts as well.              *)
UnchangedAnyVersion(r) == \E v \in 1..known[r] : draft[index[v]] = draft[r]

(* unchanged_version: the latest version has this content already.         *)
Unchanged(r) == known[r] > 0 /\ draft[index[known[r]]] = draft[r]

(* Take the lock, read the index and verify it (verify_record_collection). *)
Begin(r) ==
    /\ engine = "up" /\ pc[r] = "idle"
    /\ locked => Working = {}
    /\ \E d \in Drafts : draft' = [draft EXCEPT ![r] = d]
    /\ \/ /\ \A v \in Indexed : Verifies(v)
          /\ \E n \in 0..MaxVersion :
                Complete(n) /\ known' = [known EXCEPT ![r] = n]
          /\ Works
          /\ Goto(r, "recover")
       \/ /\ ((\E v \in Indexed : ~Verifies(v)) /\ Works) \/ Raises
          /\ Goto(r, "failing")
          /\ UNCHANGED known
    /\ UNCHANGED <<index, archive, staging, engine, pending, answer, crashes>>

(* Mutant: no recovery of what an earlier attempt sealed.                  *)
RecoverNothing(r) ==
    /\ pc[r] = "recover" /\ Works
    /\ Goto(r, "stage")
    /\ UNCHANGED <<index, archive, staging, draft, engine, known, pending,
                   answer, crashes>>

(* One turn of the recovery loop: a sealed directory where the next        *)
(* version belongs is committed first, once the history with it verifies;  *)
(* an unverifiable one raises.                                             *)
Recover(r) ==
    /\ pc[r] = "recover" /\ NextVersion(r) \in Versions
    /\ LET found == archive[NextVersion(r)]
           verified == found \in Requests /\ \A v \in 1..known[r] : Verifies(v) IN
       \/ /\ found = "none" /\ Works
          /\ Goto(r, "stage")
          /\ UNCHANGED pending
       \/ /\ verified /\ Works
          /\ pending' = [pending EXCEPT ![r] = found]
          /\ Goto(r, "commit")
       \/ /\ (found # "none" /\ ~verified /\ Works) \/ Raises
          /\ Goto(r, "failing")
          /\ UNCHANGED pending
    /\ UNCHANGED <<index, archive, staging, draft, engine, known, answer,
                   crashes>>

(* prepare_staging, and the comparison with the latest version.            *)
Stage(r) ==
    /\ pc[r] = "stage"
    /\ staging' = staging \cup {r}
    /\ \/ /\ ~Unchanged(r) /\ Works
          /\ Goto(r, "check")
          /\ UNCHANGED answer
       \/ /\ Unchanged(r) /\ Verifies(known[r]) /\ Works
          /\ Goto(r, "tidy")
          /\ answer' = [answer EXCEPT ![r] = known[r]]
       \/ /\ \/ Unchanged(r) /\ ~Verifies(known[r]) /\ Works
             \/ Raises
          /\ Goto(r, "failing")
          /\ UNCHANGED answer
    /\ UNCHANGED <<index, archive, draft, engine, known, pending, crashes>>

(* destination.exists(): another call has sealed this version meanwhile.   *)
Check(r) ==
    /\ pc[r] = "check"
    /\ LET found == archive[NextVersion(r)] IN
       \/ /\ found = "none" /\ Works
          /\ Goto(r, "seal")
          /\ UNCHANGED pending
       \/ /\ found \in Requests /\ draft[found] = draft[r] /\ Works
          /\ pending' = [pending EXCEPT ![r] = found]
          /\ Goto(r, "commit")
       \/ /\ \/ found # "none" /\ (found \in Requests => draft[found] # draft[r])
                /\ Works
             \/ Raises
          /\ Goto(r, "failing")
          /\ UNCHANGED pending
    /\ UNCHANGED <<index, archive, staging, draft, engine, known, answer,
                   crashes>>

(* seal_directory before its rename: an existing destination raises.       *)
Seal(r) ==
    /\ pc[r] = "seal"
    /\ \/ archive[NextVersion(r)] = "none" /\ Works /\ Goto(r, "publish")
       \/ /\ (archive[NextVersion(r)] # "none" /\ Works) \/ Raises
          /\ Goto(r, "failing")
    /\ UNCHANGED <<index, archive, staging, draft, engine, known, pending,
                   answer, crashes>>

(***************************************************************************)
(* publish_staging_directory: check the destination again, sync, rename,   *)
(* sync.  Whatever is raised here, an existing destination included, makes *)
(* seal_directory remove the destination directory.                        *)
(***************************************************************************)
Publish(r) ==
    /\ pc[r] = "publish"
    /\ \/ /\ archive[NextVersion(r)] = "none"
          /\ \/ Works /\ Goto(r, "sealed")
             \/ Raises /\ Goto(r, "discard")
          /\ archive' = [archive EXCEPT ![NextVersion(r)] = r]
          /\ staging' = staging \ {r}
       \/ /\ archive[NextVersion(r)] = "none" /\ Raises
          /\ Goto(r, "failing")
          /\ UNCHANGED <<archive, staging>>
       \/ /\ archive[NextVersion(r)] # "none" /\ Works
          /\ Goto(r, "discard")
          /\ UNCHANGED <<archive, staging>>
    /\ UNCHANGED <<index, draft, engine, known, pending, answer, crashes>>

(* Verify what was published: seal_directory compares the digest (and      *)
(* discards on a mismatch), verify_record the whole record (and does not). *)
VerifySealed(r) ==
    /\ pc[r] = "sealed"
    /\ LET found == archive[NextVersion(r)]
           samedigest == found \in Requests /\ draft[found] = draft[r] IN
       \/ /\ found = r /\ Works
          /\ pending' = [pending EXCEPT ![r] = r]
          /\ Goto(r, "commit")
       \/ /\ \/ found # r /\ (found = "none" \/ samedigest) /\ Works
             \/ Raises
          /\ Goto(r, "failing")
          /\ UNCHANGED pending
       \/ /\ (found # r /\ found # "none" /\ ~samedigest /\ Works) \/ Raises
          /\ Goto(r, "discard")
          /\ UNCHANGED pending
    /\ UNCHANGED <<index, archive, staging, draft, engine, known, answer,
                   crashes>>

(* What the attempt commits: its own archive, an archive found by the      *)
(* recovery loop, or one of the same content found after staging.          *)
CommitsOwn(r) == pending[r] = r
CommitsRecovered(r) == pending[r] # r /\ r \notin staging

(* Mutant: the recovered version is not added to `records`.                *)
AcceptedForgotten(r) ==
    \/ /\ CommitsRecovered(r)
       /\ Goto(r, "recover")
       /\ UNCHANGED <<known, answer>>
    \/ /\ ~CommitsRecovered(r)
       /\ Goto(r, IF CommitsOwn(r) THEN "done" ELSE "tidy")
       /\ answer' = [answer EXCEPT ![r] = NextVersion(r)]
       /\ UNCHANGED known

Accepted(r) ==
    \/ /\ CommitsRecovered(r)
       /\ known' = [known EXCEPT ![r] = NextVersion(r)]
       /\ Goto(r, "recover")
       /\ UNCHANGED answer
    \/ /\ ~CommitsRecovered(r)
       /\ Goto(r, IF CommitsOwn(r) THEN "done" ELSE "tidy")
       /\ answer' = [answer EXCEPT ![r] = NextVersion(r)]
       /\ UNCHANGED known

(* commit_record: one transaction, which may be durable although the call  *)
(* raises.  The primary key refuses a version that has a row.              *)
Commit(r) ==
    /\ pc[r] = "commit"
    /\ LET row == [index EXCEPT ![NextVersion(r)] = pending[r]] IN
       \/ /\ index[NextVersion(r)] = "none" /\ Works
          /\ index' = row
          /\ Accepted(r)
       \/ /\ index[NextVersion(r)] = "none" /\ Raises
          /\ index' \in {index, row}
          /\ Goto(r, "reconcile")
          /\ UNCHANGED <<known, answer>>
       \/ /\ index[NextVersion(r)] # "none" /\ Works
          /\ Goto(r, "reconcile")
          /\ UNCHANGED <<index, known, answer>>
    /\ UNCHANGED <<archive, staging, draft, engine, pending, crashes>>

(* Mutant: an error of commit_record always rolls the archive back.        *)
ReconcileBlindly(r) ==
    /\ pc[r] = "reconcile" /\ Works
    /\ Goto(r, IF CommitsOwn(r) THEN "discard" ELSE "failing")
    /\ UNCHANGED <<index, archive, staging, draft, engine, known, pending,
                   answer, crashes>>

(* read_committed_record after an error: keep the archive when the index   *)
(* cannot be read, accept the very record, discard an uncommitted archive  *)
(* of our own.                                                             *)
Reconcile(r) ==
    /\ pc[r] = "reconcile"
    /\ LET row == index[NextVersion(r)]
           ours == row = pending[r] /\ Verifies(NextVersion(r)) IN
       \/ row # "none" /\ ours /\ Works /\ Accepted(r)
       \/ /\ (row # "none" /\ ~ours /\ Works) \/ Raises
          /\ Goto(r, "failing")
          /\ UNCHANGED <<known, answer>>
       \/ /\ row = "none" /\ Works
          /\ Goto(r, IF CommitsOwn(r) THEN "discard" ELSE "failing")
          /\ UNCHANGED <<known, answer>>
    /\ UNCHANGED <<index, archive, staging, draft, engine, pending, crashes>>

(* discard_archive makes the tree writable, then removes it file by file.  *)
DiscardBegin(r) ==
    /\ pc[r] = "discard"
    /\ \/ /\ archive[NextVersion(r)] # "none" /\ Works
          /\ archive' = [archive EXCEPT ![NextVersion(r)] = "broken"]
          /\ Goto(r, "discarding")
       \/ /\ (archive[NextVersion(r)] = "none" /\ Works) \/ Raises
          /\ Goto(r, "failing")
          /\ UNCHANGED archive
    /\ UNCHANGED <<index, staging, draft, engine, known, pending, answer,
                   crashes>>

(* Two unlocked attempts may discard one directory; the slower one may     *)
(* then meet a third attempt's archive at the same place, in any phase.    *)
DiscardEnd(r) ==
    /\ pc[r] = "discarding"
    /\ Goto(r, "failing")
    /\ \/ /\ Works
          /\ archive' = [archive EXCEPT ![NextVersion(r)] = "none"]
       \/ /\ archive[NextVersion(r)] \in Requests /\ Works
          /\ archive' \in {archive, [archive EXCEPT ![NextVersion(r)] = "broken"]}
       \/ Raises /\ UNCHANGED archive
    /\ UNCHANGED <<index, staging, draft, engine, known, pending, answer,
                   crashes>>

(* The staging directory of a call that needs none is discarded ...        *)
Tidy(r) ==
    /\ pc[r] = "tidy"
    /\ \/ Works /\ Goto(r, "done") /\ staging' = staging \ {r}
       \/ Raises /\ Goto(r, "failing") /\ UNCHANGED staging
    /\ UNCHANGED <<index, archive, draft, engine, known, pending, answer,
                   crashes>>

(* ... and that of a failing one, if it can be; then the error is raised.  *)
Fail(r) ==
    /\ pc[r] = "failing"
    /\ Goto(r, "failed")
    /\ \/ Works /\ staging' = staging \ {r}
       \/ Raises /\ UNCHANGED staging
    /\ UNCHANGED <<index, archive, draft, engine, known, pending, answer,
                   crashes>>

(* The Engine dies in the middle of whatever it does.                      *)
Crash ==
    /\ engine = "up" /\ Working # {} /\ crashes < MaxCrashes
    /\ crashes' = crashes + 1
    /\ engine' = "down"
    /\ pc' = [r \in Requests |-> IF r \in Working THEN "lost" ELSE pc[r]]
    /\ UNCHANGED <<index, archive, staging, draft, known, pending, answer,
                   faults>>

(* reconcile_staging_directories, before the next Engine serves.           *)
Restart ==
    /\ engine = "down"
    /\ engine' = "up"
    /\ staging' = {}
    /\ UNCHANGED <<index, archive, draft, pc, known, pending, answer, crashes,
                   faults>>

Step(r) ==
    \/ Recover(r) \/ Stage(r) \/ Check(r) \/ Seal(r) \/ Publish(r)
    \/ VerifySealed(r) \/ Commit(r) \/ Reconcile(r)
    \/ DiscardBegin(r) \/ DiscardEnd(r) \/ Tidy(r) \/ Fail(r)

(* Every attempt has ended: nothing is left to do in this instance.        *)
Finished ==
    /\ engine = "up" /\ \A r \in Requests : pc[r] \in EndPcs
    /\ UNCHANGED vars

Next ==
    /\ \/ \E r \in Requests : Begin(r) \/ Step(r)
       \/ Crash \/ Restart
       \/ Finished
    /\ UNCHANGED locked

Spec == Init /\ [][Next]_vars

(* A thread inside the transaction runs on; a dead Engine is restarted.    *)
FairSpec ==
    /\ Spec
    /\ \A r \in Requests : WF_vars(Step(r) /\ UNCHANGED locked)
    /\ WF_vars(Restart /\ UNCHANGED locked)

-----------------------------------------------------------------------------
(* Properties                                                              *)

(* Every version the index names is intact on disk: a directory that holds *)
(* exactly the indexed record.  Rollback of one attempt never removes what *)
(* an index row points to, wherever the attempts fail or crash.            *)
IndexIsIntact == \A v \in Indexed : Verifies(v)
IndexedIsArchived == locked => IndexIsIntact

(* The history has no gap: versions are allocated one after the other even *)
(* when an attempt dies between its rename and its index commit.           *)
HistoryIsGapFree == \E n \in 0..MaxVersion : Complete(n)

(* What a failed attempt leaves behind sits at the next version only, where*)
(* the recovery loop of the next attempt looks for it.                     *)
LeftoverIsNext ==
    \A v \in Versions : archive[v] # "none" /\ v > 1 => index[v - 1] # "none"

(* Two consecutive versions never have the same content: a retry after a   *)
(* lost acknowledgement or a crash does not publish its Draft twice.       *)
NoRepeatInARow ==
    \A v \in Indexed :
        v + 1 \in Indexed => draft[index[v]] # draft[index[v + 1]]

(* The version an attempt reports is indexed with the attempt's content,   *)
(* whether the attempt sealed it, adopted it, or found it unchanged.       *)
AnswerIsTrue ==
    \A r \in Requests :
        pc[r] = "done" =>
            answer[r] \in Indexed /\ draft[index[answer[r]]] = draft[r]

(* A version row is never rewritten or removed.                            *)
HistoryIsAppendOnly ==
    [][\A v \in Versions : index[v] # "none" => index'[v] = index[v]]_vars

NoLeftover == \A v \in Versions : archive[v] # "none" => index[v] # "none"

(* An attempt that succeeds under the lock leaves nothing to recover: every*)
(* archive on disk is indexed.                                             *)
SuccessLeavesNoLeftover ==
    [][locked => \A r \in Requests :
          pc[r] # "done" /\ pc'[r] = "done" => NoLeftover']_vars

(* Every attempt returns, raises, or is lost with its Engine: the recovery *)
(* loop of archive_if_changed terminates.  (An attempt is made only once.) *)
EveryAttemptEnds == []<>(Working = {})

-----------------------------------------------------------------------------
(* The inductive invariant behind the safety properties of the locked      *)
(* transaction.                                                            *)

(* Labels at which the attempt's `records` is the whole index, ...         *)
CurrentPcs == {"recover", "stage", "check", "seal", "publish", "sealed",
               "commit", "discard", "discarding"}
(* ... at which nothing occupies its version, ...                          *)
FreePcs == {"stage", "check", "seal", "publish"}
(* ... and at which it has a record to commit.                             *)
CommitPcs == {"commit", "reconcile"}

AttemptInv(r) ==
    /\ pc[r] \in WorkingPcs \ {"recover", "failing"} => known[r] < MaxVersion
    /\ pc[r] \in CurrentPcs => Complete(known[r])
    /\ pc[r] \in FreePcs => archive[known[r] + 1] = "none"
    /\ pc[r] \in {"check", "seal", "publish", "sealed"} => ~Unchanged(r)
    /\ pc[r] = "sealed" => archive[known[r] + 1] = r
    /\ pc[r] \in CommitPcs =>
          /\ pending[r] \in Requests
          /\ archive[known[r] + 1] = pending[r]
          /\ pending[r] = r \/ r \notin staging
          /\ \A v \in Versions : v > known[r] + 1 => archive[v] = "none"
    /\ pc[r] = "reconcile" => Complete(known[r]) \/ Complete(known[r] + 1)
    /\ pc[r] \in {"idle", "recover"} => r \notin staging
    /\ pc[r] = "tidy" => NoLeftover
    /\ pc[r] \in {"tidy", "done"} =>
          answer[r] \in Indexed /\ draft[index[answer[r]]] = draft[r]

(* One attempt at a time, none without an Engine; the archives on disk are *)
(* those of attempts that have begun, and neighbours differ in content.    *)
ArchiveInv ==
    /\ \A r, s \in Working : r = s
    /\ engine = "down" => Working = {}
    /\ \A v \in Versions : archive[v] \in Requests => pc[archive[v]] # "idle"
    /\ \A v \in Versions :
          archive[v] \in Requests /\ v + 1 \in Versions /\ archive[v + 1] \in Requests
             => draft[archive[v]] # draft[archive[v + 1]]

(* Together with the properties it strengthens, the invariant is preserved *)
(* by every step of the locked transaction.                                *)
IndInv ==
    /\ TypeOK
    /\ IndexIsIntact
    /\ HistoryIsGapFree
    /\ LeftoverIsNext
    /\ ArchiveInv
    /\ \A r \in Requests : AttemptInv(r)
=============================================================================
