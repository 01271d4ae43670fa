------------------------ MODULE VersionArchiveProofs ------------------------
(***************************************************************************)
(* Proofs about VersionArchive.  The type invariant's supporting facts and *)
(* every safety property of the locked transaction follow from IndInv,     *)
(* which each step preserves as long as `locked` holds.                    *)
(***************************************************************************)
EXTENDS VersionArchive, TLAPS

USE RequestsAssumption, DraftsAssumption, LimitsAssumption

(* What one step of the attempt in the lock leaves to all the others, which*)
(* are not working: their part of the invariant.                           *)
LEMMA OthersKeep ==
    ASSUME IndInv, NEW r \in Requests, pc[r] \in WorkingPcs,
           NEW l \in Pcs, Goto(r, l), draft' = draft,
           \A v \in Indexed : index'[v] = index[v],
           staging' \in SUBSET (staging \cup {r}),
           \A q \in Requests \ {r} : answer'[q] = answer[q]
    PROVE  \A q \in Requests \ {r} : AttemptInv(q)'
<1> SUFFICES ASSUME NEW q \in Requests \ {r} PROVE AttemptInv(q)'
    OBVIOUS
<1>1. pc[q] \notin WorkingPcs /\ pc'[q] = pc[q]
    BY DEF IndInv, TypeOK, ArchiveInv, Working, Goto
<1>2. AttemptInv(q)
    BY DEF IndInv
<1>3. pc[q] = "done" => answer'[q] \in Indexed' /\ draft'[index'[answer'[q]]] = draft'[q]
    BY <1>1, <1>2 DEF AttemptInv, Indexed, WorkingPcs
<1>4. pc[q] = "idle" => q \notin staging'
    BY <1>2 DEF AttemptInv
<1> QED
    BY <1>1, <1>3, <1>4 DEF AttemptInv, WorkingPcs, CurrentPcs, FreePcs, CommitPcs

(* A step that leaves the directories and the Drafts alone keeps what the  *)
(* invariant says of them.                                                 *)
LEMMA ArchiveInvKeeps ==
    ASSUME IndInv, NEW r \in Requests, pc[r] \in WorkingPcs,
           NEW l \in Pcs \ {"idle"}, Goto(r, l),
           draft' = draft, archive' = archive, engine' = engine
    PROVE  ArchiveInv'
<1>1. Working' \subseteq Working
    BY DEF Working, Goto, IndInv, TypeOK
<1>2. \A v \in Versions : archive[v] \in Requests => pc'[archive[v]] # "idle"
    BY DEF IndInv, TypeOK, ArchiveInv, Goto
<1> QED
    BY <1>1, <1>2 DEF IndInv, ArchiveInv

(* A step that changes neither the index nor the directories.              *)
LEMMA DiskKeeps ==
    ASSUME IndInv, index' = index, archive' = archive
    PROVE  IndexIsIntact' /\ HistoryIsGapFree' /\ LeftoverIsNext'
BY DEF IndInv, IndexIsIntact, HistoryIsGapFree, LeftoverIsNext, Indexed,
       Verifies, Complete

(* The pieces of a step that changes neither the index nor the directories.*)
LEMMA QuietStep ==
    ASSUME IndInv, NEW r \in Requests, pc[r] \in WorkingPcs,
           NEW l \in Pcs \ {"idle"}, Goto(r, l),
           draft' = draft, index' = index, archive' = archive, engine' = engine,
           staging' \in SUBSET (staging \cup {r}),
           \A q \in Requests \ {r} : answer'[q] = answer[q],
           TypeOK', AttemptInv(r)'
    PROVE  IndInv'
BY OthersKeep, ArchiveInvKeeps, DiskKeeps DEF IndInv

(* When the index is 1..n, nothing lies beyond the next version.           *)
LEMMA NothingBeyond ==
    ASSUME IndInv, NEW n \in 0..MaxVersion, Complete(n)
    PROVE  \A v \in Versions : v > n + 1 => archive[v] = "none"
<1> SUFFICES ASSUME NEW v \in Versions, v > n + 1, archive[v] # "none"
             PROVE  FALSE
    OBVIOUS
<1>1. v - 1 \in Versions /\ v - 1 > n /\ v > 1
    BY DEF Versions
<1>2. v - 1 \in Indexed
    BY <1>1 DEF IndInv, LeftoverIsNext, Indexed
<1> QED
    BY <1>1, <1>2 DEF Complete

LEMMA RecoverKeeps ==
    ASSUME IndInv, locked, NEW r \in Requests, Recover(r)
    PROVE  IndInv'
<1>1. pc[r] = "recover" /\ AttemptInv(r) /\ TypeOK
    BY DEF Recover, IndInv
<1>2. PICK l \in {"stage", "commit", "failing"} : Goto(r, l)
    BY DEF Recover
<1>3. TypeOK'
  <2>1. pc' \in [Requests -> Pcs]
    BY <1>1, <1>2 DEF TypeOK, Goto, Pcs, WorkingPcs, EndPcs
  <2>2. faults' \in 0..MaxFaults
    BY <1>1 DEF Recover, TypeOK, Works, Raises
  <2>3. pending' \in [Requests -> Requests \cup {"none"}]
    BY <1>1 DEF Recover, TypeOK, AttemptInv, NextVersion, WorkingPcs
  <2>4. UNCHANGED <<index, archive, staging, draft, engine, known, answer,
             crashes>>
    BY DEF Recover
  <2> QED
    BY <1>1, <2>1, <2>2, <2>3, <2>4 DEF TypeOK, Versions
<1>4. AttemptInv(r)'
  <2>1. \A v \in Versions : v > known[r] + 1 => archive[v] = "none"
    BY <1>1, NothingBeyond DEF AttemptInv, TypeOK, CurrentPcs
  <2> QED
    BY <1>1, <1>2, <1>3, <2>1 DEF Recover, TypeOK, AttemptInv, IndInv, IndexIsIntact,
       NextVersion, Versions, Unchanged, Verifies, Complete, Indexed, Works, Raises,
       Goto, WorkingPcs, CurrentPcs, FreePcs, CommitPcs
<1> QED
    BY <1>1, <1>2, <1>3, <1>4, QuietStep DEF Recover, Pcs, WorkingPcs, EndPcs, TypeOK

LEMMA StageKeeps ==
    ASSUME IndInv, locked, NEW r \in Requests, Stage(r)
    PROVE  IndInv'
<1>1. pc[r] = "stage" /\ AttemptInv(r) /\ TypeOK
    BY DEF Stage, IndInv
<1>2. PICK l \in {"check", "tidy", "failing"} : Goto(r, l)
    BY DEF Stage
<1>3. TypeOK'
  <2>1. pc' \in [Requests -> Pcs]
    BY <1>1, <1>2 DEF TypeOK, Goto, Pcs, WorkingPcs, EndPcs
  <2>2. faults' \in 0..MaxFaults
    BY <1>1 DEF Stage, TypeOK, Works, Raises
  <2>3. staging' \in SUBSET Requests
    BY <1>1 DEF Stage, TypeOK, AttemptInv, NextVersion, WorkingPcs
  <2>4. answer' \in [Requests -> 0..MaxVersion]
    BY <1>1 DEF Stage, TypeOK, AttemptInv, NextVersion, WorkingPcs
  <2>5. UNCHANGED <<index, archive, draft, engine, known, pending, crashes>>
    BY DEF Stage
  <2> QED
    BY <1>1, <2>1, <2>2, <2>3, <2>4, <2>5 DEF TypeOK, Versions
<1>4. AttemptInv(r)'
  <2>1. NoLeftover
    <3>1. Complete(known[r]) /\ archive[known[r] + 1] = "none" /\ known[r] \in 0..MaxVersion
      BY <1>1 DEF AttemptInv, TypeOK, CurrentPcs, FreePcs
    <3>2. \A v \in Versions : v > known[r] + 1 => archive[v] = "none"
      BY <3>1, NothingBeyond
    <3> QED
      BY <3>1, <3>2 DEF NoLeftover, Complete, Indexed, Versions
  <2>2. NoLeftover'
    BY <2>1 DEF NoLeftover, Stage
  <2> QED
    BY <1>1, <1>2, <1>3, <2>2 DEF Stage, TypeOK, AttemptInv, IndInv, IndexIsIntact,
       NextVersion, Versions, Unchanged, Verifies, Complete, Indexed, Works, Raises,
       Goto, WorkingPcs, CurrentPcs, FreePcs, CommitPcs
<1> QED
    BY <1>1, <1>2, <1>3, <1>4, QuietStep DEF Stage, Pcs, WorkingPcs, EndPcs, TypeOK

LEMMA CheckKeeps ==
    ASSUME IndInv, locked, NEW r \in Requests, Check(r)
    PROVE  IndInv'
<1>1. pc[r] = "check" /\ AttemptInv(r) /\ TypeOK
    BY DEF Check, IndInv
<1>2. PICK l \in {"seal", "commit", "failing"} : Goto(r, l)
    BY DEF Check
<1>3. TypeOK'
    BY <1>1, <1>2 DEF Check, TypeOK, AttemptInv, NextVersion, Versions, Works, Raises,
       Goto, Pcs, WorkingPcs, EndPcs, CommitPcs
<1>4. AttemptInv(r)'
    BY <1>1, <1>2, <1>3 DEF Check, TypeOK, AttemptInv, IndInv, IndexIsIntact,
       NextVersion, Versions, Unchanged, Verifies, Complete, Indexed, Works, Raises,
       Goto, WorkingPcs, CurrentPcs, FreePcs, CommitPcs
<1> QED
    BY <1>1, <1>2, <1>3, <1>4, QuietStep DEF Check, Pcs, WorkingPcs, EndPcs, TypeOK

LEMMA SealKeeps ==
    ASSUME IndInv, locked, NEW r \in Requests, Seal(r)
    PROVE  IndInv'
<1>1. pc[r] = "seal" /\ AttemptInv(r) /\ TypeOK
    BY DEF Seal, IndInv
<1>2. PICK l \in {"publish", "failing"} : Goto(r, l)
    BY DEF Seal
<1>3. TypeOK'
    BY <1>1, <1>2 DEF Seal, TypeOK, AttemptInv, NextVersion, Versions, Works, Raises,
       Goto, Pcs, WorkingPcs, EndPcs, CommitPcs
<1>4. AttemptInv(r)'
    BY <1>1, <1>2, <1>3 DEF Seal, TypeOK, AttemptInv, IndInv, IndexIsIntact,
       NextVersion, Versions, Unchanged, Verifies, Complete, Indexed, Works, Raises,
       Goto, WorkingPcs, CurrentPcs, FreePcs, CommitPcs
<1> QED
    BY <1>1, <1>2, <1>3, <1>4, QuietStep DEF Seal, Pcs, WorkingPcs, EndPcs, TypeOK

LEMMA VerifySealedKeeps ==
    ASSUME IndInv, locked, NEW r \in Requests, VerifySealed(r)
    PROVE  IndInv'
<1>1. pc[r] = "sealed" /\ AttemptInv(r) /\ TypeOK
    BY DEF VerifySealed, IndInv
<1>2. PICK l \in {"commit", "discard", "failing"} : Goto(r, l)
    BY DEF VerifySealed
<1>3. TypeOK'
  <2>1. pc' \in [Requests -> Pcs]
    BY <1>1, <1>2 DEF TypeOK, Goto, Pcs, WorkingPcs, EndPcs
  <2>2. faults' \in 0..MaxFaults
    BY <1>1 DEF VerifySealed, TypeOK, Works, Raises
  <2>3. pending' \in [Requests -> Requests \cup {"none"}]
    BY <1>1 DEF VerifySealed, TypeOK, AttemptInv, NextVersion, WorkingPcs
  <2>4. UNCHANGED <<index, archive, staging, draft, engine, known, answer,
             crashes>>
    BY DEF VerifySealed
  <2> QED
    BY <1>1, <2>1, <2>2, <2>3, <2>4 DEF TypeOK, Versions
<1>4. AttemptInv(r)'
  <2>1. \A v \in Versions : v > known[r] + 1 => archive[v] = "none"
    BY <1>1, NothingBeyond DEF AttemptInv, TypeOK, CurrentPcs
  <2> QED
    BY <1>1, <1>2, <1>3, <2>1 DEF VerifySealed, TypeOK, AttemptInv, IndInv, IndexIsIntact,
       NextVersion, Versions, Unchanged, Verifies, Complete, Indexed, Works, Raises,
       Goto, WorkingPcs, CurrentPcs, FreePcs, CommitPcs
<1> QED
    BY <1>1, <1>2, <1>3, <1>4, QuietStep DEF VerifySealed, Pcs, WorkingPcs, EndPcs, TypeOK

LEMMA ReconcileKeeps ==
    ASSUME IndInv, locked, NEW r \in Requests, Reconcile(r)
    PROVE  IndInv'
<1>1. pc[r] = "reconcile" /\ AttemptInv(r) /\ TypeOK
    BY DEF Reconcile, IndInv
<1>2. PICK l \in {"recover", "tidy", "done", "discard", "failing"} : Goto(r, l)
    BY DEF Reconcile, Accepted, CommitsOwn, CommitsRecovered
<1>3. TypeOK'
  <2>1. pc' \in [Requests -> Pcs]
    BY <1>1, <1>2 DEF TypeOK, Goto, Pcs, WorkingPcs, EndPcs
  <2>2. faults' \in 0..MaxFaults
    BY <1>1 DEF Reconcile, Accepted, CommitsOwn, CommitsRecovered, TypeOK, Works, Raises
  <2>3. known' \in [Requests -> 0..MaxVersion]
    BY <1>1 DEF Reconcile, Accepted, CommitsOwn, CommitsRecovered, TypeOK, AttemptInv, NextVersion, WorkingPcs
  <2>4. answer' \in [Requests -> 0..MaxVersion]
    BY <1>1 DEF Reconcile, Accepted, CommitsOwn, CommitsRecovered, TypeOK, AttemptInv, NextVersion, WorkingPcs
  <2>5. UNCHANGED <<index, archive, staging, draft, engine, pending, crashes>>
    BY DEF Reconcile, Accepted, CommitsOwn, CommitsRecovered
  <2> QED
    BY <1>1, <2>1, <2>2, <2>3, <2>4, <2>5 DEF TypeOK, Versions
<1>4. AttemptInv(r)'
  <2> DEFINE v == known[r] + 1
  <2>1. /\ v \in Versions /\ pending[r] \in Requests
        /\ pending[r] = r \/ r \notin staging
        /\ Complete(known[r]) \/ Complete(v)
    BY <1>1 DEF AttemptInv, TypeOK, Versions, WorkingPcs, CommitPcs
  <2>2. Complete(known[r]) => index[v] = "none"
    BY <1>1, <2>1 DEF Complete, Indexed, TypeOK
  <2>3. Complete(v) => index[v] # "none"
    BY <1>1, <2>1 DEF Complete, Indexed, TypeOK
  <2>4. CASE index[v] = pending[r] /\ Accepted(r)
    <3>1. Complete(v) /\ v \in Indexed
      BY <2>1, <2>2, <2>4 DEF Indexed
    <3>2. CASE CommitsRecovered(r)
      <4>1. pc'[r] = "recover" /\ known'[r] = v /\ r \notin staging'
        BY <1>1, <2>4, <3>2 DEF Accepted, CommitsRecovered, Goto, TypeOK, NextVersion, Reconcile
      <4>2. Complete(known[r])'
        BY <3>1, <4>1 DEF Complete, Indexed, Reconcile
      <4> QED
        BY <4>1, <4>2 DEF AttemptInv, WorkingPcs, CurrentPcs, FreePcs, CommitPcs
    <3>3. CASE ~CommitsRecovered(r)
      <4>1. pending[r] = r
        BY <2>1, <3>3 DEF CommitsRecovered
      <4>2. pc'[r] = "done" /\ answer'[r] = v
        BY <1>1, <2>4, <3>3, <4>1 DEF Accepted, CommitsOwn, Goto, TypeOK, NextVersion
      <4>3. answer'[r] \in Indexed' /\ draft'[index'[answer'[r]]] = draft'[r]
        BY <2>4, <3>1, <4>1, <4>2 DEF Indexed, Reconcile
      <4> QED
        BY <4>2, <4>3 DEF AttemptInv, WorkingPcs, CurrentPcs, FreePcs, CommitPcs
    <3> QED
      BY <3>2, <3>3
  <2>5. CASE Goto(r, "failing")
    BY <1>1, <2>5 DEF Goto, TypeOK, AttemptInv, WorkingPcs, CurrentPcs, FreePcs, CommitPcs
  <2>6. CASE index[v] = "none" /\ Goto(r, "discard") /\ UNCHANGED known
    <3>1. pc'[r] = "discard" /\ known'[r] = known[r] /\ Complete(known[r])
      BY <1>1, <2>1, <2>3, <2>6 DEF Goto, TypeOK
    <3>2. Complete(known[r])'
      BY <3>1 DEF Complete, Indexed, Reconcile
    <3> QED
      BY <1>1, <3>1, <3>2 DEF AttemptInv, WorkingPcs, CurrentPcs, FreePcs, CommitPcs
  <2> QED
    BY <2>4, <2>5, <2>6 DEF Reconcile, NextVersion
<1> QED
    BY <1>1, <1>2, <1>3, <1>4, QuietStep DEF Reconcile, Accepted, CommitsOwn, CommitsRecovered, Pcs, WorkingPcs, EndPcs, TypeOK

LEMMA TidyKeeps ==
    ASSUME IndInv, locked, NEW r \in Requests, Tidy(r)
    PROVE  IndInv'
<1>1. pc[r] = "tidy" /\ AttemptInv(r) /\ TypeOK
    BY DEF Tidy, IndInv
<1>2. PICK l \in {"done", "failing"} : Goto(r, l)
    BY DEF Tidy
<1>3. TypeOK'
    BY <1>1, <1>2 DEF Tidy, TypeOK, AttemptInv, NextVersion, Versions, Works, Raises,
       Goto, Pcs, WorkingPcs, EndPcs, CommitPcs
<1>4. AttemptInv(r)'
    BY <1>1, <1>2, <1>3 DEF Tidy, TypeOK, AttemptInv, IndInv, IndexIsIntact,
       NextVersion, Versions, Unchanged, Verifies, Complete, Indexed, Works, Raises,
       Goto, WorkingPcs, CurrentPcs, FreePcs, CommitPcs
<1> QED
    BY <1>1, <1>2, <1>3, <1>4, QuietStep DEF Tidy, Pcs, WorkingPcs, EndPcs, TypeOK

LEMMA FailKeeps ==
    ASSUME IndInv, locked, NEW r \in Requests, Fail(r)
    PROVE  IndInv'
<1>1. pc[r] = "failing" /\ AttemptInv(r) /\ TypeOK
    BY DEF Fail, IndInv
<1>2. PICK l \in {"failed"} : Goto(r, l)
    BY DEF Fail
<1>3. TypeOK'
    BY <1>1, <1>2 DEF Fail, TypeOK, AttemptInv, NextVersion, Versions, Works, Raises,
       Goto, Pcs, WorkingPcs, EndPcs, CommitPcs
<1>4. AttemptInv(r)'
    BY <1>1, <1>2, <1>3 DEF Fail, TypeOK, AttemptInv, IndInv, IndexIsIntact,
       NextVersion, Versions, Unchanged, Verifies, Complete, Indexed, Works, Raises,
       Goto, WorkingPcs, CurrentPcs, FreePcs, CommitPcs
<1> QED
    BY <1>1, <1>2, <1>3, <1>4, QuietStep DEF Fail, Pcs, WorkingPcs, EndPcs, TypeOK

LEMMA CommitKeeps ==
    ASSUME IndInv, locked, NEW r \in Requests, Commit(r)
    PROVE  IndInv'
<1> DEFINE v == known[r] + 1
           row == [index EXCEPT ![v] = pending[r]]
<1>1. pc[r] = "commit" /\ AttemptInv(r) /\ TypeOK
    BY DEF Commit, IndInv
<1>2. /\ v \in Versions /\ known[r] \in Nat /\ pending[r] \in Requests
      /\ archive[v] = pending[r]
      /\ pending[r] = r \/ r \notin staging
      /\ Complete(known[r]) /\ pending[r] # "none"
    BY <1>1 DEF AttemptInv, TypeOK, Versions, WorkingPcs, CurrentPcs, CommitPcs
<1>3. index[v] = "none"
    BY <1>1, <1>2 DEF Complete, Indexed, TypeOK
<1>4. PICK l \in {"recover", "tidy", "done", "reconcile"} : Goto(r, l)
    BY DEF Commit, Accepted
<1>5. index' = row \/ index' = index
    BY <1>3 DEF Commit, NextVersion
<1>6. index' = row => Indexed' = 1..v
    BY <1>1, <1>2 DEF Indexed, Complete, Versions, TypeOK
<1>7. TypeOK'
  <2>1. pc' \in [Requests -> Pcs]
    BY <1>1, <1>4 DEF TypeOK, Goto, Pcs, WorkingPcs, EndPcs
  <2>2. index' \in [Versions -> Requests \cup {"none"}]
    BY <1>1, <1>2, <1>5 DEF TypeOK
  <2>3. faults' \in 0..MaxFaults
    BY <1>1 DEF Commit, TypeOK, Works, Raises
  <2>4. known' \in [Requests -> 0..MaxVersion] /\ answer' \in [Requests -> 0..MaxVersion]
    <3>1. CASE Accepted(r)
      <4>1. v \in 0..MaxVersion
        BY <1>2 DEF Versions
      <4>2. known' \in {known, [known EXCEPT ![r] = v]}
        BY <3>1 DEF Accepted, NextVersion
      <4>3. answer' \in {answer, [answer EXCEPT ![r] = v]}
        BY <3>1 DEF Accepted, NextVersion
      <4> QED
        BY <1>1, <4>1, <4>2, <4>3 DEF TypeOK
    <3>2. CASE UNCHANGED <<known, answer>>
      BY <1>1, <3>2 DEF TypeOK
    <3> QED
      BY <3>1, <3>2 DEF Commit
  <2>5. UNCHANGED <<archive, staging, draft, engine, pending, crashes>>
    BY DEF Commit
  <2> QED
    BY <1>1, <2>1, <2>2, <2>3, <2>4, <2>5 DEF TypeOK, Versions
<1>8. IndexIsIntact' /\ HistoryIsGapFree' /\ LeftoverIsNext'
  <2>1. CASE index' = index
    BY <2>1, DiskKeeps DEF Commit
  <2>2. CASE index' = row
    <3>1. IndexIsIntact'
      BY <1>1, <1>2, <2>2 DEF IndInv, IndexIsIntact, Indexed, Verifies, TypeOK, Commit
    <3>2. HistoryIsGapFree'
      BY <1>2, <1>6, <2>2 DEF HistoryIsGapFree, Complete, Versions
    <3>3. LeftoverIsNext'
      BY <1>1, <1>2, <2>2 DEF IndInv, LeftoverIsNext, TypeOK, Commit, Versions
    <3> QED
      BY <3>1, <3>2, <3>3
  <2> QED
    BY <1>5, <2>1, <2>2
<1>9. ArchiveInv'
    BY <1>1, <1>4, ArchiveInvKeeps DEF Commit, Pcs, WorkingPcs, EndPcs
<1>10. \A q \in Requests \ {r} : AttemptInv(q)'
  <2>1. \A w \in Indexed : index'[w] = index[w]
    BY <1>1, <1>3, <1>5 DEF Indexed, TypeOK
  <2>2. \A q \in Requests \ {r} : answer'[q] = answer[q]
    BY <1>1 DEF Commit, Accepted, TypeOK
  <2> QED
    BY <1>1, <1>4, <2>1, <2>2, OthersKeep DEF Commit, Pcs, WorkingPcs, EndPcs
<1>11. AttemptInv(r)'
  <2>1. CASE Goto(r, "reconcile") /\ known' = known
    <3>1. Complete(known[r])' \/ Complete(known[r] + 1)'
      BY <1>2, <1>5, <1>6, <2>1 DEF Complete, Indexed
    <3>2. pc'[r] = "reconcile" /\ known'[r] = known[r]
      BY <1>1, <2>1 DEF Goto, TypeOK
    <3> QED
      BY <1>1, <1>2, <3>1, <3>2 DEF AttemptInv, Commit, WorkingPcs, CurrentPcs, FreePcs, CommitPcs
  <2>2. CASE index' = row /\ Accepted(r)
    <3>1. CASE CommitsRecovered(r)
      <4>1. pc'[r] = "recover" /\ known'[r] = v /\ r \notin staging'
        BY <1>1, <2>2, <3>1 DEF Accepted, CommitsRecovered, Goto, TypeOK, NextVersion, Commit
      <4>2. Complete(known[r])'
        BY <1>6, <2>2, <4>1 DEF Complete
      <4> QED
        BY <4>1, <4>2 DEF AttemptInv, WorkingPcs, CurrentPcs, FreePcs, CommitPcs
    <3>2. CASE ~CommitsRecovered(r)
      <4>1. pending[r] = r
        BY <1>2, <3>2 DEF CommitsRecovered
      <4>2. pc'[r] = "done" /\ answer'[r] = v
        BY <1>1, <2>2, <3>2, <4>1 DEF Accepted, CommitsOwn, Goto, TypeOK, NextVersion
      <4>3. answer'[r] \in Indexed' /\ index'[v] = r
        BY <1>1, <1>2, <2>2, <4>1, <4>2 DEF Indexed, TypeOK
      <4> QED
        BY <4>2, <4>3 DEF AttemptInv, Commit, WorkingPcs, CurrentPcs, FreePcs, CommitPcs
    <3> QED
      BY <3>1, <3>2
  <2> QED
    BY <1>3, <2>1, <2>2 DEF Commit, NextVersion
<1> QED
    BY <1>7, <1>8, <1>9, <1>10, <1>11 DEF IndInv

(* The pieces of a step that changes the directory of one version that is  *)
(* not indexed.                                                            *)
LEMMA DirectoryStep ==
    ASSUME IndInv, NEW v \in Versions, index[v] = "none", index' = index,
           v > 1 => index[v - 1] # "none",
           \A w \in Versions \ {v} : archive'[w] = archive[w]
    PROVE  IndexIsIntact' /\ HistoryIsGapFree' /\ LeftoverIsNext'
BY DEF IndInv, IndexIsIntact, HistoryIsGapFree, LeftoverIsNext, Indexed,
       Verifies, Complete, Versions

LEMMA PublishKeeps ==
    ASSUME IndInv, locked, NEW r \in Requests, Publish(r)
    PROVE  IndInv'
<1> DEFINE v == known[r] + 1
<1>1. pc[r] = "publish" /\ AttemptInv(r) /\ TypeOK
    BY DEF Publish, IndInv
<1>2. /\ v \in Versions /\ known[r] \in Nat /\ archive[v] = "none"
      /\ Complete(known[r]) /\ ~Unchanged(r)
    BY <1>1 DEF AttemptInv, TypeOK, Versions, WorkingPcs, CurrentPcs, FreePcs
<1>3. index[v] = "none" /\ (v > 1 => index[v - 1] # "none")
    BY <1>1, <1>2 DEF Complete, Indexed, TypeOK, Versions
<1>4. CASE Goto(r, "failing") /\ UNCHANGED <<archive, staging>>
  <2>1. TypeOK'
    <3>1. pc' \in [Requests -> Pcs]
      BY <1>1, <1>4 DEF TypeOK, Goto, Pcs, WorkingPcs
    <3>2. faults' \in 0..MaxFaults
      BY <1>1 DEF Publish, TypeOK, Works, Raises
    <3> QED
      BY <1>1, <1>4, <3>1, <3>2 DEF TypeOK, Publish, Versions
  <2>2. AttemptInv(r)'
    BY <1>1, <1>4 DEF Goto, TypeOK, AttemptInv, WorkingPcs, CurrentPcs, FreePcs, CommitPcs
  <2> QED
    BY <1>1, <1>4, <2>1, <2>2, QuietStep DEF Publish, Pcs, WorkingPcs
<1>5. CASE /\ archive' = [archive EXCEPT ![v] = r]
           /\ staging' = staging \ {r}
           /\ Goto(r, "sealed") \/ Goto(r, "discard")
  <2>1. PICK l \in {"sealed", "discard"} : Goto(r, l)
    BY <1>5
  <2>2. TypeOK'
    <3>1. pc' \in [Requests -> Pcs]
      BY <1>1, <2>1 DEF TypeOK, Goto, Pcs, WorkingPcs
    <3>2. faults' \in 0..MaxFaults
      BY <1>1 DEF Publish, TypeOK, Works, Raises
    <3>3. archive' \in [Versions -> Requests \cup {"none", "broken"}]
      BY <1>1, <1>2, <1>5 DEF TypeOK
    <3> QED
      BY <1>1, <1>5, <3>1, <3>2, <3>3 DEF TypeOK, Publish, Versions
  <2>3. IndexIsIntact' /\ HistoryIsGapFree' /\ LeftoverIsNext'
    BY <1>1, <1>2, <1>3, <1>5, DirectoryStep DEF Publish, TypeOK
  <2>4. ArchiveInv'
    <3>1. Working' \subseteq Working /\ pc'[r] # "idle"
      BY <1>1, <2>1 DEF Working, Goto, TypeOK, WorkingPcs
    <3>2. \A w \in Versions : archive'[w] \in Requests => pc'[archive'[w]] # "idle"
      BY <1>1, <1>2, <1>5, <2>1 DEF IndInv, TypeOK, ArchiveInv, Goto
    <3>3. \A w \in Versions : w > v => archive[w] = "none"
      <4> SUFFICES ASSUME NEW w \in Versions, w > v, archive[w] # "none" PROVE FALSE
        OBVIOUS
      <4>1. w - 1 \in Versions /\ w - 1 > known[r] /\ w > 1
        BY <1>2 DEF Versions
      <4>2. w - 1 \in Indexed
        BY <4>1 DEF IndInv, LeftoverIsNext, Indexed
      <4> QED
        BY <1>2, <4>1, <4>2 DEF Complete
    <3>4. known[r] > 0 => archive[known[r]] = index[known[r]] /\ draft[index[known[r]]] # draft[r]
      BY <1>2 DEF IndInv, IndexIsIntact, Verifies, Complete, Unchanged
    <3>5. ASSUME NEW w \in Versions, w + 1 \in Versions,
                 archive'[w] \in Requests, archive'[w + 1] \in Requests
          PROVE  draft[archive'[w]] # draft[archive'[w + 1]]
      <4>1. CASE w = v
        BY <1>1, <1>2, <1>5, <3>3, <3>5, <4>1 DEF TypeOK, Versions
      <4>2. CASE w + 1 = v
        BY <1>1, <1>2, <1>5, <3>4, <3>5, <4>2 DEF TypeOK, Versions
      <4>3. CASE w # v /\ w + 1 # v
        BY <1>1, <1>5, <3>5, <4>3 DEF IndInv, ArchiveInv, TypeOK
      <4> QED
        BY <4>1, <4>2, <4>3
    <3> QED
      BY <3>1, <3>2, <3>5 DEF IndInv, ArchiveInv, Publish
  <2>5. \A q \in Requests \ {r} : AttemptInv(q)'
    BY <1>1, <1>5, <2>1, OthersKeep DEF Publish, Pcs, WorkingPcs
  <2>6. AttemptInv(r)'
    <3>1. pc'[r] = l /\ archive'[v] = r /\ known' = known
      BY <1>1, <1>2, <1>5, <2>1 DEF Goto, TypeOK, Publish
    <3>2. Complete(known[r])' /\ ~Unchanged(r)'
      BY <1>2 DEF Complete, Indexed, Unchanged, Publish
    <3> QED
      BY <1>1, <1>2, <3>1, <3>2 DEF AttemptInv, WorkingPcs, CurrentPcs, FreePcs, CommitPcs, TypeOK
  <2> QED
    BY <2>2, <2>3, <2>4, <2>5, <2>6 DEF IndInv
<1> QED
    BY <1>2, <1>4, <1>5 DEF Publish, NextVersion

LEMMA DiscardBeginKeeps ==
    ASSUME IndInv, locked, NEW r \in Requests, DiscardBegin(r)
    PROVE  IndInv'
<1> DEFINE v == known[r] + 1
<1>1. pc[r] = "discard" /\ AttemptInv(r) /\ TypeOK
    BY DEF DiscardBegin, IndInv
<1>2. /\ v \in Versions /\ known[r] \in Nat /\ Complete(known[r])
    BY <1>1 DEF AttemptInv, TypeOK, Versions, WorkingPcs, CurrentPcs
<1>3. index[v] = "none" /\ (v > 1 => index[v - 1] # "none")
    BY <1>1, <1>2 DEF Complete, Indexed, TypeOK, Versions
<1>4. PICK l \in {"discarding", "failing"} : Goto(r, l)
    BY DEF DiscardBegin
<1>5. archive' \in {archive, [archive EXCEPT ![v] = "broken"], [archive EXCEPT ![v] = "none"]}
    BY DEF DiscardBegin, NextVersion
<1>6. TypeOK'
  <2>1. pc' \in [Requests -> Pcs]
    BY <1>1, <1>4 DEF TypeOK, Goto, Pcs, WorkingPcs
  <2>2. faults' \in 0..MaxFaults
    BY <1>1 DEF DiscardBegin, TypeOK, Works, Raises
  <2>3. archive' \in [Versions -> Requests \cup {"none", "broken"}]
    BY <1>1, <1>5 DEF TypeOK
  <2> QED
    BY <1>1, <2>1, <2>2, <2>3 DEF TypeOK, DiscardBegin, Versions
<1>7. IndexIsIntact' /\ HistoryIsGapFree' /\ LeftoverIsNext'
  <2>1. \A w \in Versions \ {v} : archive'[w] = archive[w]
    BY <1>1, <1>5 DEF TypeOK
  <2> QED
    BY <1>2, <1>3, <2>1, DirectoryStep DEF DiscardBegin
<1>8. ArchiveInv'
  <2>1. Working' \subseteq Working
    BY <1>1, <1>4 DEF Working, Goto, TypeOK, WorkingPcs
  <2>2. \A w \in Versions : archive'[w] \in Requests => archive'[w] = archive[w]
    BY <1>1, <1>2, <1>5 DEF TypeOK
  <2>3. \A w \in Versions : archive'[w] \in Requests => pc'[archive'[w]] # "idle"
    BY <1>1, <1>4, <2>2 DEF IndInv, ArchiveInv, Goto, TypeOK
  <2>4. \A w \in Versions :
            archive'[w] \in Requests /\ w + 1 \in Versions /\ archive'[w + 1] \in Requests
               => draft[archive'[w]] # draft[archive'[w + 1]]
    BY <2>2 DEF IndInv, ArchiveInv
  <2> QED
    BY <2>1, <2>3, <2>4 DEF IndInv, ArchiveInv, DiscardBegin
<1>9. \A q \in Requests \ {r} : AttemptInv(q)'
    BY <1>1, <1>4, OthersKeep DEF DiscardBegin, Pcs, WorkingPcs
<1>10. AttemptInv(r)'
  <2>1. pc'[r] = l /\ known' = known /\ Complete(known[r])'
    BY <1>1, <1>2, <1>4 DEF Goto, TypeOK, DiscardBegin, Complete, Indexed
  <2> QED
    BY <1>1, <1>2, <2>1 DEF AttemptInv, WorkingPcs, CurrentPcs, FreePcs, CommitPcs
<1> QED
    BY <1>6, <1>7, <1>8, <1>9, <1>10 DEF IndInv

LEMMA DiscardEndKeeps ==
    ASSUME IndInv, locked, NEW r \in Requests, DiscardEnd(r)
    PROVE  IndInv'
<1> DEFINE v == known[r] + 1
<1>1. pc[r] = "discarding" /\ AttemptInv(r) /\ TypeOK
    BY DEF DiscardEnd, IndInv
<1>2. /\ v \in Versions /\ known[r] \in Nat /\ Complete(known[r])
    BY <1>1 DEF AttemptInv, TypeOK, Versions, WorkingPcs, CurrentPcs
<1>3. index[v] = "none" /\ (v > 1 => index[v - 1] # "none")
    BY <1>1, <1>2 DEF Complete, Indexed, TypeOK, Versions
<1>4. PICK l \in {"failing"} : Goto(r, l)
    BY DEF DiscardEnd
<1>5. archive' \in {archive, [archive EXCEPT ![v] = "broken"], [archive EXCEPT ![v] = "none"]}
    BY DEF DiscardEnd, NextVersion
<1>6. TypeOK'
  <2>1. pc' \in [Requests -> Pcs]
    BY <1>1, <1>4 DEF TypeOK, Goto, Pcs, WorkingPcs
  <2>2. faults' \in 0..MaxFaults
    BY <1>1 DEF DiscardEnd, TypeOK, Works, Raises
  <2>3. archive' \in [Versions -> Requests \cup {"none", "broken"}]
    BY <1>1, <1>5 DEF TypeOK
  <2> QED
    BY <1>1, <2>1, <2>2, <2>3 DEF TypeOK, DiscardEnd, Versions
<1>7. IndexIsIntact' /\ HistoryIsGapFree' /\ LeftoverIsNext'
  <2>1. \A w \in Versions \ {v} : archive'[w] = archive[w]
    BY <1>1, <1>5 DEF TypeOK
  <2> QED
    BY <1>2, <1>3, <2>1, DirectoryStep DEF DiscardEnd
<1>8. ArchiveInv'
  <2>1. Working' \subseteq Working
    BY <1>1, <1>4 DEF Working, Goto, TypeOK, WorkingPcs
  <2>2. \A w \in Versions : archive'[w] \in Requests => archive'[w] = archive[w]
    BY <1>1, <1>2, <1>5 DEF TypeOK
  <2>3. \A w \in Versions : archive'[w] \in Requests => pc'[archive'[w]] # "idle"
    BY <1>1, <1>4, <2>2 DEF IndInv, ArchiveInv, Goto, TypeOK
  <2>4. \A w \in Versions :
            archive'[w] \in Requests /\ w + 1 \in Versions /\ archive'[w + 1] \in Requests
               => draft[archive'[w]] # draft[archive'[w + 1]]
    BY <2>2 DEF IndInv, ArchiveInv
  <2> QED
    BY <2>1, <2>3, <2>4 DEF IndInv, ArchiveInv, DiscardEnd
<1>9. \A q \in Requests \ {r} : AttemptInv(q)'
    BY <1>1, <1>4, OthersKeep DEF DiscardEnd, Pcs, WorkingPcs
<1>10. AttemptInv(r)'
  <2>1. pc'[r] = l /\ known' = known /\ Complete(known[r])'
    BY <1>1, <1>2, <1>4 DEF Goto, TypeOK, DiscardEnd, Complete, Indexed
  <2> QED
    BY <1>1, <1>2, <2>1 DEF AttemptInv, WorkingPcs, CurrentPcs, FreePcs, CommitPcs
<1> QED
    BY <1>6, <1>7, <1>8, <1>9, <1>10 DEF IndInv

LEMMA BeginKeeps ==
    ASSUME IndInv, locked, NEW r \in Requests, Begin(r)
    PROVE  IndInv'
<1>1. pc[r] = "idle" /\ AttemptInv(r) /\ TypeOK /\ Working = {}
    BY DEF Begin, IndInv
<1>2. PICK l \in {"recover", "failing"} : Goto(r, l)
    BY DEF Begin
<1>3. PICK d \in Drafts : draft' = [draft EXCEPT ![r] = d]
    BY DEF Begin
<1>4. \A v \in Versions : archive[v] # r /\ index[v] # r
  <2>1. \A v \in Versions : archive[v] # r
    BY <1>1 DEF IndInv, ArchiveInv
  <2> QED
    BY <2>1 DEF IndInv, IndexIsIntact, Indexed, Verifies
<1>5. TypeOK'
  <2>1. pc' \in [Requests -> Pcs]
    BY <1>1, <1>2 DEF TypeOK, Goto, Pcs, WorkingPcs
  <2>2. faults' \in 0..MaxFaults
    BY <1>1 DEF Begin, TypeOK, Works, Raises
  <2>3. known' \in [Requests -> 0..MaxVersion]
    BY <1>1 DEF Begin, TypeOK
  <2>4. draft' \in [Requests -> Drafts \cup {"none"}]
    BY <1>1, <1>3 DEF TypeOK
  <2> QED
    BY <1>1, <2>1, <2>2, <2>3, <2>4 DEF TypeOK, Begin, Versions
<1>6. IndexIsIntact' /\ HistoryIsGapFree' /\ LeftoverIsNext'
    BY DiskKeeps DEF Begin
<1>7. ArchiveInv'
  <2>1. Working' = {r} /\ engine' = "up"
    BY <1>1, <1>2 DEF Working, Goto, TypeOK, Begin, WorkingPcs
  <2>2. \A v \in Versions : archive[v] \in Requests => pc'[archive[v]] # "idle"
    BY <1>1, <1>2, <1>4 DEF IndInv, ArchiveInv, Goto, TypeOK
  <2>3. \A v \in Versions : archive[v] \in Requests => draft'[archive[v]] = draft[archive[v]]
    BY <1>1, <1>3, <1>4 DEF TypeOK
  <2> QED
    BY <2>1, <2>2, <2>3 DEF IndInv, ArchiveInv, Begin
<1>8. ASSUME NEW q \in Requests \ {r} PROVE AttemptInv(q)'
  <2>1. pc'[q] = pc[q] /\ pc[q] \notin WorkingPcs /\ draft'[q] = draft[q]
    BY <1>1, <1>2, <1>3 DEF Goto, TypeOK, Working
  <2>2. AttemptInv(q)
    BY DEF IndInv
  <2>3. pc[q] = "done" => answer'[q] \in Indexed' /\ draft'[index'[answer'[q]]] = draft'[q]
    <3>1. SUFFICES ASSUME pc[q] = "done"
                   PROVE  answer[q] \in Indexed /\ draft'[index[answer[q]]] = draft[q]
      BY <2>1 DEF Begin, Indexed
    <3>2. answer[q] \in Indexed /\ draft[index[answer[q]]] = draft[q]
      BY <2>2, <3>1 DEF AttemptInv
    <3>3. index[answer[q]] \in Requests \ {r}
      BY <1>1, <1>4, <3>2 DEF Indexed, TypeOK
    <3> QED
      BY <1>1, <1>3, <3>2, <3>3 DEF TypeOK
  <2>4. pc[q] = "idle" => q \notin staging'
    BY <2>2 DEF AttemptInv, Begin
  <2> QED
    BY <2>1, <2>3, <2>4 DEF AttemptInv, WorkingPcs, CurrentPcs, FreePcs, CommitPcs
<1>9. AttemptInv(r)'
  <2>1. pc'[r] = l /\ r \notin staging'
    BY <1>1, <1>2 DEF Goto, TypeOK, Begin, AttemptInv
  <2>2. l = "recover" => Complete(known[r])'
    <3>1. SUFFICES ASSUME l = "recover" PROVE Complete(known[r])'
      OBVIOUS
    <3>2. PICK n \in 0..MaxVersion : Complete(n) /\ known' = [known EXCEPT ![r] = n]
      BY <1>1, <2>1, <3>1 DEF Begin, Goto, TypeOK
    <3> QED
      BY <1>1, <3>2 DEF Complete, Indexed, TypeOK, Begin
  <2> QED
    BY <2>1, <2>2 DEF AttemptInv, WorkingPcs, CurrentPcs, FreePcs, CommitPcs
<1> QED
    BY <1>5, <1>6, <1>7, <1>8, <1>9 DEF IndInv

LEMMA CrashKeeps ==
    ASSUME IndInv, Crash PROVE IndInv'
<1>1. TypeOK /\ TypeOK'
    BY DEF IndInv, TypeOK, Crash, Pcs, EndPcs, Versions
<1>2. \A q \in Requests : pc'[q] \notin WorkingPcs /\ (pc'[q] = "lost" \/ pc'[q] = pc[q])
    BY <1>1 DEF Crash, Working, WorkingPcs
<1>3. Working' = {}
    BY <1>2 DEF Working
<1>4. IndexIsIntact' /\ HistoryIsGapFree' /\ LeftoverIsNext'
    BY DiskKeeps DEF Crash
<1>5. \A v \in Versions : archive[v] \in Requests => pc'[archive[v]] # "idle"
    BY <1>2 DEF IndInv, ArchiveInv
<1>6. ArchiveInv'
    BY <1>3, <1>5 DEF IndInv, ArchiveInv, Crash
<1>7. ASSUME NEW q \in Requests PROVE AttemptInv(q)'
  <2>1. AttemptInv(q)
    BY DEF IndInv
  <2>2. pc'[q] = "done" => answer'[q] \in Indexed' /\ draft'[index'[answer'[q]]] = draft'[q]
    BY <1>2, <2>1 DEF AttemptInv, Crash, Indexed
  <2>3. pc'[q] = "idle" => q \notin staging'
    BY <1>2, <2>1 DEF AttemptInv, Crash
  <2> QED
    BY <1>2, <2>2, <2>3 DEF AttemptInv, WorkingPcs, CurrentPcs, FreePcs, CommitPcs
<1> QED
    BY <1>1, <1>4, <1>6, <1>7 DEF IndInv

LEMMA RestartKeeps ==
    ASSUME IndInv, Restart PROVE IndInv'
<1>1. TypeOK'
    BY DEF IndInv, TypeOK, Restart, Versions
<1>2. Working = {} /\ Working' = {}
    BY DEF IndInv, ArchiveInv, Restart, Working
<1>3. IndexIsIntact' /\ HistoryIsGapFree' /\ LeftoverIsNext'
    BY DiskKeeps DEF Restart
<1>4. ArchiveInv'
    BY <1>2 DEF IndInv, ArchiveInv, Restart
<1>5. ASSUME NEW q \in Requests PROVE AttemptInv(q)'
  <2>1. AttemptInv(q) /\ pc'[q] = pc[q] /\ pc[q] \notin WorkingPcs
    BY <1>2 DEF IndInv, Restart, Working
  <2> QED
    BY <2>1 DEF AttemptInv, Restart, Indexed, WorkingPcs, CurrentPcs, FreePcs, CommitPcs
<1> QED
    BY <1>1, <1>3, <1>4, <1>5 DEF IndInv

-----------------------------------------------------------------------------

LEMMA InitEstablishes == Init => IndInv
<1> SUFFICES ASSUME Init PROVE IndInv
    OBVIOUS
<1>1. TypeOK
    BY DEF Init, TypeOK, Pcs, Versions
<1>2. Indexed = {} /\ Working = {}
    BY DEF Init, Indexed, Working, WorkingPcs
<1>3. IndexIsIntact /\ HistoryIsGapFree /\ LeftoverIsNext
  <2>1. 0 \in 0..MaxVersion /\ Complete(0)
    BY <1>2 DEF Complete
  <2> QED
    BY <1>2, <2>1 DEF IndexIsIntact, HistoryIsGapFree, LeftoverIsNext, Init
<1>4. ArchiveInv
    BY <1>2 DEF ArchiveInv, Init
<1>5. \A r \in Requests : AttemptInv(r)
    BY DEF Init, AttemptInv, WorkingPcs, CurrentPcs, FreePcs, CommitPcs
<1> QED
    BY <1>1, <1>3, <1>4, <1>5 DEF IndInv

LEMMA StepPreserves ==
    ASSUME locked, IndInv, [Next]_vars PROVE IndInv'
<1>1. CASE \E r \in Requests : Begin(r)
    BY <1>1, BeginKeeps
<1>2. CASE \E r \in Requests : Step(r)
    BY <1>2, RecoverKeeps, StageKeeps, CheckKeeps, SealKeeps, PublishKeeps,
       VerifySealedKeeps, CommitKeeps, ReconcileKeeps, DiscardBeginKeeps,
       DiscardEndKeeps, TidyKeeps, FailKeeps DEF Step
<1>3. CASE Crash
    BY <1>3, CrashKeeps
<1>4. CASE Restart
    BY <1>4, RestartKeeps
<1>5. CASE UNCHANGED vars
  <2>1. UNCHANGED <<Indexed, Working>>
    BY <1>5 DEF vars, Indexed, Working
  <2>2. TypeOK' /\ IndexIsIntact' /\ HistoryIsGapFree' /\ LeftoverIsNext'
    BY <1>5, DiskKeeps DEF vars, IndInv, TypeOK
  <2>3. ArchiveInv'
    BY <1>5, <2>1 DEF vars, IndInv, ArchiveInv
  <2>4. ASSUME NEW r \in Requests PROVE AttemptInv(r)'
    <3>1. AttemptInv(r)
      BY DEF IndInv
    <3> QED
      BY <1>5, <2>1, <3>1 DEF vars, AttemptInv, NoLeftover, Complete, Unchanged
  <2> QED
    BY <2>2, <2>3, <2>4 DEF IndInv
<1> QED
    BY <1>1, <1>2, <1>3, <1>4, <1>5 DEF Next, Finished

(* Under the lock IndInv holds in every reachable state, for any number of *)
(* attempts, contents, versions, crashes and failing calls.                *)
THEOREM LockedInvariant ==
    Spec => [](locked => IndInv)
<1>1. (locked => IndInv) /\ [Next]_vars => (locked' => IndInv')
  <2>1. [Next]_vars => locked' = locked
    BY DEF Next, vars
  <2> QED
    BY <2>1, StepPreserves
<1> QED
    BY InitEstablishes, <1>1, PTL DEF Spec

(* Under the lock no rollback, failure or crash separates the index from   *)
(* the archives: every indexed version is on disk as it was recorded.      *)
THEOREM IndexIsBacked ==
    Spec => []IndexedIsArchived
<1>1. (locked => IndInv) => IndexedIsArchived
    BY DEF IndInv, IndexedIsArchived
<1> QED
    BY LockedInvariant, <1>1, PTL

(* Under the lock versions are allocated without gaps, and what a failed   *)
(* attempt leaves lies where the next attempt's recovery loop looks.       *)
THEOREM HistoryIsComplete ==
    Spec => [](locked => HistoryIsGapFree /\ LeftoverIsNext)
<1>1. IndInv => HistoryIsGapFree /\ LeftoverIsNext
    BY DEF IndInv
<1> QED
    BY LockedInvariant, <1>1, PTL

(* Under the lock a Draft is never published twice in a row, whatever      *)
(* acknowledgement was lost and however often the caller retries.          *)
THEOREM NoDoublePublication ==
    Spec => [](locked => NoRepeatInARow)
<1>1. IndInv => NoRepeatInARow
  <2> SUFFICES ASSUME IndInv, NEW v \in Indexed, v + 1 \in Indexed
               PROVE  draft[index[v]] # draft[index[v + 1]]
    BY DEF NoRepeatInARow
  <2>1. archive[v] = index[v] /\ archive[v + 1] = index[v + 1]
    BY DEF IndInv, IndexIsIntact, Verifies
  <2>2. index[v] \in Requests /\ index[v + 1] \in Requests
    BY DEF IndInv, TypeOK, Indexed
  <2> QED
    BY <2>1, <2>2 DEF IndInv, ArchiveInv, Indexed
<1> QED
    BY LockedInvariant, <1>1, PTL

(* Under the lock the version an attempt returns has the attempt's content.*)
THEOREM AnswersAreTrue ==
    Spec => [](locked => AnswerIsTrue)
<1>1. IndInv => AnswerIsTrue
    BY DEF IndInv, AttemptInv, AnswerIsTrue
<1> QED
    BY LockedInvariant, <1>1, PTL

(* The step that ends an attempt successfully is its commit, the accepted  *)
(* reconciliation of its commit, or the disposal of its staging directory. *)
LEMMA SuccessStep ==
    ASSUME locked, IndInv, [Next]_vars, NEW r \in Requests,
           pc[r] # "done", pc'[r] = "done"
    PROVE  \/ Tidy(r)
           \/ (Commit(r) \/ Reconcile(r)) /\ Accepted(r) /\ ~CommitsRecovered(r)
<1>1. pc \in [Requests -> Pcs]
    BY DEF IndInv, TypeOK
<1>2. CASE \E q \in Requests : Begin(q) \/ Recover(q) \/ Stage(q) \/ Check(q)
              \/ Seal(q) \/ Publish(q) \/ VerifySealed(q) \/ DiscardBegin(q)
              \/ DiscardEnd(q) \/ Fail(q)
    BY <1>1, <1>2 DEF Begin, Recover, Stage, Check, Seal, Publish, VerifySealed,
       DiscardBegin, DiscardEnd, Fail, Goto
<1>3. CASE \E q \in Requests : Tidy(q)
    BY <1>1, <1>3 DEF Tidy, Goto
<1>4. CASE \E q \in Requests : Commit(q)
    BY <1>1, <1>4 DEF Commit, Accepted, Goto
<1>5. CASE \E q \in Requests : Reconcile(q)
    BY <1>1, <1>5 DEF Reconcile, Accepted, Goto
<1>6. CASE Crash \/ Restart \/ UNCHANGED vars
    BY <1>1, <1>6 DEF Crash, Restart, vars
<1> QED
    BY <1>2, <1>3, <1>4, <1>5, <1>6 DEF Next, Step, Finished

(* Under the lock a successful attempt leaves nothing for a later one to   *)
(* recover.                                                                *)
THEOREM SuccessIsClean ==
    Spec => SuccessLeavesNoLeftover
<1>1. ASSUME locked, IndInv, [Next]_vars, NEW r \in Requests, pc[r] # "done", pc'[r] = "done"
      PROVE  NoLeftover'
  <2>1. CASE Tidy(r)
    <3>1. NoLeftover
      BY <2>1, <1>1 DEF Tidy, IndInv, AttemptInv
    <3> QED
      BY <2>1, <3>1 DEF Tidy, NoLeftover
  <2>2. CASE (Commit(r) \/ Reconcile(r)) /\ Accepted(r) /\ ~CommitsRecovered(r)
    <3> DEFINE v == known[r] + 1
    <3>1. pc[r] \in CommitPcs /\ AttemptInv(r) /\ TypeOK
      BY <1>1, <2>2 DEF Commit, Reconcile, CommitPcs, IndInv
    <3>2. v \in Versions /\ \A w \in Versions : w > v => archive[w] = "none"
      BY <3>1 DEF AttemptInv, TypeOK, Versions, WorkingPcs, CommitPcs
    <3>3. IndInv'
      BY <1>1, StepPreserves
    <3>4. answer'[r] = v
      BY <2>2, <3>1 DEF Accepted, NextVersion, TypeOK
    <3>5. v \in Indexed'
      BY <1>1, <3>3, <3>4 DEF IndInv, AttemptInv
    <3>6. PICK n \in 0..MaxVersion : Complete(n)'
      BY <3>3 DEF IndInv, HistoryIsGapFree
    <3>7. n >= v
      BY <3>5, <3>6 DEF Complete
    <3>8. archive' = archive
      BY <2>2 DEF Commit, Reconcile
    <3>9. \A w \in Versions : archive'[w] # "none" => w \in Indexed'
      BY <3>2, <3>6, <3>7, <3>8 DEF Complete, Versions
    <3> QED
      BY <3>9 DEF NoLeftover, Indexed
  <2> QED
    BY <1>1, <2>1, <2>2, SuccessStep
<1>2. (locked => IndInv) /\ [Next]_vars =>
         [locked => \A r \in Requests :
             pc[r] # "done" /\ pc'[r] = "done" => NoLeftover']_vars
    BY <1>1
<1> QED
    BY LockedInvariant, <1>2, PTL DEF Spec, SuccessLeavesNoLeftover

-----------------------------------------------------------------------------

(* With or without the lock: a version row is written once and never       *)
(* rewritten or removed, by whichever attempt comes first.                 *)
THEOREM RowsAreFinal == Spec => HistoryIsAppendOnly
<1> DEFINE Shape == index = [v \in Versions |-> index[v]]
           Kept == \A v \in Versions : index[v] # "none" => index'[v] = index[v]
<1>1. Init => Shape
    BY DEF Init
<1>2. ASSUME [Next]_vars
      PROVE  \/ index' = index
             \/ \E n, x : index[n] = "none" /\ index' = [index EXCEPT ![n] = x]
  <2>1. CASE \E r \in Requests : Commit(r)
    BY <2>1 DEF Commit
  <2>2. CASE ~\E r \in Requests : Commit(r)
    BY <1>2, <2>2 DEF Next, vars, Begin, Step, Recover, Stage, Check, Seal, Publish,
       VerifySealed, Reconcile, DiscardBegin, DiscardEnd, Tidy, Fail, Crash,
       Restart, Finished
  <2> QED
    BY <2>1, <2>2
<1>3. Shape /\ [Next]_vars => Shape' /\ Kept
    BY <1>2
<1>4. Spec => []Shape
    BY <1>1, <1>3, PTL DEF Spec
<1>5. Shape /\ [Next]_vars => [Kept]_vars
    BY <1>3
<1> QED
    BY <1>4, <1>5, PTL DEF Spec, HistoryIsAppendOnly

=============================================================================
