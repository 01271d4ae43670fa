------------------------- MODULE BacktestJobsProofs -------------------------
(***************************************************************************)
(* Proofs about BacktestJobs, for every finite set of Jobs and every value *)
(* of MaxWorkers, MaxCrashes and MaxFaults: the typing invariant, the      *)
(* inductive invariant IndInv with the safety invariants it implies, and   *)
(* the refinement of BacktestLifecycle.                                    *)
(***************************************************************************)
EXTENDS BacktestJobs, TLAPS

-----------------------------------------------------------------------------
(* Type correctness.                                                       *)

(* Every step of the Engine, a Runtime or a crash keeps the types.         *)
LEMMA TypingStep == TypeOK /\ [Next]_vars => TypeOK'
<1> SUFFICES ASSUME TypeOK, [Next]_vars PROVE TypeOK'
  OBVIOUS
<1> USE BoundsAssumption
    DEF TypeOK, Statuses, ActiveStatuses, TerminalStatuses, Phases, OuterStates,
           EngineStates, BootStates, StopStates, Pcs, SubmitPcs, PoolPcs, MainPcs,
           Goto, Works, Raises, InsertRow, MarkRunningRow, RecordProgressRow,
           MarkCompletedRow, FailRows, Evidence, LoseMemory, InStatus, MayWrite,
           ProcessAuthority, StopSession, LeaseHeldBySubreaper, ReleaseProven,
           Refuse, PoolFull, ExecutorOpen, durable, memory, bounds
<1>1. ASSUME NEW j \in Jobs, Submit(j) PROVE TypeOK'
  BY <1>1 DEF Submit
<1>2. ASSUME NEW j \in Jobs, SubmitInsert(j) PROVE TypeOK'
  BY <1>2 DEF SubmitInsert
<1>3. ASSUME NEW j \in Jobs, SubmitToExecutor(j) PROVE TypeOK'
  <2>1. CASE ExecutorOpen
    <3>1. queue' = Append(queue, j)
      BY <1>3, <2>1 DEF SubmitToExecutor
    <3>2. queue' \in Seq(Jobs)
      BY <3>1
    <3>3. /\ status' \in [Jobs -> Statuses] /\ phase' \in [Jobs -> Phases]
          /\ pc' \in [Jobs -> Pcs] /\ faults' \in 0..MaxFaults
      BY <1>3, <2>1 DEF SubmitToExecutor
    <3>4. UNCHANGED <<result, catalog, scratch, outer, engine, sessions,
                      retained, todo, firstError, crashes>>
      BY <1>3, <2>1 DEF SubmitToExecutor
    <3> QED
      BY <3>2, <3>3, <3>4
  <2>2. CASE ~ExecutorOpen
    BY <1>3, <2>2 DEF SubmitToExecutor
  <2> QED
    BY <2>1, <2>2
<1>4. ASSUME NEW j \in Jobs, PoolTake(j) PROVE TypeOK'
  BY <1>4 DEF PoolTake
<1>5. ASSUME NEW j \in Jobs, MarkRunning(j) PROVE TypeOK'
  BY <1>5 DEF MarkRunning
<1>6. ASSUME NEW j \in Jobs, Launch(j) PROVE TypeOK'
  BY <1>6 DEF Launch
<1>7. ASSUME NEW j \in Jobs, PollRunning(j) PROVE TypeOK'
  BY <1>7 DEF PollRunning
<1>8. ASSUME NEW j \in Jobs, PollExited(j) PROVE TypeOK'
  BY <1>8 DEF PollExited
<1>9. ASSUME NEW j \in Jobs, Terminate(j) PROVE TypeOK'
  BY <1>9 DEF Terminate
<1>10. ASSUME NEW j \in Jobs, AwaitQuiescence(j) PROVE TypeOK'
  BY <1>10 DEF AwaitQuiescence
<1>11. ASSUME NEW j \in Jobs, Collect(j) PROVE TypeOK'
  BY <1>11 DEF Collect
<1>12. ASSUME NEW j \in Jobs, MarkCompleted(j) PROVE TypeOK'
  BY <1>12 DEF MarkCompleted
<1>13. ASSUME NEW j \in Jobs, Except(j) PROVE TypeOK'
  BY <1>13 DEF Except
<1>14. ASSUME NEW j \in Jobs, RecoverCompleted(j) PROVE TypeOK'
  BY <1>14 DEF RecoverCompleted
<1>15. ASSUME NEW j \in Jobs, FailJob(j) PROVE TypeOK'
  BY <1>15 DEF FailJob
<1>16. ASSUME NEW j \in Jobs, Finally(j) PROVE TypeOK'
  BY <1>16 DEF Finally
<1>17. ASSUME NEW j \in Jobs, WorkerStage(j) PROVE TypeOK'
  BY <1>17 DEF WorkerStage
<1>18. ASSUME NEW j \in Jobs, WorkerPublish(j) PROVE TypeOK'
  BY <1>18 DEF WorkerPublish
<1>19. ASSUME NEW j \in Jobs, WorkerSucceed(j) PROVE TypeOK'
  BY <1>19 DEF WorkerSucceed
<1>20. ASSUME NEW j \in Jobs, WorkerFail(j) PROVE TypeOK'
  BY <1>20 DEF WorkerFail
<1>21. ASSUME NEW j \in Jobs, OuterQuiesce(j) PROVE TypeOK'
  BY <1>21 DEF OuterQuiesce
<1>22. ASSUME NEW j \in Jobs, OuterSeesParentDeath(j) PROVE TypeOK'
  BY <1>22 DEF OuterSeesParentDeath
<1>23. ASSUME NEW j \in Jobs, ReapSignal(j) PROVE TypeOK'
  BY <1>23 DEF ReapSignal
<1>24. ASSUME NEW j \in Jobs, ReapStop(j) PROVE TypeOK'
  BY <1>24 DEF ReapStop
<1>25. ASSUME NEW j \in Jobs, Settle(j) PROVE TypeOK'
  BY <1>25 DEF Settle
<1>26. ASSUME NEW j \in Jobs, SettleRow(j) PROVE TypeOK'
  <2>1. /\ status' \in [Jobs -> Statuses] /\ phase' \in [Jobs -> Phases]
    <3>1. CASE UNCHANGED <<status, phase>>
      BY <3>1
    <3>2. CASE MarkCompletedRow(j)
      BY <3>2
    <3>3. CASE FailRows({j} \cap Active, "interrupted")
      BY <3>3
    <3> QED
      BY ONLY <1>26, <3>1, <3>2, <3>3 DEF SettleRow
  <2>2. /\ retained' \in SUBSET Jobs /\ firstError' \in {"none", "raised"}
        /\ faults' \in 0..MaxFaults
    BY <1>26 DEF SettleRow
  <2>3. /\ scratch' \in SUBSET Jobs /\ todo' \in SUBSET Jobs
        /\ pc' \in [Jobs -> Pcs]
    BY <1>26 DEF SettleRow
  <2>4. UNCHANGED <<result, catalog, outer, engine, queue, sessions, crashes>>
    BY <1>26 DEF SettleRow
  <2> QED
    BY <2>1, <2>2, <2>3, <2>4
<1>27. ASSUME NEW j \in Jobs, Scan(j) PROVE TypeOK'
  <2>1. CASE BootAbort
    BY <1>27, <2>1 DEF Scan, BootAbort
  <2>2. CASE ~BootAbort
    BY <1>27, <2>2 DEF Scan
  <2> QED
    BY <2>1, <2>2
<1>28. ASSUME NEW j \in Jobs, Adopt(j) PROVE TypeOK'
  <2>1. CASE BootAbort
    BY <1>28, <2>1 DEF Adopt, BootAbort
  <2>2. CASE ~BootAbort
    BY <1>28, <2>2 DEF Adopt
  <2> QED
    BY <2>1, <2>2
<1>29. CASE RequestStop
  BY <1>29 DEF RequestStop
<1>60. CASE StopManager
  BY <1>60 DEF StopManager
<1>30. CASE CancelFutures
  BY <1>30 DEF CancelFutures
<1>31. CASE JoinPool
  BY <1>31 DEF JoinPool
<1>32. CASE ReapDone
  BY <1>32 DEF ReapDone
<1>33. CASE InterruptQueued
  BY <1>33 DEF InterruptQueued
<1>34. CASE Exit
  BY <1>34 DEF Exit
<1>35. CASE Crash
  BY <1>35 DEF Crash
<1>36. CASE ClaimOwner
  BY <1>36 DEF ClaimOwner
<1>37. CASE ReconcileStaging
  <2>1. CASE BootAbort
    BY <1>37, <2>1 DEF ReconcileStaging, BootAbort
  <2>2. CASE ~BootAbort
    BY <1>37, <2>2 DEF ReconcileStaging
  <2> QED
    BY <2>1, <2>2
<1>38. CASE InterruptActive
  <2>1. CASE BootAbort
    BY <1>38, <2>1 DEF InterruptActive, BootAbort
  <2>2. CASE ~BootAbort
    BY <1>38, <2>2 DEF InterruptActive
  <2> QED
    BY <2>1, <2>2
<1>39. CASE UNCHANGED vars
  BY <1>39 DEF vars
<1> HIDE DEF TypeOK
<1> QED
  BY <1>1, <1>2, <1>3, <1>4, <1>5, <1>6, <1>7, <1>8, <1>9, <1>10, <1>11,
         <1>12, <1>13, <1>14, <1>15, <1>16, <1>17, <1>18, <1>19, <1>20,
         <1>21, <1>22, <1>23, <1>24, <1>25, <1>26, <1>27, <1>28, <1>29, <1>60,
         <1>30, <1>31, <1>32, <1>33, <1>34, <1>35, <1>36, <1>37, <1>38, <1>39
     DEF Next, HandlerStep, PoolStep, WorkerStep, ShutdownStep, StartupStep

(* The Job rows, archives, processes and Engine memory keep their types.   *)
THEOREM Typing == Spec => []TypeOK
<1>1. Init => TypeOK
  BY BoundsAssumption DEF Init, TypeOK, Statuses, Phases, OuterStates,
     EngineStates, Pcs
<1>2. QED
  BY <1>1, TypingStep, PTL DEF Spec

-----------------------------------------------------------------------------
(* The inductive invariant.                                                *)

(* Every step keeps what engine, pc, sessions, rows and Results agree on.  *)
LEMMA IndInvStep == IndInv /\ [Next]_vars => IndInv'
<1> SUFFICES ASSUME IndInv, [Next]_vars, TypeOK' PROVE IndInv'
  BY TypingStep DEF IndInv
<1> USE DEF IndInv, TypeOK, MemoryAgrees, NothingBeforeRunning, ThreadAgrees,
           WriterAgrees, SessionAgrees, CatalogIsTrustworthy, CompletedHasResult,
           Goto, Works, Raises, InsertRow, MarkRunningRow, RecordProgressRow,
           MarkCompletedRow, FailRows, Evidence, LoseMemory, InStatus, MayWrite,
           ProcessAuthority, StopSession, LeaseHeldBySubreaper, ReleaseProven,
           Refuse, PoolFull, ExecutorOpen, durable, memory, bounds,
           BootAbort, Exited, HasEvidence, Active, ActiveStatuses, BootStates,
           PoolPcs, Busy
<1>1. ASSUME NEW j \in Jobs, Submit(j) PROVE IndInv'
  BY <1>1 DEF Submit
<1>2. ASSUME NEW j \in Jobs, SubmitInsert(j) PROVE IndInv'
  BY <1>2 DEF SubmitInsert
<1>3. ASSUME NEW j \in Jobs, SubmitToExecutor(j) PROVE IndInv'
  BY <1>3 DEF SubmitToExecutor
<1>4. ASSUME NEW j \in Jobs, PoolTake(j) PROVE IndInv'
  BY <1>4 DEF PoolTake
<1>5. ASSUME NEW j \in Jobs, MarkRunning(j) PROVE IndInv'
  BY <1>5 DEF MarkRunning
<1>6. ASSUME NEW j \in Jobs, Launch(j) PROVE IndInv'
  <2>1. CASE pc'[j] = "except"
    BY <1>6, <2>1 DEF Launch
  <2>2. CASE pc'[j] # "except"
    <3>1. /\ sessions' = sessions \cup {j}
          /\ pc'[j] \in {"poll", "terminate"}
          /\ \A k \in Jobs : k # j => pc'[k] = pc[k] /\ outer'[k] = outer[k]
          /\ status[j] = "running" /\ j \in scratch /\ j \notin catalog
      BY <1>6, <2>2 DEF Launch
    <3>2. engine \in {"up", "drain", "cancel", "join"}
      BY <1>6 DEF Launch, EngineStates, StopStates
    <3>3. UNCHANGED <<durable, engine, todo>>
      BY <1>6 DEF Launch
    <3>4. MemoryAgrees' /\ NothingBeforeRunning' /\ ThreadAgrees'
      BY <3>1, <3>2, <3>3
    <3>5. WriterAgrees'
      BY <3>1, <3>2, <3>3
    <3>6. SessionAgrees'
      BY <3>1, <3>2, <3>3
    <3>7. CatalogIsTrustworthy' /\ CompletedHasResult'
      BY <3>1, <3>3
    <3> QED
      BY <3>4, <3>5, <3>6, <3>7
  <2> QED
    BY <2>1, <2>2
<1>7. ASSUME NEW j \in Jobs, PollRunning(j) PROVE IndInv'
  BY <1>7 DEF PollRunning
<1>8. ASSUME NEW j \in Jobs, PollExited(j) PROVE IndInv'
  BY <1>8 DEF PollExited
<1>9. ASSUME NEW j \in Jobs, Terminate(j) PROVE IndInv'
  BY <1>9 DEF Terminate
<1>10. ASSUME NEW j \in Jobs, AwaitQuiescence(j) PROVE IndInv'
  BY <1>10 DEF AwaitQuiescence
<1>11. ASSUME NEW j \in Jobs, Collect(j) PROVE IndInv'
  BY <1>11 DEF Collect
<1>12. ASSUME NEW j \in Jobs, MarkCompleted(j) PROVE IndInv'
  <2>1. CASE MarkCompletedRow(j)
    BY <1>12, <2>1 DEF MarkCompleted
  <2>2. CASE UNCHANGED <<status, phase>>
    BY <1>12, <2>2 DEF MarkCompleted
  <2> QED
    BY ONLY <1>12, <2>1, <2>2 DEF MarkCompleted
<1>13. ASSUME NEW j \in Jobs, Except(j) PROVE IndInv'
  BY <1>13 DEF Except
<1>14. ASSUME NEW j \in Jobs, RecoverCompleted(j) PROVE IndInv'
  BY <1>14 DEF RecoverCompleted
<1>15. ASSUME NEW j \in Jobs, FailJob(j) PROVE IndInv'
  BY <1>15 DEF FailJob
<1>16. ASSUME NEW j \in Jobs, Finally(j) PROVE IndInv'
  BY <1>16 DEF Finally
<1>17. ASSUME NEW j \in Jobs, WorkerStage(j) PROVE IndInv'
  BY <1>17 DEF WorkerStage
<1>18. ASSUME NEW j \in Jobs, WorkerPublish(j) PROVE IndInv'
  BY <1>18 DEF WorkerPublish
<1>19. ASSUME NEW j \in Jobs, WorkerSucceed(j) PROVE IndInv'
  BY <1>19 DEF WorkerSucceed
<1>20. ASSUME NEW j \in Jobs, WorkerFail(j) PROVE IndInv'
  BY <1>20 DEF WorkerFail
<1>21. ASSUME NEW j \in Jobs, OuterQuiesce(j) PROVE IndInv'
  BY <1>21 DEF OuterQuiesce
<1>22. ASSUME NEW j \in Jobs, OuterSeesParentDeath(j) PROVE IndInv'
  BY <1>22 DEF OuterSeesParentDeath
<1>23. ASSUME NEW j \in Jobs, ReapSignal(j) PROVE IndInv'
  BY <1>23 DEF ReapSignal
<1>24. ASSUME NEW j \in Jobs, ReapStop(j) PROVE IndInv'
  BY <1>24 DEF ReapStop
<1>25. ASSUME NEW j \in Jobs, Settle(j) PROVE IndInv'
  BY <1>25 DEF Settle
<1>26. ASSUME NEW j \in Jobs, SettleRow(j) PROVE IndInv'
  BY <1>26 DEF SettleRow
<1>27. ASSUME NEW j \in Jobs, Scan(j) PROVE IndInv'
  BY <1>27 DEF Scan
<1>28. ASSUME NEW j \in Jobs, Adopt(j) PROVE IndInv'
  <2>1. CASE BootAbort
    BY <1>28, <2>1 DEF Adopt, BootAbort
  <2>2. CASE ~BootAbort
    BY <1>28, <2>2 DEF Adopt
  <2> QED
    BY <2>1, <2>2
<1>29. CASE RequestStop
  BY <1>29 DEF RequestStop
<1>60. CASE StopManager
  BY <1>60 DEF StopManager
<1>30. CASE CancelFutures
  BY <1>30 DEF CancelFutures
<1>31. CASE JoinPool
  BY <1>31 DEF JoinPool
<1>32. CASE ReapDone
  BY <1>32 DEF ReapDone
<1>33. CASE InterruptQueued
  BY <1>33 DEF InterruptQueued
<1>34. CASE Exit
  BY <1>34 DEF Exit
<1>35. CASE Crash
  BY <1>35 DEF Crash
<1>36. CASE ClaimOwner
  BY <1>36 DEF ClaimOwner
<1>37. CASE ReconcileStaging
  BY <1>37 DEF ReconcileStaging
<1>38. CASE InterruptActive
  BY <1>38 DEF InterruptActive
<1>39. CASE UNCHANGED vars
  BY <1>39 DEF vars
<1> HIDE DEF IndInv
<1> QED
  BY <1>1, <1>2, <1>3, <1>4, <1>5, <1>6, <1>7, <1>8, <1>9, <1>10, <1>11,
         <1>12, <1>13, <1>14, <1>15, <1>16, <1>17, <1>18, <1>19, <1>20,
         <1>21, <1>22, <1>23, <1>24, <1>25, <1>26, <1>27, <1>28, <1>29, <1>60,
         <1>30, <1>31, <1>32, <1>33, <1>34, <1>35, <1>36, <1>37, <1>38, <1>39
     DEF Next, HandlerStep, PoolStep, WorkerStep, ShutdownStep, StartupStep

(* IndInv holds in every reachable state.                                  *)
THEOREM Inductive == Spec => []IndInv
<1>1. Init => IndInv
  <2> SUFFICES ASSUME Init PROVE IndInv
    OBVIOUS
  <2>1. TypeOK
    BY BoundsAssumption DEF Init, TypeOK, Statuses, Phases, OuterStates,
       EngineStates, Pcs
  <2> QED
    BY <2>1 DEF Init, IndInv, MemoryAgrees, NothingBeforeRunning, ThreadAgrees,
           WriterAgrees, SessionAgrees, CatalogIsTrustworthy, CompletedHasResult,
       Exited, BootStates, MayWrite, PoolPcs
<1>2. QED
  BY <1>1, IndInvStep, PTL DEF Spec

-----------------------------------------------------------------------------
(* What it implies.                                                        *)

(* No Job row is terminal while a process of its Runtime may still write.  *)
THEOREM TerminalIsQuiescent == Spec => []QuiescentWhenTerminal
<1>1. IndInv => QuiescentWhenTerminal
  BY DEF IndInv, WriterAgrees, QuiescentWhenTerminal, TerminalStatuses
<1>2. QED
  BY <1>1, Inductive, PTL

(* No scratch directory is removed under a process that may still write.   *)
THEOREM ScratchIsSafe == Spec => []ScratchOutlivesWriter
<1>1. IndInv => ScratchOutlivesWriter
  BY DEF IndInv, WriterAgrees, ScratchOutlivesWriter
<1>2. QED
  BY <1>1, Inductive, PTL

(* A live Engine has every possible writer in its own registry.            *)
THEOREM WritersAreRegistered == Spec => []EveryWriterIsRegistered
<1>1. IndInv => EveryWriterIsRegistered
  BY DEF IndInv, WriterAgrees, EveryWriterIsRegistered
<1>2. QED
  BY <1>1, Inductive, PTL

(* A completed Job has its sealed Result and the catalog rows.             *)
THEOREM CompletionIsBacked == Spec => []CompletedHasResult
<1>1. IndInv => CompletedHasResult
  BY DEF IndInv
<1>2. QED
  BY <1>1, Inductive, PTL

(* An orderly exit releases the owner lease only after the last writer.    *)
THEOREM ReleaseIsSafe == Spec => []ReleasedIsQuiet
<1>1. IndInv => ReleasedIsQuiet
  BY DEF IndInv, MemoryAgrees, ReleasedIsQuiet
<1>2. QED
  BY <1>1, Inductive, PTL

(* Only a sealed Result that nobody writes any more is catalogued.         *)
THEOREM CatalogIsSafe == Spec => []CatalogIsTrustworthy
<1>1. IndInv => CatalogIsTrustworthy
  BY DEF IndInv
<1>2. QED
  BY <1>1, Inductive, PTL

-----------------------------------------------------------------------------
(* Sealed Results that end in a failed row.                                *)

(* Every step keeps what a thread, the scan and a handler know of a Job.   *)
LEMMA SealedInvStep == IndInv /\ SealedInv /\ [Next]_vars => SealedInv'
<1> SUFFICES ASSUME IndInv, SealedInv, [Next]_vars PROVE SealedInv'
  OBVIOUS
<1> USE DEF IndInv, TypeOK, MemoryAgrees, NothingBeforeRunning, ThreadAgrees,
           WriterAgrees, SessionAgrees, SealedInv, BootStates, ProcessAuthority,
           Goto, Works, Raises, InsertRow, MarkRunningRow, RecordProgressRow,
           MarkCompletedRow, FailRows, Evidence, LoseMemory, InStatus, MayWrite,
           Refuse, ExecutorOpen, durable, memory, bounds, BootAbort, Exited,
           HasEvidence, Active, ActiveStatuses, VerificationRefused, Stopping,
           StopStates
<1>1. ASSUME NEW j \in Jobs, Submit(j) PROVE SealedInv'
  BY <1>1 DEF Submit
<1>2. ASSUME NEW j \in Jobs, SubmitInsert(j) PROVE SealedInv'
  BY <1>2 DEF SubmitInsert
<1>3. ASSUME NEW j \in Jobs, SubmitToExecutor(j) PROVE SealedInv'
  BY <1>3 DEF SubmitToExecutor
<1>4. ASSUME NEW j \in Jobs, PoolTake(j) PROVE SealedInv'
  BY <1>4 DEF PoolTake
<1>5. ASSUME NEW j \in Jobs, MarkRunning(j) PROVE SealedInv'
  <2>1. /\ pc' = [pc EXCEPT ![j] = pc'[j]] /\ pc'[j] \in {"launch", "except"}
        /\ UNCHANGED <<result, engine, todo>>
        /\ engine # "scan" /\ (faults' = 0 => faults = 0)
    BY <1>5, BoundsAssumption DEF MarkRunning
  <2>2. \A k \in Jobs : k # j => status'[k] = status[k]
    BY <1>5 DEF MarkRunning
  <2> QED
    BY <2>1, <2>2
<1>6. ASSUME NEW j \in Jobs, Launch(j) PROVE SealedInv'
  BY <1>6 DEF Launch
<1>7. ASSUME NEW j \in Jobs, PollRunning(j) PROVE SealedInv'
  BY <1>7 DEF PollRunning
<1>8. ASSUME NEW j \in Jobs, PollExited(j) PROVE SealedInv'
  BY <1>8 DEF PollExited
<1>9. ASSUME NEW j \in Jobs, Terminate(j) PROVE SealedInv'
  BY <1>9 DEF Terminate
<1>10. ASSUME NEW j \in Jobs, AwaitQuiescence(j) PROVE SealedInv'
  BY <1>10 DEF AwaitQuiescence
<1>11. ASSUME NEW j \in Jobs, Collect(j) PROVE SealedInv'
  BY <1>11 DEF Collect
<1>12. ASSUME NEW j \in Jobs, MarkCompleted(j) PROVE SealedInv'
  BY <1>12 DEF MarkCompleted
<1>13. ASSUME NEW j \in Jobs, Except(j) PROVE SealedInv'
  BY <1>13 DEF Except
<1>14. ASSUME NEW j \in Jobs, RecoverCompleted(j) PROVE SealedInv'
  BY <1>14 DEF RecoverCompleted
<1>15. ASSUME NEW j \in Jobs, FailJob(j) PROVE SealedInv'
  BY <1>15 DEF FailJob
<1>16. ASSUME NEW j \in Jobs, Finally(j) PROVE SealedInv'
  BY <1>16 DEF Finally
<1>17. ASSUME NEW j \in Jobs, WorkerStage(j) PROVE SealedInv'
  BY <1>17 DEF WorkerStage
<1>18. ASSUME NEW j \in Jobs, WorkerPublish(j) PROVE SealedInv'
  BY <1>18 DEF WorkerPublish
<1>19. ASSUME NEW j \in Jobs, WorkerSucceed(j) PROVE SealedInv'
  BY <1>19 DEF WorkerSucceed
<1>20. ASSUME NEW j \in Jobs, WorkerFail(j) PROVE SealedInv'
  BY <1>20 DEF WorkerFail
<1>21. ASSUME NEW j \in Jobs, OuterQuiesce(j) PROVE SealedInv'
  BY <1>21 DEF OuterQuiesce
<1>22. ASSUME NEW j \in Jobs, OuterSeesParentDeath(j) PROVE SealedInv'
  BY <1>22 DEF OuterSeesParentDeath
<1>23. ASSUME NEW j \in Jobs, ReapSignal(j) PROVE SealedInv'
  BY <1>23 DEF ReapSignal
<1>24. ASSUME NEW j \in Jobs, ReapStop(j) PROVE SealedInv'
  BY <1>24 DEF ReapStop
<1>25. ASSUME NEW j \in Jobs, Settle(j) PROVE SealedInv'
  BY <1>25 DEF Settle
<1>26. ASSUME NEW j \in Jobs, SettleRow(j) PROVE SealedInv'
  BY <1>26 DEF SettleRow
<1>27. ASSUME NEW j \in Jobs, Scan(j) PROVE SealedInv'
  BY <1>27 DEF Scan
<1>28. ASSUME NEW j \in Jobs, Adopt(j) PROVE SealedInv'
  BY <1>28 DEF Adopt
<1>29. CASE RequestStop
  BY <1>29 DEF RequestStop
<1>30. CASE StopManager
  BY <1>30 DEF StopManager
<1>31. CASE CancelFutures
  BY <1>31 DEF CancelFutures
<1>32. CASE JoinPool
  BY <1>32 DEF JoinPool
<1>33. CASE ReapDone
  BY <1>33 DEF ReapDone
<1>34. CASE InterruptQueued
  BY <1>34 DEF InterruptQueued
<1>35. CASE Exit
  BY <1>35 DEF Exit
<1>36. CASE Crash
  BY <1>36 DEF Crash
<1>37. CASE ClaimOwner
  BY <1>37 DEF ClaimOwner
<1>38. CASE ReconcileStaging
  BY <1>38 DEF ReconcileStaging
<1>39. CASE InterruptActive
  BY <1>39 DEF InterruptActive
<1>40. CASE UNCHANGED vars
  BY <1>40 DEF vars
<1> HIDE DEF IndInv, SealedInv
<1> QED
  BY <1>1, <1>2, <1>3, <1>4, <1>5, <1>6, <1>7, <1>8, <1>9, <1>10, <1>11,
     <1>12, <1>13, <1>14, <1>15, <1>16, <1>17, <1>18, <1>19, <1>20,
     <1>21, <1>22, <1>23, <1>24, <1>25, <1>26, <1>27, <1>28, <1>29,
     <1>30, <1>31, <1>32, <1>33, <1>34, <1>35, <1>36, <1>37, <1>38,
     <1>39, <1>40
     DEF Next, HandlerStep, PoolStep, WorkerStep, ShutdownStep, StartupStep

(* As long as no call fails, a Job with a sealed Result is failed only by  *)
(* an Engine that shuts down (_fail_interrupted_jobs, _execute, shutdown). *)
THEOREM SealedJobsComplete == Spec => SealedFailsOnlyInShutdown
<1>1. Init => SealedInv
  BY DEF Init, SealedInv
<1>2. Spec => []SealedInv
  BY <1>1, Inductive, SealedInvStep, PTL DEF Spec
<1>3. ASSUME IndInv, SealedInv, [Next]_vars
      PROVE  [\A j \in Jobs :
                status[j] # "failed" /\ status'[j] = "failed" /\ result[j] = "sealed"
                    => VerificationRefused \/ faults > 0]_vars
  <2> SUFFICES ASSUME NEW k \in Jobs, Next, status[k] # "failed", status'[k] = "failed",
                      result[k] = "sealed", faults = 0
               PROVE  VerificationRefused
    BY <1>3 DEF IndInv, TypeOK
  <2>1. status[k] # "queued" /\ status[k] # "absent"
    BY <1>3 DEF IndInv, NothingBeforeRunning
  <2> USE <1>3, <2>1 DEF IndInv, TypeOK, SealedInv, ThreadAgrees,
           Goto, Works, Raises, InsertRow, MarkRunningRow, RecordProgressRow,
           MarkCompletedRow, FailRows, Evidence, LoseMemory, InStatus, MayWrite,
           Refuse, ExecutorOpen, durable, memory, bounds, BootAbort, Exited,
           HasEvidence, Active, ActiveStatuses, VerificationRefused, Stopping,
           StopStates
  <2>2. ASSUME NEW j \in Jobs, Submit(j) PROVE VerificationRefused
    BY <2>2 DEF Submit
  <2>3. ASSUME NEW j \in Jobs, SubmitInsert(j) PROVE VerificationRefused
    BY <2>3 DEF SubmitInsert
  <2>4. ASSUME NEW j \in Jobs, SubmitToExecutor(j) PROVE VerificationRefused
    BY <2>4 DEF SubmitToExecutor
  <2>5. ASSUME NEW j \in Jobs, PoolTake(j) PROVE VerificationRefused
    BY <2>5 DEF PoolTake
  <2>6. ASSUME NEW j \in Jobs, MarkRunning(j) PROVE VerificationRefused
    BY <2>6 DEF MarkRunning
  <2>7. ASSUME NEW j \in Jobs, Launch(j) PROVE VerificationRefused
    BY <2>7 DEF Launch
  <2>8. ASSUME NEW j \in Jobs, PollRunning(j) PROVE VerificationRefused
    BY <2>8 DEF PollRunning
  <2>9. ASSUME NEW j \in Jobs, PollExited(j) PROVE VerificationRefused
    BY <2>9 DEF PollExited
  <2>10. ASSUME NEW j \in Jobs, Terminate(j) PROVE VerificationRefused
    BY <2>10 DEF Terminate
  <2>11. ASSUME NEW j \in Jobs, AwaitQuiescence(j) PROVE VerificationRefused
    BY <2>11 DEF AwaitQuiescence
  <2>12. ASSUME NEW j \in Jobs, Collect(j) PROVE VerificationRefused
    BY <2>12 DEF Collect
  <2>13. ASSUME NEW j \in Jobs, MarkCompleted(j) PROVE VerificationRefused
    BY <2>13 DEF MarkCompleted
  <2>14. ASSUME NEW j \in Jobs, Except(j) PROVE VerificationRefused
    BY <2>14 DEF Except
  <2>15. ASSUME NEW j \in Jobs, RecoverCompleted(j) PROVE VerificationRefused
    BY <2>15 DEF RecoverCompleted
  <2>16. ASSUME NEW j \in Jobs, FailJob(j) PROVE VerificationRefused
    BY <2>16 DEF FailJob
  <2>17. ASSUME NEW j \in Jobs, Finally(j) PROVE VerificationRefused
    BY <2>17 DEF Finally
  <2>18. ASSUME NEW j \in Jobs, WorkerStage(j) PROVE VerificationRefused
    BY <2>18 DEF WorkerStage
  <2>19. ASSUME NEW j \in Jobs, WorkerPublish(j) PROVE VerificationRefused
    BY <2>19 DEF WorkerPublish
  <2>20. ASSUME NEW j \in Jobs, WorkerSucceed(j) PROVE VerificationRefused
    BY <2>20 DEF WorkerSucceed
  <2>21. ASSUME NEW j \in Jobs, WorkerFail(j) PROVE VerificationRefused
    BY <2>21 DEF WorkerFail
  <2>22. ASSUME NEW j \in Jobs, OuterQuiesce(j) PROVE VerificationRefused
    BY <2>22 DEF OuterQuiesce
  <2>23. ASSUME NEW j \in Jobs, OuterSeesParentDeath(j) PROVE VerificationRefused
    BY <2>23 DEF OuterSeesParentDeath
  <2>24. ASSUME NEW j \in Jobs, ReapSignal(j) PROVE VerificationRefused
    BY <2>24 DEF ReapSignal
  <2>25. ASSUME NEW j \in Jobs, ReapStop(j) PROVE VerificationRefused
    BY <2>25 DEF ReapStop
  <2>26. ASSUME NEW j \in Jobs, Settle(j) PROVE VerificationRefused
    BY <2>26 DEF Settle
  <2>27. ASSUME NEW j \in Jobs, SettleRow(j) PROVE VerificationRefused
    BY <2>27 DEF SettleRow
  <2>28. ASSUME NEW j \in Jobs, Scan(j) PROVE VerificationRefused
    BY <2>28 DEF Scan
  <2>29. ASSUME NEW j \in Jobs, Adopt(j) PROVE VerificationRefused
    BY <2>29 DEF Adopt
  <2>30. CASE RequestStop
    BY <2>30 DEF RequestStop
  <2>31. CASE StopManager
    BY <2>31 DEF StopManager
  <2>32. CASE CancelFutures
    BY <2>32 DEF CancelFutures
  <2>33. CASE JoinPool
    BY <2>33 DEF JoinPool
  <2>34. CASE ReapDone
    BY <2>34 DEF ReapDone
  <2>35. CASE InterruptQueued
    BY <2>35 DEF InterruptQueued
  <2>36. CASE Exit
    BY <2>36 DEF Exit
  <2>37. CASE Crash
    BY <2>37 DEF Crash
  <2>38. CASE ClaimOwner
    BY <2>38 DEF ClaimOwner
  <2>39. CASE ReconcileStaging
    BY <2>39 DEF ReconcileStaging
  <2>40. CASE InterruptActive
    BY <2>40 DEF InterruptActive
  <2> QED
    BY ONLY Next, <2>2, <2>3, <2>4, <2>5, <2>6, <2>7, <2>8, <2>9, <2>10, <2>11,
       <2>12, <2>13, <2>14, <2>15, <2>16, <2>17, <2>18, <2>19, <2>20,
       <2>21, <2>22, <2>23, <2>24, <2>25, <2>26, <2>27, <2>28, <2>29,
       <2>30, <2>31, <2>32, <2>33, <2>34, <2>35, <2>36, <2>37, <2>38,
       <2>39, <2>40
       DEF Next, HandlerStep, PoolStep, WorkerStep, ShutdownStep, StartupStep
<1>4. QED
  BY <1>2, <1>3, Inductive, PTL DEF Spec, SealedFailsOnlyInShutdown

-----------------------------------------------------------------------------
(* BacktestJobs implements BacktestLifecycle.                              *)

Writers == {j \in Jobs : MayWrite(j)}

LifecycleStep == Lifecycle!Next \/ UNCHANGED <<status, Writers, catalog>>

(* A step that a client of the lifecycle cannot see.                       *)
LEMMA StutterStep ==
    ASSUME UNCHANGED <<status, catalog>>, UNCHANGED outer \/ UNCHANGED Writers
    PROVE  LifecycleStep
BY DEF LifecycleStep, Writers, MayWrite

(* Finding completion evidence is the lifecycle's Index or nothing: only a *)
(* running Job has any.                                                    *)
LEMMA IndexStep ==
    ASSUME IndInv, NEW j \in Jobs, NEW verdict, Evidence(j, verdict),
           ~MayWrite(j), UNCHANGED <<status, outer>>
    PROVE  LifecycleStep
<1>1. CASE UNCHANGED catalog
  BY <1>1, StutterStep
<1>2. CASE HasEvidence(j) /\ catalog' = catalog \cup {j}
  <2>1. status[j] = "running"
    BY <1>2 DEF HasEvidence, ActiveStatuses, IndInv, NothingBeforeRunning
  <2>2. Lifecycle!Index(j)
    BY <1>2, <2>1 DEF Lifecycle!Index, MayWrite
  <2> QED
    BY <2>2 DEF Lifecycle!Next, LifecycleStep
<1> QED
  BY <1>1, <1>2 DEF Evidence

(* mark_completed is the lifecycle's Complete, or leaves a completed row.  *)
LEMMA CompleteStep ==
    ASSUME IndInv, NEW j \in Jobs, MarkCompletedRow(j), j \in catalog,
           ~MayWrite(j), UNCHANGED <<catalog, outer>>
    PROVE  LifecycleStep
<1>1. CASE status[j] = "completed"
  <2>1. UNCHANGED status
    BY <1>1 DEF MarkCompletedRow, IndInv, TypeOK
  <2> QED
    BY <2>1, StutterStep
<1>2. CASE status[j] = "running"
  <2>1. Lifecycle!Complete(j)
    BY <1>2 DEF MarkCompletedRow, Lifecycle!Complete, MayWrite
  <2> QED
    BY <2>1 DEF Lifecycle!Next, LifecycleStep
<1> QED
  BY <1>1, <1>2 DEF MarkCompletedRow

(* An UPDATE that fails active rows without writers is the lifecycle's Fail.*)
LEMMA FailStep ==
    ASSUME IndInv, NEW failing \in SUBSET Jobs, NEW p, FailRows(failing, p),
           failing \cap Writers = {}, failing \subseteq Active,
           UNCHANGED <<catalog, outer>>
    PROVE  LifecycleStep
<1>1. Lifecycle!Fail(failing)
  BY DEF FailRows, Lifecycle!Fail, Writers, MayWrite, Active, ActiveStatuses
<1> QED
  BY <1>1 DEF Lifecycle!Next, LifecycleStep

(* Every step of the service is a step of the lifecycle or invisible.      *)
LEMMA RefinementStep == IndInv /\ [Next]_vars => LifecycleStep
<1> SUFFICES ASSUME IndInv, [Next]_vars PROVE LifecycleStep
  OBVIOUS
<1> USE DEF IndInv, ProcessAuthority, StopSession, LeaseHeldBySubreaper, Refuse
<1>1. ASSUME NEW j \in Jobs, Submit(j) PROVE LifecycleStep
  BY <1>1, StutterStep DEF Submit, durable
<1>2. ASSUME NEW j \in Jobs, SubmitInsert(j) PROVE LifecycleStep
  <2>1. CASE InsertRow(j)
    <3>1. Lifecycle!Submit(j)
      BY <1>2, <2>1 DEF SubmitInsert, InsertRow, Lifecycle!Submit, MayWrite,
         ThreadAgrees
    <3> QED
      BY <3>1 DEF Lifecycle!Next, LifecycleStep
  <2>2. CASE UNCHANGED status
    BY <1>2, <2>2, StutterStep DEF SubmitInsert
  <2> QED
    BY <1>2, <2>1, <2>2 DEF SubmitInsert
<1>3. ASSUME NEW j \in Jobs, SubmitToExecutor(j) PROVE LifecycleStep
  <2>1. CASE UNCHANGED status
    BY <1>3, <2>1, StutterStep DEF SubmitToExecutor
  <2>2. CASE \E p : FailRows(({j} \cap Active), p)
    <3>1. /\ ({j} \cap Active) \in SUBSET Jobs
          /\ ({j} \cap Active) \cap Writers = {} /\ ({j} \cap Active) \subseteq Active
      BY <1>3 DEF SubmitToExecutor, WriterAgrees, SessionAgrees, MemoryAgrees, Exited, Writers, Active, ActiveStatuses
    <3>2. UNCHANGED <<catalog, outer>>
      BY <1>3 DEF SubmitToExecutor
    <3> QED
      BY <2>2, <3>1, <3>2, FailStep
  <2> QED
    BY <1>3, <2>1, <2>2 DEF SubmitToExecutor
<1>4. ASSUME NEW j \in Jobs, PoolTake(j) PROVE LifecycleStep
  BY <1>4, StutterStep DEF PoolTake, durable
<1>5. ASSUME NEW j \in Jobs, MarkRunning(j) PROVE LifecycleStep
  <2>1. CASE MarkRunningRow(j)
    <3>1. Lifecycle!Start(j)
      BY <1>5, <2>1 DEF MarkRunning, MarkRunningRow, Lifecycle!Start, MayWrite
    <3> QED
      BY <3>1 DEF Lifecycle!Next, LifecycleStep
  <2>2. CASE UNCHANGED status
    BY <1>5, <2>2, StutterStep DEF MarkRunning
  <2> QED
    BY <1>5, <2>1, <2>2 DEF MarkRunning
<1>6. ASSUME NEW j \in Jobs, Launch(j) PROVE LifecycleStep
  <2>1. CASE UNCHANGED outer
    BY <1>6, <2>1, StutterStep DEF Launch, durable
  <2>2. CASE \E s \in {"live", "term"} : outer' = [outer EXCEPT ![j] = s]
    <3>1. j \notin Writers /\ status[j] = "running" /\ j \notin catalog
      BY <1>6 DEF Launch, WriterAgrees, SessionAgrees, ThreadAgrees, MemoryAgrees,
         Exited, Writers
    <3>2. Writers' = Writers \cup {j} /\ UNCHANGED <<status, catalog>>
      BY <1>6, <2>2, <3>1 DEF Launch, durable, Writers, MayWrite, TypeOK
    <3>3. Lifecycle!StartWriter(j)
      BY <3>1, <3>2 DEF Lifecycle!StartWriter, Writers
    <3> QED
      BY <3>3 DEF Lifecycle!Next, LifecycleStep
  <2> QED
    BY <1>6, <2>1, <2>2 DEF Launch
<1>7. ASSUME NEW j \in Jobs, PollRunning(j) PROVE LifecycleStep
  BY <1>7, StutterStep DEF PollRunning
<1>8. ASSUME NEW j \in Jobs, PollExited(j) PROVE LifecycleStep
  BY <1>8, StutterStep DEF PollExited
<1>9. ASSUME NEW j \in Jobs, Terminate(j) PROVE LifecycleStep
  <2>1. Writers' = Writers /\ UNCHANGED <<status, catalog>>
    BY <1>9 DEF Terminate, durable, Writers, MayWrite, TypeOK
  <2> QED
    BY <2>1, StutterStep
<1>10. ASSUME NEW j \in Jobs, AwaitQuiescence(j) PROVE LifecycleStep
  BY <1>10, StutterStep DEF AwaitQuiescence, durable
<1>11. ASSUME NEW j \in Jobs, Collect(j) PROVE LifecycleStep
  <2>1. ~MayWrite(j) \/ UNCHANGED catalog
    BY <1>11 DEF Collect, WriterAgrees, SessionAgrees, MemoryAgrees, Exited
  <2> QED
    BY <1>11, <2>1, StutterStep, IndexStep DEF Collect
<1>12. ASSUME NEW j \in Jobs, MarkCompleted(j) PROVE LifecycleStep
  <2>1. CASE MarkCompletedRow(j)
    BY <1>12, <2>1, CompleteStep DEF MarkCompleted, ThreadAgrees, WriterAgrees, SessionAgrees,
       MemoryAgrees, Exited, BootStates
  <2>2. CASE UNCHANGED status
    BY <1>12, <2>2, StutterStep DEF MarkCompleted
  <2> QED
    BY <1>12, <2>1, <2>2 DEF MarkCompleted
<1>13. ASSUME NEW j \in Jobs, Except(j) PROVE LifecycleStep
  <2>1. ~MayWrite(j) \/ UNCHANGED catalog
    BY <1>13 DEF Except, WriterAgrees, MemoryAgrees, Exited
  <2> QED
    BY <1>13, <2>1, StutterStep, IndexStep DEF Except
<1>14. ASSUME NEW j \in Jobs, RecoverCompleted(j) PROVE LifecycleStep
  <2>1. CASE MarkCompletedRow(j)
    BY <1>14, <2>1, CompleteStep DEF RecoverCompleted, ThreadAgrees, WriterAgrees, SessionAgrees,
       MemoryAgrees, Exited, BootStates
  <2>2. CASE UNCHANGED status
    BY <1>14, <2>2, StutterStep DEF RecoverCompleted
  <2> QED
    BY <1>14, <2>1, <2>2 DEF RecoverCompleted
<1>15. ASSUME NEW j \in Jobs, FailJob(j) PROVE LifecycleStep
  <2>1. CASE UNCHANGED status
    BY <1>15, <2>1, StutterStep DEF FailJob
  <2>2. CASE \E p : FailRows(({j} \cap Active), p)
    <3>1. /\ ({j} \cap Active) \in SUBSET Jobs
          /\ ({j} \cap Active) \cap Writers = {} /\ ({j} \cap Active) \subseteq Active
      BY <1>15 DEF FailJob, WriterAgrees, SessionAgrees, MemoryAgrees, Exited, Writers, Active, ActiveStatuses
    <3>2. UNCHANGED <<catalog, outer>>
      BY <1>15 DEF FailJob
    <3> QED
      BY <2>2, <3>1, <3>2, FailStep
  <2> QED
    BY <1>15, <2>1, <2>2 DEF FailJob
<1>16. ASSUME NEW j \in Jobs, Finally(j) PROVE LifecycleStep
  BY <1>16, StutterStep DEF Finally
<1>17. ASSUME NEW j \in Jobs, WorkerStage(j) PROVE LifecycleStep
  BY <1>17, StutterStep DEF WorkerStage
<1>18. ASSUME NEW j \in Jobs, WorkerPublish(j) PROVE LifecycleStep
  BY <1>18, StutterStep DEF WorkerPublish
<1>19. ASSUME NEW j \in Jobs, WorkerSucceed(j) PROVE LifecycleStep
  <2>1. j \in Writers /\ Writers' = Writers \ {j} /\ UNCHANGED <<status, catalog>>
    BY <1>19 DEF WorkerSucceed, durable, Writers, MayWrite, TypeOK
  <2>2. Lifecycle!StopWriter(j)
    BY <2>1 DEF Lifecycle!StopWriter, Writers
  <2> QED
    BY <2>2 DEF Lifecycle!Next, LifecycleStep
<1>20. ASSUME NEW j \in Jobs, WorkerFail(j) PROVE LifecycleStep
  <2>1. j \in Writers /\ Writers' = Writers \ {j} /\ UNCHANGED <<status, catalog>>
    BY <1>20 DEF WorkerFail, durable, Writers, MayWrite, TypeOK
  <2>2. Lifecycle!StopWriter(j)
    BY <2>1 DEF Lifecycle!StopWriter, Writers
  <2> QED
    BY <2>2 DEF Lifecycle!Next, LifecycleStep
<1>21. ASSUME NEW j \in Jobs, OuterQuiesce(j) PROVE LifecycleStep
  <2>1. j \in Writers /\ Writers' = Writers \ {j} /\ UNCHANGED <<status, catalog>>
    BY <1>21 DEF OuterQuiesce, durable, Writers, MayWrite, TypeOK
  <2>2. Lifecycle!StopWriter(j)
    BY <2>1 DEF Lifecycle!StopWriter, Writers
  <2> QED
    BY <2>2 DEF Lifecycle!Next, LifecycleStep
<1>22. ASSUME NEW j \in Jobs, OuterSeesParentDeath(j) PROVE LifecycleStep
  <2>1. Writers' = Writers /\ UNCHANGED <<status, catalog>>
    BY <1>22 DEF OuterSeesParentDeath, durable, Writers, MayWrite, TypeOK
  <2> QED
    BY <2>1, StutterStep
<1>23. ASSUME NEW j \in Jobs, ReapSignal(j) PROVE LifecycleStep
  <2>1. Writers' = Writers /\ UNCHANGED <<status, catalog>>
    BY <1>23 DEF ReapSignal, durable, Writers, MayWrite, TypeOK
  <2> QED
    BY <2>1, StutterStep
<1>24. ASSUME NEW j \in Jobs, ReapStop(j) PROVE LifecycleStep
  BY <1>24, StutterStep DEF ReapStop, durable
<1>25. ASSUME NEW j \in Jobs, Settle(j) PROVE LifecycleStep
  <2>1. ~MayWrite(j) \/ UNCHANGED catalog
    BY <1>25 DEF Settle, WriterAgrees, MemoryAgrees, Exited
  <2> QED
    BY <1>25, <2>1, StutterStep, IndexStep DEF Settle
<1>26. ASSUME NEW j \in Jobs, SettleRow(j) PROVE LifecycleStep
  <2>1. ~MayWrite(j)
    BY <1>26 DEF SettleRow, WriterAgrees, SessionAgrees, MemoryAgrees, Exited
  <2>2. CASE UNCHANGED status
    BY <1>26, <2>2, StutterStep DEF SettleRow
  <2>3. CASE pc[j] = "settleCompleted" /\ MarkCompletedRow(j)
    BY <1>26, <2>1, <2>3, CompleteStep DEF SettleRow, ThreadAgrees
  <2>4. CASE FailRows({j} \cap Active, "interrupted")
    <3>1. ({j} \cap Active) \cap Writers = {} /\ ({j} \cap Active) \subseteq Active
      BY <2>1 DEF Writers
    <3> QED
      BY <1>26, <2>4, <3>1, FailStep DEF SettleRow
  <2> QED
    BY <1>26, <2>2, <2>3, <2>4 DEF SettleRow
<1>27. ASSUME NEW j \in Jobs, Scan(j) PROVE LifecycleStep
  <2>1. ~MayWrite(j) \/ UNCHANGED catalog
    BY <1>27 DEF Scan, MemoryAgrees, BootStates
  <2> QED
    BY <1>27, <2>1, StutterStep, IndexStep DEF Scan, BootAbort
<1>28. ASSUME NEW j \in Jobs, Adopt(j) PROVE LifecycleStep
  <2>1. CASE MarkCompletedRow(j)
    BY <1>28, <2>1, CompleteStep DEF Adopt, ThreadAgrees, WriterAgrees, SessionAgrees,
       MemoryAgrees, Exited, BootStates
  <2>2. CASE UNCHANGED status
    BY <1>28, <2>2, StutterStep DEF Adopt
  <2> QED
    BY <1>28, <2>1, <2>2 DEF Adopt, BootAbort
<1>29. CASE RequestStop
  BY <1>29, StutterStep DEF RequestStop, durable
<1>60. CASE StopManager
  BY <1>60, StutterStep DEF StopManager, durable
<1>30. CASE CancelFutures
  BY <1>30, StutterStep DEF CancelFutures, durable
<1>31. CASE JoinPool
  BY <1>31, StutterStep DEF JoinPool, durable
<1>32. CASE ReapDone
  BY <1>32, StutterStep DEF ReapDone, durable
<1>33. CASE InterruptQueued
  <2>1. CASE UNCHANGED status
    BY <1>33, <2>1, StutterStep DEF InterruptQueued
  <2>2. CASE \E p : FailRows(InStatus("queued"), p)
    <3>1. /\ InStatus("queued") \in SUBSET Jobs
          /\ InStatus("queued") \cap Writers = {} /\ InStatus("queued") \subseteq Active
      BY <1>33 DEF InterruptQueued, NothingBeforeRunning, InStatus, MayWrite, Writers, Active, ActiveStatuses
    <3>2. UNCHANGED <<catalog, outer>>
      BY <1>33 DEF InterruptQueued
    <3> QED
      BY <2>2, <3>1, <3>2, FailStep
  <2> QED
    BY <1>33, <2>1, <2>2 DEF InterruptQueued
<1>34. CASE Exit
  BY <1>34, StutterStep DEF Exit, durable
<1>35. CASE Crash
  BY <1>35, StutterStep DEF Crash, durable
<1>36. CASE ClaimOwner
  BY <1>36, StutterStep DEF ClaimOwner, durable
<1>37. CASE ReconcileStaging
  BY <1>37, StutterStep DEF ReconcileStaging, BootAbort
<1>38. CASE InterruptActive
  <2>1. CASE UNCHANGED status
    BY <1>38, <2>1, StutterStep DEF InterruptActive, BootAbort
  <2>2. CASE \E p : FailRows(Active, p)
    <3>1. /\ Active \in SUBSET Jobs
          /\ Active \cap Writers = {} /\ Active \subseteq Active
      BY <1>38 DEF InterruptActive, MemoryAgrees, BootStates, Writers, Active, ActiveStatuses
    <3>2. UNCHANGED <<catalog, outer>>
      BY <1>38 DEF InterruptActive
    <3> QED
      BY <2>2, <3>1, <3>2, FailStep
  <2> QED
    BY <1>38, <2>1, <2>2 DEF InterruptActive, BootAbort
<1>39. CASE UNCHANGED vars
  BY <1>39, StutterStep DEF vars, durable
<1> QED
  BY <1>1, <1>2, <1>3, <1>4, <1>5, <1>6, <1>7, <1>8, <1>9, <1>10, <1>11,
         <1>12, <1>13, <1>14, <1>15, <1>16, <1>17, <1>18, <1>19, <1>20,
         <1>21, <1>22, <1>23, <1>24, <1>25, <1>26, <1>27, <1>28, <1>29, <1>60,
         <1>30, <1>31, <1>32, <1>33, <1>34, <1>35, <1>36, <1>37, <1>38, <1>39
     DEF Next, HandlerStep, PoolStep, WorkerStep, ShutdownStep, StartupStep

(* The service keeps every promise of BacktestLifecycle.                   *)
THEOREM Refinement == Spec => LifecycleSpec
<1>1. Init => Lifecycle!Init
  BY DEF Init, Lifecycle!Init, MayWrite
<1>2. IndInv /\ [Next]_vars => [Lifecycle!Next]_<<status, Writers, catalog>>
  BY RefinementStep DEF LifecycleStep
<1>3. QED
  BY <1>1, <1>2, Inductive, PTL DEF Spec, LifecycleSpec, Lifecycle!Spec, Lifecycle!vars,
     Writers
=============================================================================
