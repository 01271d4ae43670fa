----------------------- MODULE JupyterWorkspacesProofs -----------------------
(***************************************************************************)
(* For any number of request threads, guards, stoppers and records: every  *)
(* server has its authority, the guarded Workspace is quiet and a shutdown *)
(* without an error is final.  All three follow from IndInv.               *)
(***************************************************************************)
EXTENDS JupyterWorkspaces, TLAPS

-----------------------------------------------------------------------------
(* Facts about the helpers.                                                *)

(* A thread that only changes its label keeps its row's type.              *)
LEMMA GotoTypes ==
    ASSUME TypeOK, NEW t \in Threads, NEW label \in Labels, Goto(t, label)
    PROVE  thread' \in [Threads -> ThreadRows]
BY DEF TypeOK, Goto, ThreadRows

(* A thread at a label without a session is typed.                         *)
LEMMA FreeTypes ==
    ASSUME TypeOK, NEW t \in Threads, NEW label \in Labels, NEW error \in BOOLEAN,
           thread' = [thread EXCEPT ![t] = Free(label, error)]
    PROVE  /\ thread' \in [Threads -> ThreadRows]
           /\ thread'[t].pc = label /\ thread'[t].my = None /\ thread'[t].error = error
           /\ \A u \in Threads \ {t} : thread'[u] = thread[u]
<1>1. None \in 0..made
    BY DEF TypeOK, None
<1>2. Free(label, error) \in ThreadRows
    BY <1>1, Zenon DEF Free, ThreadRows
<1> QED
    BY <1>2 DEF TypeOK, Free

(* A request that ended is typed.                                          *)
LEMMA EndTypes ==
    ASSUME TypeOK, NEW t \in Threads, End(t)
    PROVE  /\ thread' \in [Threads -> ThreadRows]
           /\ thread'[t].pc = "done" /\ thread'[t].my = None
           /\ \A u \in Threads \ {t} : thread'[u] = thread[u]
<1>1. FALSE \in BOOLEAN /\ "done" \in Labels
    BY DEF Labels
<1> QED
    BY <1>1, FreeTypes DEF End

(* A stop that returns lets an opener look again and a guard go on only    *)
(* without an error.                                                       *)
LEMMA ReturnTypes ==
    ASSUME TypeOK, NEW t \in Threads, NEW error \in BOOLEAN, Return(t, error)
    PROVE  /\ thread' \in [Threads -> ThreadRows]
           /\ thread'[t].pc \in {"leftover", "done", "look", "unblock", "critical"}
           /\ thread'[t].my = None
           /\ t \in Stoppers => thread'[t].pc = "leftover"
           /\ t \in Guards => thread'[t].pc \in {"unblock", "critical"}
           /\ thread'[t].pc = "critical" => ~error
           /\ \A u \in Threads \ {t} : thread'[u] = thread[u]
<1> DEFINE next == CASE t \in Stoppers -> "leftover"
                     [] t \in Openers -> IF error THEN "done" ELSE "look"
                     [] OTHER -> IF error THEN "unblock" ELSE "critical"
<1>1. /\ next \in Labels /\ next \in {"leftover", "done", "look", "unblock", "critical"}
      /\ t \in Stoppers => next = "leftover"
      /\ t \in Guards => next \in {"unblock", "critical"}
      /\ next = "critical" => ~error
    BY ThreadsAreDistinct DEF Labels
<1>2. (error /\ t \in Stoppers) \in BOOLEAN
    OBVIOUS
<1>3. thread' = [thread EXCEPT ![t] = Free(next, error /\ t \in Stoppers)]
    BY DEF Return
<1> HIDE DEF next
<1> QED
    BY <1>1, <1>2, <1>3, FreeTypes

(* A thread that took the registered session is typed.                     *)
LEMMA TakeTypes ==
    ASSUME TypeOK, NEW t \in Threads, NEW label \in Labels, Take(t, label)
    PROVE  /\ thread' \in [Threads -> ThreadRows]
           /\ thread'[t].pc = label /\ thread'[t].target = registry
           /\ thread'[t].my = thread[t].my
           /\ \A u \in Threads \ {t} : thread'[u] = thread[u]
<1> DEFINE took == [thread[t] EXCEPT !.pc = label, !.target = registry]
<1>1. thread[t] \in ThreadRows /\ registry \in 0..made
    BY DEF TypeOK
<1>2. /\ took \in ThreadRows /\ took.pc = label /\ took.target = registry
      /\ took.my = thread[t].my
    BY <1>1 DEF ThreadRows
<1>3. thread' = [thread EXCEPT ![t] = took]
    BY <1>1 DEF Take, TypeOK
<1> HIDE DEF took
<1> QED
    BY <1>2, <1>3 DEF TypeOK

(* So is one that marked the record in the table.                          *)
LEMMA MarkTypes ==
    ASSUME TypeOK, NEW t \in Threads, Mark(t)
    PROVE  /\ thread' \in [Threads -> ThreadRows]
           /\ thread'[t].pc = "stopWait" /\ thread'[t].my = current
           /\ \A u \in Threads \ {t} : thread'[u] = thread[u]
<1> DEFINE marked == [thread[t] EXCEPT !.pc = "stopWait", !.my = current]
<1>1. thread[t] \in ThreadRows /\ current \in 0..made /\ "stopWait" \in Labels
    BY DEF TypeOK, Labels
<1>2. marked \in ThreadRows /\ marked.pc = "stopWait" /\ marked.my = current
    BY <1>1 DEF ThreadRows
<1>3. thread' = [thread EXCEPT ![t] = marked]
    BY <1>1 DEF Mark, TypeOK
<1> HIDE DEF marked
<1> QED
    BY <1>2, <1>3 DEF TypeOK

(* A record that a stop cancels is typed.                                  *)
LEMMA CancelTypes ==
    ASSUME rec \in [Records -> RecordRows], NEW r \in Records,
           rec' = [rec EXCEPT ![r].cancelled = TRUE, ![r].state = "stopping"]
    PROVE  rec' \in [Records -> RecordRows]
<1> DEFINE cancelled == [rec[r] EXCEPT !.cancelled = TRUE, !.state = "stopping"]
<1>1. cancelled \in RecordRows
    BY DEF RecordRows
<1>2. rec' = [rec EXCEPT ![r] = cancelled]
    OBVIOUS
<1> HIDE DEF cancelled
<1> QED
    BY <1>1, <1>2

(* stop ends the session it took or reports an error.                      *)
LEMMA KillTypes ==
    ASSUME TypeOK, NEW t \in Threads, NEW label \in Labels, Kill(t, label)
    PROVE  /\ thread' \in [Threads -> ThreadRows]
           /\ thread'[t].pc = label /\ thread'[t].my = thread[t].my
           /\ \A u \in Threads \ {t} : thread'[u] = thread[u]
           /\ live' \subseteq live /\ registry' \in {registry, None} /\ closed' = closed
           /\ registry \in {thread[t].target, None} /\ ~thread'[t].error => registry' = None
           /\ EveryServerHasItsAuthority => EveryServerHasItsAuthority'
<1> USE DEF TypeOK, Kill, Goto, sessions, ThreadRows, None
<1>1. CASE thread[t].target = None /\ Goto(t, label) /\ UNCHANGED sessions
    BY <1>1 DEF EveryServerHasItsAuthority
<1>2. CASE /\ thread[t].target # None
           /\ thread' = [thread EXCEPT ![t].pc = label, ![t].error = TRUE]
           /\ UNCHANGED sessions
    BY <1>2 DEF EveryServerHasItsAuthority
<1>3. ASSUME NEW raised \in BOOLEAN, thread[t].target # None,
             live' = live \ {thread[t].target},
             registry' = IF registry = thread[t].target THEN None ELSE registry,
             thread' = [thread EXCEPT ![t].pc = label, ![t].error = @ \/ raised],
             closed' = closed
      PROVE  /\ thread' \in [Threads -> ThreadRows]
             /\ thread'[t].pc = label /\ thread'[t].my = thread[t].my
             /\ \A u \in Threads \ {t} : thread'[u] = thread[u]
             /\ live' \subseteq live /\ registry' \in {registry, None} /\ closed' = closed
             /\ registry \in {thread[t].target, None} /\ ~thread'[t].error => registry' = None
             /\ EveryServerHasItsAuthority => EveryServerHasItsAuthority'
  <2> DEFINE killed == [thread[t] EXCEPT !.pc = label, !.error = @ \/ raised]
  <2>1. thread[t] \in ThreadRows
    OBVIOUS
  <2>2. (thread[t].error \/ raised) \in BOOLEAN
    OBVIOUS
  <2>3. /\ killed \in ThreadRows
        /\ killed.pc = label /\ killed.my = thread[t].my
    BY <2>1, <2>2
  <2>4. thread' = [thread EXCEPT ![t] = killed]
    BY <1>3
  <2> HIDE DEF killed
  <2>5. /\ thread' \in [Threads -> ThreadRows] /\ thread'[t] = killed
        /\ \A u \in Threads \ {t} : thread'[u] = thread[u]
    BY <2>3, <2>4
  <2>6. /\ live' \subseteq live /\ registry' \in {registry, None}
        /\ registry \in {thread[t].target, None} => registry' = None
        /\ EveryServerHasItsAuthority => EveryServerHasItsAuthority'
    BY <1>3 DEF EveryServerHasItsAuthority
  <2> QED
    BY <1>3, <2>3, <2>5, <2>6
<1> QED
    BY <1>1, <1>2, <1>3

(* A record that is settled, failed or not, keeps its type.                *)
LEMMA FailedTypes ==
    ASSUME rec \in [Records -> RecordRows], NEW r \in Records, NEW failed,
           rec' = [rec EXCEPT ![r].ready = TRUE,
                              ![r].state = IF failed THEN "failed" ELSE @]
    PROVE  rec' \in [Records -> RecordRows]
<1> DEFINE settled == [rec[r] EXCEPT !.ready = TRUE,
                                    !.state = IF failed THEN "failed" ELSE @]
<1>1. settled \in RecordRows
    BY DEF RecordRows
<1>2. rec' = [rec EXCEPT ![r] = settled]
    OBVIOUS
<1> HIDE DEF settled
<1> QED
    BY <1>1, <1>2

(* The invariant holds when the Engine starts.                             *)
LEMMA InitEstablishes == Init => IndInv
<1> SUFFICES ASSUME Init PROVE IndInv
    OBVIOUS
<1>1. \A t \in Threads : /\ thread[t].pc = "idle" /\ thread[t].my = 0
                         /\ thread[t].target = 0 /\ thread[t].error = FALSE
    BY DEF Init, Idle, Free, None
<1>2. NewRecord \in RecordRows
    BY DEF NewRecord, RecordRows
<1>3. made = 0 => Idle \in ThreadRows
    BY DEF Idle, Free, ThreadRows, Labels, None
<1>4. rec \in [Records -> RecordRows] /\ thread \in [Threads -> ThreadRows]
    BY <1>2, <1>3 DEF Init
<1>5. TypeOK
  <2>1. /\ made \in 0..MaxRecords /\ current \in 0..made /\ registry \in 0..made
        /\ live \subseteq 1..made /\ row \in {"live", "deleting", "gone", "none"}
    BY Bounds DEF Init, None
  <2>2. /\ present \in BOOLEAN /\ storage \in BOOLEAN /\ closed \in BOOLEAN
        /\ blocked \in BOOLEAN /\ lifecycle \in Guards \cup {Nobody}
    BY DEF Init
  <2> QED
    BY <1>4, <2>1, <2>2 DEF TypeOK
<1> QED
    BY <1>1, <1>5 DEF Init, IndInv, EveryServerHasItsAuthority, StarterInv, GuardInv,
       ShutdownInv, GuardedWorkspaceIsQuiet, At, My, StartLabels, None, Threads

-----------------------------------------------------------------------------
(* Opening a Workspace.                                                    *)

(* Steps of an opener that change nothing but its label and the storage.   *)
LEMMA OpenerMoves ==
    ASSUME IndInv, NEW t \in Openers,
           Open(t) \/ Begin(t) \/ Wait(t) \/ EnsureWritable(t) \/ PrepareStorage(t) \/ Poll(t)
    PROVE  IndInv'
<1> USE DEF Open, Begin, Wait, EnsureWritable, PrepareStorage, Poll, Goto, sessions, dirs, guard, At, Threads
<1>1. TypeOK'
  <2>1. \E label \in Labels : Goto(t, label)
    BY DEF Labels
  <2>2. thread' \in [Threads -> ThreadRows]
    BY <2>1, GotoTypes DEF IndInv
  <2>3. storage' \in BOOLEAN
    BY DEF IndInv, TypeOK
  <2> QED
    BY <2>2, <2>3 DEF IndInv, TypeOK, ThreadRows
<1>2. EveryServerHasItsAuthority'
    BY DEF IndInv, TypeOK, EveryServerHasItsAuthority
<1>3. StarterInv'
    BY DEF IndInv, TypeOK, StarterInv, My, StartLabels, ThreadRows, None
<1>4. GuardInv'
    BY ThreadsAreDistinct DEF IndInv, TypeOK, GuardInv, My, ThreadRows, None
<1>5. ShutdownInv'
    BY ThreadsAreDistinct DEF IndInv, TypeOK, ShutdownInv, ThreadRows, None
<1>6. GuardedWorkspaceIsQuiet'
    BY ThreadsAreDistinct
    DEF IndInv, TypeOK, GuardedWorkspaceIsQuiet, GuardInv, StarterInv, My, StartLabels, ThreadRows
<1> QED
    BY <1>1, <1>2, <1>3, <1>4, <1>5, <1>6 DEF IndInv

(* Only a starter whose record is in the table registers a server.         *)
LEMMA SpawnPreserves ==
    ASSUME IndInv, NEW t \in Openers,
           Spawn(t)
    PROVE  IndInv'
<1> USE DEF Spawn, Goto, None, sessions, dirs, guard, At, Threads
<1>1. TypeOK'
  <2>1. \E label \in Labels : Goto(t, label)
    BY DEF Labels
  <2>2. thread' \in [Threads -> ThreadRows]
    BY <2>1, GotoTypes DEF IndInv
  <2>3. registry' \in 0..made /\ live' \subseteq 1..made
    BY DEF IndInv, TypeOK, StarterInv, My, StartLabels, ThreadRows
  <2> QED
    BY <2>2, <2>3 DEF IndInv, TypeOK, ThreadRows
<1>2. EveryServerHasItsAuthority'
    BY DEF IndInv, TypeOK, EveryServerHasItsAuthority
<1>3. StarterInv'
    BY DEF IndInv, TypeOK, StarterInv, My, StartLabels, ThreadRows, None
<1>4. GuardInv'
    BY ThreadsAreDistinct DEF IndInv, TypeOK, GuardInv, My, ThreadRows, None
<1>5. ShutdownInv'
    BY ThreadsAreDistinct DEF IndInv, TypeOK, ShutdownInv, ThreadRows, None
<1>6. GuardedWorkspaceIsQuiet'
    BY ThreadsAreDistinct
    DEF IndInv, TypeOK, GuardedWorkspaceIsQuiet, GuardInv, StarterInv, My, StartLabels, ThreadRows
<1> QED
    BY <1>1, <1>2, <1>3, <1>4, <1>5, <1>6 DEF IndInv

(* The spawn of the starter's own record is over, and of no other record.  *)
LEMMA AttachPreserves ==
    ASSUME IndInv, NEW t \in Openers,
           Attach(t)
    PROVE  IndInv'
<1> USE DEF Attach, Goto, sessions, dirs, guard, At, Threads
<1>8. My(t) \in Records
    BY Bounds DEF IndInv, TypeOK, StarterInv, My, StartLabels, ThreadRows, Records, None
<1>9. \A r \in Records : rec'[r].spawnDone => rec[r].spawnDone \/ r = My(t)
    BY <1>8 DEF IndInv, TypeOK, RecordRows
<1>10. \A r \in Records : rec[r].spawnDone => rec'[r].spawnDone
    BY <1>8 DEF IndInv, TypeOK, RecordRows
<1>1. TypeOK'
  <2>1. \E label \in Labels : Goto(t, label)
    BY DEF Labels
  <2>2. thread' \in [Threads -> ThreadRows]
    BY <2>1, GotoTypes DEF IndInv
  <2>3. rec' \in [Records -> RecordRows]
    <3>1. rec \in [Records -> RecordRows]
      BY DEF IndInv, TypeOK
    <3>2. CASE rec' = [rec EXCEPT ![My(t)].spawnDone = TRUE]
      <4>1. [rec[My(t)] EXCEPT !.spawnDone = TRUE] \in RecordRows
        BY ONLY <1>8, <3>1 DEF RecordRows
      <4> QED
        BY ONLY <1>8, <3>1, <3>2, <4>1
    <3> QED
      BY <3>1, <3>2
  <2> QED
    BY <2>2, <2>3 DEF IndInv, TypeOK, ThreadRows
<1>2. EveryServerHasItsAuthority'
    BY DEF IndInv, TypeOK, EveryServerHasItsAuthority
<1>3. StarterInv'
  <2>1. \A u \in Threads : thread[u].pc # "idle" /\ thread[u].my # 0 => thread[u].my \in Records
    BY Bounds DEF IndInv, TypeOK, ThreadRows, Records
  <2>2. \A u \in Threads : thread'[u].pc \in StartLabels \cup {"failKill", "failSettle"} => My(u)' # None
    BY <1>8, <1>9, <1>10 DEF IndInv, TypeOK, StarterInv, My, StartLabels, ThreadRows, None
  <2>3. \A v, u \in Threads :
            /\ thread'[v].pc \in StartLabels /\ thread'[u].pc \in StartLabels
            /\ My(v)' = My(u)'
            => v = u
    BY <1>8, <1>9, <1>10 DEF IndInv, TypeOK, StarterInv, My, StartLabels, ThreadRows
  <2>4. \A u \in Threads : thread'[u].pc \in {"begin", "writable", "storage", "spawn"}
            => current' = My(u)' /\ ~rec'[My(u)'].spawnDone
    BY <1>8, <1>9, <1>10, <2>1 DEF IndInv, TypeOK, StarterInv, My, StartLabels, ThreadRows, None
  <2>5. \A u \in Threads :
            /\ thread'[u].pc \in {"failKill", "failSettle", "stopLock", "stopKill", "stopSettle"}
            /\ My(u)' # None
            => rec'[My(u)'].spawnDone
    BY <1>8, <1>9, <1>10, <2>1 DEF IndInv, TypeOK, StarterInv, My, StartLabels, ThreadRows, None
  <2> QED
    BY <2>2, <2>3, <2>4, <2>5 DEF StarterInv
<1>4. GuardInv'
    BY ThreadsAreDistinct DEF IndInv, TypeOK, GuardInv, My, ThreadRows, None
<1>5. ShutdownInv'
    BY ThreadsAreDistinct DEF IndInv, TypeOK, ShutdownInv, ThreadRows, None
<1>6. GuardedWorkspaceIsQuiet'
    BY ThreadsAreDistinct
    DEF IndInv, TypeOK, GuardedWorkspaceIsQuiet, GuardInv, StarterInv, My, StartLabels, ThreadRows
<1> QED
    BY <1>1, <1>2, <1>3, <1>4, <1>5, <1>6 DEF IndInv

(* A committed server runs on, registered under the key.                   *)
LEMMA CommitPreserves ==
    ASSUME IndInv, NEW t \in Openers,
           CommitRunning(t)
    PROVE  IndInv'
<1> USE DEF CommitRunning, Goto, sessions, dirs, guard, At, Threads
<1>8. My(t) \in Records
    BY Bounds DEF IndInv, TypeOK, StarterInv, My, StartLabels, ThreadRows, Records, None
<1>0. /\ thread' \in [Threads -> ThreadRows]
      /\ thread'[t].pc \in {"done", "fail"}
      /\ thread'[t].pc = "fail" => thread'[t].my = thread[t].my
      /\ \A u \in Threads \ {t} : thread'[u] = thread[u]
  <2>1. CASE End(t)
    BY <2>1, EndTypes DEF IndInv
  <2>2. CASE Goto(t, "fail")
    BY <2>2, GotoTypes DEF IndInv, TypeOK, Labels, ThreadRows
  <2> QED
    BY <2>1, <2>2
<1>9. \A r \in Records : rec'[r].spawnDone = rec[r].spawnDone
    BY <1>8 DEF IndInv, TypeOK, RecordRows
<1>1. TypeOK'
  <2>3. rec' \in [Records -> RecordRows]
    BY <1>8 DEF IndInv, TypeOK, RecordRows
  <2> QED
    BY <1>0, <2>3 DEF IndInv, TypeOK, ThreadRows
<1>2. EveryServerHasItsAuthority'
    BY <1>0, <1>9 DEF IndInv, TypeOK, EveryServerHasItsAuthority
<1>3. StarterInv'
  <2>1. \A u \in Threads : thread[u].pc # "idle" /\ thread[u].my # 0 => thread[u].my \in Records
    BY Bounds DEF IndInv, TypeOK, ThreadRows, Records
  <2>2. \A u \in Threads : thread'[u].pc \in StartLabels \cup {"failKill", "failSettle"} => My(u)' # None
    BY <1>0, <1>8, <1>9 DEF IndInv, TypeOK, StarterInv, My, StartLabels, ThreadRows, None
  <2>3. \A v, u \in Threads :
            /\ thread'[v].pc \in StartLabels /\ thread'[u].pc \in StartLabels
            /\ My(v)' = My(u)'
            => v = u
    BY <1>0, <1>8, <1>9 DEF IndInv, TypeOK, StarterInv, My, StartLabels, ThreadRows
  <2>4. \A u \in Threads : thread'[u].pc \in {"begin", "writable", "storage", "spawn"}
            => current' = My(u)' /\ ~rec'[My(u)'].spawnDone
    BY <1>0, <1>8, <1>9, <2>1 DEF IndInv, TypeOK, StarterInv, My, StartLabels, ThreadRows, None
  <2>5. \A u \in Threads :
            /\ thread'[u].pc \in {"failKill", "failSettle", "stopLock", "stopKill", "stopSettle"}
            /\ My(u)' # None
            => rec'[My(u)'].spawnDone
    BY <1>0, <1>8, <1>9, <2>1 DEF IndInv, TypeOK, StarterInv, My, StartLabels, ThreadRows, None
  <2> QED
    BY <2>2, <2>3, <2>4, <2>5 DEF StarterInv
<1>4. GuardInv'
    BY ThreadsAreDistinct, <1>0, <1>9 DEF IndInv, TypeOK, GuardInv, My, ThreadRows, None
<1>5. ShutdownInv'
    BY ThreadsAreDistinct, <1>0, <1>9 DEF IndInv, TypeOK, ShutdownInv, ThreadRows, None
<1>6. GuardedWorkspaceIsQuiet'
    BY ThreadsAreDistinct, <1>0, <1>9
    DEF IndInv, TypeOK, GuardedWorkspaceIsQuiet, GuardInv, StarterInv, My, StartLabels, ThreadRows
<1> QED
    BY <1>1, <1>2, <1>3, <1>4, <1>5, <1>6 DEF IndInv

(* The finally block of a start.                                           *)
LEMMA StartFailedPreserves ==
    ASSUME IndInv, NEW t \in Openers,
           StartFailed(t)
    PROVE  IndInv'
<1> USE DEF StartFailed, Take, sessions, dirs, guard, At, Threads
<1>8. My(t) \in Records
    BY Bounds DEF IndInv, TypeOK, StarterInv, My, StartLabels, ThreadRows, Records, None
<1>9. \A r \in Records : rec'[r].spawnDone => rec[r].spawnDone \/ r = My(t)
    BY <1>8 DEF IndInv, TypeOK, RecordRows
<1>10. \A r \in Records : r = My(t) \/ rec[r].spawnDone => rec'[r].spawnDone
    BY <1>8 DEF IndInv, TypeOK, RecordRows
<1>1. TypeOK'
  <2>1. thread' \in [Threads -> ThreadRows]
    BY TakeTypes DEF IndInv, Labels
  <2>2. rec \in [Records -> RecordRows] /\ rec' = [rec EXCEPT ![My(t)].spawnDone = TRUE]
    BY DEF IndInv, TypeOK
  <2>3. rec' \in [Records -> RecordRows]
    <3>1. [rec[My(t)] EXCEPT !.spawnDone = TRUE] \in RecordRows
      BY ONLY <1>8, <2>2 DEF RecordRows
    <3> QED
      BY ONLY <1>8, <2>2, <3>1
  <2> QED
    BY <2>1, <2>3 DEF IndInv, TypeOK, ThreadRows
<1>2. EveryServerHasItsAuthority'
    BY DEF IndInv, TypeOK, EveryServerHasItsAuthority
<1>3. StarterInv'
  <2>1. \A u \in Threads : thread[u].pc # "idle" /\ thread[u].my # 0 => thread[u].my \in Records
    BY Bounds DEF IndInv, TypeOK, ThreadRows, Records
  <2>2. \A u \in Threads : thread'[u].pc \in StartLabels \cup {"failKill", "failSettle"} => My(u)' # None
    BY <1>8, <1>9, <1>10 DEF IndInv, TypeOK, StarterInv, My, StartLabels, ThreadRows, None
  <2>3. \A v, u \in Threads :
            /\ thread'[v].pc \in StartLabels /\ thread'[u].pc \in StartLabels
            /\ My(v)' = My(u)'
            => v = u
    BY <1>8, <1>9, <1>10 DEF IndInv, TypeOK, StarterInv, My, StartLabels, ThreadRows
  <2>4. \A u \in Threads : thread'[u].pc \in {"begin", "writable", "storage", "spawn"}
            => current' = My(u)' /\ ~rec'[My(u)'].spawnDone
    BY <1>8, <1>9, <1>10, <2>1 DEF IndInv, TypeOK, StarterInv, My, StartLabels, ThreadRows, None
  <2>5. \A u \in Threads :
            /\ thread'[u].pc \in {"failKill", "failSettle", "stopLock", "stopKill", "stopSettle"}
            /\ My(u)' # None
            => rec'[My(u)'].spawnDone
    BY <1>8, <1>9, <1>10, <2>1 DEF IndInv, TypeOK, StarterInv, My, StartLabels, ThreadRows, None
  <2> QED
    BY <2>2, <2>3, <2>4, <2>5 DEF StarterInv
<1>4. GuardInv'
    BY ThreadsAreDistinct DEF IndInv, TypeOK, GuardInv, My, ThreadRows, None
<1>5. ShutdownInv'
    BY ThreadsAreDistinct DEF IndInv, TypeOK, ShutdownInv, ThreadRows, None
<1>6. GuardedWorkspaceIsQuiet'
    BY ThreadsAreDistinct
    DEF IndInv, TypeOK, GuardedWorkspaceIsQuiet, GuardInv, StarterInv, My, StartLabels, ThreadRows
<1> QED
    BY <1>1, <1>2, <1>3, <1>4, <1>5, <1>6 DEF IndInv

(* Whatever is registered under the key is stopped.                        *)
LEMMA StartCleanupPreserves ==
    ASSUME IndInv, NEW t \in Openers,
           StartCleanup(t)
    PROVE  IndInv'
<1> USE DEF StartCleanup, sessions, dirs, guard, At, Threads
<1>0. /\ thread' \in [Threads -> ThreadRows]
      /\ thread'[t].pc = "failSettle" /\ thread'[t].my = thread[t].my
      /\ \A u \in Threads \ {t} : thread'[u] = thread[u]
      /\ live' \subseteq live /\ registry' \in {registry, None} /\ closed' = closed
      /\ EveryServerHasItsAuthority'
    BY KillTypes DEF IndInv, Labels
<1>1. TypeOK'
    BY <1>0 DEF IndInv, TypeOK, None, ThreadRows
<1>2. EveryServerHasItsAuthority'
    BY <1>0 DEF IndInv, TypeOK, EveryServerHasItsAuthority
<1>3. StarterInv'
    BY <1>0 DEF IndInv, TypeOK, StarterInv, My, StartLabels, ThreadRows, None
<1>4. GuardInv'
    BY ThreadsAreDistinct, <1>0 DEF IndInv, TypeOK, GuardInv, My, ThreadRows, None
<1>5. ShutdownInv'
    BY ThreadsAreDistinct, <1>0 DEF IndInv, TypeOK, ShutdownInv, ThreadRows, None
<1>6. GuardedWorkspaceIsQuiet'
    BY ThreadsAreDistinct, <1>0
    DEF IndInv, TypeOK, GuardedWorkspaceIsQuiet, GuardInv, StarterInv, My, StartLabels, ThreadRows
<1> QED
    BY <1>1, <1>2, <1>3, <1>4, <1>5, <1>6 DEF IndInv

(* The record leaves the table after its spawn, never before it.           *)
LEMMA SettleStartPreserves ==
    ASSUME IndInv, NEW t \in Openers,
           SettleStart(t)
    PROVE  IndInv'
<1> USE DEF SettleStart, sessions, dirs, guard, At, Threads
<1>8. My(t) \in Records
    BY Bounds DEF IndInv, TypeOK, StarterInv, My, StartLabels, ThreadRows, Records, None
<1>0. /\ thread' \in [Threads -> ThreadRows]
      /\ thread'[t].pc = "done"
      /\ \A u \in Threads \ {t} : thread'[u] = thread[u]
    BY EndTypes DEF IndInv
<1>9. \A r \in Records : rec'[r].spawnDone = rec[r].spawnDone
    BY <1>8 DEF IndInv, TypeOK, RecordRows
<1>1. TypeOK'
  <2>3. rec' \in [Records -> RecordRows]
    BY <1>8, FailedTypes DEF IndInv, TypeOK
  <2>4. current' \in 0..made
    BY DEF IndInv, TypeOK, None
  <2> QED
    BY <1>0, <2>3, <2>4 DEF IndInv, TypeOK, ThreadRows
<1>2. EveryServerHasItsAuthority'
    BY <1>0, <1>9 DEF IndInv, TypeOK, EveryServerHasItsAuthority
<1>3. StarterInv'
  <2>1. \A u \in Threads : thread[u].pc # "idle" /\ thread[u].my # 0 => thread[u].my \in Records
    BY Bounds DEF IndInv, TypeOK, ThreadRows, Records
  <2>2. \A u \in Threads : thread'[u].pc \in StartLabels \cup {"failKill", "failSettle"} => My(u)' # None
    BY <1>0, <1>8, <1>9 DEF IndInv, TypeOK, StarterInv, My, StartLabels, ThreadRows, None
  <2>3. \A v, u \in Threads :
            /\ thread'[v].pc \in StartLabels /\ thread'[u].pc \in StartLabels
            /\ My(v)' = My(u)'
            => v = u
    BY <1>0, <1>8, <1>9 DEF IndInv, TypeOK, StarterInv, My, StartLabels, ThreadRows
  <2>4. \A u \in Threads : thread'[u].pc \in {"begin", "writable", "storage", "spawn"}
            => current' = My(u)' /\ ~rec'[My(u)'].spawnDone
    BY <1>0, <1>8, <1>9, <2>1 DEF IndInv, TypeOK, StarterInv, My, StartLabels, ThreadRows, None
  <2>5. \A u \in Threads :
            /\ thread'[u].pc \in {"failKill", "failSettle", "stopLock", "stopKill", "stopSettle"}
            /\ My(u)' # None
            => rec'[My(u)'].spawnDone
    BY <1>0, <1>8, <1>9, <2>1 DEF IndInv, TypeOK, StarterInv, My, StartLabels, ThreadRows, None
  <2> QED
    BY <2>2, <2>3, <2>4, <2>5 DEF StarterInv
<1>4. GuardInv'
    BY ThreadsAreDistinct, <1>0, <1>9 DEF IndInv, TypeOK, GuardInv, My, ThreadRows, None
<1>5. ShutdownInv'
    BY ThreadsAreDistinct, <1>0, <1>9 DEF IndInv, TypeOK, ShutdownInv, ThreadRows, None
<1>6. GuardedWorkspaceIsQuiet'
    BY ThreadsAreDistinct, <1>0, <1>9
    DEF IndInv, TypeOK, GuardedWorkspaceIsQuiet, GuardInv, StarterInv, My, StartLabels, ThreadRows
<1> QED
    BY <1>1, <1>2, <1>3, <1>4, <1>5, <1>6 DEF IndInv

(* The Workspace is guarded, so the request ends.                          *)
LEMMA RefusedPreserves ==
    ASSUME IndInv, NEW t \in Openers, Refused(t), UNCHANGED <<dirs, sessions, guard>>
    PROVE  IndInv'
<1> USE DEF Refused, sessions, dirs, guard, At, Threads
<1>0. /\ thread' \in [Threads -> ThreadRows] /\ thread'[t].pc = "done"
      /\ \A u \in Threads \ {t} : thread'[u] = thread[u]
    BY EndTypes DEF IndInv
<1>1. TypeOK' /\ EveryServerHasItsAuthority'
    BY <1>0 DEF IndInv, TypeOK, EveryServerHasItsAuthority, ThreadRows
<1>2. StarterInv'
    BY <1>0 DEF IndInv, StarterInv, My, StartLabels
<1>3. GuardInv' /\ ShutdownInv' /\ GuardedWorkspaceIsQuiet'
    BY <1>0, ThreadsAreDistinct DEF IndInv, GuardInv, ShutdownInv, GuardedWorkspaceIsQuiet, My
<1> QED
    BY <1>1, <1>2, <1>3 DEF IndInv

(* A new record is made with the Workspace unguarded and none in the       *)
(* table; its number is new, so no other thread has to do with it.         *)
LEMMA CreatePreserves ==
    ASSUME IndInv, NEW t \in Openers, At(t, "look"), Create(t),
           UNCHANGED <<dirs, sessions, guard>>
    PROVE  IndInv'
<1> USE DEF sessions, dirs, guard, At, Threads, None
<1> DEFINE new == made + 1
<1>1. /\ made \in Nat /\ new \in Records /\ made' = new /\ current' = new
      /\ ~blocked /\ current = None
      /\ rec' = [rec EXCEPT ![new] = NewRecord]
      /\ thread' = [thread EXCEPT ![t].pc = "begin", ![t].my = new]
    BY Bounds DEF Create, IndInv, TypeOK, Records
<1>2. \A u \in Threads : thread[u].my \in 0..made /\ thread[u].my # new
    BY <1>1 DEF IndInv, TypeOK, ThreadRows
<1>3. /\ thread'[t].pc = "begin" /\ thread'[t].my = new
      /\ \A u \in Threads \ {t} : thread'[u] = thread[u]
    BY <1>1 DEF IndInv, TypeOK, ThreadRows
<1>4. NewRecord \in RecordRows /\ NewRecord.spawnDone = FALSE
    BY DEF NewRecord, RecordRows
<1>5. /\ rec' \in [Records -> RecordRows] /\ ~rec'[new].spawnDone
      /\ \A r \in Records : r # new => rec'[r] = rec[r]
    BY <1>1, <1>4 DEF IndInv, TypeOK
<1>6. thread' \in [Threads -> ThreadRows']
    BY <1>1 DEF IndInv, TypeOK, ThreadRows, Labels
<1>7. TypeOK'
  <2>1. /\ made' \in 0..MaxRecords /\ current' \in 0..made' /\ registry' \in 0..made'
        /\ live' \subseteq 1..made'
    BY <1>1, Bounds DEF IndInv, TypeOK, Records
  <2> QED
    BY <1>5, <1>6, <2>1 DEF IndInv, TypeOK
<1>8. EveryServerHasItsAuthority'
    BY DEF IndInv, EveryServerHasItsAuthority
<1> HIDE DEF new
<1>9. StarterInv'
  <2>1. \A u \in Threads : thread[u].my # 0 => thread[u].my \in Records
    BY <1>2, Bounds DEF Records, IndInv, TypeOK
  <2>2. \A u \in Threads : u # t => thread[u].pc \notin {"begin", "writable", "storage", "spawn"}
    BY <1>1 DEF IndInv, StarterInv, StartLabels, My
  <2>3. new # 0
    BY <1>1 DEF Records
  <2>4. \A v, u \in Threads :
            /\ thread'[v].pc \in StartLabels /\ thread'[u].pc \in StartLabels
            /\ My(v)' = My(u)'
            => v = u
    BY <1>2, <1>3 DEF IndInv, StarterInv, My
  <2>5. \A u \in Threads :
            /\ thread'[u].pc \in {"failKill", "failSettle", "stopLock", "stopKill", "stopSettle"}
            /\ My(u)' # None
            => rec'[My(u)'].spawnDone
    BY <1>2, <1>3, <1>5, <2>1 DEF IndInv, StarterInv, My
  <2>6. \A u \in Threads : thread'[u].pc \in StartLabels \cup {"failKill", "failSettle"}
            => My(u)' # None
    BY <1>3, <2>3 DEF IndInv, StarterInv, My
  <2>7. \A u \in Threads : thread'[u].pc \in {"begin", "writable", "storage", "spawn"}
            => current' = My(u)' /\ ~rec'[My(u)'].spawnDone
    BY <1>1, <1>3, <1>5, <2>2 DEF My
  <2> QED
    BY <2>4, <2>5, <2>6, <2>7 DEF StarterInv
<1>10. GuardInv' /\ GuardedWorkspaceIsQuiet'
  <2>1. \A g \in Guards : g # t /\ thread[g].pc \in {"idle", "done"}
    BY <1>1, ThreadsAreDistinct DEF IndInv, GuardInv
  <2> QED
    BY <1>3, <2>1 DEF GuardInv, GuardedWorkspaceIsQuiet
<1>11. ShutdownInv'
    BY <1>3, ThreadsAreDistinct DEF IndInv, ShutdownInv
<1> QED
    BY <1>7, <1>8, <1>9, <1>10, <1>11 DEF IndInv

(* An opener that finds a record waits for it, asks its server or stops it. *)
LEMMA ReusePreserves ==
    ASSUME IndInv, NEW t \in Openers, At(t, "look"), Reuse(t),
           UNCHANGED <<dirs, sessions, guard>>
    PROVE  IndInv'
<1> USE DEF sessions, dirs, guard, At, Threads, None
<1>1. PICK label \in {"health", "wait", "mark"} :
          thread' = [thread EXCEPT ![t].pc = label, ![t].my = current]
  <2> DEFINE l == CASE rec[current].state = "running" -> "health"
                    [] rec[current].state = "starting" -> "wait"
                    [] OTHER -> "mark"
  <2>1. l \in {"health", "wait", "mark"}
    OBVIOUS
  <2>2. thread' = [thread EXCEPT ![t].pc = l, ![t].my = current]
    BY DEF Reuse
  <2> HIDE DEF l
  <2> QED
    BY <2>1, <2>2
<1>2. /\ thread' \in [Threads -> ThreadRows] /\ thread'[t].pc = label
      /\ \A u \in Threads \ {t} : thread'[u] = thread[u]
  <2>1. label \in Labels /\ current \in 0..made
    BY DEF IndInv, TypeOK, Labels
  <2> QED
    BY <1>1, <2>1 DEF IndInv, TypeOK, ThreadRows
<1>3. UNCHANGED <<made, current, rec>>
    BY DEF Reuse
<1>4. TypeOK' /\ EveryServerHasItsAuthority'
    BY <1>2, <1>3 DEF IndInv, TypeOK, EveryServerHasItsAuthority, ThreadRows
<1>5. StarterInv'
    BY <1>2, <1>3 DEF IndInv, StarterInv, My, StartLabels
<1>6. GuardInv' /\ ShutdownInv' /\ GuardedWorkspaceIsQuiet'
    BY <1>2, <1>3, ThreadsAreDistinct
    DEF IndInv, GuardInv, ShutdownInv, GuardedWorkspaceIsQuiet, My
<1> QED
    BY <1>4, <1>5, <1>6 DEF IndInv

(* The answer of the server is returned, or the server is stopped.         *)
LEMMA HealthPreserves ==
    ASSUME IndInv, NEW t \in Openers, Health(t)
    PROVE  IndInv'
<1> USE DEF Health, sessions, dirs, guard, At, Threads
<1>1. /\ thread' \in [Threads -> ThreadRows] /\ thread'[t].pc \in {"done", "mark"}
      /\ \A u \in Threads \ {t} : thread'[u] = thread[u]
  <2>1. CASE End(t)
    BY <2>1, EndTypes DEF IndInv
  <2>2. CASE Goto(t, "mark")
    BY <2>2, GotoTypes DEF IndInv, TypeOK, Labels, Goto, ThreadRows
  <2> QED
    BY <2>1, <2>2
<1>2. TypeOK' /\ EveryServerHasItsAuthority'
    BY <1>1 DEF IndInv, TypeOK, EveryServerHasItsAuthority, ThreadRows
<1>3. StarterInv'
    BY <1>1 DEF IndInv, StarterInv, My, StartLabels
<1>4. GuardInv' /\ ShutdownInv' /\ GuardedWorkspaceIsQuiet'
    BY <1>1, ThreadsAreDistinct
    DEF IndInv, GuardInv, ShutdownInv, GuardedWorkspaceIsQuiet, My
<1> QED
    BY <1>2, <1>3, <1>4 DEF IndInv

-----------------------------------------------------------------------------
(* stop_workspace_server.                                                  *)

(* The record in the table, if there is one, is what the stop is about.    *)
LEMMA MarkPreserves ==
    ASSUME IndInv, NEW t \in Threads, Mark(t)
    PROVE  IndInv'
<1> USE DEF Mark, sessions, dirs, guard, At, None
<1>1. /\ thread' \in [Threads -> ThreadRows] /\ thread'[t].pc = "stopWait"
      /\ thread'[t].my = current
      /\ \A u \in Threads \ {t} : thread'[u] = thread[u]
    BY MarkTypes DEF IndInv
<1>2. rec' \in [Records -> RecordRows]
  <2>1. current # None => current \in Records
    BY Bounds DEF IndInv, TypeOK, Records
  <2> QED
    BY <2>1, CancelTypes DEF IndInv, TypeOK
<1>3. \A r \in Records : rec'[r].spawnDone = rec[r].spawnDone
    BY DEF IndInv, TypeOK, RecordRows
<1>4. TypeOK' /\ EveryServerHasItsAuthority'
    BY <1>1, <1>2 DEF IndInv, TypeOK, EveryServerHasItsAuthority, ThreadRows
<1>5. \A u \in Threads : thread[u].my # 0 => thread[u].my \in Records
    BY Bounds DEF IndInv, TypeOK, ThreadRows, Records
<1>6. StarterInv'
  <2>1. \A u \in Threads : thread[u].pc # "idle" /\ thread[u].my # 0 => thread[u].my \in Records
    BY Bounds DEF IndInv, TypeOK, ThreadRows, Records
  <2>2. \A u \in Threads : thread'[u].pc \in StartLabels \cup {"failKill", "failSettle"} => My(u)' # None
    BY <1>1, <1>3 DEF IndInv, TypeOK, StarterInv, My, StartLabels, ThreadRows, None
  <2>3. \A v, u \in Threads :
            /\ thread'[v].pc \in StartLabels /\ thread'[u].pc \in StartLabels
            /\ My(v)' = My(u)'
            => v = u
    BY <1>1, <1>3 DEF IndInv, TypeOK, StarterInv, My, StartLabels, ThreadRows
  <2>4. \A u \in Threads : thread'[u].pc \in {"begin", "writable", "storage", "spawn"}
            => current' = My(u)' /\ ~rec'[My(u)'].spawnDone
    BY <1>1, <1>3, <2>1 DEF IndInv, TypeOK, StarterInv, My, StartLabels, ThreadRows, None
  <2>5. \A u \in Threads :
            /\ thread'[u].pc \in {"failKill", "failSettle", "stopLock", "stopKill", "stopSettle"}
            /\ My(u)' # None
            => rec'[My(u)'].spawnDone
    BY <1>1, <1>3, <2>1 DEF IndInv, TypeOK, StarterInv, My, StartLabels, ThreadRows, None
  <2> QED
    BY <2>2, <2>3, <2>4, <2>5 DEF StarterInv
<1>7. GuardInv' /\ ShutdownInv' /\ GuardedWorkspaceIsQuiet'
    BY <1>1 DEF IndInv, GuardInv, ShutdownInv, GuardedWorkspaceIsQuiet, My, Threads
<1> QED
    BY <1>4, <1>6, <1>7 DEF IndInv

(* The stop waits for the spawn of its record or gives up.                 *)
LEMMA StopWaitPreserves ==
    ASSUME IndInv, NEW t \in Threads, StopWait(t)
    PROVE  IndInv'
<1> USE DEF StopWait, sessions, dirs, guard, At, Threads, None
<1>1. CASE SpawnIsDone(t) /\ Goto(t, "stopLock")
  <2>1. /\ thread' \in [Threads -> ThreadRows] /\ thread'[t].pc = "stopLock"
        /\ thread'[t].my = thread[t].my
        /\ \A u \in Threads \ {t} : thread'[u] = thread[u]
    BY <1>1, GotoTypes DEF IndInv, TypeOK, ThreadRows, Labels, Goto
  <2>2. TypeOK' /\ EveryServerHasItsAuthority'
    BY <2>1 DEF IndInv, TypeOK, EveryServerHasItsAuthority, ThreadRows
  <2>3. StarterInv'
    BY <1>1, <2>1 DEF IndInv, StarterInv, SpawnIsDone, My, StartLabels
  <2>4. GuardInv' /\ ShutdownInv' /\ GuardedWorkspaceIsQuiet'
    BY <2>1 DEF IndInv, GuardInv, ShutdownInv, GuardedWorkspaceIsQuiet, My, Threads
  <2> QED
    BY <2>2, <2>3, <2>4 DEF IndInv
<1>2. CASE Return(t, TRUE)
  <2>1. /\ thread' \in [Threads -> ThreadRows]
        /\ thread'[t].pc \in {"leftover", "done", "look", "unblock"}
        /\ t \in Stoppers => thread'[t].pc = "leftover"
        /\ t \in Guards => thread'[t].pc = "unblock"
        /\ \A u \in Threads \ {t} : thread'[u] = thread[u]
    <3>1. TRUE \in BOOLEAN
      OBVIOUS
    <3> QED
      BY <1>2, <3>1, ReturnTypes DEF IndInv
  <2>2. TypeOK' /\ EveryServerHasItsAuthority'
    BY <2>1 DEF IndInv, TypeOK, EveryServerHasItsAuthority, ThreadRows
  <2>3. StarterInv'
    BY <2>1 DEF IndInv, StarterInv, My, StartLabels
  <2>4. GuardInv' /\ ShutdownInv' /\ GuardedWorkspaceIsQuiet'
    BY <2>1 DEF IndInv, GuardInv, ShutdownInv, GuardedWorkspaceIsQuiet, My, Threads
  <2> QED
    BY <2>2, <2>3, <2>4 DEF IndInv
<1> QED
    BY <1>1, <1>2

(* stop takes the table lock.                                              *)
LEMMA StopLockPreserves ==
    ASSUME IndInv, NEW t \in Threads, StopLock(t)
    PROVE  IndInv'
<1> USE DEF StopLock, sessions, dirs, guard, At, None
<1>1. /\ thread' \in [Threads -> ThreadRows] /\ thread'[t].pc = "stopKill"
      /\ thread'[t].my = thread[t].my
      /\ \A u \in Threads \ {t} : thread'[u] = thread[u]
    BY TakeTypes DEF IndInv, Labels
<1>2. /\ rec' \in [Records -> RecordRows]
      /\ \A r \in Records : rec'[r].spawnDone = rec[r].spawnDone
  <2>1. My(t) # None => My(t) \in Records
    BY Bounds DEF IndInv, TypeOK, ThreadRows, Records, My
  <2> QED
    BY <2>1 DEF IndInv, TypeOK, RecordRows
<1>3. TypeOK' /\ EveryServerHasItsAuthority'
    BY <1>1, <1>2 DEF IndInv, TypeOK, EveryServerHasItsAuthority, ThreadRows
<1>4. \A u \in Threads : thread[u].my # 0 => thread[u].my \in Records
    BY Bounds DEF IndInv, TypeOK, ThreadRows, Records
<1>5. StarterInv'
    BY <1>1, <1>2, <1>4 DEF IndInv, StarterInv, My, StartLabels
<1>6. GuardInv' /\ ShutdownInv' /\ GuardedWorkspaceIsQuiet'
    BY <1>1 DEF IndInv, GuardInv, ShutdownInv, GuardedWorkspaceIsQuiet, My, Threads
<1> QED
    BY <1>3, <1>5, <1>6 DEF IndInv

(* stop terminates the server.                                             *)
LEMMA StopKillPreserves ==
    ASSUME IndInv, NEW t \in Threads, StopKill(t)
    PROVE  IndInv'
<1> USE DEF StopKill, dirs, guard, At, None
<1>0. /\ thread' \in [Threads -> ThreadRows]
      /\ thread'[t].pc = "stopSettle" /\ thread'[t].my = thread[t].my
      /\ \A u \in Threads \ {t} : thread'[u] = thread[u]
      /\ live' \subseteq live /\ registry' \in {registry, None} /\ closed' = closed
      /\ EveryServerHasItsAuthority'
    BY KillTypes DEF IndInv, Labels
<1>1. TypeOK'
    BY <1>0 DEF IndInv, TypeOK, ThreadRows
<1>2. StarterInv'
    BY <1>0 DEF IndInv, StarterInv, My, StartLabels
<1>3. GuardInv' /\ ShutdownInv' /\ GuardedWorkspaceIsQuiet'
    BY <1>0 DEF IndInv, GuardInv, ShutdownInv, GuardedWorkspaceIsQuiet, My, Threads
<1> QED
    BY <1>0, <1>1, <1>2, <1>3 DEF IndInv

(* The spawn of the record a stop settles was over before.                 *)
LEMMA StopSettleRecord ==
    ASSUME IndInv, NEW t \in Threads, StopSettle(t)
    PROVE  /\ rec' \in [Records -> RecordRows]
           /\ \A r \in Records : r # My(t) => rec'[r] = rec[r]
           /\ \A r \in Records : rec'[r].spawnDone = rec[r].spawnDone
<1>1. rec \in [Records -> RecordRows] /\ My(t) \in 0..made
    BY DEF IndInv, TypeOK, ThreadRows, My
<1>2. CASE My(t) = None
    BY <1>1, <1>2 DEF StopSettle
<1>3. CASE My(t) # None
  <2>1. My(t) \in Records /\ rec[My(t)].spawnDone
    BY <1>1, <1>3, Bounds DEF IndInv, TypeOK, StarterInv, StopSettle, At, Records, None
  <2> DEFINE row2 == [rec[My(t)] EXCEPT
                        !.stopLock = Nobody,
                        !.ready = @ \/ registry = None \/ current = My(t),
                        !.spawnDone = @ \/ registry = None,
                        !.state = IF registry # None /\ current = My(t)
                                    THEN "failed" ELSE @]
  <2>2. rec' = [rec EXCEPT ![My(t)] = row2]
    BY <1>1, <1>3, <2>1 DEF StopSettle
  <2>3. row2 \in RecordRows /\ row2.spawnDone = TRUE
    BY <1>1, <2>1 DEF RecordRows
  <2> QED
    BY <1>1, <2>1, <2>2, <2>3 DEF RecordRows
<1> QED
    BY <1>2, <1>3

(* Without an error nothing is registered, so nothing runs, and the record *)
(* a guard marked is gone.                                                 *)
LEMMA StopSettlePreserves ==
    ASSUME IndInv, NEW t \in Threads, StopSettle(t)
    PROVE  IndInv'
<1> DEFINE error == thread[t].error \/ registry # None
<1> USE DEF StopSettle, sessions, dirs, guard, At, None
<1>0. /\ thread' \in [Threads -> ThreadRows]
      /\ thread'[t].pc \in {"leftover", "done", "look", "unblock", "critical"}
      /\ t \in Stoppers => thread'[t].pc = "leftover"
      /\ t \in Guards => thread'[t].pc \in {"unblock", "critical"}
      /\ thread'[t].pc = "critical" => registry = None
      /\ \A u \in Threads \ {t} : thread'[u] = thread[u]
  <2>1. error \in BOOLEAN /\ Return(t, error)
    OBVIOUS
  <2> QED
    BY <2>1, ReturnTypes DEF IndInv
<1>1. /\ rec' \in [Records -> RecordRows]
      /\ \A r \in Records : r # My(t) => rec'[r] = rec[r]
      /\ \A r \in Records : rec'[r].spawnDone = rec[r].spawnDone
    BY StopSettleRecord
<1>2. current' = IF registry = None /\ current = My(t) THEN None ELSE current
    BY DEF AfterProof
<1>3. TypeOK' /\ EveryServerHasItsAuthority'
    BY <1>0, <1>1, <1>2 DEF IndInv, TypeOK, EveryServerHasItsAuthority, ThreadRows
<1>4. \A u \in Threads : thread[u].my # 0 => thread[u].my \in Records
    BY Bounds DEF IndInv, TypeOK, ThreadRows, Records
<1>5. \A u \in Threads : thread[u].pc \in {"begin", "writable", "storage", "spawn"} => My(u) # My(t)
    BY DEF IndInv, StarterInv, My, StartLabels
<1>6. StarterInv'
  <2> HIDE DEF StopSettle
  <2>1. \A u \in Threads : thread[u].pc # "idle" /\ thread[u].my # 0 => thread[u].my \in Records
    BY Bounds DEF IndInv, TypeOK, ThreadRows, Records
  <2>2. \A u \in Threads : thread'[u].pc \in StartLabels \cup {"failKill", "failSettle"} => My(u)' # None
    BY <1>0, <1>1, <1>2, <1>5 DEF IndInv, TypeOK, StarterInv, My, StartLabels, ThreadRows, None
  <2>3. \A v, u \in Threads :
            /\ thread'[v].pc \in StartLabels /\ thread'[u].pc \in StartLabels
            /\ My(v)' = My(u)'
            => v = u
    BY <1>0, <1>1, <1>2, <1>5 DEF IndInv, TypeOK, StarterInv, My, StartLabels, ThreadRows
  <2>4. \A u \in Threads : thread'[u].pc \in {"begin", "writable", "storage", "spawn"}
            => current' = My(u)' /\ ~rec'[My(u)'].spawnDone
    BY <1>0, <1>1, <1>2, <1>5, <2>1 DEF IndInv, TypeOK, StarterInv, My, StartLabels, ThreadRows, None
  <2>5. \A u \in Threads :
            /\ thread'[u].pc \in {"failKill", "failSettle", "stopLock", "stopKill", "stopSettle"}
            /\ My(u)' # None
            => rec'[My(u)'].spawnDone
    BY <1>0, <1>1, <1>2, <1>5, <2>1 DEF IndInv, TypeOK, StarterInv, My, StartLabels, ThreadRows, None
  <2> QED
    BY <2>2, <2>3, <2>4, <2>5 DEF StarterInv
<1>7. GuardInv'
    BY <1>0, <1>2 DEF IndInv, GuardInv, My, Threads
<1>8. ShutdownInv'
    BY <1>0 DEF IndInv, ShutdownInv, Threads
<1>9. GuardedWorkspaceIsQuiet'
  <2>1. registry = None => live = {}
    BY DEF IndInv, TypeOK, EveryServerHasItsAuthority
  <2>2. t \in Guards => current \in {My(t), None}
    BY DEF IndInv, GuardInv
  <2> QED
    BY <1>0, <1>2, <2>1, <2>2 DEF IndInv, GuardedWorkspaceIsQuiet, Threads
<1> QED
    BY <1>3, <1>6, <1>7, <1>8, <1>9 DEF IndInv

-----------------------------------------------------------------------------
(* workspace_lifecycle_guard.                                              *)

(* A lifecycle guard is entered.                                           *)
LEMMA EnterPreserves ==
    ASSUME IndInv, NEW t \in Guards, Enter(t)
    PROVE  IndInv'
<1> USE DEF Enter, sessions, dirs, At, Threads
<1>1. /\ thread' \in [Threads -> ThreadRows] /\ thread'[t].pc \in {"claim", "mark"}
      /\ \A u \in Threads \ {t} : thread'[u] = thread[u]
  <2>1. PICK label \in {"claim", "mark"} : Goto(t, label)
    OBVIOUS
  <2>2. label \in Labels
    BY DEF Labels
  <2> QED
    BY <2>1, <2>2, GotoTypes DEF IndInv, TypeOK, Goto, ThreadRows
<1>2. TypeOK' /\ EveryServerHasItsAuthority'
  <2>1. blocked' \in BOOLEAN /\ lifecycle' \in Guards \cup {Nobody}
    OBVIOUS
  <2> QED
    BY <1>1, <2>1 DEF IndInv, TypeOK, EveryServerHasItsAuthority, ThreadRows
<1>3. StarterInv'
    BY <1>1 DEF IndInv, StarterInv, My, StartLabels
<1>4. ShutdownInv' /\ GuardedWorkspaceIsQuiet'
    BY <1>1, ThreadsAreDistinct DEF IndInv, ShutdownInv, GuardedWorkspaceIsQuiet
<1>5. GuardInv'
  <2>1. \A g \in Guards : thread[g].pc \in {"idle", "done"}
    BY NobodyIsNoThread DEF IndInv, GuardInv
  <2> QED
    BY <1>1, <2>1 DEF GuardInv
<1> QED
    BY <1>2, <1>3, <1>4, <1>5 DEF IndInv

(* What a guard does inside, up to where it leaves.                        *)
LEMMA GuardMoves ==
    ASSUME IndInv, NEW t \in Guards,
           Claim(t) \/ Critical(t) \/ Discard(t) \/ Remove(t) \/ Finish(t)
    PROVE  IndInv'
<1> USE DEF Claim, Critical, Discard, Remove, Finish, Goto, sessions, dirs, guard, At, Threads
<1>1. TypeOK'
  <2>1. \E label \in Labels : Goto(t, label)
    BY DEF Labels
  <2>2. thread' \in [Threads -> ThreadRows]
    BY <2>1, GotoTypes DEF IndInv
  <2>3. present' \in BOOLEAN /\ storage' \in BOOLEAN
    BY DEF IndInv, TypeOK
  <2>4. row' \in {"live", "deleting", "gone", "none"}
    BY DEF IndInv, TypeOK
  <2> QED
    BY <2>2, <2>3, <2>4 DEF IndInv, TypeOK, ThreadRows
<1>2. EveryServerHasItsAuthority'
    BY DEF IndInv, TypeOK, EveryServerHasItsAuthority
<1>3. StarterInv'
    BY DEF IndInv, TypeOK, StarterInv, My, StartLabels, ThreadRows, None
<1>4. GuardInv'
    BY ThreadsAreDistinct DEF IndInv, TypeOK, GuardInv, My, ThreadRows, None
<1>5. ShutdownInv'
    BY ThreadsAreDistinct DEF IndInv, TypeOK, ShutdownInv, ThreadRows, None
<1>6. GuardedWorkspaceIsQuiet'
    BY ThreadsAreDistinct
    DEF IndInv, TypeOK, GuardedWorkspaceIsQuiet, GuardInv, StarterInv, My, StartLabels, ThreadRows
<1> QED
    BY <1>1, <1>2, <1>3, <1>4, <1>5, <1>6 DEF IndInv

(* A lifecycle guard is left.                                              *)
LEMMA LeavePreserves ==
    ASSUME IndInv, NEW t \in Guards, Leave(t)
    PROVE  IndInv'
<1> USE DEF Leave, sessions, dirs, At, Threads
<1>1. /\ thread' \in [Threads -> ThreadRows] /\ thread'[t].pc = "done"
      /\ \A u \in Threads \ {t} : thread'[u] = thread[u]
    BY EndTypes DEF IndInv
<1>2. TypeOK' /\ EveryServerHasItsAuthority'
  <2>1. blocked' \in BOOLEAN /\ lifecycle' \in Guards \cup {Nobody}
    OBVIOUS
  <2> QED
    BY <1>1, <2>1 DEF IndInv, TypeOK, EveryServerHasItsAuthority, ThreadRows
<1>3. StarterInv'
    BY <1>1 DEF IndInv, StarterInv, My, StartLabels
<1>4. ShutdownInv' /\ GuardedWorkspaceIsQuiet'
    BY <1>1, ThreadsAreDistinct DEF IndInv, ShutdownInv, GuardedWorkspaceIsQuiet
<1>5. GuardInv'
  <2>1. \A g \in Guards \ {t} : thread[g].pc \in {"idle", "done"}
    BY DEF IndInv, GuardInv
  <2> QED
    BY <1>1, <2>1 DEF GuardInv
<1> QED
    BY <1>2, <1>3, <1>4, <1>5 DEF IndInv

-----------------------------------------------------------------------------
(* shutdown_managed_process.                                               *)

(* shutdown closes the table to new servers.                               *)
LEMMA BeginShutdownPreserves ==
    ASSUME IndInv, NEW t \in Stoppers, BeginShutdown(t)
    PROVE  IndInv'
<1> USE DEF BeginShutdown, sessions, dirs, guard, At, Threads, None
<1>1. /\ thread' \in [Threads -> ThreadRows] /\ thread'[t].pc \in {"leftover", "mark"}
      /\ \A u \in Threads \ {t} : thread'[u] = thread[u]
  <2>1. PICK label \in {"leftover", "mark"} : Goto(t, label)
    OBVIOUS
  <2>2. label \in Labels
    BY DEF Labels
  <2> QED
    BY <2>1, <2>2, GotoTypes DEF IndInv, TypeOK, Goto, ThreadRows
<1>2. rec' \in [Records -> RecordRows]
  <2>1. current # None => current \in Records
    BY Bounds DEF IndInv, TypeOK, Records
  <2> QED
    BY <2>1, CancelTypes DEF IndInv, TypeOK
<1>3. \A r \in Records : rec'[r].spawnDone = rec[r].spawnDone
    BY DEF IndInv, TypeOK, RecordRows
<1>4. TypeOK' /\ EveryServerHasItsAuthority'
    BY <1>1, <1>2 DEF IndInv, TypeOK, EveryServerHasItsAuthority, ThreadRows
<1>5. StarterInv'
  <2>1. \A u \in Threads : thread[u].pc # "idle" /\ thread[u].my # 0 => thread[u].my \in Records
    BY Bounds DEF IndInv, TypeOK, ThreadRows, Records
  <2>2. \A u \in Threads : thread'[u].pc \in StartLabels \cup {"failKill", "failSettle"} => My(u)' # None
    BY <1>1, <1>3 DEF IndInv, TypeOK, StarterInv, My, StartLabels, ThreadRows, None
  <2>3. \A v, u \in Threads :
            /\ thread'[v].pc \in StartLabels /\ thread'[u].pc \in StartLabels
            /\ My(v)' = My(u)'
            => v = u
    BY <1>1, <1>3 DEF IndInv, TypeOK, StarterInv, My, StartLabels, ThreadRows
  <2>4. \A u \in Threads : thread'[u].pc \in {"begin", "writable", "storage", "spawn"}
            => current' = My(u)' /\ ~rec'[My(u)'].spawnDone
    BY <1>1, <1>3, <2>1 DEF IndInv, TypeOK, StarterInv, My, StartLabels, ThreadRows, None
  <2>5. \A u \in Threads :
            /\ thread'[u].pc \in {"failKill", "failSettle", "stopLock", "stopKill", "stopSettle"}
            /\ My(u)' # None
            => rec'[My(u)'].spawnDone
    BY <1>1, <1>3, <2>1 DEF IndInv, TypeOK, StarterInv, My, StartLabels, ThreadRows, None
  <2> QED
    BY <2>2, <2>3, <2>4, <2>5 DEF StarterInv
<1>6. GuardInv' /\ ShutdownInv' /\ GuardedWorkspaceIsQuiet'
    BY <1>1, ThreadsAreDistinct DEF IndInv, GuardInv, ShutdownInv, GuardedWorkspaceIsQuiet, My
<1> QED
    BY <1>4, <1>5, <1>6 DEF IndInv

(* shutdown finishes the sessions that are left.                           *)
LEMMA LeftoverPreserves ==
    ASSUME IndInv, NEW t \in Stoppers, Leftover(t)
    PROVE  IndInv'
<1> USE DEF Leftover, sessions, dirs, guard, At, Threads, None
<1>1. /\ thread' \in [Threads -> ThreadRows]
      /\ thread'[t].pc \in {"leftoverKill", "close"}
      /\ \A u \in Threads \ {t} : thread'[u] = thread[u]
      /\ live' \subseteq live /\ registry' \in {registry, None} /\ closed' = closed
      /\ EveryServerHasItsAuthority'
  <2>1. CASE Take(t, "leftoverKill") /\ UNCHANGED sessions
    BY <2>1, TakeTypes DEF IndInv, TypeOK, Labels, EveryServerHasItsAuthority
  <2>2. CASE Kill(t, "close")
    BY <2>2, KillTypes DEF IndInv, Labels
  <2> QED
    BY <2>1, <2>2
<1>2. TypeOK'
    BY <1>1 DEF IndInv, TypeOK, ThreadRows
<1>3. StarterInv'
    BY <1>1 DEF IndInv, StarterInv, My, StartLabels
<1>4. GuardInv' /\ ShutdownInv' /\ GuardedWorkspaceIsQuiet'
    BY <1>1, ThreadsAreDistinct DEF IndInv, GuardInv, ShutdownInv, GuardedWorkspaceIsQuiet, My
<1> QED
    BY <1>1, <1>2, <1>3, <1>4 DEF IndInv

(* The prefix is refused before the last session is taken.                 *)
LEMMA CloseRegistryPreserves ==
    ASSUME IndInv, NEW t \in Stoppers, CloseRegistry(t)
    PROVE  IndInv'
<1> USE DEF CloseRegistry, dirs, guard, At, Threads, None
<1>1. /\ thread' \in [Threads -> ThreadRows] /\ closed' \in BOOLEAN
      /\ thread'[t].pc \in {"closeKill", "done"}
      /\ \A u \in Threads \ {t} : thread'[u] = thread[u]
      /\ live' \subseteq live /\ registry' \in {registry, None}
      /\ closed => closed'
      /\ thread'[t].pc = "closeKill" => closed' /\ registry' = thread'[t].target
      /\ thread'[t].pc = "done" /\ ~thread'[t].error => closed' /\ registry' = None
      /\ EveryServerHasItsAuthority'
  <2>1. CASE At(t, "close") /\ closed' = TRUE /\ Take(t, "closeKill")
             /\ UNCHANGED <<registry, live>>
    BY <2>1, TakeTypes DEF IndInv, TypeOK, Labels, EveryServerHasItsAuthority
  <2>2. CASE At(t, "closeKill") /\ Kill(t, "done")
    BY <2>2, KillTypes DEF IndInv, TypeOK, ShutdownInv, Labels
  <2> QED
    BY <2>1, <2>2
<1>2. TypeOK'
    BY <1>1 DEF IndInv, TypeOK, ThreadRows
<1>3. StarterInv'
    BY <1>1 DEF IndInv, StarterInv, My, StartLabels
<1>4. GuardInv' /\ GuardedWorkspaceIsQuiet'
    BY <1>1, ThreadsAreDistinct DEF IndInv, GuardInv, GuardedWorkspaceIsQuiet, My
<1>5. ShutdownInv'
    BY <1>1 DEF IndInv, ShutdownInv
<1> QED
    BY <1>1, <1>2, <1>3, <1>4, <1>5 DEF IndInv

(* A server exits by itself.                                               *)
LEMMA ServerExitsPreserves ==
    ASSUME IndInv, ServerExits
    PROVE  IndInv'
<1> USE DEF ServerExits, dirs, guard
<1>1. TypeOK' /\ EveryServerHasItsAuthority'
    BY DEF IndInv, TypeOK, EveryServerHasItsAuthority, ThreadRows
<1>2. StarterInv' /\ GuardInv' /\ ShutdownInv' /\ GuardedWorkspaceIsQuiet'
    BY DEF IndInv, StarterInv, GuardInv, ShutdownInv, GuardedWorkspaceIsQuiet, At, My
<1> QED
    BY <1>1, <1>2 DEF IndInv

-----------------------------------------------------------------------------
(* IndInv is an invariant of the service and its registry                  *)
(* (service/jupyter_workspaces.py, runtime/process_session.py).            *)
THEOREM Inductive == Spec => []IndInv
<1>1. IndInv /\ [Next]_vars => IndInv'
  <2> SUFFICES ASSUME IndInv, [Next]_vars PROVE IndInv'
    OBVIOUS
  <2>1. CASE UNCHANGED vars
    <3>1. TypeOK'
      BY <2>1 DEF vars, IndInv, TypeOK, ThreadRows
    <3>2. /\ EveryServerHasItsAuthority' /\ StarterInv' /\ GuardInv'
          /\ ShutdownInv' /\ GuardedWorkspaceIsQuiet'
      BY <2>1 DEF vars, IndInv, EveryServerHasItsAuthority, StarterInv, GuardInv,
                  ShutdownInv, GuardedWorkspaceIsQuiet, My, At
    <3> QED
      BY <3>1, <3>2 DEF IndInv
  <2>2. ASSUME NEW t \in Openers, Look(t) PROVE IndInv'
    BY <2>2, RefusedPreserves, CreatePreserves, ReusePreserves DEF Look
  <2>3. ASSUME NEW t \in Openers, Open(t) \/ OpenStep(t) PROVE IndInv'
    BY <2>2, <2>3, OpenerMoves, HealthPreserves, SpawnPreserves, AttachPreserves,
       CommitPreserves, StartFailedPreserves, StartCleanupPreserves, SettleStartPreserves
    DEF OpenStep
  <2>4. ASSUME NEW t \in Threads, StopStep(t) PROVE IndInv'
    BY <2>4, MarkPreserves, StopWaitPreserves, StopLockPreserves, StopKillPreserves,
       StopSettlePreserves DEF StopStep
  <2>5. ASSUME NEW t \in Guards, Enter(t) \/ GuardStep(t) PROVE IndInv'
    BY <2>5, EnterPreserves, GuardMoves, LeavePreserves DEF GuardStep
  <2>6. ASSUME NEW t \in Stoppers, BeginShutdown(t) \/ ShutdownStep(t) PROVE IndInv'
    BY <2>6, BeginShutdownPreserves, LeftoverPreserves, CloseRegistryPreserves
    DEF ShutdownStep
  <2> QED
    BY <2>1, <2>3, <2>4, <2>5, <2>6, ServerExitsPreserves DEF Next
<1> QED
    BY <1>1, InitEstablishes, PTL DEF Spec

(* Every process that may run is the session registered under the key, for *)
(* any number of openers, guards, stoppers and records                     *)
(* (ProcessSessionRegistry.start, _remove_record_after_proof).             *)
THEOREM ServersHaveAuthority == Spec => []EveryServerHasItsAuthority
<1>1. IndInv => EveryServerHasItsAuthority
    BY DEF IndInv
<1> QED
    BY <1>1, Inductive, PTL

(* Publishing and deleting find no server on the Workspace                 *)
(* (workspace_lifecycle_guard, stop_workspace_server).                     *)
THEOREM GuardedIsQuiet == Spec => []GuardedWorkspaceIsQuiet
<1>1. IndInv => GuardedWorkspaceIsQuiet
    BY DEF IndInv
<1> QED
    BY <1>1, Inductive, PTL

(* A shutdown without an error leaves no server and admits none later      *)
(* (shutdown_managed_process, ProcessSessionRegistry.shutdown).            *)
THEOREM ShutdownHolds == Spec => []ShutdownIsFinal
<1>1. IndInv => ShutdownIsFinal
    BY DEF IndInv, TypeOK, ShutdownInv, ShutdownIsFinal, EveryServerHasItsAuthority, None
<1> QED
    BY <1>1, Inductive, PTL
=============================================================================
