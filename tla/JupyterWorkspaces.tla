-------------------------- MODULE JupyterWorkspaces --------------------------
(***************************************************************************)
(* The life of the Jupyter server of one Workspace                         *)
(* (service/jupyter_workspaces.py) over the Engine-wide registry of        *)
(* process sessions (runtime/process_session.py), together with the two    *)
(* operations that need the server gone: deleting a Dataset Workspace and  *)
(* publishing a Module or Sampler Workspace.  Request threads open the     *)
(* Workspace, delete it or publish it at the same time, and the Engine may *)
(* stop under them.                                                        *)
(*                                                                         *)
(* A record is one entry the service puts in _instances; it starts at most *)
(* one server, which carries the record's number.  A step is one section   *)
(* under _state_lock or the registry's lock, or one effect outside both.   *)
(***************************************************************************)
EXTENDS Naturals, FiniteSets

CONSTANTS
    Openers,      \* request threads that open the Workspace
    Guards,       \* request threads that delete or publish it
    Stoppers,     \* the thread that stops the Engine, if it ever stops
    Nobody,       \* no thread
    MaxRecords    \* bound: records ever made

ASSUME Bounds == MaxRecords \in Nat \ {0}
ASSUME ThreadsAreDistinct ==
    /\ Openers \cap Guards = {} /\ Openers \cap Stoppers = {}
    /\ Guards \cap Stoppers = {}
ASSUME NobodyIsNoThread == Nobody \notin Openers \cup Guards \cup Stoppers

Threads == Openers \cup Guards \cup Stoppers
Records == 1..MaxRecords
None == 0

VARIABLES
    row,        \* a Dataset Workspace's row: "live", "deleting" or "gone";
                \* "none" for a Module or Sampler Workspace, which has none
    present,    \* its directory exists
    storage,    \* the instance's runtime storage, token and log exist
    made,       \* records made so far
    current,    \* _instances: the record of the Workspace, or None
    rec,        \* the records
    registry,   \* the session registered under the Workspace's key, or None
    live,       \* sessions whose processes may still run
    closed,     \* the registry refuses this prefix: the Engine is stopping
    blocked,    \* _blocked_slugs holds the Workspace
    lifecycle,  \* the thread inside workspace_lifecycle_guard, or Nobody
    thread      \* what each thread is doing

vars == <<row, present, storage, made, current, rec, registry, live, closed,
          blocked, lifecycle, thread>>
dirs == <<row, present, storage>>
guard == <<blocked, lifecycle>>
sessions == <<registry, live, closed>>

Labels == {"idle", "look", "wait", "health", "begin", "writable", "storage", "spawn",
           "attach", "poll", "commit", "fail", "failKill", "failSettle",
           "mark", "stopWait", "stopLock", "stopKill", "stopSettle",
           "claim", "critical", "discard", "remove", "finish", "unblock",
           "leftover", "leftoverKill", "close", "closeKill", "done"}

\* _new_record: a starting record, not cancelled, with its two events unset.
NewRecord == [state |-> "starting", cancelled |-> FALSE, spawnDone |-> FALSE,
              ready |-> FALSE, stopLock |-> Nobody]

\* A thread that holds no record and no session.
Free(label, error) == [pc |-> label, my |-> None, target |-> None, error |-> error]
Idle == Free("idle", FALSE)

RecordRows == [state : {"starting", "running", "stopping", "failed"},
               cancelled : BOOLEAN, spawnDone : BOOLEAN, ready : BOOLEAN,
               stopLock : Threads \cup {Nobody}]
ThreadRows == [pc : Labels, my : 0..made, target : 0..made, error : BOOLEAN]

TypeOK ==
    /\ row \in {"live", "deleting", "gone", "none"}
    /\ present \in BOOLEAN /\ storage \in BOOLEAN
    /\ made \in 0..MaxRecords /\ current \in 0..made /\ registry \in 0..made
    /\ rec \in [Records -> RecordRows]
    /\ live \subseteq 1..made
    /\ closed \in BOOLEAN /\ blocked \in BOOLEAN
    /\ lifecycle \in Guards \cup {Nobody}
    /\ thread \in [Threads -> ThreadRows]

Init ==
    /\ row \in {"live", "none"} /\ present = TRUE /\ storage = FALSE
    /\ made = 0 /\ current = None
    /\ rec = [r \in Records |-> NewRecord]
    /\ registry = None /\ live = {} /\ closed = FALSE
    /\ blocked = FALSE /\ lifecycle = Nobody
    /\ thread = [t \in Threads |-> Idle]

At(t, label) == thread[t].pc = label
My(t) == thread[t].my
Goto(t, label) == thread' = [thread EXCEPT ![t].pc = label]
End(t) == thread' = [thread EXCEPT ![t] = Free("done", FALSE)]

-----------------------------------------------------------------------------
(* The registry of process sessions.                                       *)

\* ProcessSessionRegistry.stop: the session t found under the key is
\* terminated (twice if need be), closed, and released if it is still the one
\* registered; the call may raise although it succeeded at its second try,
\* and may raise because termination is not proven.
Kill(t, next) ==
    \/ /\ thread[t].target = None
       /\ Goto(t, next)
       /\ UNCHANGED sessions
    \/ /\ thread[t].target # None
       /\ live' = live \ {thread[t].target}
       /\ registry' = IF registry = thread[t].target THEN None ELSE registry
       /\ \E raised \in BOOLEAN : thread' =
            [thread EXCEPT ![t].pc = next, ![t].error = @ \/ raised]
       /\ UNCHANGED closed
    \/ /\ thread[t].target # None
       /\ thread' = [thread EXCEPT ![t].pc = next, ![t].error = TRUE]
       /\ UNCHANGED sessions

\* The thread takes the session registered under the key.
Take(t, next) ==
    thread' = [thread EXCEPT ![t].pc = next, ![t].target = registry]

-----------------------------------------------------------------------------
(* _start_record.                                                          *)

\* ensure_workspace_writable walks the Workspace: a missing directory raises.
EnsureWritable(t) ==
    /\ At(t, "writable")
    /\ \/ present /\ Goto(t, "storage")
       \/ Goto(t, "fail")
    /\ UNCHANGED <<dirs, made, current, rec, sessions, guard>>

\* prepare_instance_storage, install_ui_sync_labextension,
\* load_or_create_token, write_server_config, rotate_jupyter_log.
PrepareStorage(t) ==
    /\ At(t, "storage")
    /\ storage' = TRUE
    /\ Goto(t, "spawn") \/ Goto(t, "fail")
    /\ UNCHANGED <<row, present, made, current, rec, sessions, guard>>

\* build_workspace_command: the sandbox refuses a Workspace or a storage that
\* is not a real directory.
Mountable == present /\ storage

\* Mutant: a failed initialization forgets the authority.
SpawnThenRegister(t) ==
    /\ At(t, "spawn")
    /\ \/ /\ closed \/ registry # None \/ ~Mountable
          /\ Goto(t, "fail")
          /\ UNCHANGED sessions
       \/ /\ ~closed /\ registry = None /\ Mountable
          /\ \/ /\ registry' = My(t) /\ live' = live \cup {My(t)}
                /\ Goto(t, "attach")
             \/ /\ Goto(t, "fail") /\ UNCHANGED registry
                /\ live' = live \cup {My(t)}
          /\ UNCHANGED closed
    /\ UNCHANGED <<dirs, made, current, rec, guard>>

\* ProcessSessionRegistry.start: refused while the prefix is stopping or the
\* key is taken; otherwise the authority is registered before the process is
\* made, and a failed initialization keeps it when its cleanup is not proven.
Spawn(t) ==
    /\ At(t, "spawn")
    /\ \/ /\ closed \/ registry # None \/ ~Mountable
          /\ Goto(t, "fail")
          /\ UNCHANGED sessions
       \/ /\ ~closed /\ registry = None /\ Mountable
          /\ \/ /\ registry' = My(t) /\ live' = live \cup {My(t)}
                /\ Goto(t, "attach") \/ Goto(t, "fail")
             \/ Goto(t, "fail") /\ UNCHANGED <<registry, live>>
          /\ UNCHANGED closed
    /\ UNCHANGED <<dirs, made, current, rec, guard>>

MayServe(t) == /\ current = My(t)
               /\ ~rec[My(t)].cancelled
               /\ ~blocked

Attach(t) ==
    /\ At(t, "attach")
    /\ \/ /\ MayServe(t)
          /\ rec' = [rec EXCEPT ![My(t)].spawnDone = TRUE]
          /\ Goto(t, "poll")
       \/ ~MayServe(t) /\ Goto(t, "fail") /\ UNCHANGED rec
    /\ UNCHANGED <<dirs, made, current, sessions, guard>>

\* workspace_health: only a process that runs can answer; it need not.
Alive(t) == My(t) \in live

\* One turn of the polling loop: cancelled, exited, past the deadline, or a
\* healthy answer, which is then committed under the lock.
Poll(t) ==
    /\ At(t, "poll")
    /\ \/ Goto(t, "fail")
       \/ /\ MayServe(t) /\ rec[My(t)].state = "starting" /\ Alive(t)
          /\ Goto(t, "commit")
    /\ UNCHANGED <<dirs, made, current, rec, sessions, guard>>

CommitRunning(t) ==
    /\ At(t, "commit")
    /\ LET wins == /\ MayServe(t)
                   /\ rec[My(t)].state = "starting"
                   /\ registry = My(t)
       IN  \/ /\ wins
              /\ rec' = [rec EXCEPT ![My(t)].state = "running",
                                    ![My(t)].ready = TRUE]
              /\ End(t)
           \/ ~wins /\ Goto(t, "fail") /\ UNCHANGED rec
    /\ UNCHANGED <<dirs, made, current, sessions, guard>>

\* The finally block: the spawn is over, whatever is registered under the key
\* is stopped, and the record leaves only if nothing is registered any more.
StartFailed(t) ==
    /\ At(t, "fail")
    /\ rec' = [rec EXCEPT ![My(t)].spawnDone = TRUE]
    /\ Take(t, "failKill")
    /\ UNCHANGED <<dirs, made, current, sessions, guard>>

StartCleanup(t) ==
    /\ At(t, "failKill")
    /\ Kill(t, "failSettle")
    /\ UNCHANGED <<dirs, made, current, rec, guard>>

SettleStart(t) ==
    /\ At(t, "failSettle")
    /\ current' = IF registry = None /\ current = My(t) THEN None ELSE current
    /\ rec' = [rec EXCEPT ![My(t)].ready = TRUE,
                          ![My(t)].state = IF registry # None /\ current = My(t)
                                             THEN "failed" ELSE @]
    /\ End(t)
    /\ UNCHANGED <<dirs, made, sessions, guard>>

-----------------------------------------------------------------------------
(* ensure_workspace_running.                                               *)

\* The handler reads the row and finds the directory.
Open(t) ==
    /\ At(t, "idle") /\ t \in Openers
    /\ row # "gone" /\ present
    /\ Goto(t, "look")
    /\ UNCHANGED <<dirs, made, current, rec, sessions, guard>>

\* One turn of the loop, under _state_lock.
Refused(t) == blocked /\ End(t) /\ UNCHANGED <<made, current, rec>>

Create(t) ==
    /\ ~blocked /\ current = None /\ made < MaxRecords
    /\ made' = made + 1 /\ current' = made + 1
    /\ rec' = [rec EXCEPT ![made + 1] = NewRecord]
    /\ thread' = [thread EXCEPT ![t].pc = "begin", ![t].my = made + 1]

Reuse(t) ==
    /\ ~blocked /\ current # None
    /\ thread' = [thread EXCEPT
          ![t].pc = CASE rec[current].state = "running" -> "health"
                      [] rec[current].state = "starting" -> "wait"
                      [] OTHER -> "mark",
          ![t].my = current]
    /\ UNCHANGED <<made, current, rec>>

Look(t) ==
    /\ At(t, "look")
    /\ Refused(t) \/ Create(t) \/ Reuse(t)
    /\ UNCHANGED <<dirs, sessions, guard>>

\* The state is read again outside the lock: a stop that came in between left
\* the new record "stopping", and its maker then takes it for a stale server.
\* Nobody sets its spawnDone any more.
Begin(t) ==
    /\ At(t, "begin")
    /\ Goto(t, IF rec[My(t)].state = "starting" THEN "writable" ELSE "health")
    /\ UNCHANGED <<dirs, made, current, rec, sessions, guard>>

\* waiter.wait(timeout): the event or the timeout, then another turn.
Wait(t) ==
    /\ At(t, "wait")
    /\ Goto(t, "look")
    /\ UNCHANGED <<dirs, made, current, rec, sessions, guard>>

\* A healthy answer of a live server is returned if its record still runs.
Health(t) ==
    /\ At(t, "health")
    /\ \/ /\ Alive(t) /\ current = My(t)
          /\ rec[My(t)].state = "running" /\ ~rec[My(t)].cancelled
          /\ End(t)
       \/ Goto(t, "mark")
    /\ UNCHANGED <<dirs, made, current, rec, sessions, guard>>

-----------------------------------------------------------------------------
(* stop_workspace_server, called by an opener that found a stale server,   *)
(* by a guard and by the stopping Engine.                                  *)

\* Where the caller goes on: an opener looks again, a guard does what it came
\* for, and an exception leaves both; stop_managed_process keeps the error.
Return(t, error) ==
    LET next == CASE t \in Stoppers -> "leftover"
                  [] t \in Openers -> IF error THEN "done" ELSE "look"
                  [] OTHER -> IF error THEN "unblock" ELSE "critical"
    IN  thread' = [thread EXCEPT ![t] = Free(next, error /\ t \in Stoppers)]

Mark(t) ==
    /\ At(t, "mark")
    /\ rec' = IF current = None THEN rec
              ELSE [rec EXCEPT ![current].cancelled = TRUE,
                               ![current].state = "stopping"]
    /\ thread' = [thread EXCEPT ![t].pc = "stopWait", ![t].my = current]
    /\ UNCHANGED <<dirs, made, current, sessions, guard>>

\* Mutant: the stop does not wait for the spawn.
SpawnIsAnyTime(t) == TRUE

\* The record yields its termination authority, or thirty seconds pass.
SpawnIsDone(t) == My(t) # None => rec[My(t)].spawnDone

StopWait(t) ==
    /\ At(t, "stopWait")
    /\ \/ SpawnIsDone(t) /\ Goto(t, "stopLock")
       \/ ~SpawnIsDone(t) /\ Return(t, TRUE)
    /\ UNCHANGED <<dirs, made, current, rec, sessions, guard>>

StopLock(t) ==
    /\ At(t, "stopLock")
    /\ \/ My(t) = None /\ UNCHANGED rec
       \/ /\ My(t) # None /\ rec[My(t)].stopLock = Nobody
          /\ rec' = [rec EXCEPT ![My(t)].stopLock = t]
    /\ Take(t, "stopKill")
    /\ UNCHANGED <<dirs, made, current, sessions, guard>>

StopKill(t) ==
    /\ At(t, "stopKill")
    /\ Kill(t, "stopSettle")
    /\ UNCHANGED <<dirs, made, current, rec, guard>>

\* _remove_record_after_proof: only with nothing registered, and only if the
\* record is still the one in the table.
AfterProof(r) == IF registry = None /\ current = r THEN None ELSE current

\* The record leaves with the proof that nothing is registered; without it
\* the record is failed and the caller gets an error.
StopSettle(t) ==
    /\ At(t, "stopSettle")
    /\ LET r == My(t)
           proven == registry = None
       IN  /\ current' = AfterProof(r)
           /\ rec' = IF r = None THEN rec
                     ELSE [rec EXCEPT
                        ![r].stopLock = Nobody,
                        ![r].ready = @ \/ proven \/ current = r,
                        ![r].spawnDone = @ \/ proven,
                        ![r].state = IF ~proven /\ current = r
                                       THEN "failed" ELSE @]
           /\ Return(t, thread[t].error \/ ~proven)
    /\ UNCHANGED <<dirs, made, sessions, guard>>

-----------------------------------------------------------------------------
(* workspace_lifecycle_guard and what runs inside it.                      *)

Enter(t) ==
    /\ At(t, "idle") /\ t \in Guards
    /\ lifecycle = Nobody /\ row # "gone"
    /\ lifecycle' = t /\ blocked' = TRUE
    /\ Goto(t, IF row # "none" THEN "claim" ELSE "mark")
    /\ UNCHANGED <<dirs, made, current, rec, sessions>>

\* claim_workspace_deletion commits before anything is removed.
Claim(t) ==
    /\ At(t, "claim")
    /\ row' = "deleting"
    /\ Goto(t, "mark")
    /\ UNCHANGED <<present, storage, made, current, rec, sessions, guard>>

\* Publishing reads the Workspace here; a deletion discards the runtime next.
Critical(t) ==
    /\ At(t, "critical")
    /\ Goto(t, IF row # "none" THEN "discard" ELSE "unblock")
    /\ UNCHANGED <<dirs, made, current, rec, sessions, guard>>

\* discard_workspace_runtime, then rmtree, then the row; each may fail.
Discard(t) ==
    /\ At(t, "discard")
    /\ \/ storage' = FALSE /\ Goto(t, "remove")
       \/ Goto(t, "unblock") /\ UNCHANGED storage
    /\ UNCHANGED <<row, present, made, current, rec, sessions, guard>>

Remove(t) ==
    /\ At(t, "remove")
    /\ \/ present' = FALSE /\ Goto(t, "finish")
       \/ Goto(t, "unblock") /\ UNCHANGED present
    /\ UNCHANGED <<row, storage, made, current, rec, sessions, guard>>

Finish(t) ==
    /\ At(t, "finish")
    /\ row' = "gone" \/ UNCHANGED row
    /\ Goto(t, "unblock")
    /\ UNCHANGED <<present, storage, made, current, rec, sessions, guard>>

Leave(t) ==
    /\ At(t, "unblock")
    /\ blocked' = FALSE /\ lifecycle' = Nobody
    /\ End(t)
    /\ UNCHANGED <<dirs, made, current, rec, sessions>>

-----------------------------------------------------------------------------
(* shutdown_managed_process.                                               *)

BeginShutdown(t) ==
    /\ At(t, "idle") /\ t \in Stoppers
    /\ IF current = None THEN Goto(t, "leftover") ELSE Goto(t, "mark")
    /\ rec' = IF current = None THEN rec
              ELSE [rec EXCEPT ![current].cancelled = TRUE,
                               ![current].state = "stopping"]
    /\ UNCHANGED <<dirs, made, current, sessions, guard>>

\* What is left under the prefix is stopped by key.
Leftover(t) ==
    /\ \/ At(t, "leftover") /\ Take(t, "leftoverKill") /\ UNCHANGED sessions
       \/ At(t, "leftoverKill") /\ Kill(t, "close")
    /\ UNCHANGED <<dirs, made, current, rec, guard>>

\* Mutant: the registry goes on admitting sessions.
CloseNothing(t) ==
    /\ \/ /\ At(t, "close")
          /\ Take(t, "closeKill")
          /\ UNCHANGED sessions
       \/ At(t, "closeKill") /\ Kill(t, "done")
    /\ UNCHANGED <<dirs, made, current, rec, guard>>

\* ProcessSessionRegistry.shutdown: no new session, and those there are ended.
CloseRegistry(t) ==
    /\ \/ /\ At(t, "close")
          /\ closed' = TRUE
          /\ Take(t, "closeKill")
          /\ UNCHANGED <<registry, live>>
       \/ At(t, "closeKill") /\ Kill(t, "done")
    /\ UNCHANGED <<dirs, made, current, rec, guard>>

-----------------------------------------------------------------------------
\* A server may end by itself at any time; its authority stays registered.
ServerExits ==
    /\ \E s \in live : live' = live \ {s}
    /\ UNCHANGED <<dirs, made, current, rec, registry, closed, guard, thread>>

OpenStep(t) == \/ Look(t) \/ Begin(t) \/ Wait(t) \/ Health(t)
               \/ EnsureWritable(t) \/ PrepareStorage(t) \/ Spawn(t)
               \/ Attach(t) \/ Poll(t) \/ CommitRunning(t)
               \/ StartFailed(t) \/ StartCleanup(t) \/ SettleStart(t)

StopStep(t) == Mark(t) \/ StopWait(t) \/ StopLock(t) \/ StopKill(t) \/ StopSettle(t)

GuardStep(t) == Claim(t) \/ Critical(t) \/ Discard(t) \/ Remove(t) \/ Finish(t) \/ Leave(t)

ShutdownStep(t) == Leftover(t) \/ CloseRegistry(t)

Next == \/ \E t \in Openers : Open(t) \/ OpenStep(t)
        \/ \E t \in Threads : StopStep(t)
        \/ \E t \in Guards : Enter(t) \/ GuardStep(t)
        \/ \E t \in Stoppers : BeginShutdown(t) \/ ShutdownStep(t)
        \/ ServerExits

Spec == Init /\ [][Next]_vars

-----------------------------------------------------------------------------
(* Properties.                                                             *)

\* Every process that may still run is the session registered under the
\* Workspace's key, so whoever stops the key stops it: no record is dropped,
\* and no start fails, leaving a server nobody can end; and there is never a
\* second server on one Workspace.
EveryServerHasItsAuthority == live \subseteq {registry}

\* Inside the guard, once the stop has succeeded, no server runs on the
\* Workspace: what publishing archives and what deletion removes is not being
\* written by a server, whenever an open request came.
GuardedWorkspaceIsQuiet ==
    \A t \in Guards :
        thread[t].pc \in {"critical", "discard", "remove", "finish"}
            => live = {} /\ current = None

\* Once shutdown_managed_process has returned without an error, no server of
\* the namespace runs and none is started later.
ShutdownIsFinal ==
    \A t \in Stoppers : At(t, "done") /\ ~thread[t].error => live = {}

-----------------------------------------------------------------------------
(* The inductive invariant behind the three properties.                    *)

\* The labels at which an opener starts the server of the record it made.
StartLabels == {"begin", "writable", "storage", "spawn", "attach", "poll", "commit",
                "fail"}

\* A record has one starter.  Until its spawn is over it stays in the table
\* and no stop gets past the wait, so nobody takes the Workspace for quiet
\* while a server may still be registered.
StarterInv ==
    /\ \A t \in Threads : thread[t].pc \in StartLabels \cup {"failKill", "failSettle"}
            => My(t) # None
    /\ \A t, u \in Threads :
            /\ thread[t].pc \in StartLabels /\ thread[u].pc \in StartLabels
            /\ My(t) = My(u)
            => t = u
    /\ \A t \in Threads : thread[t].pc \in {"begin", "writable", "storage", "spawn"}
            => current = My(t) /\ ~rec[My(t)].spawnDone
    /\ \A t \in Threads :
            /\ thread[t].pc \in {"failKill", "failSettle", "stopLock", "stopKill", "stopSettle"}
            /\ My(t) # None
            => rec[My(t)].spawnDone

\* One guard is inside, and while it is no record is made: the one its stop
\* marked is in the table or none is.
GuardInv ==
    \A t \in Guards :
        /\ ~At(t, "idle") /\ ~At(t, "done") => lifecycle = t /\ blocked
        /\ thread[t].pc \in {"stopWait", "stopLock", "stopKill", "stopSettle"}
              => current \in {My(t), None}

\* The closed registry admits nothing, so what the stopper took is the last
\* session there is.
ShutdownInv ==
    \A t \in Stoppers :
        /\ At(t, "closeKill") => closed /\ registry \in {thread[t].target, None}
        /\ At(t, "done") /\ ~thread[t].error => closed /\ registry = None

IndInv ==
    /\ TypeOK
    /\ EveryServerHasItsAuthority
    /\ StarterInv /\ GuardInv /\ ShutdownInv
    /\ GuardedWorkspaceIsQuiet
=============================================================================
