---------------------------- MODULE ModuleSession ----------------------------
(***************************************************************************)
(* One Module instance of a Graph: the ModuleInvoker that owns it, the     *)
(* adapter that carries its calls (in the Engine's own process, or to a    *)
(* supervised process over a pair of pipes) and the SDK instance that      *)
(* answers them.  Calls come from one thread; what runs beside it is the   *)
(* Module's process, its helpers and its supervisor.                       *)
(*                                                                         *)
(* A Module may hand out the same outputs again: the SDK gives it a handle *)
(* per slot and generation, and the invoker keeps the bytes it validated,  *)
(* so a registered handle is answered from them without new validation.    *)
(***************************************************************************)
EXTENDS Naturals, Sequences

CONSTANTS
    Slots,        \* the slots of reusable outputs a Module uses
    Good,         \* outputs that its ports admit
    Bad,          \* outputs that they do not admit
    Nothing,
    MaxCalls,     \* how often the owner calls the instance
    MaxHandles,   \* how many handles the Module asks for
    MaxStray      \* how many lines the Module prints that answer nothing

ASSUME Constants == Bad \notin Good /\ Nothing \notin Good /\ Nothing # Bad
ASSUME Bounds == {MaxCalls, MaxHandles, MaxStray} \subseteq Nat

VARIABLES
    mode,         \* "python" or "process", the Definition's activation mode
    \* ModuleInvoker
    life, entries,
    op,           \* the call in progress
    calls, answer, outcome,
    \* the SDK instance, in whichever process it lives
    sdk, epoch, generation, handles, made, eras,
    \* the pipes and the process tree
    sequence, stdin, stdout, strays, primary, helper, supervisor, code,
    immortal      \* a process could not be killed

invoker == <<life, entries, op, calls, answer, outcome>>
instance == <<sdk, epoch, generation, handles, made, eras>>
tree == <<primary, helper, supervisor, code, immortal>>
transport == <<sequence, stdin, stdout, strays>>
vars == <<mode, invoker, instance, transport, tree>>

\* The request id of a line that is no response at all.
Garbage == 0

Idle == [cmd |-> "none", id |-> 0, at |-> "none"]
Outputs == Good \cup {Bad}

\* outcome: what the last completed call told the owner.
Outcomes == {"none", "ok", "error"}

Commands == {"initialize", "invoke", "snapshot", "restore", "finalize", "close"}
HandleRows == [slot : Slots, epoch : Nat, generation : Nat, candidate : Outputs,
               registered : BOOLEAN, era : Nat]
EntryRows == [epoch : Nat, generation : Nat, value : Good, era : Nat]
RequestRows == [id : Nat, cmd : Commands]
LineRows == [id : Nat, ok : BOOLEAN, by : Nat, value : Outputs, era : Nat]

\* An entry holds validated bytes only.
InvokerTypeOK ==
    /\ mode \in {"python", "process"}
    /\ life \in {"new", "initializing", "running", "finalized", "closed", "refused"}
    /\ op \in [cmd : Commands \cup {"none"}, id : Nat,
               at : {"none", "asked", "shutdown"}]
    /\ calls \in 0..MaxCalls
    /\ outcome \in Outcomes
    /\ entries \in [Slots -> {Nothing} \cup EntryRows]

InstanceTypeOK ==
    /\ sdk \in {"new", "ready", "finalized", "closed"}
    /\ epoch \in Nat /\ eras \in Nat
    /\ generation \in [Slots -> Nat] /\ handles \in [Slots -> Nat]
    /\ made \in Seq(HandleRows)

TransportTypeOK ==
    /\ sequence \in Nat /\ strays \in 0..MaxStray
    /\ stdin \in Seq(RequestRows)
    /\ stdout \in Seq(LineRows)

TreeTypeOK ==
    /\ primary \in {"none", "alive", "exited"}
    /\ supervisor \in {"none", "running", "exited"}
    /\ helper \in BOOLEAN /\ immortal \in BOOLEAN
    /\ code \in {"none", "zero", "forced", "other"}

TypeOK == InvokerTypeOK /\ InstanceTypeOK /\ TransportTypeOK /\ TreeTypeOK

Init ==
    /\ mode \in {"python", "process"}
    /\ life = "new" /\ entries = [s \in Slots |-> Nothing] /\ op = Idle
    /\ calls = 0 /\ answer = Nothing /\ outcome = "none"
    /\ sdk = "new" /\ epoch = 0
    /\ generation = [s \in Slots |-> 0] /\ handles = [s \in Slots |-> 0]
    /\ made = <<>> /\ eras = 0
    /\ sequence = 0 /\ stdin = <<>> /\ stdout = <<>> /\ strays = 0
    /\ primary = "none" /\ helper = FALSE /\ supervisor = "none"
    /\ code = "none" /\ immortal = FALSE

-----------------------------------------------------------------------------
(* strategy_devkit.module_sdk: handles of reusable outputs.                *)

\* _reusable_output_material: only the current handle of its slot, of the
\* current epoch, may be returned.
Active(i) ==
    /\ made[i].epoch = epoch
    /\ handles[made[i].slot] = i

\* Mutant: handles outlive a restore.
InvalidateNothing == UNCHANGED <<epoch, generation, handles>>

\* _invalidate_reusable_outputs
Invalidate ==
    /\ epoch' = epoch + 1
    /\ generation' = [s \in Slots |-> 0]
    /\ handles' = [s \in Slots |-> 0]

\* register_reusable_outputs: a candidate, not yet a proof.
Register(s, v) ==
    /\ generation' = [generation EXCEPT ![s] = @ + 1]
    /\ made' = Append(made, [slot |-> s, epoch |-> epoch,
                             generation |-> generation[s] + 1, candidate |-> v,
                             registered |-> FALSE, era |-> eras])
    /\ handles' = [handles EXCEPT ![s] = Len(made) + 1]
    /\ UNCHANGED <<sdk, epoch, eras>>

\* The Module's own code keeps a reference to what it registered, and writes
\* to it whenever it runs.
Rewrite ==
    /\ life = "running" /\ op.cmd = "invoke" /\ mode = "python"
    /\ \E i \in DOMAIN made : \E v \in Outputs \ {made[i].candidate} :
        made' = [made EXCEPT ![i].candidate = v]
    /\ UNCHANGED <<mode, invoker, sdk, epoch, generation, handles, eras,
                   transport, tree>>

-----------------------------------------------------------------------------
(* ReusableOutputOwner and the value boundary of the invoker.              *)

\* _validate_and_isolate_outputs, against the declared output ports.
Validated(v) == v \in Good

\* ReusableOutputOwner.resolve: the entry must be of this very generation.
Resolves(i) ==
    LET entry == entries[made[i].slot]
    IN  IF entry = Nothing THEN FALSE
        ELSE entry.epoch = made[i].epoch /\ entry.generation = made[i].generation

\* register_validated
Entry(i) == [epoch |-> made[i].epoch, generation |-> made[i].generation,
             value |-> made[i].candidate, era |-> made[i].era]

\* The call in progress is answered, or raises.
Answered(value, by, era) ==
    /\ answer' = [for |-> op.id, by |-> by, value |-> value,
                  made |-> era, era |-> eras]
    /\ outcome' = "ok" /\ op' = Idle
Raises == answer' = Nothing /\ outcome' = "error" /\ op' = Idle

-----------------------------------------------------------------------------
(* The in-process adapter: the call and its answer are one thread's.       *)

\* The archived class is missing, of another kind, or overrides what the
\* Engine owns: nothing was made.
LoadFails == life' = "refused" /\ UNCHANGED sdk

\* initialize, or the comparison of what it kept with the frozen
\* configuration, fails: the half-made instance is closed.
InitializeFails == life' = "refused" /\ sdk' = "closed"
Initialized == life' = "running" /\ sdk' = "ready"

\* _InProcessPythonAdapter.__init__
ConstructPython ==
    /\ life = "new" /\ mode = "python"
    /\ LoadFails \/ InitializeFails \/ Initialized
    /\ UNCHANGED <<mode, entries, op, calls, answer, outcome, epoch, generation,
                   handles, made, eras, transport, tree>>

\* update() returns outputs of its own; the ports decide.
ReturnPlain ==
    /\ mode = "python" /\ op.cmd = "invoke"
    /\ \E v \in Outputs :
        IF Validated(v) THEN Answered(v, op.id, eras) ELSE Raises
    /\ UNCHANGED <<mode, life, entries, calls, instance, transport, tree>>

UpdateRaises ==
    /\ mode = "python" /\ op.cmd = "invoke"
    /\ Raises
    /\ UNCHANGED <<mode, life, entries, calls, instance, transport, tree>>

\* update() asks for a new handle.
RegisterOutputs ==
    /\ mode = "python" /\ op.cmd = "invoke"
    /\ Len(made) < MaxHandles
    /\ \E s \in Slots, v \in Outputs : Register(s, v)
    /\ UNCHANGED <<mode, invoker, transport, tree>>

\* _invoke_isolated: a registered handle is answered from the entry, another
\* is validated, entered and confirmed.  A confirmation that is interrupted
\* takes the entry away again.
Present(i) ==
    IF made[i].registered
      THEN /\ IF Resolves(i)
                THEN Answered(entries[made[i].slot].value, op.id,
                              entries[made[i].slot].era)
                ELSE Raises
           /\ UNCHANGED <<entries, made>>
      ELSE IF Validated(made[i].candidate)
             THEN \/ /\ entries' = [entries EXCEPT ![made[i].slot] = Entry(i)]
                     /\ made' = [made EXCEPT ![i].registered = TRUE]
                     /\ Answered(made[i].candidate, op.id, made[i].era)
                  \/ /\ entries' = [entries EXCEPT ![made[i].slot] = Nothing]
                     /\ Raises /\ UNCHANGED made
             ELSE Raises /\ UNCHANGED <<entries, made>>

\* update() returns one of the handles it ever held.
ReturnHandle ==
    /\ mode = "python" /\ op.cmd = "invoke"
    /\ \E i \in DOMAIN made :
        IF Active(i) THEN Present(i) ELSE Raises /\ UNCHANGED <<entries, made>>
    /\ UNCHANGED <<mode, life, calls, sdk, epoch, generation, handles, eras,
                   transport, tree>>

\* snapshot, restore and finalize of the SDK instance, hook failures included.
\* A restore forgets every handle before the hook runs; a finalize always
\* does, and ends the instance only when it succeeds.
SdkSnapshot == UNCHANGED instance
SdkRestore ==
    /\ Invalidate
    /\ eras' = eras + 1
    /\ UNCHANGED <<sdk, made>>
SdkFinalize(ok) ==
    /\ Invalidate
    /\ sdk' = IF ok THEN "finalized" ELSE sdk
    /\ UNCHANGED <<made, eras>>
SdkClose(ok) ==
    /\ Invalidate
    /\ sdk' = IF ok THEN "closed" ELSE sdk
    /\ UNCHANGED <<made, eras>>

\* handle_module_command: the instance does what the command asks for.
Handle(cmd, ok) ==
    CASE cmd = "initialize" -> /\ sdk' = IF ok THEN "ready" ELSE sdk
                               /\ UNCHANGED <<epoch, generation, handles, made, eras>>
      [] cmd = "restore" -> SdkRestore
      [] cmd = "finalize" -> SdkFinalize(ok)
      [] cmd = "close" -> SdkClose(ok)
      [] OTHER -> SdkSnapshot

\* ModuleInvoker.restore invalidates before the adapter is asked, finalize
\* and close after it has answered or failed.
Forgotten(cmd) ==
    IF cmd \in {"restore", "finalize", "close"} THEN [s \in Slots |-> Nothing]
    ELSE entries

\* The lifecycle after a call that came back, however it came back.
LifeAfter(cmd) ==
    CASE cmd = "finalize" -> "finalized" [] cmd = "close" -> "closed"
      [] OTHER -> life

CallPython ==
    /\ mode = "python" /\ op.cmd \in {"snapshot", "restore", "finalize", "close"}
    /\ \E ok \in BOOLEAN :
        /\ Handle(op.cmd, ok)
        /\ outcome' = IF ok THEN "ok" ELSE "error"
    /\ entries' = Forgotten(op.cmd) /\ life' = LifeAfter(op.cmd)
    /\ answer' = Nothing /\ op' = Idle
    /\ UNCHANGED <<mode, calls, transport, tree>>

-----------------------------------------------------------------------------
(* The process adapter.                                                    *)

\* The Module's supervisor, in a session of its own, and its primary process.
ConstructProcess ==
    /\ life = "new" /\ mode = "process"
    /\ supervisor' = "running" /\ primary' = "alive"
    /\ life' = "initializing"
    /\ sequence' = 1
    /\ op' = [cmd |-> "initialize", id |-> 1, at |-> "asked"]
    /\ stdin' = <<[id |-> 1, cmd |-> "initialize"]>>
    /\ UNCHANGED <<mode, entries, calls, answer, outcome, instance, stdout,
                   strays, helper, code, immortal>>

\* The owner calls the instance.  A process that has exited is not asked: the
\* call raises, and close goes on to reap what is left of the tree.
Ask(cmd) ==
    IF mode = "python" THEN /\ op' = [cmd |-> cmd, id |-> calls + 1, at |-> "asked"]
                            /\ UNCHANGED <<sequence, stdin, outcome>>
    ELSE IF supervisor = "exited"
      THEN /\ op' = IF cmd = "close" THEN [cmd |-> cmd, id |-> 0, at |-> "shutdown"]
                    ELSE Idle
           /\ outcome' = "error"
           /\ UNCHANGED <<sequence, stdin>>
      ELSE /\ sequence' = sequence + 1
           /\ stdin' = Append(stdin, [id |-> sequence + 1, cmd |-> cmd])
           /\ op' = [cmd |-> cmd, id |-> sequence + 1, at |-> "asked"]
           /\ UNCHANGED outcome

Call(cmd) ==
    /\ op = Idle /\ calls < MaxCalls
    /\ life = "running" \/ (cmd = "close" /\ life = "finalized")
    /\ calls' = calls + 1
    /\ answer' = Nothing
    /\ Ask(cmd)
    /\ entries' = IF cmd = "restore" THEN Forgotten(cmd) ELSE entries
    /\ life' = IF mode = "process" /\ supervisor = "exited" /\ cmd = "finalize"
               THEN "finalized" ELSE life
    /\ UNCHANGED <<mode, instance, stdout, strays, tree>>

Invoke == Call("invoke")
Snapshot == Call("snapshot")
Restore == Call("restore")
Finalize == Call("finalize")
Close == Call("close")

\* serve_module: one request, one line.  A Module may start a helper process
\* while it works.  After a successful close the loop ends.  (_require_running
\* refuses nothing here: the invoker's own lifecycle is stricter.)
Serve ==
    /\ primary = "alive" /\ stdin # <<>> /\ sdk # "closed"
    /\ LET request == Head(stdin)
       IN \E ok \in BOOLEAN, v \in Outputs :
            /\ request.cmd # "invoke" => v = Bad
            /\ Handle(request.cmd, ok)
            /\ stdout' = Append(stdout, [id |-> request.id, ok |-> ok,
                                         by |-> request.id, value |-> v,
                                         era |-> eras])
    /\ stdin' = Tail(stdin)
    /\ \E fork \in BOOLEAN : helper' = (helper \/ fork)
    /\ UNCHANGED <<mode, invoker, sequence, strays, primary, supervisor, code,
                   immortal>>

\* The Module's code prints to the pipe its answers travel on.
PrintLine ==
    /\ primary = "alive" /\ strays < MaxStray /\ sdk # "closed"
    /\ strays' = strays + 1
    /\ stdout' = Append(stdout, [id |-> Garbage, ok |-> FALSE, by |-> 0, value |-> Bad,
                                 era |-> 0])
    /\ UNCHANGED <<mode, invoker, instance, sequence, stdin, tree>>

\* The primary ends: by itself after a close, with any code, or it crashes.
PrimaryExits ==
    /\ primary = "alive"
    /\ primary' = "exited"
    /\ code' \in IF sdk = "closed" THEN {"zero", "other"} ELSE {"other"}
    /\ UNCHANGED <<mode, invoker, instance, transport, helper, supervisor, immortal>>

HelperExits ==
    /\ helper /\ helper' = FALSE
    /\ UNCHANGED <<mode, invoker, instance, transport, primary, supervisor, code,
                   immortal>>

\* _run, after the primary: adopted descendants are ended, and that is told.
ExitCode == IF helper /\ code = "zero" THEN "forced" ELSE code

SupervisorExits ==
    /\ supervisor = "running" /\ primary = "exited"
    /\ supervisor' = "exited" /\ helper' = FALSE /\ code' = ExitCode
    /\ UNCHANGED <<mode, invoker, instance, transport, primary, immortal>>

\* terminate_process_tree on the whole session.  It raises when a process
\* survives SIGKILL, and every caller here goes on.
Killed ==
    /\ primary' = IF primary = "none" THEN "none" ELSE "exited"
    /\ supervisor' = "exited" /\ helper' = FALSE
    /\ code' = IF supervisor = "exited" THEN code ELSE "other"
    /\ UNCHANGED immortal
Abort ==
    \/ Killed
    \/ immortal' = TRUE /\ UNCHANGED <<primary, helper, supervisor, code>>

\* What a call that raises leaves behind: a failed initialization and close
\* go on to the shutdown of the tree.
Fails ==
    /\ answer' = Nothing /\ outcome' = "error"
    /\ op' = IF op.cmd \in {"initialize", "close"} THEN [op EXCEPT !.at = "shutdown"]
             ELSE Idle
    /\ life' = IF op.cmd = "finalize" THEN "finalized" ELSE life
    /\ entries' = IF op.cmd = "finalize" THEN Forgotten(op.cmd) ELSE entries

\* The write or the read times out, meets the end of the pipe, or the line
\* grows too long: the tree is aborted and the call raises.
TransportFails ==
    /\ mode = "process" /\ op.at = "asked"
    /\ Abort
    /\ Fails
    /\ UNCHANGED <<mode, calls, instance, transport>>

\* Mutant: any line that reads as a success is the answer.
AcceptsAnyId(line) == line.ok

\* Finite JSON of the protocol's own version and fields.
Decodes(line) == line.id # Garbage

\* _request, on the line it read: it must be the answer to this request.
Accepts(line) == Decodes(line) /\ line.id = op.id /\ line.ok

\* _request and the command's own check of the payload.  A response that is
\* refused is not followed by an abort: its successors are still on the pipe.
ReadResponse ==
    /\ mode = "process" /\ op.at = "asked" /\ stdout # <<>>
    /\ stdout' = Tail(stdout)
    /\ LET line == Head(stdout)
       IN IF ~Accepts(line)
            THEN /\ IF op.cmd = "initialize" THEN Abort ELSE UNCHANGED tree
                 /\ Fails
            ELSE /\ UNCHANGED tree
                 /\ IF op.cmd = "invoke"
                      THEN IF Validated(line.value) THEN Answered(line.value, line.by, line.era)
                                             ELSE Raises
                      ELSE /\ answer' = Nothing
                           /\ outcome' = "ok"
                           /\ op' = IF op.cmd = "close"
                                    THEN [op EXCEPT !.at = "shutdown"] ELSE Idle
                 /\ life' = CASE op.cmd = "initialize" -> "running"
                              [] op.cmd = "finalize" -> "finalized"
                              [] OTHER -> life
                 /\ entries' = IF op.cmd = "finalize" THEN Forgotten(op.cmd) ELSE entries
    /\ UNCHANGED <<mode, calls, instance, sequence, stdin, strays>>

\* The tree of the session is gone.
Gone == supervisor = "exited" /\ primary # "alive" /\ ~helper

\* Mutant: a tree that had to be killed does not spoil the answer.
ReportAnyway(forced) == outcome

\* close(): the answer stands only when the tree left by itself, with zero.
Report(forced) ==
    IF outcome = "ok" /\ ~forced /\ code' = "zero" THEN "ok" ELSE "error"

\* _shutdown_process waits for the tree, then kills what survived.
ShutDown ==
    /\ op.at = "shutdown"
    /\ \/ Gone /\ UNCHANGED tree /\ outcome' = Report(FALSE)
       \/ ~Gone /\ Abort /\ outcome' = Report(TRUE)
    /\ life' = IF op.cmd = "initialize" THEN "refused" ELSE "closed"
    /\ entries' = Forgotten("close")
    /\ op' = Idle /\ answer' = Nothing
    /\ UNCHANGED <<mode, calls, instance, transport>>

-----------------------------------------------------------------------------
Owner == Invoke \/ Snapshot \/ Restore \/ Finalize \/ Close
Adapter ==
    \/ ConstructPython \/ ReturnPlain \/ UpdateRaises \/ ReturnHandle \/ CallPython
    \/ ConstructProcess \/ TransportFails \/ ReadResponse \/ ShutDown
Next ==
    \/ Owner \/ Adapter
    \/ RegisterOutputs \/ Rewrite
    \/ Serve \/ PrintLine \/ PrimaryExits \/ HelperExits \/ SupervisorExits

Spec == Init /\ [][Next]_vars

-----------------------------------------------------------------------------
(* Properties.                                                             *)

\* The outputs an invocation gives the Graph were computed for that very
\* invocation and conform to the ports, whatever else the Module printed,
\* however late it answered, and whatever it wrote to outputs it had
\* registered before.
AnswerIsItsOwn ==
    answer # Nothing =>
        /\ answer.by = answer.for
        /\ answer.value \in Good

\* Outputs that are handed out again without new validation were made since
\* the last restore: a checkpoint never brings back outputs of the state it
\* replaced.
ReuseIsCurrent == answer # Nothing => answer.made = answer.era

\* A closed or refused instance has no process left, unless one could not be
\* killed; and close reports success only when the Module ran its close hook
\* and every process of its tree ended by itself.
CloseIsHonest ==
    /\ life \in {"closed", "refused"} /\ mode = "process" /\ ~immortal => Gone
    /\ life = "closed" /\ outcome = "ok" =>
        /\ sdk = "closed"
        /\ mode = "process" => Gone /\ code = "zero"

-----------------------------------------------------------------------------
(* The inductive invariant.                                                *)

\* A call is in progress only while the owner may still call.
OwnerInv ==
    /\ life \in {"new", "closed", "refused"} => op = Idle
    /\ life = "new" => sequence = 0 /\ primary = "none"

\* The call in progress is the newest request.  An answer to it on the pipe
\* means that every request was served, so no restore can follow it unnoticed.
PipeInv ==
    /\ mode = "process" /\ op.at = "asked" => op.id = sequence
    /\ \A k \in DOMAIN stdin :
        /\ stdin[k].id <= sequence
        /\ stdin[k].id = sequence => k = Len(stdin)
        /\ mode = "process" /\ op.at = "asked" /\ stdin[k].id = sequence =>
            stdin[k].cmd = op.cmd
    /\ \A k \in DOMAIN stdout :
        LET line == stdout[k]
        IN  /\ line.by = line.id /\ line.id <= sequence
            /\ line.id # Garbage /\ line.id = sequence =>
                /\ stdin = <<>>
                /\ op.at = "asked" /\ op.cmd = "invoke" /\ mode = "process" =>
                    line.era = eras

\* Handles and entries of the current epoch were made in the current era.
EpochInv ==
    /\ \A i \in DOMAIN made :
        /\ made[i].epoch <= epoch
        /\ made[i].epoch = epoch => made[i].era = eras
    /\ \A s \in Slots : entries[s] # Nothing =>
        /\ entries[s].epoch <= epoch
        /\ entries[s].epoch = epoch => entries[s].era = eras

\* Only a process has a tree, and only a primary that was closed ends with zero.
TreeInv ==
    /\ mode = "python" => primary = "none" /\ code = "none" /\ op.at # "shutdown"
    /\ code \in {"zero", "forced"} => sdk = "closed"

IndInv ==
    /\ TypeOK /\ OwnerInv /\ PipeInv /\ EpochInv /\ TreeInv
    /\ AnswerIsItsOwn /\ ReuseIsCurrent /\ CloseIsHonest

=============================================================================
