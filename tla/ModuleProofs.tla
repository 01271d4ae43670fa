---------------------------- MODULE ModuleProofs ----------------------------
(***************************************************************************)
(* Modules.  One process: whatever the number of calls, handles and stray  *)
(* lines, an invocation is answered with outputs of its own that conform   *)
(* to the ports, reused outputs were made since the last restore, and a    *)
(* close that reports success left no process behind.  All follow from     *)
(* IndInv, which every step of the owner, the adapter, the Module and its  *)
(* tree preserves.                                                         *)
(*                                                                         *)
(* A Graph of them: whatever its nodes, ports, wires and contracts, the    *)
(* compiler's topology is an order of the dependencies, the semantic proof *)
(* accepts it, and a Graph that compiled never starves and never feeds a   *)
(* port what it does not admit.  The first two are about recursions over   *)
(* the nodes that are left; SetInduction and LayersOfTheRest carry them    *)
(* over to every Graph.  The others follow from GraphIndInv.               *)
(***************************************************************************)
EXTENDS ModuleSession, ModuleGraph, FiniteSetTheorems, WellFoundedInduction, SequenceTheorems, TLAPS


-----------------------------------------------------------------------------
(* What the parts of the invariant depend on.                              *)

(* A step that asks nothing new and leaves the pipes and the era alone.    *)
LEMMA PipesAtRest ==
    ASSUME PipeInv, mode' = mode, sequence' = sequence, stdin' = stdin,
           stdout' = stdout,
           op'.at = "asked" /\ mode = "process" => op' = op,
           eras' = eras \/ mode = "python",
           mode \in {"python", "process"}
    PROVE  PipeInv'
BY DEF PipeInv

(* A step that touches neither the handles nor the epoch, and at most      *)
(* forgets entries.                                                        *)
LEMMA HandlesAtRest ==
    ASSUME EpochInv, epoch' = epoch, eras' = eras, made' = made,
           \A s \in Slots : entries'[s] \in {entries[s], Nothing}
    PROVE  EpochInv'
BY DEF EpochInv

(* Forgotten takes every entry or none.                                    *)
LEMMA ForgottenShrinks ==
    ASSUME InvokerTypeOK, NEW c
    PROVE  /\ Forgotten(c) \in [Slots -> {Nothing} \cup EntryRows]
           /\ \A s \in Slots : Forgotten(c)[s] \in {entries[s], Nothing}
BY DEF Forgotten, InvokerTypeOK

(* Either the whole tree ends, or it is noted that it could not be ended.  *)
LEMMA AbortEnds ==
    ASSUME TypeOK, Abort
    PROVE  /\ TreeTypeOK'
           /\ immortal' \/ (Gone' /\ immortal' = immortal)
           /\ code' \in {code, "other"}
           /\ primary = "none" => primary' = "none"
BY DEF Abort, Killed, Gone, TypeOK, TreeTypeOK

(* The rows of the sequences have their types.                             *)
LEMMA HandleTyped ==
    ASSUME InstanceTypeOK, NEW i \in DOMAIN made
    PROVE  /\ made[i] \in HandleRows
           /\ made[i].slot \in Slots /\ made[i].candidate \in Outputs
           /\ made[i].epoch \in Nat /\ made[i].generation \in Nat /\ made[i].era \in Nat
<1>1. made[i] \in HandleRows
    BY DEF InstanceTypeOK
<1> QED
    BY <1>1 DEF HandleRows

(* A request is typed.                                                     *)
LEMMA RequestTyped ==
    ASSUME TransportTypeOK, NEW k \in DOMAIN stdin
    PROVE  stdin[k] \in RequestRows /\ stdin[k].id \in Nat
<1>1. stdin[k] \in RequestRows
    BY DEF TransportTypeOK
<1> QED
    BY <1>1 DEF RequestRows

(* A protocol line is typed.                                               *)
LEMMA LineTyped ==
    ASSUME TransportTypeOK, NEW k \in DOMAIN stdout
    PROVE  stdout[k] \in LineRows /\ stdout[k].id \in Nat
<1>1. stdout[k] \in LineRows
    BY DEF TransportTypeOK
<1> QED
    BY <1>1 DEF LineRows

(* One element of a sequence is replaced by another of its set.            *)
LEMMA UpdatedIn ==
    ASSUME NEW S, NEW q \in Seq(S), NEW i \in DOMAIN q, NEW r \in S
    PROVE  /\ [q EXCEPT ![i] = r] \in Seq(S)
           /\ DOMAIN [q EXCEPT ![i] = r] = DOMAIN q
OBVIOUS

(* An appended sequence holds what it held, and the new element.           *)
LEMMA AppendedIn ==
    ASSUME NEW S, NEW q \in Seq(S), NEW r \in S
    PROVE  /\ Append(q, r) \in Seq(S)
           /\ \A i \in DOMAIN Append(q, r) :
                \/ i \in DOMAIN q /\ Append(q, r)[i] = q[i]
                \/ Append(q, r)[i] = r
OBVIOUS

(* The initial states satisfy it.                                          *)
LEMMA InitEstablishes == Init => IndInv
<1> SUFFICES ASSUME Init PROVE IndInv
    OBVIOUS
<1> USE DEF Init
<1>1. InvokerTypeOK
    BY Bounds DEF InvokerTypeOK, Idle, Outcomes
<1>2. InstanceTypeOK
    BY DEF InstanceTypeOK
<1>3. TransportTypeOK /\ TreeTypeOK
  <2>1. stdin \in Seq(RequestRows) /\ stdout \in Seq(LineRows)
    OBVIOUS
  <2>2. strays \in 0..MaxStray
    BY Bounds
  <2> QED
    BY <2>1, <2>2 DEF TransportTypeOK, TreeTypeOK
<1>4. OwnerInv /\ TreeInv /\ CloseIsHonest
    BY DEF OwnerInv, TreeInv, CloseIsHonest, Idle
<1>5. PipeInv /\ EpochInv
    BY DEF PipeInv, EpochInv, Idle
<1>6. AnswerIsItsOwn /\ ReuseIsCurrent
    BY DEF AnswerIsItsOwn, ReuseIsCurrent
<1> QED
    BY <1>1, <1>2, <1>3, <1>4, <1>5, <1>6 DEF IndInv, TypeOK

-----------------------------------------------------------------------------
(* One lemma per step.                                                     *)

(* The in-process adapter makes its instance.                              *)
LEMMA ConstructPythonPreserves ==
    ASSUME IndInv, ConstructPython
    PROVE  IndInv'
<1> USE DEF IndInv, TypeOK, ConstructPython, LoadFails, InitializeFails, Initialized, transport, tree
<1>1. InvokerTypeOK'
    BY Bounds DEF InvokerTypeOK, Idle, Outcomes, Commands
<1>2. InstanceTypeOK'
    BY DEF InstanceTypeOK
<1>3. TransportTypeOK'
    BY Bounds DEF TransportTypeOK
<1>4. TreeTypeOK'
    BY DEF TreeTypeOK
<1>5. OwnerInv'
    BY DEF OwnerInv, Idle, InvokerTypeOK
<1>6. PipeInv'
    BY PipesAtRest DEF InvokerTypeOK, Idle
<1>7. EpochInv'
    BY HandlesAtRest
<1>8. TreeInv'
    BY DEF TreeInv, OwnerInv, Idle, InvokerTypeOK
<1>9. AnswerIsItsOwn'
    BY DEF AnswerIsItsOwn
<1>10. ReuseIsCurrent'
    BY DEF ReuseIsCurrent
<1>11. CloseIsHonest'
    BY DEF CloseIsHonest, OwnerInv, TreeInv, Gone, Idle, InvokerTypeOK
<1> QED
    BY <1>1, <1>2, <1>3, <1>4, <1>5, <1>6, <1>7, <1>8, <1>9, <1>10, <1>11

(* Plain outputs are the ports' to admit; an update may raise.             *)
LEMMA PlainPreserves ==
    ASSUME IndInv, ReturnPlain \/ UpdateRaises
    PROVE  IndInv'
<1> USE DEF IndInv, TypeOK, ReturnPlain, UpdateRaises, Raises, instance, transport, tree
<1>1. InvokerTypeOK'
    BY DEF InvokerTypeOK, Idle, Outcomes, Answered, Commands
<1>2. InstanceTypeOK'
    BY DEF InstanceTypeOK
<1>3. TransportTypeOK'
    BY Bounds DEF TransportTypeOK
<1>4. TreeTypeOK'
    BY DEF TreeTypeOK
<1>5. OwnerInv'
    BY DEF OwnerInv, Idle, Answered
<1>6. PipeInv'
    BY PipesAtRest DEF InvokerTypeOK, Idle, Answered
<1>7. EpochInv'
    BY HandlesAtRest
<1>8. TreeInv'
    BY DEF TreeInv, Idle, Answered
<1>9. AnswerIsItsOwn'
    BY DEF AnswerIsItsOwn, Validated, Answered
<1>10. ReuseIsCurrent'
    BY DEF ReuseIsCurrent, Answered
<1>11. CloseIsHonest'
    BY DEF CloseIsHonest, OwnerInv, Idle, Gone
<1> QED
    BY <1>1, <1>2, <1>3, <1>4, <1>5, <1>6, <1>7, <1>8, <1>9, <1>10, <1>11

(* A new handle is of the current epoch and era.                           *)
LEMMA RegisterPreserves ==
    ASSUME IndInv, RegisterOutputs
    PROVE  IndInv'
<1> USE DEF IndInv, TypeOK, RegisterOutputs, Register, invoker, transport, tree
<1>1. InvokerTypeOK'
    BY Bounds DEF InvokerTypeOK, Idle, Outcomes, Commands
<1>2. InstanceTypeOK'
  <2>1. PICK s \in Slots, v \in Outputs : Register(s, v)
    OBVIOUS
  <2>2. [slot |-> s, epoch |-> epoch, generation |-> generation[s] + 1,
         candidate |-> v, registered |-> FALSE, era |-> eras] \in HandleRows
    BY DEF InstanceTypeOK, HandleRows
  <2>3. made' \in Seq(HandleRows)
    BY <2>1, <2>2 DEF InstanceTypeOK
  <2> QED
    BY <2>1, <2>3 DEF InstanceTypeOK
<1>3. TransportTypeOK'
    BY Bounds DEF TransportTypeOK
<1>4. TreeTypeOK'
    BY DEF TreeTypeOK
<1>5. OwnerInv'
    BY DEF OwnerInv, Idle, InvokerTypeOK
<1>6. PipeInv'
    BY PipesAtRest DEF InvokerTypeOK, Idle
<1>7. EpochInv'
  <2>1. PICK s \in Slots, v \in Outputs : Register(s, v)
    OBVIOUS
  <2>2. \A i \in DOMAIN made' :
          \/ i \in DOMAIN made /\ made'[i] = made[i]
          \/ made'[i].epoch = epoch /\ made'[i].era = eras
    <3> DEFINE row == [slot |-> s, epoch |-> epoch, generation |-> generation[s] + 1,
                       candidate |-> v, registered |-> FALSE, era |-> eras]
    <3>1. row.epoch = epoch /\ row.era = eras
      OBVIOUS
    <3>2. made' = Append(made, row)
      BY <2>1
    <3>3. row \in HandleRows
      BY DEF InstanceTypeOK, HandleRows
    <3>4. made \in Seq(HandleRows)
      BY DEF InstanceTypeOK
    <3> HIDE DEF row
    <3> QED
      BY <3>1, <3>2, <3>3, <3>4, AppendedIn
  <2>3. epoch' = epoch /\ eras' = eras /\ entries' = entries /\ epoch <= epoch
    BY <2>1 DEF InstanceTypeOK
  <2> QED
    BY <2>2, <2>3 DEF EpochInv
<1>8. TreeInv'
    BY DEF TreeInv, OwnerInv, Idle, InvokerTypeOK
<1>9. AnswerIsItsOwn'
    BY DEF AnswerIsItsOwn
<1>10. ReuseIsCurrent'
    BY DEF ReuseIsCurrent
<1>11. CloseIsHonest'
    BY DEF CloseIsHonest, OwnerInv, TreeInv, Gone, Idle, InvokerTypeOK
<1> QED
    BY <1>1, <1>2, <1>3, <1>4, <1>5, <1>6, <1>7, <1>8, <1>9, <1>10, <1>11

(* The Module writes to outputs it registered.                             *)
LEMMA RewritePreserves ==
    ASSUME IndInv, Rewrite
    PROVE  IndInv'
<1> USE DEF IndInv, TypeOK, Rewrite, invoker, transport, tree
<1>1. InvokerTypeOK'
    BY Bounds DEF InvokerTypeOK, Idle, Outcomes, Commands
<1>2. InstanceTypeOK'
  <2>1. PICK i \in DOMAIN made, v \in Outputs : made' = [made EXCEPT ![i].candidate = v]
    OBVIOUS
  <2>2. [made[i] EXCEPT !.candidate = v] \in HandleRows
    BY HandleTyped DEF HandleRows
  <2>3. made' \in Seq(HandleRows)
    BY <2>1, <2>2, UpdatedIn DEF InstanceTypeOK
  <2> QED
    BY <2>3 DEF InstanceTypeOK
<1>3. TransportTypeOK'
    BY Bounds DEF TransportTypeOK
<1>4. TreeTypeOK'
    BY DEF TreeTypeOK
<1>5. OwnerInv'
    BY DEF OwnerInv, Idle, InvokerTypeOK
<1>6. PipeInv'
    BY PipesAtRest DEF InvokerTypeOK, Idle
<1>7. EpochInv'
  <2>1. PICK i \in DOMAIN made, v \in Outputs : made' = [made EXCEPT ![i].candidate = v]
    OBVIOUS
  <2>2. \A j \in DOMAIN made : made[j] \in HandleRows
    BY HandleTyped
  <2>3. \A j \in DOMAIN made' : /\ j \in DOMAIN made
                               /\ made'[j].epoch = made[j].epoch
                               /\ made'[j].era = made[j].era
    BY <2>1, <2>2 DEF HandleRows
  <2> QED
    BY <2>3 DEF EpochInv
<1>8. TreeInv'
    BY DEF TreeInv, OwnerInv, Idle, InvokerTypeOK
<1>9. AnswerIsItsOwn'
    BY DEF AnswerIsItsOwn
<1>10. ReuseIsCurrent'
    BY DEF ReuseIsCurrent
<1>11. CloseIsHonest'
    BY DEF CloseIsHonest, OwnerInv, TreeInv, Gone, Idle, InvokerTypeOK
<1> QED
    BY <1>1, <1>2, <1>3, <1>4, <1>5, <1>6, <1>7, <1>8, <1>9, <1>10, <1>11

(* A handle is answered from its entry, or validated and entered.          *)
LEMMA HandlePreserves ==
    ASSUME IndInv, ReturnHandle
    PROVE  IndInv'
<1> USE DEF IndInv, TypeOK, ReturnHandle, transport, tree
<1>1. InvokerTypeOK'
  <2> USE DEF Present, Raises, Answered, Entry, InvokerTypeOK, Idle, Outcomes, Commands
  <2>1. \A j \in DOMAIN made : made[j] \in HandleRows
    BY DEF InstanceTypeOK
  <2>2. entries' \in [Slots -> {Nothing} \cup EntryRows]
    BY <2>1 DEF HandleRows, EntryRows, Validated
  <2> QED
    BY <2>2
<1>2. InstanceTypeOK'
  <2>1. CASE made' = made
    BY <2>1 DEF InstanceTypeOK
  <2>2. ASSUME NEW i \in DOMAIN made, made' = [made EXCEPT ![i].registered = TRUE]
        PROVE  InstanceTypeOK'
    <3>1. [made[i] EXCEPT !.registered = TRUE] \in HandleRows
      BY HandleTyped DEF HandleRows
    <3>2. made' \in Seq(HandleRows)
      BY <2>2, <3>1, UpdatedIn DEF InstanceTypeOK
    <3> QED
      BY <3>2 DEF InstanceTypeOK
  <2> QED
    BY <2>1, <2>2 DEF Present
<1>3. TransportTypeOK'
    BY Bounds DEF TransportTypeOK
<1>4. TreeTypeOK'
    BY DEF TreeTypeOK
<1>5. OwnerInv'
    BY DEF OwnerInv, Idle, Present, Answered, Raises
<1>6. PipeInv'
    BY PipesAtRest DEF InvokerTypeOK, Idle, Present, Answered, Raises
<1>7. EpochInv'
  <2>1. PICK i \in DOMAIN made : IF Active(i) THEN Present(i)
                                ELSE Raises /\ UNCHANGED <<entries, made>>
    OBVIOUS
  <2>2. \A j \in DOMAIN made : made[j] \in HandleRows
    BY HandleTyped
  <2>3. \A j \in DOMAIN made' : /\ j \in DOMAIN made
                               /\ made'[j].epoch = made[j].epoch
                               /\ made'[j].era = made[j].era
    BY <2>1, <2>2 DEF HandleRows, Present
  <2>4. \A s \in Slots :
          \/ entries'[s] \in {entries[s], Nothing}
          \/ entries'[s].epoch = epoch /\ entries'[s].era = eras
    <3>1. \/ entries' = entries
          \/ Active(i) /\ entries' = [entries EXCEPT ![made[i].slot] = Entry(i)]
          \/ entries' = [entries EXCEPT ![made[i].slot] = Nothing]
      BY <2>1 DEF Present
    <3>2. Active(i) => Entry(i).epoch = epoch /\ Entry(i).era = eras
      BY DEF Active, Entry, EpochInv
    <3>3. entries \in [Slots -> {Nothing} \cup EntryRows]
      BY DEF InvokerTypeOK
    <3>4. CASE entries' = entries
      BY <3>4
    <3>5. CASE Active(i) /\ entries' = [entries EXCEPT ![made[i].slot] = Entry(i)]
      BY <3>2, <3>3, <3>5
    <3>6. CASE entries' = [entries EXCEPT ![made[i].slot] = Nothing]
      BY <3>3, <3>6
    <3> QED
      BY <3>1, <3>4, <3>5, <3>6
  <2>5. epoch' = epoch /\ eras' = eras /\ epoch <= epoch
    BY DEF InstanceTypeOK
  <2> QED
    BY <2>3, <2>4, <2>5 DEF EpochInv
<1>8. TreeInv'
    BY DEF TreeInv, Idle, Present, Answered, Raises
<1>9. AnswerIsItsOwn'
  <2>1. PICK i \in DOMAIN made : IF Active(i) THEN Present(i)
                                ELSE Raises /\ UNCHANGED <<entries, made>>
    OBVIOUS
  <2>2. made[i].slot \in Slots
    BY HandleTyped
  <2>3. Resolves(i) => entries[made[i].slot].value \in Good
    BY <2>2 DEF Resolves, InvokerTypeOK, EntryRows
  <2> QED
    BY <2>1, <2>3 DEF AnswerIsItsOwn, Present, Answered, Raises, Validated
<1>10. ReuseIsCurrent'
  <2>1. PICK i \in DOMAIN made : IF Active(i) THEN Present(i)
                                ELSE Raises /\ UNCHANGED <<entries, made>>
    OBVIOUS
  <2>2. made[i].slot \in Slots
    BY HandleTyped
  <2>3. Active(i) => made[i].era = eras
    BY DEF EpochInv, Active
  <2>4. Active(i) /\ Resolves(i) => entries[made[i].slot].era = eras
    BY <2>2 DEF Resolves, EpochInv, Active
  <2> QED
    BY <2>1, <2>3, <2>4 DEF ReuseIsCurrent, Present, Answered, Raises
<1>11. CloseIsHonest'
    BY DEF CloseIsHonest, OwnerInv, Idle, Gone
<1> QED
    BY <1>1, <1>2, <1>3, <1>4, <1>5, <1>6, <1>7, <1>8, <1>9, <1>10, <1>11

(* snapshot, restore, finalize and close of an instance in process.        *)
LEMMA CallPythonPreserves ==
    ASSUME IndInv, CallPython
    PROVE  IndInv'
<1> USE DEF IndInv, TypeOK, CallPython, transport, tree
<1>1. InvokerTypeOK'
    BY ForgottenShrinks DEF InvokerTypeOK, Idle, Outcomes, Commands, LifeAfter
<1>2. InstanceTypeOK'
    BY
      DEF InstanceTypeOK, Handle, SdkRestore, SdkFinalize, SdkClose, SdkSnapshot, Invalidate, instance
<1>3. TransportTypeOK'
    BY Bounds DEF TransportTypeOK
<1>4. TreeTypeOK'
    BY DEF TreeTypeOK
<1>5. OwnerInv'
    BY DEF OwnerInv, Idle, LifeAfter
<1>6. PipeInv'
    BY PipesAtRest DEF InvokerTypeOK, Idle
<1>7. EpochInv'
  <2>1. CASE op.cmd = "snapshot"
    BY <2>1, HandlesAtRest, ForgottenShrinks DEF Handle, SdkSnapshot, instance
  <2>2. CASE op.cmd # "snapshot"
    <3>1. epoch' = epoch + 1 /\ made' = made /\ entries' = [s \in Slots |-> Nothing]
      BY <2>2 DEF Handle, SdkRestore, SdkFinalize, SdkClose, Invalidate, Forgotten
    <3>2. \A i \in DOMAIN made : made[i].epoch \in Nat
      BY HandleTyped
    <3> QED
      BY <3>1, <3>2 DEF EpochInv, InstanceTypeOK
  <2> QED
    BY <2>1, <2>2
<1>8. TreeInv'
    BY DEF TreeInv, Idle
<1>9. AnswerIsItsOwn'
    BY DEF AnswerIsItsOwn
<1>10. ReuseIsCurrent'
    BY DEF ReuseIsCurrent
<1>11. CloseIsHonest'
    BY
      DEF CloseIsHonest, OwnerInv, Idle, Gone, LifeAfter, Handle, SdkClose, InvokerTypeOK
<1> QED
    BY <1>1, <1>2, <1>3, <1>4, <1>5, <1>6, <1>7, <1>8, <1>9, <1>10, <1>11

(* The process adapter starts the tree and asks it to initialize.          *)
LEMMA ConstructProcessPreserves ==
    ASSUME IndInv, ConstructProcess
    PROVE  IndInv'
<1> USE DEF IndInv, TypeOK, ConstructProcess, instance
<1>1. InvokerTypeOK'
    BY Bounds DEF InvokerTypeOK, Idle, Outcomes, Commands
<1>2. InstanceTypeOK'
    BY DEF InstanceTypeOK
<1>3. TransportTypeOK'
  <2>1. [id |-> 1, cmd |-> "initialize"] \in RequestRows
    BY DEF RequestRows, Commands
  <2> QED
    BY <2>1 DEF TransportTypeOK
<1>4. TreeTypeOK'
    BY DEF TreeTypeOK
<1>5. OwnerInv'
    BY DEF OwnerInv, Idle, InvokerTypeOK
<1>6. PipeInv'
  <2> DEFINE first == [id |-> 1, cmd |-> "initialize"]
  <2>1. /\ \A k \in DOMAIN stdin' : k = Len(stdin') /\ stdin'[k] = first
        /\ first.id = 1 /\ first.cmd = "initialize"
    OBVIOUS
  <2>2. \A k \in DOMAIN stdout : stdout[k].id \in Nat /\ stdout[k].id <= 0
    BY LineTyped DEF PipeInv, OwnerInv
  <2>3. \A k \in DOMAIN stdin' : stdin'[k].id = 1 /\ stdin'[k].cmd = "initialize"
    BY <2>1
  <2> QED
    BY <2>1, <2>2, <2>3 DEF PipeInv
<1>7. EpochInv'
    BY HandlesAtRest
<1>8. TreeInv'
    BY DEF TreeInv, OwnerInv, Idle, InvokerTypeOK
<1>9. AnswerIsItsOwn'
    BY DEF AnswerIsItsOwn
<1>10. ReuseIsCurrent'
    BY DEF ReuseIsCurrent
<1>11. CloseIsHonest'
    BY DEF CloseIsHonest, OwnerInv, TreeInv, Gone, Idle, InvokerTypeOK
<1> QED
    BY <1>1, <1>2, <1>3, <1>4, <1>5, <1>6, <1>7, <1>8, <1>9, <1>10, <1>11

(* The owner calls, in process or over the pipe.                           *)
LEMMA CallPreserves ==
    ASSUME IndInv, NEW cmd \in Commands, Call(cmd)
    PROVE  IndInv'
<1> USE DEF IndInv, TypeOK, Call, instance, tree
<1>1. InvokerTypeOK'
    BY Bounds, ForgottenShrinks
      DEF InvokerTypeOK, Idle, Outcomes, Ask, TransportTypeOK
<1>2. InstanceTypeOK'
    BY DEF InstanceTypeOK
<1>3. TransportTypeOK'
  <2>1. [id |-> sequence + 1, cmd |-> cmd] \in RequestRows
    BY DEF RequestRows, TransportTypeOK
  <2>2. \/ UNCHANGED <<sequence, stdin>>
        \/ /\ sequence' = sequence + 1
           /\ stdin' = Append(stdin, [id |-> sequence + 1, cmd |-> cmd])
    BY DEF Ask
  <2>3. stdin' \in Seq(RequestRows) /\ sequence' \in Nat
    <3> DEFINE request == [id |-> sequence + 1, cmd |-> cmd]
    <3>1. request \in RequestRows /\ stdin \in Seq(RequestRows) /\ sequence \in Nat
      BY <2>1 DEF TransportTypeOK
    <3>2. \/ stdin' = stdin /\ sequence' = sequence
          \/ stdin' = Append(stdin, request) /\ sequence' = sequence + 1
      BY <2>2
    <3> HIDE DEF request
    <3> QED
      BY <3>1, <3>2, AppendedIn
  <2> QED
    BY <2>3 DEF TransportTypeOK
<1>4. TreeTypeOK'
    BY DEF TreeTypeOK
<1>5. OwnerInv'
    BY DEF OwnerInv, InvokerTypeOK, Ask, Idle
<1>6. PipeInv'
  <2>1. CASE mode = "python" \/ supervisor = "exited"
    BY <2>1, PipesAtRest DEF InvokerTypeOK, Ask, Idle
  <2>2. CASE mode = "process" /\ supervisor # "exited"
    <3>1. /\ sequence' = sequence + 1 /\ sequence \in Nat
          /\ op'.id = sequence + 1 /\ op'.cmd = cmd
          /\ stdin' = Append(stdin, [id |-> sequence + 1, cmd |-> cmd])
      BY <2>2 DEF Ask, TransportTypeOK
    <3>2. Len(stdin') = Len(stdin) + 1 /\ Len(stdin) \in Nat
      BY <3>1 DEF TransportTypeOK
    <3>3. \A k \in DOMAIN stdin' :
            \/ k \in DOMAIN stdin /\ stdin'[k] = stdin[k]
            \/ k = Len(stdin') /\ stdin'[k] = [id |-> sequence + 1, cmd |-> cmd]
      BY <3>1 DEF TransportTypeOK
    <3>4. \A k \in DOMAIN stdin : stdin[k].id \in Nat /\ stdin[k].id <= sequence
      BY RequestTyped DEF PipeInv
    <3>5. \A k \in DOMAIN stdout : stdout[k].id \in Nat /\ stdout[k].id <= sequence
      BY LineTyped DEF PipeInv
    <3> QED
      BY <2>2, <3>1, <3>2, <3>3, <3>4, <3>5 DEF PipeInv
  <2> QED
    BY <2>1, <2>2 DEF InvokerTypeOK
<1>7. EpochInv'
    BY HandlesAtRest, ForgottenShrinks
<1>8. TreeInv'
    BY DEF TreeInv, Ask, Idle
<1>9. AnswerIsItsOwn'
    BY DEF AnswerIsItsOwn
<1>10. ReuseIsCurrent'
    BY DEF ReuseIsCurrent
<1>11. CloseIsHonest'
    BY DEF CloseIsHonest, OwnerInv, TreeInv, Gone, Idle, InvokerTypeOK
<1> QED
    BY <1>1, <1>2, <1>3, <1>4, <1>5, <1>6, <1>7, <1>8, <1>9, <1>10, <1>11

(* The Module serves the oldest request with one line.                     *)
LEMMA ServePreserves ==
    ASSUME IndInv, Serve
    PROVE  IndInv'
<1> USE DEF IndInv, TypeOK, Serve, invoker
<1>1. InvokerTypeOK'
    BY Bounds DEF InvokerTypeOK, Idle, Outcomes, Commands
<1>2. InstanceTypeOK'
  <2>1. PICK ok \in BOOLEAN : Handle(Head(stdin).cmd, ok)
    OBVIOUS
  <2>2. made' = made /\ eras' \in {eras, eras + 1} /\ epoch' \in {epoch, epoch + 1}
    BY <2>1 DEF Handle, SdkRestore, SdkFinalize, SdkClose, SdkSnapshot, Invalidate, instance
  <2>3. sdk' \in {sdk, "ready", "finalized", "closed"}
    BY <2>1 DEF Handle, SdkRestore, SdkFinalize, SdkClose, SdkSnapshot, instance
  <2>4. \/ generation' = generation /\ handles' = handles
        \/ generation' = [s \in Slots |-> 0] /\ handles' = [s \in Slots |-> 0]
    BY <2>1 DEF Handle, SdkRestore, SdkFinalize, SdkClose, SdkSnapshot, Invalidate, instance
  <2>5. InstanceTypeOK
    OBVIOUS
  <2>6. sdk' \in {"new", "ready", "finalized", "closed"} /\ epoch' \in Nat /\ eras' \in Nat
    BY <2>2, <2>3, <2>5 DEF InstanceTypeOK
  <2>7. generation' \in [Slots -> Nat] /\ handles' \in [Slots -> Nat]
    BY <2>4, <2>5 DEF InstanceTypeOK
  <2>8. made' \in Seq(HandleRows)
    BY <2>2, <2>5 DEF InstanceTypeOK
  <2> QED
    BY <2>6, <2>7, <2>8 DEF InstanceTypeOK
<1>3. TransportTypeOK'
  <2>1. Head(stdin) \in RequestRows /\ Tail(stdin) \in Seq(RequestRows)
    BY DEF TransportTypeOK
  <2>2. ASSUME NEW ok \in BOOLEAN, NEW v \in Outputs
        PROVE  [id |-> Head(stdin).id, ok |-> ok, by |-> Head(stdin).id, value |-> v,
                era |-> eras] \in LineRows
    BY <2>1 DEF RequestRows, LineRows, InstanceTypeOK
  <2> QED
    BY <2>1, <2>2 DEF TransportTypeOK
<1>4. TreeTypeOK'
    BY DEF TreeTypeOK
<1>5. OwnerInv'
    BY DEF OwnerInv, Idle, InvokerTypeOK
<1>6. PipeInv'
  <2>1. mode = "process" /\ stdin # <<>>
    BY DEF TreeInv, InvokerTypeOK
  <2>2. PICK v \in Outputs, ok \in BOOLEAN :
          /\ Handle(Head(stdin).cmd, ok)
          /\ stdout' = Append(stdout, [id |-> Head(stdin).id, ok |-> ok,
                                       by |-> Head(stdin).id, value |-> v,
                                       era |-> eras])
    OBVIOUS
  <2>3. /\ Head(stdin) = stdin[1] /\ 1 \in DOMAIN stdin /\ Len(stdin) \in Nat
        /\ stdin[1].id \in Nat
    <3>1. Head(stdin) = stdin[1] /\ 1 \in DOMAIN stdin /\ Len(stdin) \in Nat
      BY <2>1 DEF TransportTypeOK
    <3> QED
      BY <3>1, RequestTyped
  <2>4. /\ Len(stdin') = Len(stdin) - 1
        /\ \A k \in DOMAIN stdin' :
            k \in Nat /\ k + 1 \in DOMAIN stdin /\ stdin'[k] = stdin[k + 1]
    <3>1. stdin' = Tail(stdin) /\ stdin \in Seq(RequestRows)
      BY DEF TransportTypeOK
    <3> QED
      BY <2>1, <3>1
  <2>5. stdin[1].id = sequence => stdin' = <<>>
    <3>1. stdin[1].id = sequence => Len(stdin') = 0
      BY <2>3, <2>4 DEF PipeInv
    <3>2. stdin' \in Seq(RequestRows)
      BY <2>1 DEF TransportTypeOK
    <3> QED
      BY <3>1, <3>2
  <2>6. stdin[1].cmd = "invoke" => eras' = eras
    BY <2>2, <2>3 DEF Handle, SdkSnapshot, instance
  <2>7. \A k \in DOMAIN stdout' :
          \/ k \in DOMAIN stdout /\ stdout'[k] = stdout[k]
          \/ /\ stdout'[k].id = stdin[1].id /\ stdout'[k].by = stdin[1].id
             /\ stdout'[k].era = eras
    BY <2>2, <2>3 DEF TransportTypeOK
  <2>8. \A k \in DOMAIN stdin' :
          /\ stdin'[k].id <= sequence
          /\ stdin'[k].id = sequence => k = Len(stdin')
          /\ op.at = "asked" /\ stdin'[k].id = sequence => stdin'[k].cmd = op.cmd
    BY <2>1, <2>3, <2>4 DEF PipeInv
  <2>9. \A k \in DOMAIN stdout' :
        /\ stdout'[k].by = stdout'[k].id /\ stdout'[k].id <= sequence
        /\ stdout'[k].id # Garbage /\ stdout'[k].id = sequence =>
            /\ stdin' = <<>>
            /\ op.at = "asked" /\ op.cmd = "invoke" => stdout'[k].era = eras'
    BY <2>1, <2>3, <2>5, <2>6, <2>7 DEF PipeInv
  <2> QED
    BY <2>1, <2>8, <2>9 DEF PipeInv
<1>7. EpochInv'
  <2>1. \/ epoch' = epoch /\ made' = made /\ eras' = eras /\ entries' = entries
        \/ epoch' = epoch + 1 /\ made' = made /\ entries' = entries
    BY
      DEF Handle, SdkRestore, SdkFinalize, SdkClose, SdkSnapshot, Invalidate, instance
  <2>2. \A i \in DOMAIN made : made[i].epoch \in Nat
    BY HandleTyped
  <2>3. \A s \in Slots : entries[s] # Nothing => entries[s].epoch \in Nat
    BY DEF InvokerTypeOK, EntryRows
  <2> QED
    BY <2>1, <2>2, <2>3 DEF EpochInv, InstanceTypeOK
<1>8. TreeInv'
    BY DEF TreeInv, InvokerTypeOK
<1>9. AnswerIsItsOwn'
    BY DEF AnswerIsItsOwn
<1>10. ReuseIsCurrent'
    BY DEF ReuseIsCurrent
<1>11. CloseIsHonest'
    BY DEF CloseIsHonest, Gone, TreeInv, InvokerTypeOK
<1> QED
    BY <1>1, <1>2, <1>3, <1>4, <1>5, <1>6, <1>7, <1>8, <1>9, <1>10, <1>11

(* A line that answers nothing has no request id.                          *)
LEMMA PrintPreserves ==
    ASSUME IndInv, PrintLine
    PROVE  IndInv'
<1> USE DEF IndInv, TypeOK, PrintLine, invoker, instance, tree
<1>1. InvokerTypeOK'
    BY Bounds DEF InvokerTypeOK, Idle, Outcomes, Commands
<1>2. InstanceTypeOK'
    BY DEF InstanceTypeOK
<1>3. TransportTypeOK'
    BY Bounds DEF TransportTypeOK, LineRows, Garbage, Outputs
<1>4. TreeTypeOK'
    BY DEF TreeTypeOK
<1>5. OwnerInv'
    BY DEF OwnerInv, Idle, InvokerTypeOK
<1>6. PipeInv'
  <2>1. \A k \in DOMAIN stdout' :
          \/ k \in DOMAIN stdout /\ stdout'[k] = stdout[k]
          \/ stdout'[k].id = Garbage /\ stdout'[k].by = Garbage
    BY DEF TransportTypeOK, Garbage
  <2>2. \A k \in DOMAIN stdout' :
        /\ stdout'[k].by = stdout'[k].id /\ stdout'[k].id <= sequence
        /\ stdout'[k].id # Garbage /\ stdout'[k].id = sequence =>
            /\ stdin = <<>>
            /\ op.at = "asked" /\ op.cmd = "invoke" /\ mode = "process" =>
                stdout'[k].era = eras
    BY <2>1 DEF PipeInv, Garbage, TransportTypeOK
  <2> QED
    BY <2>2 DEF PipeInv
<1>7. EpochInv'
    BY HandlesAtRest
<1>8. TreeInv'
    BY DEF TreeInv, OwnerInv, Idle, InvokerTypeOK
<1>9. AnswerIsItsOwn'
    BY DEF AnswerIsItsOwn
<1>10. ReuseIsCurrent'
    BY DEF ReuseIsCurrent
<1>11. CloseIsHonest'
    BY DEF CloseIsHonest, OwnerInv, TreeInv, Gone, Idle, InvokerTypeOK
<1> QED
    BY <1>1, <1>2, <1>3, <1>4, <1>5, <1>6, <1>7, <1>8, <1>9, <1>10, <1>11

(* Processes of the tree end.                                              *)
LEMMA ExitPreserves ==
    ASSUME IndInv, PrimaryExits \/ HelperExits \/ SupervisorExits
    PROVE  IndInv'
<1> USE DEF IndInv, TypeOK, PrimaryExits, HelperExits, SupervisorExits, ExitCode, invoker, instance, transport
<1>1. InvokerTypeOK'
    BY Bounds DEF InvokerTypeOK, Idle, Outcomes, Commands
<1>2. InstanceTypeOK'
    BY DEF InstanceTypeOK
<1>3. TransportTypeOK'
    BY Bounds DEF TransportTypeOK
<1>4. TreeTypeOK'
    BY DEF TreeTypeOK
<1>5. OwnerInv'
    BY DEF OwnerInv, Idle, InvokerTypeOK
<1>6. PipeInv'
    BY PipesAtRest DEF InvokerTypeOK, Idle
<1>7. EpochInv'
    BY HandlesAtRest
<1>8. TreeInv'
    BY DEF TreeInv, TreeTypeOK
<1>9. AnswerIsItsOwn'
    BY DEF AnswerIsItsOwn
<1>10. ReuseIsCurrent'
    BY DEF ReuseIsCurrent
<1>11. CloseIsHonest'
    BY DEF CloseIsHonest, OwnerInv, TreeInv, Gone, Idle, InvokerTypeOK
<1> QED
    BY <1>1, <1>2, <1>3, <1>4, <1>5, <1>6, <1>7, <1>8, <1>9, <1>10, <1>11

(* The transport fails: the tree is aborted and the call raises.           *)
LEMMA TransportFailsPreserves ==
    ASSUME IndInv, TransportFails
    PROVE  IndInv'
<1> USE DEF IndInv, TypeOK, TransportFails, Fails, instance, transport
<1>1. InvokerTypeOK'
    BY ForgottenShrinks DEF InvokerTypeOK, Idle, Outcomes, Commands
<1>2. InstanceTypeOK'
    BY DEF InstanceTypeOK
<1>3. TransportTypeOK'
    BY Bounds DEF TransportTypeOK
<1>4. TreeTypeOK'
    BY AbortEnds
<1>5. OwnerInv'
    BY AbortEnds DEF OwnerInv, Idle
<1>6. PipeInv'
    BY PipesAtRest DEF InvokerTypeOK, Idle
<1>7. EpochInv'
    BY HandlesAtRest, ForgottenShrinks
<1>8. TreeInv'
    BY AbortEnds DEF TreeInv, InvokerTypeOK
<1>9. AnswerIsItsOwn'
    BY DEF AnswerIsItsOwn
<1>10. ReuseIsCurrent'
    BY DEF ReuseIsCurrent
<1>11. CloseIsHonest'
    BY AbortEnds DEF CloseIsHonest, OwnerInv, Idle, InvokerTypeOK
<1> QED
    BY <1>1, <1>2, <1>3, <1>4, <1>5, <1>6, <1>7, <1>8, <1>9, <1>10, <1>11

(* The next line is the answer to the call in progress, or the call raises. *)
LEMMA ReadPreserves ==
    ASSUME IndInv, ReadResponse
    PROVE  IndInv'
<1> USE DEF IndInv, TypeOK, ReadResponse
<1>1. InvokerTypeOK'
    BY ForgottenShrinks
      DEF InvokerTypeOK, Idle, Outcomes, Commands, Fails, Answered, Raises
<1>2. InstanceTypeOK'
    BY DEF InstanceTypeOK, instance
<1>3. TransportTypeOK'
    BY DEF TransportTypeOK
<1>4. TreeTypeOK'
    BY AbortEnds DEF TreeTypeOK, tree
<1>5. OwnerInv'
    BY AbortEnds DEF OwnerInv, Idle, Fails, tree, Answered, Raises
<1>6. PipeInv'
  <2>1. \A k \in DOMAIN stdout' : k + 1 \in DOMAIN stdout /\ stdout'[k] = stdout[k + 1]
    BY DEF TransportTypeOK
  <2>2. op'.at # "asked"
    BY DEF Fails, Answered, Raises, Idle, InvokerTypeOK
  <2> QED
    BY <2>1, <2>2 DEF PipeInv, instance
<1>7. EpochInv'
    BY HandlesAtRest, ForgottenShrinks DEF instance, Fails
<1>8. TreeInv'
    BY AbortEnds DEF TreeInv, InvokerTypeOK, tree, instance
<1>9. AnswerIsItsOwn'
  <2>1. Head(stdout) = stdout[1] /\ 1 \in DOMAIN stdout
    BY DEF TransportTypeOK
  <2>2. Accepts(Head(stdout)) => Head(stdout).by = op.id
    BY <2>1 DEF Accepts, PipeInv
  <2> QED
    BY <2>2 DEF AnswerIsItsOwn, Fails, Answered, Raises, Validated
<1>10. ReuseIsCurrent'
  <2>1. Head(stdout) = stdout[1] /\ 1 \in DOMAIN stdout
    BY DEF TransportTypeOK
  <2>2. Accepts(Head(stdout)) /\ op.cmd = "invoke" => Head(stdout).era = eras
    BY <2>1 DEF Accepts, Decodes, PipeInv
  <2> QED
    BY <2>2 DEF ReuseIsCurrent, Fails, Answered, Raises
<1>11. CloseIsHonest'
    BY AbortEnds DEF CloseIsHonest, OwnerInv, Idle, Fails, InvokerTypeOK
<1> QED
    BY <1>1, <1>2, <1>3, <1>4, <1>5, <1>6, <1>7, <1>8, <1>9, <1>10, <1>11

(* The tree leaves by itself or is killed, and close says which.           *)
LEMMA ShutDownPreserves ==
    ASSUME IndInv, ShutDown
    PROVE  IndInv'
<1> USE DEF IndInv, TypeOK, ShutDown, instance, transport
<1>1. InvokerTypeOK'
    BY ForgottenShrinks DEF InvokerTypeOK, Idle, Outcomes, Commands, Report
<1>2. InstanceTypeOK'
    BY DEF InstanceTypeOK
<1>3. TransportTypeOK'
    BY Bounds DEF TransportTypeOK
<1>4. TreeTypeOK'
    BY AbortEnds DEF TreeTypeOK, tree
<1>5. OwnerInv'
    BY DEF OwnerInv, Idle
<1>6. PipeInv'
    BY PipesAtRest DEF InvokerTypeOK, Idle
<1>7. EpochInv'
    BY HandlesAtRest, ForgottenShrinks
<1>8. TreeInv'
    BY AbortEnds DEF TreeInv, InvokerTypeOK, tree, Idle
<1>9. AnswerIsItsOwn'
    BY DEF AnswerIsItsOwn
<1>10. ReuseIsCurrent'
    BY DEF ReuseIsCurrent
<1>11. CloseIsHonest'
    BY AbortEnds DEF CloseIsHonest, TreeInv, Gone, tree, Report
<1> QED
    BY <1>1, <1>2, <1>3, <1>4, <1>5, <1>6, <1>7, <1>8, <1>9, <1>10, <1>11

-----------------------------------------------------------------------------
(* The theorems.                                                           *)

(* A step that changes nothing keeps the invariant.                        *)
LEMMA StutterPreserves == IndInv /\ UNCHANGED vars => IndInv'
BY DEF IndInv, TypeOK, InvokerTypeOK, InstanceTypeOK, TransportTypeOK, TreeTypeOK,
    OwnerInv, PipeInv, EpochInv, TreeInv, AnswerIsItsOwn, ReuseIsCurrent,
    CloseIsHonest, Gone, vars, invoker, instance, transport, tree

(* Every behaviour of the invoker, its adapter, the Module and the tree    *)
(* keeps IndInv, TypeOK included.                                          *)
THEOREM SessionInductive == Spec => []IndInv
<1>1. Init => IndInv
    BY InitEstablishes
<1>2. IndInv /\ [Next]_vars => IndInv'
  <2> SUFFICES ASSUME IndInv, [Next]_vars PROVE IndInv'
    OBVIOUS
  <2>1. CASE Owner
    <3>1. \E cmd \in Commands : Call(cmd)
      BY <2>1 DEF Owner, Invoke, Snapshot, Restore, Finalize, Close, Commands
    <3> QED
      BY <3>1, CallPreserves
  <2>2. CASE Adapter
    BY <2>2, ConstructPythonPreserves, PlainPreserves, HandlePreserves,
       CallPythonPreserves, ConstructProcessPreserves, TransportFailsPreserves,
       ReadPreserves, ShutDownPreserves DEF Adapter
  <2>3. CASE RegisterOutputs \/ Rewrite
    BY <2>3, RegisterPreserves, RewritePreserves
  <2>4. CASE Serve \/ PrintLine
    BY <2>4, ServePreserves, PrintPreserves
  <2>5. CASE PrimaryExits \/ HelperExits \/ SupervisorExits
    BY <2>5, ExitPreserves
  <2>6. CASE UNCHANGED vars
    BY <2>6, StutterPreserves
  <2> QED
    BY <2>1, <2>2, <2>3, <2>4, <2>5, <2>6 DEF Next
<1> QED
    BY <1>1, <1>2, PTL DEF Spec

(* An invocation is answered with outputs computed for it and admitted by  *)
(* its ports (ModuleInvoker.invoke, _request, _invoke_isolated).           *)
THEOREM AnswersAreTheirOwn == Spec => []AnswerIsItsOwn
<1>1. IndInv => AnswerIsItsOwn
    BY DEF IndInv
<1> QED
    BY <1>1, SessionInductive, PTL

(* Outputs handed out again were made since the last restore               *)
(* (ReusableOutputOwner.resolve, _invalidate_reusable_outputs).            *)
THEOREM ReusedIsCurrent == Spec => []ReuseIsCurrent
<1>1. IndInv => ReuseIsCurrent
    BY DEF IndInv
<1> QED
    BY <1>1, SessionInductive, PTL

(* A close that reports success ended the instance and its whole tree      *)
(* (close, _shutdown_process, terminate_process_tree).                     *)
THEOREM ClosesAreHonest == Spec => []CloseIsHonest
<1>1. IndInv => CloseIsHonest
    BY DEF IndInv
<1> QED
    BY <1>1, SessionInductive, PTL

-----------------------------------------------------------------------------
(* Induction over the natural numbers, with a set in the place of a        *)
(* predicate.                                                              *)
Below == {p \in Nat \X Nat : p[1] < p[2]}

LEMMA BelowIsWellFounded == IsWellFoundedOn(Below, Nat)
<1>1. OpToRel(<, Nat) = Below
    BY DEF OpToRel, Below
<1> QED
    BY <1>1, NatLessThanWellFounded

LEMMA SetInduction ==
    ASSUME NEW S, 0 \in S, \A n \in Nat : n \in S => n + 1 \in S
    PROVE  \A n \in Nat : n \in S
<1> DEFINE T == Nat \ S
<1>1. SUFFICES ASSUME T # {} PROVE FALSE
    OBVIOUS
<1>2. PICK x \in T : \A y \in T : ~(<<y, x>> \in Below)
    BY <1>1, BelowIsWellFounded, WFMin
<1>3. x # 0 /\ x - 1 \in Nat /\ x - 1 + 1 = x /\ x - 1 < x
    OBVIOUS
<1>4. <<x - 1, x>> \in Below
    BY <1>3 DEF Below
<1>5. x - 1 \in S
    BY <1>2, <1>3, <1>4
<1> QED
    BY <1>3, <1>5

-----------------------------------------------------------------------------
(* Filtered.                                                               *)

(* The recursion of Filtered has a solution, which Filtered uses.          *)
LEMMA FilteredUnfolds ==
    ASSUME NEW N, NEW seq \in Seq(N), NEW S
    PROVE  \E f : /\ f = [i \in 0..Len(seq) |->
                            IF i = 0 THEN <<>>
                            ELSE IF seq[i] \in S THEN Append(f[i - 1], seq[i]) ELSE f[i - 1]]
                  /\ Filtered(seq, S) = f[Len(seq)]
<1> DEFINE Step(f, i) == IF i = 0 THEN <<>>
                         ELSE IF seq[i] \in S THEN Append(f[i - 1], seq[i]) ELSE f[i - 1]
           Solves(f, n) == f = [i \in 0..n |-> Step(f, i)]
           Reached == {n \in Nat : \E f : Solves(f, n)}
<1>1. 0 \in Reached
  <2>1. Solves([i \in 0..0 |-> <<>>], 0)
    OBVIOUS
  <2> QED
    BY <2>1
<1>2. ASSUME NEW n \in Nat, n \in Reached PROVE n + 1 \in Reached
  <2>1. PICK f : Solves(f, n)
    BY <1>2
  <2> DEFINE h == [i \in 0..(n + 1) |-> IF i = n + 1 THEN Step(f, n + 1) ELSE f[i]]
  <2>2. \A i \in 0..n : h[i] = f[i]
    OBVIOUS
  <2>3. \A i \in 0..(n + 1) : h[i] = Step(h, i)
    <3>1. ASSUME NEW i \in 0..n PROVE h[i] = Step(h, i)
      <4>1. i # 0 => i - 1 \in 0..n
        OBVIOUS
      <4>2. f[i] = Step(f, i)
        BY <2>1
      <4> QED
        BY <2>2, <4>1, <4>2
    <3>2. h[n + 1] = Step(h, n + 1)
      <4>1. n + 1 # 0 /\ (n + 1) - 1 \in 0..n /\ n + 1 \in 0..(n + 1)
        OBVIOUS
      <4> QED
        BY <2>2, <4>1
    <3>3. \A i \in 0..(n + 1) : i \in 0..n \/ i = n + 1
      OBVIOUS
    <3> QED
      BY <3>1, <3>2, <3>3
  <2>4. h = [i \in 0..(n + 1) |-> Step(h, i)]
    BY <2>3
  <2>5. \E f1 : Solves(f1, n + 1)
    <3> WITNESS h
    <3> QED
      BY <2>4
  <2> HIDE DEF Solves
  <2> QED
    BY <2>5
<1>3. Len(seq) \in Reached
  <2> HIDE DEF Reached
  <2> QED
    BY <1>1, <1>2, SetInduction
<1>4. PICK f : Solves(f, Len(seq))
    BY <1>3
<1> QED
    BY <1>4 DEF Filtered
(* Filtered keeps exactly the elements in S, and none twice that the       *)
(* sequence does not have twice.                                           *)
LEMMA FilteredElements ==
    ASSUME NEW N, NEW seq \in Seq(N), NEW S
    PROVE  /\ Filtered(seq, S) \in Seq(N)
           /\ ToSet(Filtered(seq, S)) = ToSet(seq) \cap S
           /\ (\A i, j \in DOMAIN seq : seq[i] = seq[j] => i = j) =>
                 \A i, j \in DOMAIN Filtered(seq, S) :
                    Filtered(seq, S)[i] = Filtered(seq, S)[j] => i = j
<1>1. PICK f : /\ f = [i \in 0..Len(seq) |->
                         IF i = 0 THEN <<>>
                         ELSE IF seq[i] \in S THEN Append(f[i - 1], seq[i]) ELSE f[i - 1]]
               /\ Filtered(seq, S) = f[Len(seq)]
    BY FilteredUnfolds
<1> DEFINE Part(i) == {seq[k] : k \in 1..i} \cap S
           Distinct(s) == \A i, j \in 1..Len(s) : s[i] = s[j] => i = j
           Holds(i) == /\ f[i] \in Seq(N)
                       /\ {f[i][k] : k \in 1..Len(f[i])} = Part(i)
                       /\ Distinct(seq) => Distinct(f[i])
           Reached == {i \in Nat : i <= Len(seq) => Holds(i)}
<1>2. 0 \in Reached
  <2>1. f[0] = <<>> /\ Len(f[0]) = 0 /\ 1..0 = {}
    BY <1>1
  <2>2. f[0] \in Seq(N) /\ {f[0][k] : k \in 1..Len(f[0])} = Part(0) /\ Distinct(f[0])
    BY <2>1
  <2>3. Holds(0)
    BY <2>2
  <2> HIDE DEF Holds
  <2> QED
    BY <2>3
<1>3. ASSUME NEW n \in Nat, n \in Reached PROVE n + 1 \in Reached
  <2> HIDE DEF Holds
  <2> SUFFICES ASSUME n + 1 <= Len(seq) PROVE Holds(n + 1)
    OBVIOUS
  <2> DEFINE x == seq[n + 1]
             s == f[n]
  <2>1. /\ n + 1 \in 1..Len(seq) /\ n \in 0..Len(seq) /\ x \in N
        /\ 1..(n + 1) = (1..n) \cup {n + 1}
    OBVIOUS
  <2>2. Holds(n)
    BY <1>3, Len(seq) \in Nat
  <2> USE DEF Holds
  <2>3. f[n + 1] = IF x \in S THEN Append(s, x) ELSE s
    <3>1. f[n + 1] = IF n + 1 = 0 THEN <<>>
                     ELSE IF seq[n + 1] \in S THEN Append(f[(n + 1) - 1], seq[n + 1])
                     ELSE f[(n + 1) - 1]
      <4>1. n + 1 \in 0..Len(seq)
        OBVIOUS
      <4> QED
        BY <1>1, <4>1
    <3> QED
      BY <3>1
  <2>4. CASE x \notin S
    <3>1. Part(n + 1) = Part(n)
      BY <2>1, <2>4
    <3> QED
      BY <2>2, <2>3, <2>4, <3>1
  <2>5. CASE x \in S
    <3> DEFINE t == Append(s, x)
    <3> HIDE DEF s
    <3>1. s \in Seq(N) /\ Len(s) \in Nat
      BY <2>2 DEF s
    <3>2. /\ t \in Seq(N) /\ Len(t) = Len(s) + 1 /\ t[Len(s) + 1] = x
          /\ \A k \in 1..Len(s) : t[k] = s[k]
          /\ 1..Len(t) = (1..Len(s)) \cup {Len(s) + 1}
      BY <2>1, <3>1
    <3>3. {s[k] : k \in 1..Len(s)} = Part(n)
      BY <2>2 DEF s
    <3>4. Part(n + 1) = Part(n) \cup {x}
      BY <2>1, <2>5
    <3>5. {t[k] : k \in 1..Len(t)} = Part(n + 1)
      <4> HIDE DEF Part, t, x
      <4> QED
        BY <3>2, <3>3, <3>4
    <3>6. ASSUME Distinct(seq) PROVE Distinct(t)
      <4>1. \A k \in 1..n : seq[k] # x
        BY <2>1, <3>6
      <4>2. \A k \in 1..Len(s) : s[k] # x
        BY <3>3, <4>1
      <4>3. Distinct(s)
        BY <2>2, <3>6 DEF s
      <4> HIDE DEF t, x
      <4> QED
        BY <3>2, <4>2, <4>3
    <3>7. f[n + 1] = t
      BY <2>3, <2>5 DEF s
    <3> HIDE DEF t, Part, Distinct
    <3> QED
      BY <3>2, <3>5, <3>6, <3>7
  <2> QED
    BY <2>4, <2>5
<1>4. Len(seq) \in Reached
  <2> HIDE DEF Reached
  <2> QED
    BY <1>2, <1>3, SetInduction
<1> DEFINE r == Filtered(seq, S)
<1>5. Holds(Len(seq)) /\ DOMAIN seq = 1..Len(seq)
  <2> HIDE DEF Holds
  <2> QED
    BY <1>4
<1>6. r \in Seq(N) /\ {r[k] : k \in 1..Len(r)} = Part(Len(seq)) /\ (Distinct(seq) => Distinct(r))
  <2>1. r = f[Len(seq)]
    BY <1>1
  <2> HIDE DEF Part, Distinct, r
  <2> QED
    BY <1>5, <2>1
<1>7. DOMAIN r = 1..Len(r)
  <2> HIDE DEF r
  <2> QED
    BY <1>6
<1> HIDE DEF r
<1>8. ToSet(r) = ToSet(seq) \cap S
    BY <1>5, <1>6, <1>7 DEF ToSet
<1> QED
    BY <1>5, <1>6, <1>7, <1>8 DEF r

(* A stretch of a sequence that alone has the elements in S.               *)
LEMMA FilteredStretch ==
    ASSUME NEW N, NEW seq \in Seq(N), NEW S, NEW a \in Nat, NEW b \in Nat,
           a <= b, b <= Len(seq),
           \A i \in 1..Len(seq) : seq[i] \in S <=> (a < i /\ i <= b)
    PROVE  Filtered(seq, S) = SubSeq(seq, a + 1, b)
<1>1. PICK f : /\ f = [i \in 0..Len(seq) |->
                         IF i = 0 THEN <<>>
                         ELSE IF seq[i] \in S THEN Append(f[i - 1], seq[i]) ELSE f[i - 1]]
               /\ Filtered(seq, S) = f[Len(seq)]
    BY FilteredUnfolds
<1> DEFINE Count(i) == IF i <= a THEN 0 ELSE IF i <= b THEN i - a ELSE b - a
           Holds(i) == /\ f[i] \in Seq(N) /\ Len(f[i]) = Count(i)
                       /\ \A k \in 1..Count(i) : f[i][k] = seq[a + k]
           Reached == {i \in Nat : i <= Len(seq) => Holds(i)}
<1>2. 0 \in Reached
  <2>1. f[0] = <<>>
    BY <1>1
  <2>2. Holds(0)
    BY <2>1
  <2> HIDE DEF Holds
  <2> QED
    BY <2>2
<1>3. ASSUME NEW n \in Nat, n \in Reached PROVE n + 1 \in Reached
  <2> HIDE DEF Holds
  <2> SUFFICES ASSUME n + 1 <= Len(seq) PROVE Holds(n + 1)
    OBVIOUS
  <2>1. n + 1 \in 0..Len(seq) /\ n + 1 \in 1..Len(seq) /\ n + 1 # 0 /\ (n + 1) - 1 = n
    OBVIOUS
  <2>2. f[n + 1] = IF seq[n + 1] \in S THEN Append(f[n], seq[n + 1]) ELSE f[n]
    BY <1>1, <2>1
  <2>3. Holds(n) /\ seq[n + 1] \in N
    BY <1>3, <2>1
  <2> USE DEF Holds
  <2>4. CASE n + 1 <= a \/ b < n + 1
    <3>1. seq[n + 1] \notin S /\ Count(n + 1) = Count(n)
      BY <2>1, <2>4
    <3> HIDE DEF Count
    <3> QED
      BY <2>2, <2>3, <3>1
  <2>5. CASE a < n + 1 /\ n + 1 <= b
    <3>1. /\ seq[n + 1] \in S /\ Count(n + 1) = Count(n) + 1 /\ Count(n) \in Nat
          /\ a + Count(n) + 1 = n + 1
      BY <2>1, <2>5
    <3>2. f[n + 1] = Append(f[n], seq[n + 1])
      BY <2>2, <3>1
    <3> HIDE DEF Count
    <3> DEFINE s == f[n]
    <3>3. s \in Seq(N) /\ Len(s) = Count(n) /\ \A k \in 1..Count(n) : s[k] = seq[a + k]
      BY <2>3
    <3> HIDE DEF s
    <3>4. /\ Append(s, seq[n + 1]) \in Seq(N)
          /\ Len(Append(s, seq[n + 1])) = Count(n + 1)
          /\ \A k \in 1..Count(n + 1) : Append(s, seq[n + 1])[k] = seq[a + k]
      BY <2>3, <3>1, <3>3
    <3> QED
      BY <3>2, <3>4 DEF s
  <2> QED
    BY <2>4, <2>5
<1>4. Holds(Len(seq))
  <2> HIDE DEF Holds
  <2>1. Len(seq) \in Reached
    <3> HIDE DEF Reached
    <3> QED
      BY <1>2, <1>3, SetInduction
  <2> QED
    BY <2>1
<1> DEFINE r == Filtered(seq, S)
<1>5. Count(Len(seq)) = b - a
    OBVIOUS
<1>6. r \in Seq(N) /\ Len(r) = b - a /\ \A k \in 1..(b - a) : r[k] = seq[a + k]
  <2>1. r = f[Len(seq)]
    BY <1>1
  <2> HIDE DEF r, Count
  <2> QED
    BY <1>4, <1>5, <2>1
<1> HIDE DEF r
<1>7. /\ SubSeq(seq, a + 1, b) \in Seq(N) /\ Len(SubSeq(seq, a + 1, b)) = b - a
      /\ \A k \in 1..(b - a) : SubSeq(seq, a + 1, b)[k] = seq[a + k]
    OBVIOUS
<1> QED
    BY <1>6, <1>7, SeqEqual DEF r

-----------------------------------------------------------------------------
(* The topology.                                                           *)

(* The nodes are finitely many.                                            *)
LEMMA NodesAreFinite ==
    ASSUME NEW g, Normalized(g)
    PROVE  /\ g.nodes \in Seq(NodesOf(g)) /\ ToSet(g.nodes) = NodesOf(g)
           /\ IsFiniteSet(NodesOf(g)) /\ Cardinality(NodesOf(g)) = Len(g.nodes)
           /\ \A S \in SUBSET NodesOf(g) : IsFiniteSet(S) /\ Cardinality(S) \in Nat
<1>1. g.nodes \in Seq(NodesOf(g)) /\ ToSet(g.nodes) = NodesOf(g)
    BY DEF Normalized, NodesOf
<1> DEFINE n == Len(g.nodes)
           f == [i \in 1..n |-> g.nodes[i]]
<1>2. n \in Nat /\ DOMAIN g.nodes = 1..n
    BY <1>1
<1>3. f \in Bijection(1..n, NodesOf(g))
    BY <1>1, <1>2 DEF Bijection, Injection, Surjection, IsInjective, Normalized, ToSet
<1>4. ExistsBijection(1..n, NodesOf(g))
    BY <1>3 DEF ExistsBijection
<1>5. IsFiniteSet(NodesOf(g)) /\ Cardinality(NodesOf(g)) = n
    BY <1>2, <1>4, FS_NatBijection, FS_CountingElements
<1>6. \A S \in SUBSET NodesOf(g) : IsFiniteSet(S) /\ Cardinality(S) \in Nat
    BY <1>5, FS_Subset, FS_CardinalityType
<1> QED
    BY <1>1, <1>5, <1>6

(* A layer in any order of the nodes has the free nodes; in the editor's   *)
(* order it has each of them once.                                         *)
LEMMA ReadyIsFree ==
    ASSUME NEW g, Normalized(g), NEW S \in SUBSET NodesOf(g),
           NEW order \in Seq(NodesOf(g)), ToSet(order) = NodesOf(g)
    PROVE  /\ Ready(g, order, S) \in Seq(NodesOf(g))
           /\ ToSet(Ready(g, order, S)) = Free(g, S) /\ Free(g, S) \subseteq S
           /\ Ready(g, order, S) = <<>> <=> Free(g, S) = {}
           /\ order = g.nodes => Len(Ready(g, order, S)) = Cardinality(Free(g, S))
<1> DEFINE r == Ready(g, order, S)
<1>1. Free(g, S) \subseteq S
    BY DEF Free
<1>2. r \in Seq(NodesOf(g)) /\ ToSet(r) = Free(g, S)
  <2>1. r = Filtered(order, Free(g, S))
    BY DEF Ready
  <2>2. r \in Seq(NodesOf(g)) /\ ToSet(r) = ToSet(order) \cap Free(g, S)
    BY <2>1, FilteredElements
  <2> QED
    BY <1>1, <2>2
<1>3. r = <<>> <=> Free(g, S) = {}
  <2> HIDE DEF r
  <2>1. DOMAIN r = 1..Len(r) /\ Len(r) \in Nat /\ (r = <<>> <=> Len(r) = 0)
    BY <1>2
  <2>2. ToSet(r) = {} <=> Len(r) = 0
    <3>1. Len(r) # 0 => r[1] \in ToSet(r)
      BY <2>1 DEF ToSet
    <3>2. Len(r) = 0 => DOMAIN r = {}
      BY <2>1
    <3>3. DOMAIN r = {} => ToSet(r) = {}
      BY DEF ToSet
    <3> QED
      BY <3>1, <3>2, <3>3
  <2> QED
    BY <1>2, <2>1, <2>2
<1>4. ASSUME order = g.nodes PROVE Len(r) = Cardinality(Free(g, S))
  <2>1. \A i, j \in DOMAIN r : r[i] = r[j] => i = j
    BY <1>4, FilteredElements DEF Ready, Normalized
  <2> HIDE DEF r
  <2> DEFINE f == [i \in 1..Len(r) |-> r[i]]
  <2>2. DOMAIN r = 1..Len(r) /\ Len(r) \in Nat
    BY <1>2
  <2>3. f \in Bijection(1..Len(r), Free(g, S))
    BY <1>2, <2>1, <2>2 DEF Bijection, Injection, Surjection, IsInjective, ToSet
  <2> QED
    BY <2>2, <2>3, FS_CountingElements DEF ExistsBijection
<1> QED
    BY <1>1, <1>2, <1>3, <1>4

(* Taking a layer away leaves fewer nodes.                                 *)
LEMMA LayerShrinks ==
    ASSUME NEW g, Normalized(g), NEW S \in SUBSET NodesOf(g)
    PROVE  /\ Cardinality(S) = Cardinality(Free(g, S)) + Cardinality(S \ Free(g, S))
           /\ Free(g, S) # {} => Cardinality(S \ Free(g, S)) < Cardinality(S)
<1> DEFINE R == Free(g, S)
<1>1. R \subseteq S /\ R \cap S = R /\ S \cap R = R
    BY DEF Free
<1> HIDE DEF R
<1>2. IsFiniteSet(S) /\ IsFiniteSet(R) /\ Cardinality(S) \in Nat /\ Cardinality(R) \in Nat
    BY <1>1, NodesAreFinite
<1>3. Cardinality(S \ R) = Cardinality(S) - Cardinality(R)
  <2>1. Cardinality(S \ R) = Cardinality(S) - Cardinality(S \cap R)
    BY <1>2, FS_Difference
  <2> QED
    BY <1>1, <2>1
<1>4. R # {} => Cardinality(R) # 0
    BY <1>2, FS_EmptySet
<1> QED
    BY <1>2, <1>3, <1>4 DEF R

(* One step of the recursion of Layers.                                    *)
LayerStep(g, h, S) ==
    IF Ready(g, g.nodes, S) = <<>> THEN <<>>
    ELSE Ready(g, g.nodes, S) \o h[S \ ToSet(Ready(g, g.nodes, S))]

IsLayering(g, h) == h = [S \in SUBSET NodesOf(g) |-> LayerStep(g, h, S)]

(* The recursion of Layers has a solution, which the topology uses.        *)
LEMMA TopologyUnfolds ==
    ASSUME NEW g, Normalized(g)
    PROVE  \E h : IsLayering(g, h) /\ Topology(g) = h[NodesOf(g)]
<1> DEFINE N == NodesOf(g)
           Solves(h, k) == \A S \in SUBSET N : Cardinality(S) <= k => h[S] = LayerStep(g, h, S)
           Reached == {k \in Nat : \E h : Solves(h, k)}
<1> HIDE DEF N
<1>1. \A S \in SUBSET N : IsFiniteSet(S) /\ Cardinality(S) \in Nat
    BY NodesAreFinite DEF N
<1>2. \A S \in SUBSET N :
        /\ ToSet(Ready(g, g.nodes, S)) \subseteq S
        /\ Ready(g, g.nodes, S) # <<>> =>
              Cardinality(S \ ToSet(Ready(g, g.nodes, S))) < Cardinality(S)
    BY NodesAreFinite, ReadyIsFree, LayerShrinks DEF N
<1>3. 0 \in Reached
  <2> DEFINE h == [S \in SUBSET N |-> <<>>]
  <2>1. ASSUME NEW S \in SUBSET N, Cardinality(S) <= 0 PROVE h[S] = LayerStep(g, h, S)
    <3>1. S = {}
      BY <1>1, <2>1, FS_EmptySet
    <3>2. Ready(g, g.nodes, S) = <<>>
      <4>1. S \ ToSet(Ready(g, g.nodes, S)) \in SUBSET N
        OBVIOUS
      <4> QED
        <5>1. Cardinality(S \ ToSet(Ready(g, g.nodes, S))) \in Nat /\ Cardinality(S) \in Nat
          BY <1>1, <4>1
        <5> HIDE DEF h
        <5> QED
          BY <1>2, <2>1, <5>1
    <3> QED
      BY <3>2 DEF LayerStep
  <2>2. \E f : Solves(f, 0)
    <3> WITNESS h
    <3> QED
      BY <2>1
  <2> QED
    BY <2>2
<1>4. ASSUME NEW n \in Nat, n \in Reached PROVE n + 1 \in Reached
  <2>1. PICK h : Solves(h, n)
    BY <1>4
  <2> DEFINE k == [S \in SUBSET N |-> IF Cardinality(S) <= n THEN h[S] ELSE LayerStep(g, h, S)]
  <2>2. \A S \in SUBSET N : Cardinality(S) <= n => k[S] = h[S]
    OBVIOUS
  <2>3. ASSUME NEW S \in SUBSET N, Cardinality(S) <= n + 1 PROVE k[S] = LayerStep(g, k, S)
    <3>1. k[S] = LayerStep(g, h, S)
      BY <2>1
    <3>2. CASE Ready(g, g.nodes, S) = <<>>
      BY <3>1, <3>2 DEF LayerStep
    <3>3. CASE Ready(g, g.nodes, S) # <<>>
      <4> DEFINE T == S \ ToSet(Ready(g, g.nodes, S))
      <4>1. T \in SUBSET N /\ Cardinality(T) <= n
        BY <1>1, <1>2, <2>3, <3>3
      <4>2. k[T] = h[T]
        BY <2>2, <4>1
      <4> HIDE DEF k
      <4> QED
        BY <3>1, <4>2 DEF LayerStep
    <3> QED
      BY <3>2, <3>3
  <2>4. \E f : Solves(f, n + 1)
    <3> WITNESS k
    <3> QED
      BY <2>3
  <2> QED
    BY <2>4
<1>5. Cardinality(N) \in Reached
  <2> HIDE DEF Reached
  <2> QED
    BY <1>1, <1>3, <1>4, SetInduction
<1>6. PICK h : Solves(h, Cardinality(N))
    BY <1>5
<1>7. \A S \in SUBSET N : Cardinality(S) <= Cardinality(N)
    BY <1>1, FS_Subset
<1> DEFINE h0 == [S \in SUBSET N |-> h[S]]
<1>8. \A S \in SUBSET N : h0[S] = LayerStep(g, h0, S)
    BY <1>2, <1>6, <1>7 DEF LayerStep
<1>9. h0 = [S \in SUBSET N |-> LayerStep(g, h0, S)]
    BY <1>8
<1>10. \E f : f = [S \in SUBSET N |-> LayerStep(g, f, S)]
    BY <1>9
<1> QED
    BY <1>10 DEF Topology, Layers, LayerStep, IsLayering, N

(* Whatever nodes are left, the layers of the rest are nodes of the rest,  *)
(* no more than there are, all of them when they are as many, and each     *)
(* comes after those of the rest that it depends on.                       *)
LayersHold(g, s, S) ==
    /\ s \in Seq(NodesOf(g))
    /\ ToSet(s) \subseteq S
    /\ Len(s) <= Cardinality(S)
    /\ Len(s) = Cardinality(S) => ToSet(s) = S
    /\ \A i \in 1..Len(s) : Sources(g, s[i]) \cap S \subseteq {s[j] : j \in 1..(i - 1)}

LEMMA LayersOfTheRest ==
    ASSUME NEW g, Normalized(g),
           NEW h, IsLayering(g, h)
    PROVE  \A S \in SUBSET NodesOf(g) : LayersHold(g, h[S], S)
<1> DEFINE N == NodesOf(g)
           Reached == {k \in Nat : \A S \in SUBSET N : Cardinality(S) <= k => LayersHold(g, h[S], S)}
<1> HIDE DEF N
<1>1. \A S \in SUBSET N : IsFiniteSet(S) /\ Cardinality(S) \in Nat
    BY NodesAreFinite DEF N
<1>2. ASSUME NEW S \in SUBSET N, NEW n \in Nat, Cardinality(S) <= n,
             \A T \in SUBSET N : Cardinality(T) < n => LayersHold(g, h[T], T)
      PROVE  LayersHold(g, h[S], S)
  <2> DEFINE r == Ready(g, g.nodes, S)
             R == Free(g, S)
             T == S \ R
  <2>1. h[S] = LayerStep(g, h, S)
    BY DEF IsLayering, N
  <2>2. /\ r \in Seq(N) /\ ToSet(r) = R /\ R \subseteq S /\ (r = <<>> <=> R = {})
        /\ Len(r) = Cardinality(R)
    BY NodesAreFinite, ReadyIsFree DEF N
  <2>3. /\ Cardinality(S) = Cardinality(R) + Cardinality(T)
        /\ R # {} => Cardinality(T) < Cardinality(S)
    BY LayerShrinks DEF N
  <2>4. Cardinality(S) \in Nat /\ Cardinality(R) \in Nat /\ Cardinality(T) \in Nat /\ T \in SUBSET N
    BY <1>1, <2>2
  <2>5. \A x \in R : Sources(g, x) \cap S = {}
    BY <2>2 DEF Free, Dependencies, N
  <2> HIDE DEF r, R
  <2>6. CASE r = <<>>
    <3>1. h[S] = <<>>
      BY <2>1, <2>6 DEF LayerStep, r
    <3>2. ToSet(<<>>) = {} /\ Len(<<>>) = 0 /\ <<>> \in Seq(N) /\ 1..0 = {}
      BY DEF ToSet
    <3>3. Cardinality(S) = 0 => S = {}
      BY <1>1, FS_EmptySet
    <3>4. Len(<<>>) <= Cardinality(S)
      BY <2>4, <3>2
    <3>5. \A i \in 1..Len(<<>>) : FALSE
      BY <3>2
    <3>6. Len(<<>>) = Cardinality(S) => ToSet(<<>>) = S
      BY <3>2, <3>3
    <3>7. ToSet(<<>>) \subseteq S
      BY <3>2
    <3> QED
      BY <3>1, <3>2, <3>4, <3>5, <3>6, <3>7 DEF LayersHold, N
  <2>7. CASE r # <<>>
    <3> DEFINE t == h[T]
               s == r \o t
    <3>1. h[S] = s
      BY <2>1, <2>2, <2>7 DEF LayerStep, r
    <3>2. LayersHold(g, h[T], T)
      <4>1. Cardinality(T) < n
        BY <1>2, <2>2, <2>3, <2>4, <2>7
      <4> QED
        BY <1>2, <2>4, <4>1
    <3>3. /\ t \in Seq(N) /\ ToSet(t) \subseteq T /\ Len(t) <= Cardinality(T)
          /\ Len(t) = Cardinality(T) => ToSet(t) = T
          /\ \A i \in 1..Len(t) : Sources(g, t[i]) \cap T \subseteq {t[j] : j \in 1..(i - 1)}
      BY <3>2 DEF LayersHold, N
    <3> HIDE DEF t
    <3>4. /\ s \in Seq(N) /\ Len(s) = Len(r) + Len(t) /\ Len(r) \in Nat /\ Len(t) \in Nat
          /\ \A i \in 1..Len(r) : s[i] = r[i]
          /\ \A i \in 1..Len(t) : s[Len(r) + i] = t[i]
      <4>1. r \in Seq(N) /\ t \in Seq(N)
        BY <2>2, <3>3
      <4>2. s \in Seq(N) /\ Len(s) = Len(r) + Len(t) /\ Len(r) \in Nat /\ Len(t) \in Nat
        BY <4>1
      <4>3. \A i \in 1..Len(r) : s[i] = r[i]
        BY <4>1
      <4>4. \A i \in 1..Len(t) : s[Len(r) + i] = t[i]
        BY <4>1
      <4> QED
        BY <4>2, <4>3, <4>4
    <3>5. \A i \in 1..Len(s) : i \in 1..Len(r) \/ \E j \in 1..Len(t) : i = Len(r) + j
      <4> SUFFICES ASSUME NEW i \in 1..Len(s), i \notin 1..Len(r)
                   PROVE  \E j \in 1..Len(t) : i = Len(r) + j
        OBVIOUS
      <4>1. i - Len(r) \in 1..Len(t) /\ i = Len(r) + (i - Len(r))
        BY <3>4
      <4> QED
        BY <4>1
    <3>6. DOMAIN s = 1..Len(s) /\ DOMAIN r = 1..Len(r) /\ DOMAIN t = 1..Len(t)
      BY <2>2, <3>3, <3>4
    <3> HIDE DEF s
    <3>7. ToSet(s) = ToSet(r) \cup ToSet(t)
      <4>1. \A i \in 1..Len(r) : i \in 1..Len(s)
        BY <3>4
      <4>2. \A i \in 1..Len(t) : Len(r) + i \in 1..Len(s)
        BY <3>4
      <4>3. ToSet(s) \subseteq ToSet(r) \cup ToSet(t)
        <5>1. ASSUME NEW i \in 1..Len(s) PROVE s[i] \in ToSet(r) \cup ToSet(t)
          <6>1. i \in 1..Len(r) => s[i] \in ToSet(r)
            BY <3>4, <3>6 DEF ToSet
          <6>2. ASSUME NEW j \in 1..Len(t), i = Len(r) + j PROVE s[i] \in ToSet(t)
            BY <3>4, <3>6, <6>2 DEF ToSet
          <6> QED
            BY <3>5, <6>1, <6>2
        <5> QED
          BY <3>6, <5>1 DEF ToSet
      <4>4. ToSet(r) \subseteq ToSet(s)
        BY <3>4, <3>6, <4>1 DEF ToSet
      <4>5. ToSet(t) \subseteq ToSet(s)
        BY <3>4, <3>6, <4>2 DEF ToSet
      <4> QED
        BY <4>3, <4>4, <4>5
    <3>8. ToSet(s) \subseteq S
      BY <2>2, <3>3, <3>7
    <3>9. Len(s) <= Cardinality(S)
      BY <2>2, <2>3, <2>4, <3>3, <3>4
    <3>10. Len(s) = Cardinality(S) => ToSet(s) = S
      BY <2>2, <2>3, <2>4, <3>3, <3>4, <3>7
    <3>11. ASSUME NEW i \in 1..Len(s)
           PROVE  Sources(g, s[i]) \cap S \subseteq {s[j] : j \in 1..(i - 1)}
      <4>1. CASE i \in 1..Len(r)
        <5>1. s[i] \in R
          BY <2>2, <3>4, <3>6, <4>1 DEF ToSet
        <5> QED
          BY <2>5, <5>1
      <4>2. CASE \E j \in 1..Len(t) : i = Len(r) + j
        <5>1. PICK k \in 1..Len(t) : i = Len(r) + k
          BY <4>2
        <5>2. s[i] = t[k]
          BY <3>4, <5>1
        <5>3. \A j \in 1..Len(r) : j \in 1..(i - 1) /\ r[j] = s[j]
          BY <3>4, <5>1
        <5>4. \A j \in 1..(k - 1) : Len(r) + j \in 1..(i - 1) /\ t[j] = s[Len(r) + j]
          BY <3>4, <5>1
        <5>5. R \subseteq {s[j] : j \in 1..(i - 1)}
          BY <2>2, <3>6, <5>3 DEF ToSet
        <5>6. Sources(g, s[i]) \cap T \subseteq {s[j] : j \in 1..(i - 1)}
          <6>1. Sources(g, s[i]) \cap T \subseteq {t[j] : j \in 1..(k - 1)}
            BY <3>3, <5>2
          <6> QED
            BY <5>4, <6>1
        <5> QED
          BY <5>5, <5>6
      <4> QED
        BY <3>5, <4>1, <4>2
    <3>12. \A i \in 1..Len(s) : Sources(g, s[i]) \cap S \subseteq {s[j] : j \in 1..(i - 1)}
      BY <3>11
    <3>13. s \in Seq(NodesOf(g))
      BY <3>4 DEF N
    <3>14. LayersHold(g, s, S)
      BY <3>8, <3>9, <3>10, <3>12, <3>13 DEF LayersHold
    <3> QED
      BY <3>1, <3>14
  <2> QED
    BY <2>6, <2>7
<1>3. 0 \in Reached
  <2>1. \A T \in SUBSET N : ~(Cardinality(T) < 0)
    BY <1>1
  <2>2. \A S \in SUBSET N : Cardinality(S) <= 0 => LayersHold(g, h[S], S)
    BY <1>2, <2>1
  <2> QED
    BY <2>2
<1>4. ASSUME NEW n \in Nat, n \in Reached PROVE n + 1 \in Reached
  <2>1. \A T \in SUBSET N : Cardinality(T) < n + 1 => LayersHold(g, h[T], T)
    <3>1. \A T \in SUBSET N : Cardinality(T) < n + 1 => Cardinality(T) <= n
      BY <1>1
    <3>2. \A T \in SUBSET N : Cardinality(T) <= n => LayersHold(g, h[T], T)
      BY <1>4
    <3> QED
      BY <3>1, <3>2
  <2>2. n + 1 \in Nat
    OBVIOUS
  <2>3. \A S \in SUBSET N : Cardinality(S) <= n + 1 => LayersHold(g, h[S], S)
    BY <1>2, <2>1, <2>2
  <2> QED
    BY <2>2, <2>3
<1>5. \A k \in Nat : k \in Reached
  <2> HIDE DEF Reached
  <2> QED
    BY <1>3, <1>4, SetInduction
<1> QED
  <2>1. ASSUME NEW S \in SUBSET N PROVE LayersHold(g, h[S], S)
    <3>1. Cardinality(S) \in Nat
      BY <1>1
    <3>2. Cardinality(S) \in Reached
      <4> HIDE DEF Reached
      <4> QED
        BY <1>5, <3>1
    <3>3. \A T \in SUBSET N : Cardinality(T) <= Cardinality(S) => LayersHold(g, h[T], T)
      BY <3>2
    <3>4. Cardinality(S) <= Cardinality(S)
      BY <3>1
    <3> QED
      BY <3>3, <3>4
  <2> QED
    BY <2>1 DEF N

(* Every node once, each after the nodes that write its inputs.            *)
IsTopologicalOrder(g, s) ==
    /\ s \in Seq(NodesOf(g)) /\ Len(s) = Len(g.nodes) /\ ToSet(s) = NodesOf(g)
    /\ \A i \in 1..Len(s) : Sources(g, s[i]) \subseteq {s[j] : j \in 1..(i - 1)}

(* The topology of a Graph that passes the cycle check of the compiler     *)
(* (compiler/graph.py) is such an order, whatever the Graph.               *)
THEOREM TopologyIsAnOrder ==
    ASSUME NEW g, Normalized(g), Acyclic(g)
    PROVE  IsTopologicalOrder(g, Topology(g))
<1>1. PICK h : IsLayering(g, h) /\ Topology(g) = h[NodesOf(g)]
    BY TopologyUnfolds
<1>2. LayersHold(g, h[NodesOf(g)], NodesOf(g))
    BY <1>1, LayersOfTheRest
<1>3. Cardinality(NodesOf(g)) = Len(g.nodes)
    BY NodesAreFinite
<1>4. \A n : Sources(g, n) \subseteq NodesOf(g)
  <2>1. \A w : \A x \in Producers(g, w) : x[1] \in DOMAIN g.inputs \cup NodesOf(g)
    BY DEF Producers
  <2> QED
    BY <2>1 DEF Sources, Producer, IsInput
<1> QED
    BY <1>1, <1>2, <1>3, <1>4 DEF LayersHold, Acyclic, IsTopologicalOrder

-----------------------------------------------------------------------------
(* The semantic proof.                                                     *)

(* The layers of the nodes that are left are the rest of a plan, and none  *)
(* of what precedes them in the plan is left.                              *)
IsRest(g, h, plan, S) ==
    /\ Len(h[S]) = Cardinality(S)
    /\ \A k \in 1..Cardinality(S) : plan[Len(plan) - Cardinality(S) + k] = h[S][k]
    /\ \A i \in 1..(Len(plan) - Cardinality(S)) : plan[i] \notin S

(* The next layer of such a plan is the ready nodes, whether they are      *)
(* taken in the editor's order or in that of the plan itself.              *)
LEMMA RestBeginsWithALayer ==
    ASSUME NEW g, Normalized(g),
           NEW h, IsLayering(g, h),
           NEW plan \in Seq(NodesOf(g)), Len(plan) = Cardinality(NodesOf(g)),
           NEW order \in {g.nodes, plan},
           NEW S \in SUBSET NodesOf(g), S # {}, IsRest(g, h, plan, S)
    PROVE  LET r == Ready(g, order, S)
               a == Len(plan) - Cardinality(S)
           IN  /\ r # <<>> /\ SubSeq(plan, a + 1, a + Len(r)) = r
               /\ IsRest(g, h, plan, S \ ToSet(r))
<1> DEFINE N == NodesOf(g)
           r == Ready(g, g.nodes, S)
           R == Free(g, S)
           T == S \ R
           a == Len(plan) - Cardinality(S)
           b == a + Len(r)
           t == h[T]
<1>1. /\ r \in Seq(N) /\ ToSet(r) = R /\ R \subseteq S /\ (r = <<>> <=> R = {})
      /\ Len(r) = Cardinality(R)
    BY NodesAreFinite, ReadyIsFree
<1>2. Cardinality(S) = Cardinality(R) + Cardinality(T)
    BY LayerShrinks
<1>3. /\ Cardinality(S) \in Nat /\ Cardinality(R) \in Nat /\ Cardinality(T) \in Nat
      /\ Cardinality(S) # 0 /\ Cardinality(S) <= Len(plan) /\ Len(plan) \in Nat
  <2>1. IsFiniteSet(N) /\ IsFiniteSet(S) /\ Cardinality(S) \in Nat /\ T \in SUBSET N /\ R \in SUBSET N
    BY <1>1, NodesAreFinite
  <2>2. Cardinality(S) # 0
    BY <2>1, FS_EmptySet
  <2>3. Cardinality(S) <= Cardinality(N)
    BY <2>1, FS_Subset
  <2> QED
    BY <2>1, <2>2, <2>3, NodesAreFinite
<1>4. h[S] = LayerStep(g, h, S)
    BY DEF IsLayering
<1>5. Len(h[S]) = Cardinality(S)
    BY DEF IsRest
<1>6. r # <<>> /\ h[S] = r \o t
  <2>1. Len(<<>>) = 0
    OBVIOUS
  <2> QED
    BY <1>1, <1>3, <1>4, <1>5, <2>1 DEF LayerStep
<1>7. t \in Seq(N) /\ ToSet(t) \subseteq T
    BY LayersOfTheRest, T \in SUBSET N DEF LayersHold
<1> HIDE DEF r, R, T, t
<1>8. Len(t) = Cardinality(T) /\ Len(t) \in Nat /\ Len(r) \in Nat
    BY <1>1, <1>2, <1>3, <1>5, <1>6, <1>7
<1>9. a \in Nat /\ b \in Nat /\ a <= b /\ b <= Len(plan) /\ b = Len(plan) - Cardinality(T)
      /\ Cardinality(S) = Len(r) + Len(t) /\ Len(plan) = a + Len(r) + Len(t)
    BY <1>1, <1>2, <1>3, <1>8
<1>10. \A k \in 1..Len(r) : plan[a + k] = r[k]
  <2>1. \A k \in 1..Len(r) : k \in 1..Cardinality(S) /\ (r \o t)[k] = r[k]
    BY <1>1, <1>7, <1>8, <1>9
  <2> QED
    BY <1>6, <2>1 DEF IsRest
<1>11. \A k \in 1..Len(t) : plan[b + k] = t[k]
  <2>1. ASSUME NEW k \in 1..Len(t)
        PROVE  /\ Len(r) + k \in 1..Cardinality(S)
               /\ (r \o t)[Len(r) + k] = t[k] /\ a + (Len(r) + k) = b + k
    <3>1. k \in Nat /\ 1 <= k /\ k <= Len(t)
      BY <1>8
    <3>2. (r \o t)[Len(r) + k] = t[k]
      BY <1>1, <1>7, <1>8
    <3>3. Len(r) + k \in 1..Cardinality(S)
      BY <1>8, <1>9, <3>1
    <3>4. a + (Len(r) + k) = b + k
      BY <1>8, <1>9, <3>1
    <3> QED
      BY <3>2, <3>3, <3>4
  <2> QED
    BY <1>6, <2>1 DEF IsRest
<1>12. \A i \in 1..a : plan[i] \notin S
    BY DEF IsRest
<1>13. \A i \in 1..Len(r) : r[i] \in R
  <2>1. DOMAIN r = 1..Len(r)
    BY <1>1
  <2> QED
    BY <1>1, <2>1 DEF ToSet
<1>14. \A i \in 1..Len(t) : t[i] \in T
  <2>1. DOMAIN t = 1..Len(t)
    BY <1>7
  <2> QED
    BY <1>7, <2>1 DEF ToSet
<1> HIDE DEF a, b
<1>15. \A i \in 1..b : i \in 1..a \/ \E k \in 1..Len(r) : i = a + k
  <2> SUFFICES ASSUME NEW i \in 1..b, i \notin 1..a PROVE \E k \in 1..Len(r) : i = a + k
    OBVIOUS
  <2>1. i - a \in 1..Len(r) /\ i = a + (i - a)
    BY <1>8, <1>9 DEF b
  <2> QED
    BY <2>1
<1>16. \A i \in 1..Len(plan) : i \in 1..b \/ \E k \in 1..Len(t) : i = b + k
  <2> SUFFICES ASSUME NEW i \in 1..Len(plan), i \notin 1..b PROVE \E k \in 1..Len(t) : i = b + k
    OBVIOUS
  <2>1. i - b \in 1..Len(t) /\ i = b + (i - b)
    BY <1>8, <1>9 DEF b
  <2> QED
    BY <2>1
<1>17. SubSeq(plan, a + 1, b) = r
  <2>1. /\ SubSeq(plan, a + 1, b) \in Seq(N) /\ Len(SubSeq(plan, a + 1, b)) = Len(r)
        /\ \A k \in 1..Len(r) : SubSeq(plan, a + 1, b)[k] = plan[a + k]
    BY <1>8, <1>9 DEF b
  <2> QED
    BY <1>1, <1>10, <2>1, SeqEqual
<1>18. Ready(g, plan, S) = r
  <2>1. \A i \in 1..a : plan[i] \notin R
    BY <1>1, <1>12
  <2>2. \A k \in 1..Len(r) : plan[a + k] \in R
    BY <1>10, <1>13
  <2>3. \A k \in 1..Len(t) : plan[b + k] \notin R
    BY <1>11, <1>14 DEF T
  <2>4. ASSUME NEW i \in 1..Len(plan) PROVE plan[i] \in R <=> (a < i /\ i <= b)
    <3>1. i \in 1..a => ~(a < i)
      BY <1>9
    <3>2. \A k \in 1..Len(r) : i = a + k => (a < i /\ i <= b)
      BY <1>8, <1>9 DEF b
    <3>3. ASSUME NEW k \in 1..Len(t), i = b + k PROVE ~(i <= b)
      <4>1. k \in Nat /\ k > 0
        BY <1>8
      <4>2. b \in Nat
        BY <1>9
      <4>3. b < b + k
        BY <4>1, <4>2
      <4> QED
        BY <3>3, <4>1, <4>2, <4>3
    <3> QED
      BY <1>15, <1>16, <2>1, <2>2, <2>3, <3>1, <3>2, <3>3
  <2>5. Filtered(plan, R) = SubSeq(plan, a + 1, b)
    BY <1>9, <2>4, FilteredStretch
  <2> QED
    BY <1>17, <2>5 DEF Ready, R
<1>19. IsRest(g, h, plan, T)
  <2>1. Len(h[T]) = Cardinality(T)
    BY <1>8 DEF t
  <2>2. \A k \in 1..Cardinality(T) : plan[Len(plan) - Cardinality(T) + k] = h[T][k]
    BY <1>8, <1>9, <1>11 DEF t
  <2>3. \A i \in 1..(Len(plan) - Cardinality(T)) : plan[i] \notin T
    <3>1. \A i \in 1..a : plan[i] \notin T
      BY <1>12 DEF T
    <3>2. \A k \in 1..Len(r) : plan[a + k] \notin T
      BY <1>10, <1>13 DEF T
    <3> QED
      BY <1>9, <1>15, <3>1, <3>2
  <2> QED
    BY <2>1, <2>2, <2>3 DEF IsRest
<1>20. Ready(g, order, S) = r
    BY <1>18 DEF r
<1>21. S \ ToSet(r) = T
    BY <1>1 DEF T
<1> QED
    BY <1>6, <1>17, <1>19, <1>20, <1>21 DEF a, b

(* One step of the recursion of Verifies.                                  *)
VerifyStep(g, order, plan, v, S) ==
    \/ S = {}
    \/ /\ Ready(g, order, S) # <<>>
       /\ SubSeq(plan, Len(plan) - Cardinality(S) + 1,
                 Len(plan) - Cardinality(S) + Len(Ready(g, order, S))) = Ready(g, order, S)
       /\ v[S \ ToSet(Ready(g, order, S))]

(* The recursion of Verifies has a solution, which the proof uses.         *)
LEMMA VerifiesUnfolds ==
    ASSUME NEW g, Normalized(g), NEW plan,
           NEW order \in Seq(NodesOf(g)), ToSet(order) = NodesOf(g)
    PROVE  \E v : /\ v = [S \in SUBSET NodesOf(g) |-> VerifyStep(g, order, plan, v, S)]
                  /\ Len(plan) = Len(order) /\ v[NodesOf(g)] => Verifies(g, order, plan)
<1> DEFINE N == NodesOf(g)
           Solves(v, k) == \A S \in SUBSET N : Cardinality(S) <= k =>
                              v[S] = VerifyStep(g, order, plan, v, S)
           Reached == {k \in Nat : \E v : Solves(v, k)}
<1> HIDE DEF N
<1>1. \A S \in SUBSET N : IsFiniteSet(S) /\ Cardinality(S) \in Nat
    BY NodesAreFinite DEF N
<1>2. \A S \in SUBSET N :
        /\ ToSet(Ready(g, order, S)) \subseteq S
        /\ Ready(g, order, S) # <<>> =>
              Cardinality(S \ ToSet(Ready(g, order, S))) < Cardinality(S)
    BY ReadyIsFree, LayerShrinks DEF N
<1>3. 0 \in Reached
  <2> DEFINE v == [S \in SUBSET N |-> TRUE]
  <2>1. ASSUME NEW S \in SUBSET N, Cardinality(S) <= 0
        PROVE  v[S] = VerifyStep(g, order, plan, v, S)
    <3>1. S = {}
      BY <1>1, <2>1, FS_EmptySet
    <3>2. v[S] = TRUE
      OBVIOUS
    <3>3. VerifyStep(g, order, plan, v, S) = TRUE
      BY <3>1 DEF VerifyStep
    <3> QED
      BY <3>2, <3>3
  <2>2. \E f : Solves(f, 0)
    <3> WITNESS v
    <3> QED
      BY <2>1
  <2> QED
    BY <2>2
<1>4. ASSUME NEW n \in Nat, n \in Reached PROVE n + 1 \in Reached
  <2>1. PICK h : Solves(h, n)
    BY <1>4
  <2> DEFINE k == [S \in SUBSET N |-> IF Cardinality(S) <= n THEN h[S]
                                      ELSE VerifyStep(g, order, plan, h, S)]
  <2>2. \A S \in SUBSET N : Cardinality(S) <= n => k[S] = h[S]
    OBVIOUS
  <2>3. ASSUME NEW S \in SUBSET N, Cardinality(S) <= n + 1
        PROVE  k[S] = VerifyStep(g, order, plan, k, S)
    <3>1. k[S] = VerifyStep(g, order, plan, h, S)
      BY <2>1
    <3>2. CASE Ready(g, order, S) = <<>>
      <4> HIDE DEF k
      <4> QED
        BY <3>1, <3>2 DEF VerifyStep
    <3>3. CASE Ready(g, order, S) # <<>>
      <4> DEFINE T == S \ ToSet(Ready(g, order, S))
      <4>1. T \in SUBSET N /\ Cardinality(T) <= n
        BY <1>1, <1>2, <2>3, <3>3
      <4>2. k[T] = h[T]
        BY <2>2, <4>1
      <4> HIDE DEF k
      <4> QED
        BY <3>1, <4>2 DEF VerifyStep
    <3> QED
      BY <3>2, <3>3
  <2>4. \E f : Solves(f, n + 1)
    <3> WITNESS k
    <3> QED
      BY <2>3
  <2> QED
    BY <2>4
<1>5. Cardinality(N) \in Reached
  <2> HIDE DEF Reached
  <2> QED
    BY <1>1, <1>3, <1>4, SetInduction
<1>6. PICK h : Solves(h, Cardinality(N))
    BY <1>5
<1>7. \A S \in SUBSET N : Cardinality(S) <= Cardinality(N)
    BY <1>1, FS_Subset
<1> DEFINE h0 == [S \in SUBSET N |-> h[S]]
<1>8. \A S \in SUBSET N : h0[S] = VerifyStep(g, order, plan, h0, S)
    BY <1>2, <1>6, <1>7 DEF VerifyStep
<1>9. h0 = [S \in SUBSET N |-> VerifyStep(g, order, plan, h0, S)]
    BY <1>8
<1>10. \E f : f = [S \in SUBSET N |-> VerifyStep(g, order, plan, f, S)]
    BY <1>9
<1> QED
    BY <1>10 DEF Verifies, VerifyStep, N

(* Whatever the Graph, cutting its topology into layers again gives back   *)
(* the topology, in the plan's own order and in the editor's               *)
(* (authority/graph_semantics.py).                                         *)
THEOREM TopologyVerifies ==
    ASSUME NEW g, Normalized(g), Acyclic(g), NEW order \in {g.nodes, Topology(g)}
    PROVE  Verifies(g, order, Topology(g))
<1> DEFINE N == NodesOf(g)
           plan == Topology(g)
<1>1. PICK h : IsLayering(g, h) /\ plan = h[N]
    BY TopologyUnfolds
<1>2. /\ plan \in Seq(N) /\ Len(plan) = Len(g.nodes) /\ ToSet(plan) = N
    BY TopologyIsAnOrder DEF IsTopologicalOrder
<1>3. g.nodes \in Seq(N) /\ ToSet(g.nodes) = N /\ Cardinality(N) = Len(g.nodes)
      /\ Len(g.nodes) \in Nat
    BY NodesAreFinite
<1>4. order \in Seq(N) /\ ToSet(order) = N /\ Len(order) = Len(plan)
    BY <1>2, <1>3
<1> HIDE DEF N, plan
<1>5. PICK v : /\ v = [S \in SUBSET N |-> VerifyStep(g, order, plan, v, S)]
               /\ Len(plan) = Len(order) /\ v[N] => Verifies(g, order, plan)
    BY <1>4, VerifiesUnfolds DEF N
<1> DEFINE Reached == {k \in Nat : \A S \in SUBSET N :
                       Cardinality(S) <= k /\ IsRest(g, h, plan, S) => v[S]}
<1>6. \A S \in SUBSET N : Cardinality(S) \in Nat /\ IsFiniteSet(S)
    BY NodesAreFinite DEF N
<1>7. ASSUME NEW S \in SUBSET N, S = {} PROVE v[S]
    BY <1>5, <1>7 DEF VerifyStep
<1>8. 0 \in Reached
  <2>1. \A S \in SUBSET N : Cardinality(S) <= 0 => S = {}
    BY <1>6, FS_EmptySet
  <2> QED
    BY <1>7, <2>1
<1>9. ASSUME NEW n \in Nat, n \in Reached PROVE n + 1 \in Reached
  <2>1. ASSUME NEW S \in SUBSET N, Cardinality(S) <= n + 1, IsRest(g, h, plan, S), S # {}
        PROVE  v[S]
    <3> DEFINE r == Ready(g, order, S)
               T == S \ ToSet(r)
    <3>1. /\ r # <<>>
          /\ SubSeq(plan, Len(plan) - Cardinality(S) + 1,
                    Len(plan) - Cardinality(S) + Len(r)) = r
          /\ IsRest(g, h, plan, T)
      <4>1. /\ IsLayering(g, h)
            /\ plan \in Seq(NodesOf(g)) /\ Len(plan) = Cardinality(NodesOf(g))
            /\ order \in {g.nodes, plan} /\ S \in SUBSET NodesOf(g)
        BY <1>1, <1>2, <1>3 DEF N, plan
      <4>2. LET x == Ready(g, order, S)
                a == Len(plan) - Cardinality(S)
            IN  /\ x # <<>> /\ SubSeq(plan, a + 1, a + Len(x)) = x
                /\ IsRest(g, h, plan, S \ ToSet(x))
        BY <2>1, <4>1, RestBeginsWithALayer
      <4> QED
        BY <4>2
    <3>2. ToSet(r) = Free(g, S) /\ Free(g, S) # {}
      BY <1>4, <3>1, ReadyIsFree DEF N
    <3>3. Cardinality(T) < Cardinality(S) /\ T \in SUBSET N
      BY <3>2, LayerShrinks DEF N
    <3>4. Cardinality(T) <= n
      BY <1>6, <2>1, <3>3
    <3>5. v[T]
      BY <1>9, <3>1, <3>3, <3>4
    <3>6. v[S] = VerifyStep(g, order, plan, v, S)
      BY <1>5
    <3> QED
      BY <3>1, <3>5, <3>6 DEF VerifyStep
  <2>2. \A S \in SUBSET N : Cardinality(S) <= n + 1 /\ IsRest(g, h, plan, S) => v[S]
    BY <1>7, <2>1
  <2> QED
    BY <2>2
<1>10. IsRest(g, h, plan, N)
  <2>1. Len(plan) - Cardinality(N) = 0 /\ Len(plan) = Cardinality(N)
    BY <1>2, <1>3
  <2>2. \A k \in 1..Cardinality(N) : 0 + k = k
    BY <1>3
  <2>3. 1..0 = {}
    OBVIOUS
  <2> QED
    BY <1>1, <2>1, <2>2, <2>3 DEF IsRest
<1>11. v[N]
  <2>1. \A k \in Nat : k \in Reached
    <3> HIDE DEF Reached
    <3> QED
      BY <1>8, <1>9, SetInduction
  <2>2. Cardinality(N) \in Nat
    BY <1>6
  <2>3. \A S \in SUBSET N : Cardinality(S) <= Cardinality(N) /\ IsRest(g, h, plan, S) => v[S]
    <3>1. Cardinality(N) \in Reached
      <4> HIDE DEF Reached
      <4> QED
        BY <2>1, <2>2
    <3> QED
      BY <3>1
  <2> QED
    BY <1>10, <2>2, <2>3
<1> QED
    BY <1>4, <1>5, <1>11 DEF plan

(* Compiling is enough for every relation that the semantic proof repeats. *)
LEMMA CompiledRelationsHold ==
    ASSUME NEW g, Compiles(g)
    PROVE  RelationsHold(g)
<1>1. \A w : Presence(g, w) => ~Unknown(g, w)
    BY DEF Presence, Unknown
<1> QED
    BY <1>1 DEF Compiles, RelationsHold, InputAccepts

-----------------------------------------------------------------------------
(* Wires.                                                                  *)

(* A wire that has a producer has one of two kinds, and only one.          *)
LEMMA ProducerOfAWire ==
    ASSUME NEW g, Normalized(g), NEW w, Producers(g, w) # {}
    PROVE  /\ Producer(g, w) \in Producers(g, w)
           /\ IsInput(g, w) => /\ Producer(g, w)[1] \in DOMAIN g.inputs
                               /\ g.inputs[Producer(g, w)[1]].wire = w
           /\ ~IsInput(g, w) => /\ Producer(g, w)[1] \in NodesOf(g)
                                /\ Producer(g, w)[2] \in BoundTo(g.mods[Producer(g, w)[1]].outs, w)
<1>1. Producer(g, w) \in Producers(g, w)
    BY DEF Producer
<1>2. PICK x : x \in Producers(g, w) /\ Producer(g, w) = x
    BY <1>1
<1>3. CASE x \in {<<b, "value">> : b \in {b \in DOMAIN g.inputs : g.inputs[b].wire = w}}
  <2>1. PICK b \in DOMAIN g.inputs : g.inputs[b].wire = w /\ x = <<b, "value">>
    BY <1>3
  <2> QED
    BY <1>2, <2>1 DEF IsInput
<1>4. CASE x \in UNION {{<<n, p>> : p \in BoundTo(g.mods[n].outs, w)} : n \in NodesOf(g)}
  <2>1. PICK n \in NodesOf(g) : \E p \in BoundTo(g.mods[n].outs, w) : x = <<n, p>>
    BY <1>4
  <2>2. PICK p \in BoundTo(g.mods[n].outs, w) : x = <<n, p>>
    BY <2>1
  <2>3. n \notin DOMAIN g.inputs
    BY DEF Normalized, NodesOf
  <2> QED
    BY <1>2, <2>2, <2>3 DEF IsInput
<1> QED
    BY <1>2, <1>3, <1>4 DEF Producers

(* A bound output port is the producer of its wire.                        *)
LEMMA PortIsTheProducer ==
    ASSUME NEW g, Normalized(g), SingleProducer(g), NEW w \in WiresOf(g),
           NEW n \in NodesOf(g), NEW p \in BoundTo(g.mods[n].outs, w)
    PROVE  /\ Producers(g, w) # {} /\ Producer(g, w) = <<n, p>>
           /\ ~IsInput(g, w) /\ ~Unknown(g, w)
           /\ SchemaOf(g, w) = g.mods[n].outs[p].schema
           /\ Presence(g, w) = g.mods[n].outs[p].required
<1>1. <<n, p>> \in Producers(g, w)
    BY DEF Producers
<1>2. Producer(g, w) = <<n, p>>
    BY <1>1, ProducerOfAWire DEF SingleProducer
<1>3. n \notin DOMAIN g.inputs
    BY DEF Normalized, NodesOf
<1> QED
    BY <1>1, <1>2, <1>3 DEF IsInput, Unknown, SchemaOf, Presence, OutPort

(* What the compiler saw of a bound input port holds of its wire.          *)
LEMMA BoundInput ==
    ASSUME NEW g, Normalized(g), Compiles(g), NEW n \in NodesOf(g),
           NEW p \in DOMAIN g.mods[n].ins, g.mods[n].ins[p].wire # Unbound
    PROVE  LET port == g.mods[n].ins[p]
               w == port.wire
           IN  /\ w \in WiresOf(g)
               /\ port.required => Producers(g, w) # {} /\ Presence(g, w)
               /\ Producers(g, w) # {} /\ ~IsInput(g, w) => Producer(g, w)[1] \in Sources(g, n)
               /\ (IF Unknown(g, w) THEN port.schema ELSE SchemaOf(g, w)) \in EdgeSchemas(g, w)
               /\ Producers(g, w) # {} /\ ~Unknown(g, w) => SchemaOf(g, w) \subseteq port.schema
<1> DEFINE port == g.mods[n].ins[p]
           w == port.wire
<1>1. w \in WiresOf(g) /\ p \in BoundTo(g.mods[n].ins, w)
  <2>1. w \in PortWires(g.mods[n].ins)
    BY DEF PortWires
  <2>2. p \in BoundTo(g.mods[n].ins, w)
    BY DEF BoundTo
  <2> QED
    BY <2>1, <2>2 DEF WiresOf
<1>2. InputAccepts(g, n, p)
    BY DEF Compiles
<1>3. /\ port.required => Producers(g, w) # {} /\ Presence(g, w)
      /\ Producers(g, w) # {} /\ ~Unknown(g, w) => SchemaOf(g, w) \subseteq port.schema
    BY <1>2 DEF InputAccepts, Compatible
<1>4. Producers(g, w) # {} /\ ~IsInput(g, w) => Producer(g, w)[1] \in Sources(g, n)
    BY <1>1 DEF Sources
<1>5. (IF Unknown(g, w) THEN port.schema ELSE SchemaOf(g, w)) \in EdgeSchemas(g, w)
  <2>1. <<n, p>> \in UNION {{<<m, q>> : q \in BoundTo(g.mods[m].ins, w)} : m \in NodesOf(g)}
    BY <1>1
  <2>2. <<n, p>>[1] = n /\ <<n, p>>[2] = p
    OBVIOUS
  <2> QED
    BY <2>1, <2>2 DEF EdgeSchemas
<1> QED
    BY <1>1, <1>3, <1>4, <1>5

(* An output port's wire is one of the Graph's, or is not bound.           *)
LEMMA OutputWire ==
    ASSUME NEW g, NEW n \in NodesOf(g), NEW p \in DOMAIN g.mods[n].outs
    PROVE  g.mods[n].outs[p].wire \in WiresOf(g) \cup {Unbound}
<1> DEFINE w == g.mods[n].outs[p].wire
<1>1. w \in PortWires(g.mods[n].outs)
    BY DEF PortWires
<1> QED
    BY <1>1 DEF WiresOf

(* And so of an output boundary.                                           *)
LEMMA BoundOutput ==
    ASSUME NEW g, Normalized(g), Compiles(g), NEW b \in DOMAIN g.outputs
    PROVE  /\ g.outputs[b] \in WiresOf(g) /\ Producers(g, g.outputs[b]) # {}
           /\ EdgeSchemas(g, g.outputs[b]) # {}
<1>1. g.outputs[b] \in WiresOf(g)
    BY DEF WiresOf, Normalized
<1>2. Producers(g, g.outputs[b]) # {}
    BY DEF Compiles, OutputsProduced
<1>3. (IF Unknown(g, g.outputs[b]) THEN {} ELSE SchemaOf(g, g.outputs[b]))
        \in EdgeSchemas(g, g.outputs[b])
    BY DEF EdgeSchemas
<1> QED
    BY <1>1, <1>2, <1>3

-----------------------------------------------------------------------------
(* The Graph's steps.                                                      *)

(* What the invariant says past the compiler.                              *)
LEMMA Planned ==
    ASSUME GraphIndInv, phase \notin {"draft", "rejected"}
    PROVE  /\ Normalized(graph) /\ Compiles(graph) /\ SingleProducer(graph)
           /\ topology = Topology(graph)
           /\ topology \in Seq(NodesOf(graph)) /\ Len(topology) = Len(graph.nodes)
           /\ Len(topology) \in Nat /\ ToSet(topology) = NodesOf(graph)
           /\ \A i \in 1..Len(topology) : topology[i] \in NodesOf(graph)
           /\ \A i \in 1..Len(topology) :
                Sources(graph, topology[i]) \subseteq {topology[j] : j \in 1..(i - 1)}
<1>1. Normalized(graph) /\ Compiles(graph) /\ topology = Topology(graph)
    BY GraphsAssumption DEF GraphIndInv, PlanInv
<1>2. SingleProducer(graph) /\ Acyclic(graph)
    BY <1>1 DEF Compiles
<1>3. IsTopologicalOrder(graph, topology)
  <2>1. IsTopologicalOrder(graph, Topology(graph))
    BY <1>1, <1>2, TopologyIsAnOrder
  <2> QED
    BY <1>1, <2>1
<1>4. Len(topology) \in Nat /\ \A i \in 1..Len(topology) : topology[i] \in NodesOf(graph)
    BY <1>3 DEF IsTopologicalOrder
<1> QED
    BY <1>1, <1>2, <1>3, <1>4 DEF IsTopologicalOrder

(* When the next position is past the topology, every node has run.        *)
LEMMA AllHaveRun ==
    ASSUME GraphIndInv, phase \notin {"draft", "rejected"}, at > Len(topology)
    PROVE  Ran = NodesOf(graph) /\ at = Len(topology) + 1
<1>1. /\ topology \in Seq(NodesOf(graph)) /\ Len(topology) = Len(graph.nodes)
      /\ Len(topology) \in Nat /\ ToSet(topology) = NodesOf(graph)
    BY Planned
<1>2. at \in 1..(Len(topology) + 1)
    BY <1>1 DEF GraphIndInv, GraphTypeOK
<1>3. at = Len(topology) + 1 /\ 1..(at - 1) = DOMAIN topology
    BY <1>1, <1>2
<1> QED
    BY <1>1, <1>3 DEF Ran, ToSet

(* The first state.                                                        *)
LEMMA GraphStarts == GraphInit => GraphIndInv
<1> SUFFICES ASSUME GraphInit PROVE GraphIndInv
    OBVIOUS
<1>1. graph \in Graphs /\ phase = "draft" /\ at = 1 /\ given = {} /\ error = "none"
    BY DEF GraphInit
<1>2. Len(graph.nodes) \in Nat
    BY <1>1, GraphsAssumption, NodesAreFinite
<1>3. GraphTypeOK
    BY <1>1, <1>2 DEF GraphInit, GraphTypeOK
<1> QED
    BY <1>1, <1>3
    DEF GraphIndInv, PlanInv, InvokersInv, CycleInv, PortsAdmitWhatTheyGet, CompiledNeverStarves,
        CompiledIsSealed

LEMMA GraphStutters == GraphIndInv /\ UNCHANGED graphVars => GraphIndInv'
<1> QED
    BY DEF graphVars, GraphIndInv, GraphTypeOK, PlanInv, InvokersInv, CycleInv, WireInv, Ran,
           PortsAdmitWhatTheyGet, CompiledNeverStarves, CompiledIsSealed

LEMMA CompileKeeps == GraphIndInv /\ Compile => GraphIndInv'
<1> SUFFICES ASSUME GraphIndInv, Compile PROVE GraphIndInv'
    OBVIOUS
<1> QED
    BY DEF Compile, cycle, GraphIndInv, GraphTypeOK, PlanInv, InvokersInv, CycleInv,
           PortsAdmitWhatTheyGet, CompiledNeverStarves, CompiledIsSealed

(* What compiled is sealed.                                                *)
LEMMA SealKeeps == GraphIndInv /\ Seal => GraphIndInv'
<1> SUFFICES ASSUME GraphIndInv, Seal PROVE GraphIndInv'
    OBVIOUS
<1>1. phase = "compiled"
    BY DEF Seal
<1>2. Normalized(graph) /\ Compiles(graph) /\ topology = Topology(graph) /\ Acyclic(graph)
    BY <1>1, Planned DEF Compiles
<1>3. phase' = "sealed" /\ UNCHANGED <<graph, topology, at, invokers, cycle>>
    BY <1>2, CompiledRelationsHold, TopologyVerifies DEF Seal
<1>4. InvokersInv'
  <2>1. at' = 1
    BY <1>1, <1>3 DEF GraphIndInv, InvokersInv
  <2>2. Ran' = {}
    BY <2>1 DEF Ran
  <2> QED
    BY <1>3, <2>2 DEF InvokersInv
<1> QED
    BY <1>1, <1>3, <1>4
    DEF cycle, GraphIndInv, GraphTypeOK, PlanInv, CycleInv,
        PortsAdmitWhatTheyGet, CompiledNeverStarves, CompiledIsSealed

LEMMA ConstructKeeps == GraphIndInv /\ Construct => GraphIndInv'
<1> SUFFICES ASSUME GraphIndInv, Construct PROVE GraphIndInv'
    OBVIOUS
<1>1. phase = "sealed" /\ UNCHANGED <<graph, topology, cycle>>
    BY DEF Construct
<1>2. /\ Len(topology) = Len(graph.nodes) /\ Len(topology) \in Nat
      /\ \A i \in 1..Len(topology) : topology[i] \in NodesOf(graph)
    BY <1>1, Planned
<1>3. /\ at \in 1..(Len(graph.nodes) + 1)
      /\ invokers \in [NodesOf(graph) -> {"none", "running", "finalized", "closed"}]
      /\ \A n \in Ran : invokers[n] = "running"
    BY <1>1 DEF GraphIndInv, GraphTypeOK, InvokersInv
<1>4. CASE /\ at <= Len(topology)
           /\ invokers' = [invokers EXCEPT ![topology[at]] = "running"]
           /\ at' = at + 1 /\ UNCHANGED phase
  <2>1. at' \in 1..(Len(graph.nodes) + 1) /\ at \in 1..Len(topology)
    BY <1>2, <1>3, <1>4
  <2>2. invokers' \in [NodesOf(graph) -> {"none", "running", "finalized", "closed"}]
    BY <1>2, <1>3, <1>4, <2>1
  <2>3. Ran' = Ran \cup {topology[at]}
    <3>1. 1..(at' - 1) = (1..(at - 1)) \cup {at}
      BY <1>3, <1>4
    <3> QED
      BY <1>1, <3>1 DEF Ran
  <2>4. InvokersInv'
    <3>1. \A n \in Ran : n \in NodesOf(graph)
      BY <1>2, <1>3 DEF Ran
    <3> QED
      BY <1>1, <1>2, <1>3, <1>4, <2>1, <2>3, <3>1 DEF InvokersInv
  <2> QED
    BY <1>1, <1>4, <2>1, <2>2, <2>4
    DEF cycle, GraphIndInv, GraphTypeOK, PlanInv, CycleInv,
        PortsAdmitWhatTheyGet, CompiledNeverStarves, CompiledIsSealed
<1>5. CASE at > Len(topology) /\ phase' = "ready" /\ at' = 1 /\ UNCHANGED invokers
  <2>1. Ran = NodesOf(graph)
    BY <1>1, <1>5, AllHaveRun
  <2>2. InvokersInv'
    BY <1>1, <1>3, <1>5, <2>1 DEF InvokersInv
  <2> QED
    BY <1>1, <1>2, <1>5, <2>2
    DEF cycle, GraphIndInv, GraphTypeOK, PlanInv, CycleInv,
        PortsAdmitWhatTheyGet, CompiledNeverStarves, CompiledIsSealed
<1>6. CASE /\ phase' = "closed" /\ at' = 1
           /\ invokers' = [n \in DOMAIN invokers |->
                             IF invokers[n] = "none" THEN "none" ELSE "closed"]
    BY <1>1, <1>2, <1>3, <1>6
    DEF cycle, GraphIndInv, GraphTypeOK, PlanInv, InvokersInv, CycleInv,
        PortsAdmitWhatTheyGet, CompiledNeverStarves, CompiledIsSealed
<1> QED
    BY <1>4, <1>5, <1>6 DEF Construct

(* A cycle that stops for a reason other than a wanting value.             *)
LEMMA FailKeeps ==
    ASSUME GraphIndInv, phase = "running", NEW why \in {"source", "module"}, Fail(why)
    PROVE  GraphIndInv'
<1>1. Len(graph.nodes) \in Nat
    BY Planned
<1> QED
    BY <1>1
    DEF Fail, GraphIndInv, GraphTypeOK, PlanInv, InvokersInv, CycleInv,
        PortsAdmitWhatTheyGet, CompiledNeverStarves, CompiledIsSealed

(* A cycle begins with what the entry proof let through.                   *)
LEMMA BeginCycleKeeps == GraphIndInv /\ BeginCycle => GraphIndInv'
<1> SUFFICES ASSUME GraphIndInv, BeginCycle PROVE GraphIndInv'
    OBVIOUS
<1>1. /\ phase = "ready" /\ phase' = "running" /\ at' = 1 /\ error' = "none" /\ given' = {}
      /\ UNCHANGED <<graph, topology, invokers>>
    BY DEF BeginCycle
<1>2. Normalized(graph) /\ Len(graph.nodes) \in Nat
    BY <1>1, Planned
<1>3. PICK data \in [DOMAIN graph.inputs -> Values \cup {Missing}] :
        /\ EntryHolds(data)
        /\ value' = [w \in DOMAIN value |->
              IF Producers(graph, w) # {} /\ IsInput(graph, w)
                THEN data[Producer(graph, w)[1]] ELSE Missing]
    BY DEF BeginCycle
<1>4. DOMAIN value = WiresOf(graph)
    BY DEF GraphIndInv, GraphTypeOK
<1>5. proven' = {w \in WiresOf(graph) :
          /\ Producers(graph, w) # {} /\ IsInput(graph, w)
          /\ Contract(graph, w).kind = "declared"}
    BY <1>4 DEF BeginCycle
<1>6. ASSUME NEW w \in WiresOf(graph)
      PROVE  value'[w] \in Values \cup {Missing} /\ WireInv(w)'
  <2>1. value'[w] = IF Producers(graph, w) # {} /\ IsInput(graph, w)
                      THEN data[Producer(graph, w)[1]] ELSE Missing
    BY <1>3, <1>4
  <2>2. Ran' = {}
    BY <1>1 DEF Ran
  <2>3. CASE Producers(graph, w) # {} /\ IsInput(graph, w)
    <3> DEFINE b == Producer(graph, w)[1]
               c == graph.inputs[b].contract
    <3>1. b \in DOMAIN graph.inputs /\ value'[w] = data[b]
      BY <1>2, <2>1, <2>3, ProducerOfAWire
    <3>2. c.kind = "unknown" \/ IF data[b] = Missing THEN ~c.required ELSE data[b] \in c.schema
      BY <1>3, <3>1 DEF EntryHolds
    <3>3. /\ Contract(graph, w) = c /\ SchemaOf(graph, w) = c.schema
          /\ Unknown(graph, w) <=> c.kind = "unknown"
          /\ Presence(graph, w) => c.kind # "unknown" /\ c.required
      BY <2>3 DEF Contract, SchemaOf, Unknown, Presence
    <3>4. ~(Unknown(graph, w) /\ w \in proven')
      BY <1>5, <3>3
    <3>5. data[b] \in Values \cup {Missing}
      BY <1>3, <3>1
    <3> HIDE DEF b, c
    <3> QED
      BY <1>1, <2>3, <3>1, <3>2, <3>3, <3>4, <3>5 DEF WireInv
  <2>4. CASE ~(Producers(graph, w) # {} /\ IsInput(graph, w))
    <3>1. value'[w] = Missing
      BY <2>1, <2>4
    <3>2. Producers(graph, w) # {} => ~IsInput(graph, w) /\ ~Unknown(graph, w)
      BY <2>4 DEF Unknown
    <3> QED
      BY <1>1, <2>2, <3>1, <3>2 DEF WireInv
  <2> QED
    BY <2>3, <2>4
<1>7. value' \in [WiresOf(graph) -> Values \cup {Missing}]
    BY <1>3, <1>4, <1>6
<1>8. CycleInv'
    BY <1>1, <1>6 DEF CycleInv
<1>9. GraphTypeOK'
    BY <1>1, <1>2, <1>5, <1>7 DEF GraphIndInv, GraphTypeOK
<1> QED
    BY <1>1, <1>8, <1>9
    DEF GraphIndInv, PlanInv, InvokersInv, PortsAdmitWhatTheyGet, CompiledNeverStarves,
        CompiledIsSealed

(* A Module that is run finds its required wires filled, provable, and     *)
(* holding what its ports admit.                                           *)
LEMMA NodeIsFed ==
    ASSUME GraphIndInv, phase = "running", at <= Len(topology),
           NEW p \in DOMAIN graph.mods[topology[at]].ins,
           graph.mods[topology[at]].ins[p].wire # Unbound
    PROVE  LET port == graph.mods[topology[at]].ins[p]
               w == port.wire
           IN  /\ w \in WiresOf(graph)
               /\ port.required => value[w] # Missing
               /\ EdgeSchemas(graph, w) # {}
               /\ (/\ value[w] # Missing
                   /\ w \in proven \/ \A s \in EdgeSchemas(graph, w) : value[w] \in s)
                      => value[w] \in port.schema
<1> DEFINE n == topology[at]
           port == graph.mods[n].ins[p]
           w == port.wire
<1>1. /\ Normalized(graph) /\ Compiles(graph) /\ at \in 1..Len(topology) /\ n \in NodesOf(graph)
      /\ Sources(graph, n) \subseteq Ran
  <2>1. at \in 1..(Len(topology) + 1) /\ Len(topology) \in Nat
    BY Planned DEF GraphIndInv, GraphTypeOK
  <2>2. at \in 1..Len(topology)
    BY <2>1
  <2> QED
    BY <2>2, Planned DEF Ran
<1>2. /\ w \in WiresOf(graph)
      /\ port.required => Producers(graph, w) # {} /\ Presence(graph, w)
      /\ Producers(graph, w) # {} /\ ~IsInput(graph, w) =>
            Producer(graph, w)[1] \in Sources(graph, n)
      /\ (IF Unknown(graph, w) THEN port.schema ELSE SchemaOf(graph, w)) \in EdgeSchemas(graph, w)
      /\ Producers(graph, w) # {} /\ ~Unknown(graph, w) => SchemaOf(graph, w) \subseteq port.schema
    BY <1>1, BoundInput
<1>3. WireInv(w)
    BY <1>2 DEF GraphIndInv, CycleInv
<1> HIDE DEF n, port, w
<1>4. port.required => value[w] # Missing
    BY <1>1, <1>2, <1>3 DEF WireInv
<1>5. ASSUME value[w] # Missing, w \in proven \/ \A s \in EdgeSchemas(graph, w) : value[w] \in s
      PROVE  value[w] \in port.schema
  <2>1. Producers(graph, w) # {}
    BY <1>3, <1>5 DEF WireInv
  <2>2. CASE Unknown(graph, w)
    <3>1. \A s \in EdgeSchemas(graph, w) : value[w] \in s
      BY <1>3, <1>5, <2>1, <2>2 DEF WireInv
    <3> QED
      BY <1>2, <2>2, <3>1
  <2>3. CASE ~Unknown(graph, w)
    <3>1. value[w] \in SchemaOf(graph, w)
      BY <1>3, <1>5, <2>1, <2>3 DEF WireInv
    <3> QED
      BY <1>2, <2>1, <2>3, <3>1
  <2> QED
    BY <2>2, <2>3
<1> QED
    BY <1>2, <1>4, <1>5 DEF n, port, w

(* The step of RunNode when the Module returns: have are its input ports   *)
(* with a value, wires are their wires.                                    *)
Returned(n, have, wires, outs) ==
    /\ have = {p \in DOMAIN graph.mods[n].ins :
                  /\ graph.mods[n].ins[p].wire # Unbound
                  /\ value[graph.mods[n].ins[p].wire] # Missing}
    /\ wires = {graph.mods[n].ins[p].wire : p \in have}
    /\ ~Inadmissible(wires) /\ outs \in Returns(n) /\ ReturnHolds(n, outs)
    /\ given' = {<<n, p, value[graph.mods[n].ins[p].wire]>> : p \in have}
    /\ value' = [w \in DOMAIN value |->
                    IF \E p \in BoundTo(graph.mods[n].outs, w) : outs[p] # Missing
                      THEN outs[CHOOSE p \in BoundTo(graph.mods[n].outs, w) : TRUE]
                      ELSE value[w]]
    /\ proven' = proven \cup wires
                    \cup ({graph.mods[n].outs[p].wire :
                             p \in {p \in DOMAIN outs : outs[p] # Missing}} \ {Unbound})
    /\ at' = at + 1
    /\ UNCHANGED <<graph, topology, phase, invokers, error>>

LEMMA ReturnKeeps ==
    ASSUME GraphIndInv, phase = "running", at <= Len(topology),
           NEW n, n = topology[at], NEW have, NEW wires, NEW outs,
           Returned(n, have, wires, outs)
    PROVE  GraphIndInv'
<1>1. /\ Normalized(graph) /\ SingleProducer(graph) /\ n \in NodesOf(graph)
      /\ at \in 1..Len(graph.nodes) /\ Len(graph.nodes) \in Nat
  <2>1. at \in 1..(Len(topology) + 1) /\ Len(topology) \in Nat /\ Len(topology) = Len(graph.nodes)
    BY Planned DEF GraphIndInv, GraphTypeOK
  <2>2. at \in 1..Len(topology)
    BY <2>1
  <2> QED
    BY <2>1, <2>2, Planned
<1>2. DOMAIN value = WiresOf(graph) /\ value \in [WiresOf(graph) -> Values \cup {Missing}]
      /\ proven \subseteq WiresOf(graph)
    BY DEF GraphIndInv, GraphTypeOK
<1>3. DOMAIN outs = DOMAIN graph.mods[n].outs
      /\ \A p \in DOMAIN outs : outs[p] \in Values \cup {Missing}
    BY DEF Returned, Returns
<1>4. \A p \in have : /\ graph.mods[n].ins[p].wire \in WiresOf(graph)
                      /\ value[graph.mods[n].ins[p].wire] \in graph.mods[n].ins[p].schema
  <2>1. SUFFICES ASSUME NEW p \in have
                 PROVE  LET w == graph.mods[n].ins[p].wire
                        IN  w \in WiresOf(graph) /\ value[w] \in graph.mods[n].ins[p].schema
    OBVIOUS
  <2> DEFINE w == graph.mods[n].ins[p].wire
  <2>2. p \in DOMAIN graph.mods[n].ins /\ w # Unbound /\ value[w] # Missing /\ w \in wires
    BY DEF Returned
  <2>3. w \in proven \/ \A s \in EdgeSchemas(graph, w) : value[w] \in s
    BY <2>2 DEF Inadmissible, Returned
  <2> QED
    BY <2>2, <2>3, NodeIsFed
<1>5. PortsAdmitWhatTheyGet'
  <2>1. ASSUME NEW x \in given' PROVE x[3] \in graph.mods[x[1]].ins[x[2]].schema
    <3>1. PICK p \in have : x = <<n, p, value[graph.mods[n].ins[p].wire]>>
      BY DEF Returned
    <3>2. graph' = graph
      BY DEF Returned
    <3> QED
      BY <1>4, <3>1, <3>2
  <2>2. graph' = graph
    BY DEF Returned
  <2> QED
    BY <2>1, <2>2 DEF PortsAdmitWhatTheyGet
<1>6. Ran' = Ran \cup {n}
  <2>1. at' = at + 1 /\ topology' = topology
    BY DEF Returned
  <2>2. 1..(at' - 1) = (1..(at - 1)) \cup {at}
    BY <1>1, <2>1
  <2> QED
    BY <2>1, <2>2 DEF Ran
<1>7. proven' \subseteq WiresOf(graph)
  <2>1. \A p \in DOMAIN outs : graph.mods[n].outs[p].wire \in WiresOf(graph) \cup {Unbound}
    BY <1>1, <1>3, OutputWire
  <2>2. wires \subseteq WiresOf(graph)
    BY <1>4 DEF Returned
  <2> QED
    BY <1>2, <2>1, <2>2 DEF Returned
<1>8. ASSUME NEW w \in WiresOf(graph)
      PROVE  value'[w] \in Values \cup {Missing} /\ WireInv(w)'
  <2>1. WireInv(w)
    BY DEF GraphIndInv, CycleInv
  <2>2. \A q \in DOMAIN graph.mods[n].outs :
            graph.mods[n].outs[q].wire = w <=> q \in BoundTo(graph.mods[n].outs, w)
    BY DEF BoundTo
  <2>3. CASE \E p \in BoundTo(graph.mods[n].outs, w) : outs[p] # Missing
    <3>1. PICK p \in BoundTo(graph.mods[n].outs, w) : outs[p] # Missing
      BY <2>3
    <3>2. \A q \in BoundTo(graph.mods[n].outs, w) : q = p
      <4>1. \A q \in BoundTo(graph.mods[n].outs, w) : Producer(graph, w) = <<n, q>>
        BY <1>1, PortIsTheProducer
      <4> QED
        BY <4>1
    <3>3. value'[w] = outs[p]
      <4>1. (CHOOSE q \in BoundTo(graph.mods[n].outs, w) : TRUE) = p
        BY <3>2
      <4> QED
        BY <1>2, <2>3, <4>1 DEF Returned
    <3>4. /\ Producers(graph, w) # {} /\ ~Unknown(graph, w)
          /\ SchemaOf(graph, w) = graph.mods[n].outs[p].schema
      BY <1>1, PortIsTheProducer
    <3>5. p \in DOMAIN outs /\ outs[p] \in graph.mods[n].outs[p].schema
      BY <1>3, <3>1 DEF BoundTo, ReturnHolds, Returned
    <3>6. graph' = graph
      BY DEF Returned
    <3> QED
      BY <1>3, <3>1, <3>3, <3>4, <3>5, <3>6 DEF WireInv
  <2>4. CASE \A p \in BoundTo(graph.mods[n].outs, w) : outs[p] = Missing
    <3>1. value'[w] = value[w]
      BY <1>2, <2>4 DEF Returned
    <3>2. ASSUME Producers(graph, w) # {}, Presence(graph, w),
                 IsInput(graph, w) \/ Producer(graph, w)[1] \in Ran'
          PROVE  value[w] # Missing
      <4>1. CASE IsInput(graph, w) \/ Producer(graph, w)[1] \in Ran
        BY <2>1, <3>2, <4>1 DEF WireInv
      <4>2. CASE ~IsInput(graph, w) /\ Producer(graph, w)[1] = n
        <5> DEFINE p == Producer(graph, w)[2]
        <5>1. p \in BoundTo(graph.mods[n].outs, w)
          BY <1>1, <3>2, <4>2, ProducerOfAWire
        <5>2. graph.mods[n].outs[p].required
          BY <1>1, <3>2, <5>1, PortIsTheProducer
        <5>3. outs[p] = Missing /\ p \in DOMAIN outs
          BY <1>3, <2>4, <5>1 DEF BoundTo
        <5> HIDE DEF p
        <5> QED
          BY <5>2, <5>3 DEF ReturnHolds, Returned
      <4> QED
        BY <1>6, <3>2, <4>1, <4>2
    <3>3. ASSUME Producers(graph, w) # {}, Unknown(graph, w), w \in proven', value[w] # Missing
          PROVE  \A s \in EdgeSchemas(graph, w) : value[w] \in s
      <4>1. CASE w \in proven
        BY <2>1, <3>3, <4>1 DEF WireInv
      <4>2. CASE w \in wires /\ w \notin proven
        BY <4>2 DEF Inadmissible, Returned
      <4>3. ~(\E p \in DOMAIN outs : outs[p] # Missing /\ graph.mods[n].outs[p].wire = w)
        BY <1>3, <2>2, <2>4
      <4>4. w \in proven' => w \in proven \/ w \in wires \/
                \E p \in DOMAIN outs : outs[p] # Missing /\ graph.mods[n].outs[p].wire = w
        BY DEF Returned
      <4> QED
        BY <3>3, <4>1, <4>2, <4>3, <4>4
    <3> QED
      <4>1. value[w] \in Values \cup {Missing}
        BY <1>2
      <4>2. value'[w] # Missing => Producers(graph, w) # {}
        BY <2>1, <3>1 DEF WireInv
      <4>3. Producers(graph, w) # {} => value'[w] = Missing \/ Unknown(graph, w)
                                          \/ value'[w] \in SchemaOf(graph, w)
        BY <2>1, <3>1 DEF WireInv
      <4>4. graph' = graph
        BY DEF Returned
      <4> QED
        BY <3>1, <3>2, <3>3, <4>1, <4>2, <4>3, <4>4 DEF WireInv
  <2> QED
    BY <2>3, <2>4
<1>9. value' \in [WiresOf(graph) -> Values \cup {Missing}]
    BY <1>2, <1>8 DEF Returned
<1>10. CycleInv'
    BY <1>8 DEF CycleInv, Returned
<1>11. GraphTypeOK'
  <2>1. at' = at + 1 /\ UNCHANGED <<graph, phase, invokers, error>>
    BY DEF Returned
  <2>2. at' \in 1..(Len(graph.nodes) + 1)
    BY <1>1, <2>1
  <2> QED
    BY <1>7, <1>9, <2>1, <2>2 DEF GraphIndInv, GraphTypeOK
<1> QED
    BY <1>5, <1>10, <1>11
    DEF Returned, GraphIndInv, PlanInv, InvokersInv, CompiledNeverStarves, CompiledIsSealed

LEMMA RunNodeKeeps == GraphIndInv /\ RunNode => GraphIndInv'
<1> SUFFICES ASSUME GraphIndInv, RunNode PROVE GraphIndInv'
    OBVIOUS
<1>1. phase = "running" /\ at <= Len(topology)
    BY DEF RunNode
<1> DEFINE n == topology[at]
           ins == graph.mods[n].ins
           bound == {p \in DOMAIN ins : ins[p].wire # Unbound}
           have == {p \in bound : value[ins[p].wire] # Missing}
           wires == {ins[p].wire : p \in have}
<1>2. /\ ~(\E p \in bound \ have : ins[p].required)
      /\ \A p \in have : EdgeSchemas(graph, ins[p].wire) # {}
    BY <1>1, NodeIsFed
<1>3. ~Unprovable(wires)
    BY <1>2 DEF Unprovable
<1>4. \/ Fail("source") \/ Fail("module")
      \/ \E outs : Returned(n, have, wires, outs)
    BY <1>2, <1>3 DEF RunNode, Returned
<1>5. n = topology[at]
    OBVIOUS
<1> QED
    BY <1>1, <1>4, <1>5, FailKeeps, ReturnKeeps

(* What an accepted Graph exports is there.                                *)
LEMMA ExportKeeps == GraphIndInv /\ Export => GraphIndInv'
<1> SUFFICES ASSUME GraphIndInv, Export PROVE GraphIndInv'
    OBVIOUS
<1>1. phase = "running" /\ at > Len(topology)
    BY DEF Export
<1>2. Normalized(graph) /\ Compiles(graph) /\ Ran = NodesOf(graph) /\ Len(graph.nodes) \in Nat
    BY <1>1, AllHaveRun, Planned
<1> DEFINE wires == {graph.outputs[b] : b \in DOMAIN graph.outputs}
           have == {w \in wires : value[w] # Missing}
<1>3. \A b \in DOMAIN graph.outputs :
        /\ graph.outputs[b] \in WiresOf(graph) /\ Producers(graph, graph.outputs[b]) # {}
        /\ EdgeSchemas(graph, graph.outputs[b]) # {}
    BY <1>2, BoundOutput
<1>4. ASSUME NEW b \in RequiredOutputs(graph) PROVE value[graph.outputs[b]] # Missing
  <2> DEFINE w == graph.outputs[b]
  <2>1. b \in DOMAIN graph.outputs /\ Presence(graph, w)
    BY DEF RequiredOutputs
  <2>2. w \in WiresOf(graph) /\ Producers(graph, w) # {}
    BY <1>3, <2>1
  <2>3. WireInv(w)
    BY <1>1, <2>2 DEF GraphIndInv, CycleInv
  <2>4. IsInput(graph, w) \/ Producer(graph, w)[1] \in Ran
    BY <1>2, <2>2, ProducerOfAWire
  <2> HIDE DEF w
  <2>5. value[w] # Missing
    BY <2>1, <2>2, <2>3, <2>4 DEF WireInv
  <2> QED
    BY <2>5 DEF w
<1>5. ~Unprovable(have)
    BY <1>3 DEF Unprovable
<1>6. \/ Fail("source")
      \/ /\ phase' = "ready" /\ at' = 1 /\ proven' = proven \cup have
         /\ UNCHANGED <<graph, topology, invokers, value, given, error>>
    BY <1>4, <1>5 DEF Export
<1>7. CASE /\ phase' = "ready" /\ at' = 1 /\ proven' = proven \cup have
           /\ UNCHANGED <<graph, topology, invokers, value, given, error>>
  <2>1. proven' \subseteq WiresOf(graph)
    BY <1>3, <1>7 DEF GraphIndInv, GraphTypeOK
  <2>2. GraphTypeOK'
    BY <1>2, <1>7, <2>1 DEF GraphIndInv, GraphTypeOK
  <2> QED
    BY <1>1, <1>7, <2>2
    DEF GraphIndInv, PlanInv, InvokersInv, CycleInv, PortsAdmitWhatTheyGet,
        CompiledNeverStarves, CompiledIsSealed
<1> QED
    BY <1>1, <1>6, <1>7, FailKeeps

LEMMA EndKeeps == GraphIndInv /\ (FinalizeGraph \/ CloseGraph) => GraphIndInv'
<1> QED
    BY DEF FinalizeGraph, CloseGraph, cycle, GraphIndInv, GraphTypeOK, PlanInv, InvokersInv,
           CycleInv, PortsAdmitWhatTheyGet, CompiledNeverStarves, CompiledIsSealed

-----------------------------------------------------------------------------
(* The theorems.                                                           *)

(* Every state of a Graph, from the editor to the end of its Runtime,      *)
(* satisfies the inductive invariant: what came past the compiler has      *)
(* compiled, and a wire carries what its producer's contract says.         *)
THEOREM GraphInductive == GraphSpec => []GraphIndInv
<1>1. GraphIndInv /\ [GraphNext]_graphVars => GraphIndInv'
    BY GraphStutters, CompileKeeps, SealKeeps, ConstructKeeps, BeginCycleKeeps, RunNodeKeeps,
       ExportKeeps, EndKeeps DEF GraphNext
<1> QED
    BY GraphStarts, <1>1, PTL DEF GraphSpec

(* No Module and no Data Output of a Graph that compiled ever finds a      *)
(* required wire empty or a value that nothing can prove (runtime/graph.py *)
(* run and _prove_wire), whatever optional values are left out.            *)
THEOREM GraphCompiledNeverStarves == GraphSpec => []CompiledNeverStarves
<1>1. GraphIndInv => CompiledNeverStarves
    BY DEF GraphIndInv
<1> QED
    BY <1>1, GraphInductive, PTL

(* A Module is given only values that its ports admit, although inputs are *)
(* not validated where they are used (runtime/module_invoker.py).          *)
THEOREM GraphPortsAdmitWhatTheyGet == GraphSpec => []PortsAdmitWhatTheyGet
<1>1. GraphIndInv => PortsAdmitWhatTheyGet
    BY DEF GraphIndInv
<1> QED
    BY <1>1, GraphInductive, PTL

(* The semantic proof (authority/graph_semantics.py) refuses no plan of    *)
(* the compiler, neither in the plan's own order nor in the Definition's.  *)
THEOREM GraphCompiledIsSealed == GraphSpec => []CompiledIsSealed
<1>1. GraphIndInv => CompiledIsSealed
    BY DEF GraphIndInv
<1> QED
    BY <1>1, GraphInductive, PTL
=============================================================================
