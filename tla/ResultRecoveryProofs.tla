------------------------ MODULE ResultRecoveryProofs ------------------------
(***************************************************************************)
(* A published Result is complete, whatever the Sampler, the limits and    *)
(* the failures; sharded verification of an archive of any length, in any  *)
(* number of shards, gives the verdict of one sequential reader; what is   *)
(* recovered is sound; and nothing is released under a running worker.     *)
(* All follow from IndInv: RunInv speaks of the Runtime that writes the    *)
(* Result, the other parts of the Engine that recovers and projects it.    *)
(***************************************************************************)
EXTENDS ResultRecovery, FiniteSetTheorems, WellFoundedInduction,
        SequenceTheorems, TLAPS

-----------------------------------------------------------------------------
(* Natural numbers, sequences and the records of a run.                    *)

(* Every set of naturals that is not empty has a least element, and Min    *)
(* is that element.                                                        *)
LEMMA MinIsLeast ==
    ASSUME NEW T \in SUBSET Nat, T # {}
    PROVE  Min(T) \in T /\ \A y \in T : Min(T) <= y
<1>1. PICK x \in T : \A y \in T : ~(<<y, x>> \in OpToRel(<, Nat))
    BY WFMin, NatLessThanWellFounded
<1>2. \A y \in T : ~(y < x)
    BY <1>1 DEF OpToRel
<1>3. \A y \in T : x \in Nat /\ y \in Nat
    OBVIOUS
<1>4. \A y \in T : x <= y
    BY <1>2, <1>3
<1> QED
    BY <1>4 DEF Min

(* An appended sequence holds what it held, and the new element.           *)
LEMMA AppendedIn ==
    ASSUME NEW S, NEW q \in Seq(S), NEW r \in S
    PROVE  /\ Append(q, r) \in Seq(S) /\ Len(Append(q, r)) = Len(q) + 1
           /\ Append(q, r)[Len(q) + 1] = r
           /\ \A i \in DOMAIN q : i \in DOMAIN Append(q, r) /\ Append(q, r)[i] = q[i]
           /\ \A i \in DOMAIN Append(q, r) :
                i \in DOMAIN q \/ i = Len(q) + 1
OBVIOUS

(* Functions on 1..n are sequences, and a sequence is a function of its    *)
(* indices.                                                                *)
LEMMA FunctionsAreSequences ==
    ASSUME NEW S, NEW n \in Nat, NEW q \in [1..n -> S]
    PROVE  q \in Seq(S) /\ Len(q) = n
<1>1. q \in Seq(S)
    BY SeqDef
<1> QED
    BY <1>1

(* The lines of typed frames are typed.                                    *)
LEMMA LinesOfFrames ==
    ASSUME NEW q \in Seq(LineRows), NEW n \in Nat, Len(q) = n,
           \A i \in 1..n : q[i] = Line(frames[i])
    PROVE  q = [i \in 1..n |-> Line(frames[i])]
OBVIOUS

(* What is appended last is last in a concatenation.                       *)
LEMMA ConcatAppend ==
    ASSUME NEW S, NEW s \in Seq(S), NEW t \in Seq(S), NEW e \in S
    PROVE  s \o Append(t, e) = Append(s \o t, e)
OBVIOUS

(* A line appended to the pending ones is appended to all.                 *)
LEMMA WrittenThenLine ==
    ASSUME RunTypeOK, NEW l \in LineRows
    PROVE  file.lines \o Append(writer, l) = Append(file.lines \o writer, l)
<1>1. file.lines \in Seq(LineRows) /\ writer \in Seq(LineRows)
    BY DEF RunTypeOK
<1>2. \A a, b \in Seq(LineRows) : a \o Append(b, l) = Append(a \o b, l)
    BY ConcatAppend
<1> QED
    BY <1>1, <1>2

(* No process, and one just started, are typed.                            *)
LEMMA NoProcTyped ==
    /\ NoProc \in ProcRows /\ NoProc.state = "none"
    /\ [NoProc EXCEPT !.state = "live"] \in ProcRows
BY DEF NoProc, ProcRows

(* CloseTransport keeps only the exit code.                                *)
LEMMA CloseTransportEnds ==
    ASSUME RunTypeOK, CloseTransport
    PROVE  /\ proc' \in ProcRows /\ proc'.state = "none" /\ proc'.code = proc.code
           /\ pipe' \in Seq(Messages)
<1>1. NoProc \in ProcRows /\ NoProc.state = "none"
    BY NoProcTyped
<1>2. proc.code \in {0, 1}
    BY DEF RunTypeOK, ProcRows
<1>3. pipe' \in Seq(Messages) /\ proc' = [NoProc EXCEPT !.code = proc.code]
    BY DEF CloseTransport
<1>4. proc' \in ProcRows /\ proc'.state = "none" /\ proc'.code = proc.code
    BY <1>1, <1>2, <1>3 DEF ProcRows
<1> QED
    BY <1>3, <1>4

(* An empty file is typed.                                                 *)
LEMMA NoFileTyped ==
    /\ DOMAIN NoFile = {"lines", "tail", "whole", "digest", "meta"}
    /\ NoFile.lines = <<>> /\ NoFile.lines \in Seq(LineRows)
<1>1. DOMAIN NoFile = {"lines", "tail", "whole", "digest", "meta"} /\ NoFile.lines = <<>>
    BY DEF NoFile
<1>2. <<>> \in Seq(LineRows)
    OBVIOUS
<1> QED
    BY <1>1, <1>2

(* The frames' ids stay distinct when an unclaimed one is added.           *)
LEMMA IdsOfAppended ==
    ASSUME NEW s \in Seq(FrameRows), NEW f \in FrameRows,
           IsFiniteSet(Ids(s)), Cardinality(Ids(s)) = Len(s), f.id \notin Ids(s)
    PROVE  /\ IsFiniteSet(Ids(Append(s, f)))
           /\ Cardinality(Ids(Append(s, f))) = Len(Append(s, f))
<1> DEFINE q == Append(s, f)
<1>1. \A i \in DOMAIN q : \/ i \in DOMAIN s /\ q[i] = s[i]
                          \/ q[i] = f
    OBVIOUS
<1>2. \A i \in DOMAIN s : i \in DOMAIN q /\ q[i] = s[i]
    OBVIOUS
<1>3. Len(s) + 1 \in DOMAIN q /\ q[Len(s) + 1] = f /\ Len(q) = Len(s) + 1
    OBVIOUS
<1> HIDE DEF q
<1>4. Ids(q) = Ids(s) \cup {f.id}
    BY <1>1, <1>2, <1>3 DEF Ids
<1>5. /\ IsFiniteSet(Ids(s) \cup {f.id})
      /\ Cardinality(Ids(s) \cup {f.id}) = Cardinality(Ids(s)) + 1
    BY FS_AddElement
<1>6. IsFiniteSet(Ids(q)) /\ Cardinality(Ids(q)) = Len(q)
    BY <1>3, <1>4, <1>5
<1> QED
    BY <1>6 DEF q

-----------------------------------------------------------------------------
(* A run keeps RunInv.                                                     *)

(* The Runtime that ends holds nothing any more.                           *)
LEMMA LeavePreserves ==
    ASSUME RunInv, Leave, dir' \in {"none", "staging", "published"},
           faults' \in Nat,
           file' = file \/ file' = NoFile
    PROVE  RunInv'
<1> USE DEF Leave
<1>1. RunTypeOK'
  <2>1. /\ records' \in Seq(Time) /\ pipe' \in Seq(Messages)
        /\ frames' \in Seq(FrameRows) /\ writer' \in Seq(LineRows)
    OBVIOUS
  <2>2. /\ DOMAIN file' = {"lines", "tail", "whole", "digest", "meta"}
        /\ file'.lines \in Seq(LineRows)
    BY NoFileTyped DEF RunInv, RunTypeOK
  <2> QED
    BY <2>1, <2>2, NoProcTyped DEF RunTypeOK
<1>2. FramesInv'
  <2>1. Ids(<<>>) = {}
    BY DEF Ids
  <2>2. IsFiniteSet({}) /\ Cardinality({}) = 0
    BY FS_EmptySet
  <2> QED
    BY <2>1, <2>2 DEF FramesInv, Ordered
<1>3. WrittenInv' /\ EndInv' /\ SealInv'
    BY DEF WrittenInv, EndInv, SealInv, Opening, Ending, Counted
<1> QED
    BY <1>1, <1>2, <1>3 DEF RunInv

(* The states a run may begin in.                                          *)
LEMMA RunInitEstablishes == RunInit => RunInv
<1> SUFFICES ASSUME RunInit PROVE RunInv
    OBVIOUS
<1> USE DEF RunInit
<1>1. RunTypeOK
  <2>1. records \in Seq(Time)
    <3>1. CASE kind = "rows"
      <4>1. PICK n \in 0..MaxSamples : records \in [1..n -> Time]
        BY <3>1
      <4>2. n \in Nat
        BY <4>1, RunAssumption
      <4> QED
        BY <4>1, <4>2, FunctionsAreSequences
    <3>2. CASE kind # "rows"
      BY <3>2
    <3> QED
      BY <3>1, <3>2
  <2>2. /\ pipe \in Seq(Messages)
        /\ frames \in Seq(FrameRows) /\ writer \in Seq(LineRows)
    OBVIOUS
  <2>3. recordCount \in Nat /\ limit \in Nat
    BY RunAssumption
  <2>4. file.lines \in Seq(LineRows)
    BY NoFileTyped
  <2> QED
    BY <2>1, <2>2, <2>3, <2>4, NoProcTyped, NoFileTyped DEF RunTypeOK, Opening
<1>2. FramesInv
  <2>1. Ids(<<>>) = {}
    BY DEF Ids
  <2>2. IsFiniteSet({}) /\ Cardinality({}) = 0
    BY FS_EmptySet
  <2> QED
    <3>1. limit \in Nat
      BY <1>1 DEF RunTypeOK
    <3>2. Ordered(frames) /\ Len(frames) = 0
      BY DEF Ordered
    <3>3. Len(frames) <= limit
      BY <3>1, <3>2
    <3> QED
      BY <2>1, <2>2, <3>2, <3>3 DEF FramesInv
<1>3. WrittenInv /\ EndInv /\ SealInv
    BY NoProcTyped DEF WrittenInv, EndInv, SealInv, Opening, Ending, Counted
<1> QED
    BY <1>1, <1>2, <1>3 DEF RunInv

(* Steps before the first frame.                                           *)
LEMMA OpeningPreserves ==
    ASSUME RunInv,
           \/ Admit \/ VerifyInputs \/ VerifyGraphs \/ OpenRows \/ OpenScript
           \/ OpenProvider \/ BuildGraphs \/ CountRows \/ CountScript
    PROVE  RunInv'
<1>1. /\ phase \in Opening \ {"built"} /\ phase' \in Opening \ {"built"}
      /\ UNCHANGED <<inputVars, processVars, frames, writer, dir, file, faults>>
    BY DEF Admit, VerifyInputs, VerifyGraphs, OpenRows, OpenScript, Opens, OpenProvider,
           BuildGraphs, CountRows, CountScript, Passes, Opening
<1>2. total' \in Nat
    BY RunAssumption
    DEF RunInv, RunTypeOK, Admit, VerifyInputs, VerifyGraphs, OpenRows, OpenScript,
        Opens, OpenProvider, BuildGraphs, CountRows, CountScript, Passes, Bounded,
        RowCount
<1>3. phase' \notin Ending /\ phase' \notin {"next", "cycle", "built", "flushed", "sealed"}
      /\ phase' \notin Counted
    BY <1>1 DEF Opening, Ending, Counted
<1>4. RunTypeOK' /\ FramesInv'
    BY <1>1, <1>2 DEF RunInv, RunTypeOK, FramesInv, inputVars, processVars
<1>5. WrittenInv' /\ EndInv' /\ SealInv'
    BY <1>1, <1>3 DEF RunInv, WrittenInv, EndInv, SealInv, inputVars, processVars
<1> QED
    BY <1>4, <1>5 DEF RunInv

(* BacktestResultWriter opens its staging directory.                       *)
LEMMA OpenWriterPreserves ==
    ASSUME RunInv, OpenWriter
    PROVE  RunInv'
<1> USE DEF OpenWriter, inputVars, processVars
<1>1. /\ DOMAIN file' = {"lines", "tail", "whole", "digest", "meta"}
      /\ file'.lines = <<>> /\ file'.lines \in Seq(LineRows)
  <2>1. file' = [NoFile EXCEPT !.whole = TRUE]
    OBVIOUS
  <2>2. DOMAIN file' = {"lines", "tail", "whole", "digest", "meta"}
    BY <2>1, NoFileTyped
  <2>3. file'.lines = NoFile.lines
    BY <2>1, NoFileTyped
  <2> QED
    BY <2>2, <2>3, NoFileTyped
<1>2. RunTypeOK' /\ FramesInv'
    BY <1>1 DEF RunInv, RunTypeOK, FramesInv, Opening
<1>3. WrittenInv' /\ EndInv' /\ SealInv'
    BY <1>1 DEF RunInv, WrittenInv, EndInv, SealInv, Opening, Ending, Counted
<1> QED
    BY <1>2, <1>3 DEF RunInv

(* The frames begin: nothing was yielded and nothing written.              *)
LEMMA StartPreserves ==
    ASSUME RunInv, StartRows \/ StartScript
    PROVE  RunInv'
<1> USE DEF StartRows, StartScript, inputVars, processVars
<1>1. /\ phase = "built" /\ phase' \in {"next", "failing"}
      /\ UNCHANGED <<inputVars, total, pipe, completed, frames, writer, dir, file>>
    OBVIOUS
<1>2. /\ proc' = proc \/ (kind = "script" /\ proc' = [NoProc EXCEPT !.state = "live"])
      /\ faults' \in Nat
    BY DEF RunInv, RunTypeOK, Spawn, Fault, NoFault
<1>3. RunTypeOK'
  <2>1. proc' \in ProcRows
    BY <1>2, NoProcTyped DEF RunInv, RunTypeOK
  <2> QED
    BY <1>1, <1>2, <2>1 DEF RunInv, RunTypeOK
<1>4. FramesInv' /\ SealInv'
    BY <1>1 DEF RunInv, FramesInv, SealInv
<1>5. EndInv'
    BY <1>1, <1>2 DEF RunInv, EndInv, Ending, Counted
<1>6. WrittenInv'
  <2>1. frames = <<>> /\ writer = <<>> /\ file.lines = <<>>
    BY <1>1 DEF RunInv, WrittenInv, Opening
  <2>2. Written' = [i \in 1..Len(frames) |-> Line(frames[i])]
    BY <1>1, <2>1 DEF Written
  <2> QED
    BY <1>1, <2>2 DEF WrittenInv, Opening, Ending, Counted
<1> QED
    BY <1>3, <1>4, <1>5, <1>6 DEF RunInv

(* The worker process of a script, on its own.                             *)
LEMMA WorkerPreserves ==
    ASSUME RunInv, WorkerNext
    PROVE  RunInv'
<1> USE DEF WorkerNext, EmitSample, EmitEnd, Noise, WorkerExits, WorkerDies, Live,
            inputVars
<1>1. /\ UNCHANGED <<inputVars, phase, total, completed, frames, writer, dir, file>>
      /\ proc.state = "live" /\ faults' \in Nat
    BY DEF RunInv, RunTypeOK, Fault
<1>2. proc' \in ProcRows
  <2>1. proc \in ProcRows
    BY DEF RunInv, RunTypeOK
  <2>2. \/ proc' = proc
        \/ proc' = [proc EXCEPT !.sent = @ + 1]
        \/ \E e \in {"complete", "error"} : proc' = [proc EXCEPT !.done = e]
        \/ \E c \in {0, 1} : proc' = [proc EXCEPT !.state = "exited", !.code = c]
    OBVIOUS
  <2>3. ASSUME proc' = [proc EXCEPT !.sent = @ + 1] PROVE proc' \in ProcRows
    BY <2>1, <2>3 DEF ProcRows
  <2>4. ASSUME NEW e \in {"complete", "error"}, proc' = [proc EXCEPT !.done = e]
        PROVE  proc' \in ProcRows
    BY <2>1, <2>4 DEF ProcRows
  <2>5. ASSUME NEW c \in {0, 1}, proc' = [proc EXCEPT !.state = "exited", !.code = c]
        PROVE  proc' \in ProcRows
    BY <2>1, <2>5 DEF ProcRows
  <2> QED
    BY <2>1, <2>2, <2>3, <2>4, <2>5
<1>3. pipe' \in Seq(Messages)
  <2>1. \A t \in {"complete", "error", "noise"} : Message(t) \in Messages
    BY DEF Message, Messages
  <2>2. pipe' = pipe \/ \E m \in Messages : pipe' = Append(pipe, m)
    BY <2>1 DEF Messages
  <2> QED
    <3>1. pipe \in Seq(Messages)
      BY DEF RunInv, RunTypeOK
    <3> QED
      BY <2>2, <3>1, AppendedIn
<1>4. RunTypeOK' /\ FramesInv' /\ SealInv'
    BY <1>1, <1>2, <1>3 DEF RunInv, RunTypeOK, FramesInv, SealInv, Content
<1>5. WrittenInv'
    BY <1>1 DEF RunInv, WrittenInv, Written
<1>6. EndInv'
    BY <1>1 DEF RunInv, EndInv
<1> QED
    BY <1>4, <1>5, <1>6 DEF RunInv

(* An admitted sample becomes the next frame; another one ends the run.    *)
LEMMA YieldPreserves ==
    ASSUME RunInv, NEW s, s.time \in Time, s.id \in Nat, Yield(s),
           phase = "next", ~LimitReached, proc' = proc, pipe' \in Seq(Messages),
           completed' \in BOOLEAN,
           UNCHANGED <<inputVars, total, writer, dir, file, faults>>
    PROVE  RunInv'
<1> USE DEF inputVars
<1> DEFINE f == Frame(s)
<1>1. f \in FrameRows
    BY DEF Frame, FrameRows, RunInv, RunTypeOK
<1> HIDE DEF f
<1>2. CASE frames' = frames /\ phase' = "failing"
  <2>1. RunTypeOK' /\ FramesInv'
    BY <1>2 DEF RunInv, RunTypeOK, FramesInv
  <2>2. WrittenInv' /\ EndInv' /\ SealInv'
    BY <1>2 DEF RunInv, WrittenInv, EndInv, SealInv, Opening, Ending, Counted
  <2> QED
    BY <2>1, <2>2 DEF RunInv
<1>3. CASE /\ InOrder(f) /\ Unclaimed(f)
           /\ frames' = Append(frames, f) /\ phase' = "cycle"
  <2>1. /\ frames \in Seq(FrameRows) /\ Len(frames) \in Nat
        /\ frames' \in Seq(FrameRows) /\ Len(frames') = Len(frames) + 1
        /\ frames'[Len(frames) + 1] = f
        /\ \A i \in 1..Len(frames) : frames'[i] = frames[i]
    BY <1>1, <1>3 DEF RunInv, RunTypeOK
  <2>2. RunTypeOK'
    BY <1>3, <2>1 DEF RunInv, RunTypeOK
  <2>3. IsFiniteSet(Ids(frames')) /\ Cardinality(Ids(frames')) = Len(frames')
    BY <1>1, <1>3, <2>1, IdsOfAppended DEF RunInv, FramesInv, Unclaimed
  <2>4. Ordered(frames')
    <3>1. frames = <<>> \/ frames[Len(frames)].time <= f.time
      BY <1>3 DEF InOrder, Last
    <3>2. frames # <<>> => Len(frames) > 0
      BY <2>1
    <3>3. SUFFICES ASSUME NEW i \in 1..(Len(frames') - 1)
                   PROVE  frames'[i].time <= frames'[i + 1].time
      BY DEF Ordered
    <3>4. CASE i = Len(frames)
      BY <2>1, <3>1, <3>4
    <3>5. CASE i # Len(frames)
      <4>1. i \in 1..(Len(frames) - 1) /\ i \in 1..Len(frames) /\ i + 1 \in 1..Len(frames)
        BY <2>1, <3>5
      <4> QED
        BY <2>1, <4>1 DEF RunInv, FramesInv, Ordered
    <3> QED
      BY <3>4, <3>5
  <2>5. limit # 0 => Len(frames') <= limit
    BY <2>1 DEF RunInv, RunTypeOK, FramesInv, LimitReached
  <2>6. WrittenInv'
    <3>1. Written = [i \in 1..Len(frames) |-> Line(frames[i])]
      BY DEF RunInv, WrittenInv
    <3>2. Written' = [i \in 1..(Len(frames') - 1) |-> Line(frames'[i])]
      BY <2>1, <3>1 DEF Written
    <3>3. frames' # <<>>
      BY <2>1
    <3> QED
      BY <1>3, <3>2, <3>3 DEF WrittenInv, Opening, Ending, Counted
  <2>7. EndInv' /\ SealInv'
    BY <1>3 DEF RunInv, EndInv, SealInv, Ending, Counted
  <2> QED
    BY <2>2, <2>3, <2>4, <2>5, <2>6, <2>7 DEF RunInv, FramesInv
<1> QED
    BY <1>2, <1>3 DEF Yield, f

(* next(frames): a row, or a message of the worker.                        *)
LEMMA NextPreserves ==
    ASSUME RunInv, NextRow \/ ReadMessage
    PROVE  RunInv'
<1>1. CASE NextRow
  <2> USE <1>1 DEF NextRow
  <2>1. RowSample(Len(frames)).time \in Time /\ RowSample(Len(frames)).id \in Nat
    <3>1. Len(frames) + 1 \in DOMAIN records
      BY DEF RunInv, RunTypeOK
    <3>2. records[Len(frames) + 1] \in Time
      BY <3>1 DEF RunInv, RunTypeOK
    <3> QED
      BY <3>2 DEF RowSample
  <2>2. /\ proc' = proc /\ pipe' \in Seq(Messages) /\ completed' \in BOOLEAN
        /\ UNCHANGED <<inputVars, total, writer, dir, file, faults>>
    BY DEF RunInv, RunTypeOK, processVars
  <2> QED
    BY <2>1, <2>2, YieldPreserves
<1>2. CASE ReadMessage
  <2> USE <1>2 DEF ReadMessage
  <2> DEFINE m == Head(pipe)
  <2>1. m \in Messages /\ pipe' \in Seq(Messages)
    BY DEF RunInv, RunTypeOK
  <2>2. UNCHANGED <<inputVars, total, proc, writer, dir, file, faults>>
    OBVIOUS
  <2>3. CASE Yield(m) /\ UNCHANGED completed /\ m.type = "sample"
    <3>1. m.time \in Time /\ m.id \in Nat
      BY <2>1, <2>3, RunAssumption DEF Messages, Sample
    <3>2. completed' \in BOOLEAN
      BY <2>3 DEF RunInv, RunTypeOK
    <3> QED
      BY <2>1, <2>2, <2>3, <3>1, <3>2, YieldPreserves
  <2>4. CASE phase' = "failing" /\ UNCHANGED <<completed, frames>>
    <3>1. RunTypeOK' /\ FramesInv'
      BY <2>1, <2>2, <2>4 DEF RunInv, RunTypeOK, FramesInv, inputVars
    <3>2. WrittenInv' /\ EndInv' /\ SealInv'
      BY <2>2, <2>4 DEF RunInv, WrittenInv, EndInv, SealInv, Opening, Ending, Counted,
             inputVars
    <3> QED
      BY <3>1, <3>2 DEF RunInv
  <2>5. CASE completed' = TRUE /\ UNCHANGED <<phase, frames>>
    <3>1. RunTypeOK' /\ FramesInv'
      BY <2>1, <2>2, <2>5 DEF RunInv, RunTypeOK, FramesInv, inputVars
    <3>2. WrittenInv' /\ EndInv' /\ SealInv'
      BY <2>2, <2>5 DEF RunInv, WrittenInv, Written, EndInv, SealInv, Ending, Counted,
             inputVars
    <3> QED
      BY <3>1, <3>2 DEF RunInv
  <2>6. m.type \in {"sample", "complete", "error", "noise"}
    BY <2>1 DEF Messages, Sample
  <2> QED
    BY <2>3, <2>4, <2>5, <2>6 DEF RunInv, RunTypeOK
<1> QED
    BY <1>1, <1>2

(* The three ways the frames end.                                          *)
LEMMA EndPreserves ==
    ASSUME RunInv, ScriptEnds \/ RowsEnd \/ LimitEnds
    PROVE  RunInv'
<1> USE DEF inputVars, processVars
<1>1. /\ phase = "next" /\ phase' \in {"ended", "failing"}
      /\ UNCHANGED <<inputVars, total, completed, frames, writer, dir, file>>
      /\ faults' \in Nat
    BY DEF ScriptEnds, RowsEnd, LimitEnds, Fault, NoFault, RunInv, RunTypeOK
<1>2. \/ CloseTransport
      \/ UNCHANGED <<proc, pipe>>
      \/ kind = "script" /\ proc' = [proc EXCEPT !.state = "left"] /\ pipe' = <<>>
    BY DEF ScriptEnds, RowsEnd, LimitEnds
<1>3. /\ proc' \in ProcRows /\ pipe' \in Seq(Messages) /\ proc'.code = proc.code
      /\ \/ proc'.state \in {"none", proc.state}
         \/ kind = "script" /\ proc'.state = "left"
  <2>1. proc \in ProcRows /\ pipe \in Seq(Messages) /\ <<>> \in Seq(Messages)
    BY DEF RunInv, RunTypeOK
  <2>2. ASSUME proc' = [proc EXCEPT !.state = "left"]
        PROVE  proc' \in ProcRows /\ proc'.code = proc.code /\ proc'.state = "left"
    BY <2>1, <2>2 DEF ProcRows
  <2> QED
    BY <1>2, <2>1, <2>2, CloseTransportEnds DEF RunInv
<1>4. RunTypeOK' /\ FramesInv'
    BY <1>1, <1>3 DEF RunInv, RunTypeOK, FramesInv, Ending
<1>5. WrittenInv' /\ SealInv'
    BY <1>1 DEF RunInv, WrittenInv, SealInv, Written, Opening, Ending, Counted
<1>6. EndInv'
  <2>1. phase' \notin Counted
    BY <1>1 DEF Counted
  <2>2. kind' = "rows" => proc'.state = "none"
    BY <1>1, <1>3 DEF RunInv, EndInv
  <2>3. CASE RowsEnd
    BY <1>1, <2>1, <2>2, <2>3 DEF RowsEnd, RunInv, EndInv
  <2>4. CASE ScriptEnds
    <3>1. proc'.state = "none"
      BY <2>4, CloseTransportEnds DEF ScriptEnds, RunInv
    <3> QED
      BY <1>1, <1>3, <2>1, <2>2, <2>4, <3>1 DEF ScriptEnds, EndInv, Ending, Counted
  <2>5. CASE LimitEnds
    <3>1. proc'.state \in {"none", "left"}
      <4>1. CASE CloseTransport
        BY <4>1, CloseTransportEnds DEF RunInv
      <4>2. CASE proc' = [proc EXCEPT !.state = "left"]
        BY <4>2 DEF RunInv, RunTypeOK, ProcRows
      <4> QED
        BY <2>5, <4>1, <4>2 DEF LimitEnds
    <3>2. limit # 0 /\ ~(Len(frames) < limit) /\ LimitReached'
      BY <1>1, <2>5 DEF LimitEnds, LimitReached, RunInv, RunTypeOK
    <3> QED
      BY <1>1, <2>1, <2>2, <3>1, <3>2 DEF EndInv
  <2> QED
    BY <2>3, <2>4, <2>5
<1> QED
    BY <1>4, <1>5, <1>6 DEF RunInv

(* Whatever fails leads to the discard.                                    *)
LEMMA FailPreserves ==
    ASSUME RunInv, StepFails
    PROVE  RunInv'
<1> USE DEF StepFails, Fault, inputVars, processVars
<1>1. RunTypeOK' /\ FramesInv'
    BY DEF RunInv, RunTypeOK, FramesInv
<1>2. WrittenInv' /\ EndInv' /\ SealInv'
    BY DEF RunInv, WrittenInv, EndInv, SealInv, Opening, Ending, Counted
<1> QED
    BY <1>1, <1>2 DEF RunInv

(* The writer appends the line of the last frame, and flushes at times.    *)
LEMMA AppendPreserves ==
    ASSUME RunInv, AppendCycle
    PROVE  RunInv'
<1> USE DEF AppendCycle, inputVars, processVars
<1> DEFINE l == Line(Last(frames))
           pending == Append(writer, l)
<1>1. /\ frames \in Seq(FrameRows) /\ frames # <<>> /\ Len(frames) \in Nat \ {0}
      /\ Last(frames) = frames[Len(frames)] /\ Last(frames) \in FrameRows
    BY DEF RunInv, RunTypeOK, WrittenInv, Last
<1>2. l \in LineRows
    BY <1>1 DEF Line, LineRows, FrameRows
<1>3. l = Line(frames[Len(frames)])
    BY <1>1
<1>4. /\ UNCHANGED <<inputVars, total, processVars, frames, dir, faults>>
      /\ \/ phase' = "failing" /\ writer' = writer /\ file' = file
         \/ phase' = "next" /\ writer' = pending /\ file' = file
         \/ phase' = "next" /\ writer' = <<>> /\ file' = FlushTo(pending)
    OBVIOUS
<1> HIDE DEF l
<1>5. pending \in Seq(LineRows) /\ writer \in Seq(LineRows) /\ file.lines \in Seq(LineRows)
    BY <1>2, AppendedIn DEF RunInv, RunTypeOK
<1>6. /\ DOMAIN file' = {"lines", "tail", "whole", "digest", "meta"}
      /\ file'.lines = IF file' = file THEN file.lines ELSE file.lines \o pending
    <2>1. DOMAIN file = {"lines", "tail", "whole", "digest", "meta"}
      BY DEF RunInv, RunTypeOK
    <2> HIDE DEF pending
    <2> QED
      BY <1>4, <2>1 DEF FlushTo
<1>7. file'.lines \in Seq(LineRows) /\ writer' \in Seq(LineRows)
  <2>1. file.lines \o pending \in Seq(LineRows) /\ <<>> \in Seq(LineRows)
    BY <1>5
  <2> QED
    BY <1>4, <1>5, <1>6, <2>1
<1>8. phase' = "next" => Written' = file.lines \o pending
  <2>1. CASE phase' = "next" /\ writer' = pending /\ file' = file
    BY <2>1 DEF Written
  <2>2. CASE phase' = "next" /\ writer' = <<>> /\ file' = FlushTo(pending)
    <3>1. file'.lines = file.lines \o pending
      BY <2>2 DEF FlushTo, RunInv, RunTypeOK
    <3>2. Written' = file'.lines
      BY <1>7, <2>2 DEF Written
    <3> QED
      BY <3>1, <3>2
  <2> QED
    BY <1>4, <2>1, <2>2
<1>9. file.lines \o pending = [i \in 1..Len(frames) |-> Line(frames[i])]
  <2>1. file.lines \o pending = Append(Written, l)
    <3>1. file.lines \o Append(writer, l) = Append(file.lines \o writer, l)
      BY <1>2, WrittenThenLine DEF RunInv
    <3> QED
      BY <3>1 DEF Written
  <2>2. Written = [i \in 1..(Len(frames) - 1) |-> Line(frames[i])]
    BY DEF RunInv, WrittenInv
  <2>3. Written \in Seq(LineRows) /\ Len(Written) = Len(frames) - 1
    <3>1. Written \in Seq(LineRows)
      BY <1>5 DEF Written
    <3>2. DOMAIN Written = 1..(Len(frames) - 1)
      BY <2>2
    <3> QED
      BY <1>1, <3>1, <3>2
  <2>4. /\ DOMAIN Append(Written, l) = 1..Len(frames)
        /\ \A i \in 1..Len(frames) : Append(Written, l)[i] = Line(frames[i])
    <3>1. \A i \in 1..(Len(frames) - 1) : Written[i] = Line(frames[i])
      BY <2>2
    <3> HIDE DEF l
    <3> QED
      BY <1>1, <1>2, <1>3, <2>3, <3>1
  <2>5. Append(Written, l) \in Seq(LineRows) /\ Len(Append(Written, l)) = Len(frames)
    BY <1>1, <1>2, <2>3
  <2>6. Append(Written, l) = [i \in 1..Len(frames) |-> Line(frames[i])]
    BY <1>1, <2>4, <2>5, LinesOfFrames
  <2> QED
    BY <2>1, <2>6
<1>10. RunTypeOK' /\ FramesInv'
    BY <1>4, <1>6, <1>7 DEF RunInv, RunTypeOK, FramesInv
<1>11. WrittenInv'
    BY <1>4, <1>8, <1>9 DEF WrittenInv, Opening, Ending, Counted
<1>12. EndInv' /\ SealInv'
    BY <1>4 DEF RunInv, EndInv, SealInv, Ending, Counted
<1> QED
    BY <1>10, <1>11, <1>12 DEF RunInv

(* The count is compared, and the Runtimes are finalized and closed.       *)
LEMMA FinalizePreserves ==
    ASSUME RunInv, EndOfFrames \/ Finalize \/ CloseRuntimes
    PROVE  RunInv'
<1> USE DEF inputVars, processVars
<1>1. /\ UNCHANGED <<inputVars, total, processVars, frames, writer, dir, file, faults>>
      /\ phase \in {"ended", "finalizing", "closing"}
      /\ phase' \in {"finalizing", "closing", "closed", "failing"}
      /\ phase = "ended" /\ phase' # "failing" => CountHolds
    BY DEF EndOfFrames, Finalize, CloseRuntimes
<1>2. LimitReached' <=> LimitReached
    BY <1>1 DEF LimitReached
<1>3. RunTypeOK' /\ FramesInv'
    BY <1>1 DEF RunInv, RunTypeOK, FramesInv, Ending, Counted
<1>4. WrittenInv' /\ SealInv'
    BY <1>1 DEF RunInv, WrittenInv, SealInv, Written, Opening, Ending, Counted
<1>5. phase' # "failing" => Len(frames) = total
  <2>1. Written = [i \in 1..Len(frames) |-> Line(frames[i])]
    BY <1>1 DEF RunInv, WrittenInv, Ending, Counted
  <2>2. Len(Written) = Len(frames)
    <3>1. Written \in Seq(LineRows) /\ Len(frames) \in Nat
      BY DEF Written, RunInv, RunTypeOK
    <3>2. DOMAIN Written = 1..Len(frames)
      BY <2>1
    <3> QED
      BY <3>1, <3>2
  <2> QED
    BY <1>1, <2>2 DEF RunInv, EndInv, CountHolds, Counted
<1>6. EndInv'
    BY <1>1, <1>2, <1>5 DEF RunInv, EndInv, Ending, Counted
<1> QED
    BY <1>3, <1>4, <1>6 DEF RunInv

(* _flush_pending moves the pending lines to the file.                     *)
LEMMA FlushPreserves ==
    ASSUME RunInv, FlushCycles
    PROVE  RunInv'
<1> USE DEF FlushCycles, inputVars, processVars
<1>1. /\ DOMAIN file' = {"lines", "tail", "whole", "digest", "meta"}
      /\ file'.lines = Written
    BY DEF RunInv, RunTypeOK, FlushTo, Written
<1>2. file'.lines \in Seq(LineRows)
    BY <1>1 DEF RunInv, RunTypeOK, Written
<1>3. Written' = Written
    BY <1>1, <1>2 DEF Written
<1>4. RunTypeOK' /\ FramesInv'
    BY <1>1, <1>2 DEF RunInv, RunTypeOK, FramesInv, Ending, Counted
<1>5. WrittenInv'
    BY <1>3 DEF RunInv, WrittenInv, Opening, Ending, Counted
<1>6. EndInv' /\ SealInv'
    BY DEF RunInv, EndInv, SealInv, Ending, Counted, LimitReached
<1> QED
    BY <1>4, <1>5, <1>6 DEF RunInv

(* The tail, the digest and the manifest's copy are of the lines.          *)
LEMMA SealPreserves ==
    ASSUME RunInv, Seal
    PROVE  RunInv'
<1> USE DEF Seal, inputVars, processVars
<1> DEFINE meta == Boundaries(frames)
<1>1. /\ UNCHANGED <<inputVars, total, processVars, frames, writer, dir, faults>>
      /\ phase = "flushed"
      /\ \/ phase' = "failing" /\ file' = file
         \/ /\ phase' = "sealed"
            /\ file' = [file EXCEPT !.tail = meta, !.meta = meta,
                                    !.digest = <<file.lines, meta>>]
    OBVIOUS
<1> HIDE DEF meta
<1>2. /\ DOMAIN file' = {"lines", "tail", "whole", "digest", "meta"}
      /\ file'.lines = file.lines
      /\ phase' = "sealed" => /\ file'.tail = meta /\ file'.meta = meta
                              /\ file'.digest = <<file.lines, meta>>
    BY <1>1 DEF RunInv, RunTypeOK
<1>3. RunTypeOK' /\ FramesInv'
    BY <1>1, <1>2 DEF RunInv, RunTypeOK, FramesInv, Ending, Counted
<1>4. WrittenInv'
    BY <1>1, <1>2 DEF RunInv, WrittenInv, Written, Opening, Ending, Counted
<1>5. EndInv'
    BY <1>1 DEF RunInv, EndInv, Ending, Counted, LimitReached
<1>6. SealInv'
    BY <1>1, <1>2 DEF SealInv, Content, meta
<1> QED
    BY <1>3, <1>4, <1>5, <1>6 DEF RunInv

(* The rename, or a failure of it.                                         *)
LEMMA PublishPreserves ==
    ASSUME RunInv, Publish
    PROVE  RunInv'
<1> USE DEF Publish, Fault, NoFault
<1>1. CASE dir' = "published" /\ Leave
  <2>1. faults' \in Nat /\ file' = file
    BY DEF RunInv, RunTypeOK
  <2> QED
    BY <1>1, <2>1, LeavePreserves
<1>2. CASE phase' = "failing" /\ Fault
           /\ UNCHANGED <<inputVars, total, processVars, frames, writer, dir, file>>
  <2>1. RunTypeOK' /\ FramesInv'
    BY <1>2 DEF RunInv, RunTypeOK, FramesInv, inputVars, processVars
  <2>2. WrittenInv' /\ EndInv' /\ SealInv'
    BY <1>2 DEF RunInv, WrittenInv, EndInv, SealInv, Opening, Ending, Counted, inputVars,
           processVars
  <2> QED
    BY <2>1, <2>2 DEF RunInv
<1> QED
    BY <1>1, <1>2

(* Every way to give up.                                                   *)
LEMMA GiveUpPreserves ==
    ASSUME RunInv, Refuse \/ BuildFails \/ Discard \/ RuntimeDies
    PROVE  RunInv'
<1>1. /\ Leave /\ faults' \in Nat /\ dir' \in {"none", "staging", "published"}
      /\ file' = file \/ file' = NoFile
    BY DEF Refuse, BuildFails, Discard, RuntimeDies, Fault, NoFault, RunInv, RunTypeOK
<1> QED
    BY <1>1, LeavePreserves

(* Every step of a run keeps its invariant.                                *)
LEMMA RunPreserves == RunInv /\ RunNext => RunInv'
BY OpeningPreserves, OpenWriterPreserves, StartPreserves, WorkerPreserves, NextPreserves,
   EndPreserves, FailPreserves, AppendPreserves, FinalizePreserves, FlushPreserves,
   SealPreserves, PublishPreserves, GiveUpPreserves
DEF RunNext, StartNext, FramesNext, WriterNext

(* What is sealed is complete.                                             *)
LEMMA SealedIsComplete ==
    ASSUME RunInv, phase = "sealed"
    PROVE  CompleteResult
<1>1. writer = <<>> /\ Len(frames) = total /\ file.lines \in Seq(LineRows)
    BY DEF RunInv, RunTypeOK, WrittenInv, EndInv, Counted
<1>2. file.lines = Written
    BY <1>1 DEF Written
<1>3. file.lines = [i \in DOMAIN frames |-> Line(frames[i])]
  <2>1. DOMAIN frames = 1..Len(frames)
    BY DEF RunInv, RunTypeOK
  <2> QED
    BY <1>2, <2>1 DEF RunInv, WrittenInv, Ending, Counted
<1>4. limit = 0 \/ Len(frames) < limit =>
         IF kind = "rows" THEN Len(frames) = Len(records)
                          ELSE completed /\ proc.code = 0
    BY DEF RunInv, EndInv, Ending, Counted
<1>5. /\ Cardinality(Ids(frames)) = Len(frames) /\ Ordered(frames)
      /\ limit # 0 => Len(frames) <= limit
    BY DEF RunInv, FramesInv
<1>6. /\ file.digest = Content(file)
      /\ file.tail = Boundaries(frames) /\ file.meta = file.tail
    BY DEF RunInv, SealInv
<1> QED
    BY <1>1, <1>3, <1>4, <1>5, <1>6 DEF CompleteResult

-----------------------------------------------------------------------------
(* Reading in shards and reading in sequence.                              *)

(* The kind of a line for a reader of a shard and for one of the whole     *)
(* file differ only by the identities claimed before the shard.            *)
LEMMA KindsRelate ==
    ASSUME NEW lines, NEW lo \in Nat \ {0}, NEW k \in Nat, lo <= k
    PROVE  /\ KindAt(lines, lo, k) \in {"framing", "duplicate", "data", "none"}
           /\ (\A j \in 1..(lo - 1) : lines[j].id # lines[k].id) =>
                KindAt(lines, 1, k) = KindAt(lines, lo, k)
           /\ KindAt(lines, lo, k) # "framing"
                /\ (\E j \in 1..(lo - 1) : lines[j].id = lines[k].id) =>
                KindAt(lines, 1, k) = "duplicate"
           /\ KindAt(lines, lo, k) \in {"framing", "duplicate"} =>
                KindAt(lines, 1, k) = KindAt(lines, lo, k)
<1> DEFINE dup(l) == \E j \in l..(k - 1) : lines[j].id = lines[k].id
<1>1. dup(1) <=> dup(lo) \/ \E j \in 1..(lo - 1) : lines[j].id = lines[k].id
  <2>1. \A j : j \in 1..(k - 1) <=> j \in lo..(k - 1) \/ j \in 1..(lo - 1)
    OBVIOUS
  <2> QED
    BY <2>1
<1>2. \A l \in {1, lo} : KindAt(lines, l, k) =
        IF lines[k].good = "framing" THEN "framing"
        ELSE IF dup(l) THEN "duplicate"
        ELSE IF lines[k].good = "data" THEN "data" ELSE "none"
    BY DEF KindAt
<1> HIDE DEF dup
<1>3. CASE lines[k].good = "framing"
    BY <1>2, <1>3
<1>4. CASE lines[k].good # "framing" /\ dup(lo)
    BY <1>1, <1>2, <1>4
<1>5. CASE lines[k].good # "framing" /\ ~dup(lo)
    BY <1>1, <1>2, <1>5
<1> QED
    BY <1>3, <1>4, <1>5

(* Without such an identity they do not differ.                            *)
LEMMA KindsAgree ==
    ASSUME NEW lines, NEW lo \in Nat \ {0}, NEW k \in Nat, lo <= k,
           \A j \in 1..(lo - 1) : lines[j].id # lines[k].id
    PROVE  KindAt(lines, 1, k) = KindAt(lines, lo, k)
BY KindsRelate

(* FirstBad is the first line that is wrong for a reader from lo to hi.    *)
LEMMA FirstBadIsFirst ==
    ASSUME NEW lines, NEW lo \in Nat \ {0}, NEW hi \in Nat
    PROVE  LET bad == FirstBad(lines, lo, hi) IN
           /\ bad = 0 <=> BadLines(lines, lo, hi) = {}
           /\ bad = 0 => \A k \in lo..hi : KindAt(lines, lo, k) = "none"
           /\ bad # 0 => /\ bad \in lo..hi /\ KindAt(lines, lo, bad) # "none"
                         /\ \A k \in lo..hi : k < bad => KindAt(lines, lo, k) = "none"
<1> DEFINE B == BadLines(lines, lo, hi)
<1>1. B \in SUBSET Nat /\ \A k : k \in B <=> k \in lo..hi /\ KindAt(lines, lo, k) # "none"
    BY DEF BadLines
<1>2. FirstBad(lines, lo, hi) = IF B = {} THEN 0 ELSE Min(B)
    BY DEF FirstBad
<1> HIDE DEF B
<1>3. CASE B = {}
    BY <1>1, <1>2, <1>3 DEF B
<1>4. CASE B # {}
  <2>1. Min(B) \in B /\ \A k \in B : Min(B) <= k
    BY <1>1, <1>4, MinIsLeast
  <2>2. Min(B) \in lo..hi /\ Min(B) # 0
    BY <1>1, <2>1
  <2>3. \A k \in lo..hi : k < Min(B) => KindAt(lines, lo, k) = "none"
    BY <1>1, <2>1, <2>2
  <2> QED
    BY <1>1, <1>2, <1>4, <2>1, <2>2, <2>3 DEF B
<1> QED
    BY <1>3, <1>4

(* The same for a reader of the whole file.                                *)
LEMMA FirstBadOfAll ==
    ASSUME NEW lines, NEW n \in Nat
    PROVE  LET bad == FirstBad(lines, 1, n) IN
           /\ bad = 0 <=> BadLines(lines, 1, n) = {}
           /\ bad = 0 => \A k \in 1..n : KindAt(lines, 1, k) = "none"
           /\ bad # 0 => /\ bad \in 1..n /\ KindAt(lines, 1, bad) # "none"
                         /\ \A k \in 1..n : k < bad => KindAt(lines, 1, k) = "none"
<1>1. PICK lo \in Nat \ {0} : lo = 1
    OBVIOUS
<1>2. /\ FirstBad(lines, lo, n) = 0 <=> BadLines(lines, lo, n) = {}
      /\ FirstBad(lines, lo, n) = 0 => \A k \in lo..n : KindAt(lines, lo, k) = "none"
      /\ FirstBad(lines, lo, n) # 0 =>
           /\ FirstBad(lines, lo, n) \in lo..n
           /\ KindAt(lines, lo, FirstBad(lines, lo, n)) # "none"
           /\ \A k \in lo..n : k < FirstBad(lines, lo, n) => KindAt(lines, lo, k) = "none"
    BY FirstBadIsFirst
<1> QED
    BY <1>1, <1>2

(* The sequential reader's answer, from the kinds of the lines.            *)
LEMMA SequentialIs ==
    ASSUME IndInv, NEW k \in 1..Len(file.lines), KindAt(file.lines, 1, k) # "none",
           NEW x, \A j \in 1..k : KindAt(file.lines, 1, j) \in {"none", x}
    PROVE  SequentialKind(file) = x
<1> DEFINE n == Len(file.lines)
           bad == FirstBad(file.lines, 1, n)
<1>1. n \in Nat
    BY DEF IndInv, RunInv, RunTypeOK
<1>2. /\ bad = 0 => \A j \in 1..n : KindAt(file.lines, 1, j) = "none"
      /\ bad # 0 => /\ bad \in 1..n /\ KindAt(file.lines, 1, bad) # "none"
                    /\ \A j \in 1..n : j < bad => KindAt(file.lines, 1, j) = "none"
    BY <1>1, FirstBadOfAll
<1>3. SequentialKind(file) = IF bad = 0 THEN "none" ELSE KindAt(file.lines, 1, bad)
    BY DEF SequentialKind
<1> HIDE DEF n, bad
<1>4. bad # 0 /\ bad \in 1..k
    BY <1>1, <1>2 DEF n
<1> QED
    BY <1>2, <1>3, <1>4

(* A file of right lines has nothing to report.                            *)
LEMMA SequentialIsNone ==
    ASSUME IndInv, \A j \in 1..Len(file.lines) : KindAt(file.lines, 1, j) = "none"
    PROVE  /\ SequentialKind(file) = "none"
           /\ BadLines(file.lines, 1, Len(file.lines)) = {}
<1> DEFINE n == Len(file.lines)
           bad == FirstBad(file.lines, 1, n)
<1>1. n \in Nat
    BY DEF IndInv, RunInv, RunTypeOK
<1>2. /\ bad # 0 => bad \in 1..n /\ KindAt(file.lines, 1, bad) # "none"
      /\ bad = 0 <=> BadLines(file.lines, 1, n) = {}
    BY <1>1, FirstBadOfAll
<1>3. SequentialKind(file) = IF bad = 0 THEN "none" ELSE KindAt(file.lines, 1, bad)
    BY DEF SequentialKind
<1> HIDE DEF bad
<1> QED
    BY <1>2, <1>3

(* A waiting verification of an unchanged archive: its shards and what     *)
(* their verifiers left.                                                   *)
Waiting == task.step = "waiting" /\ Unchanged

(* A shard of a waiting verification is a range of lines.                  *)
LEMMA ShardTyped ==
    ASSUME IndInv, Waiting, NEW i \in Own
    PROVE  /\ i \in DOMAIN entries /\ i \in Nat
           /\ entries[i].lo \in Nat \ {0} /\ entries[i].hi \in Nat
           /\ entries[i].lo <= entries[i].hi /\ entries[i].hi <= Len(file.lines)
           /\ Len(file.lines) \in Nat
<1>1. i \in DOMAIN entries /\ i \in Nat
    BY DEF IndInv, TypeOK, TaskTypeOK, Own
<1>2. entries[i] \in EntryRows
    BY <1>1 DEF IndInv, TypeOK
<1>3. entries[i].lo \in Nat /\ entries[i].hi \in Nat
    BY <1>2 DEF EntryRows
<1>4. entries[i].lo > 0
    BY DEF Waiting, IndInv, VerifyInv, Partition
<1>5. Len(file.lines) \in Nat
    BY DEF IndInv, RunInv, RunTypeOK
<1> QED
    BY <1>1, <1>3, <1>4, <1>5 DEF IndInv, ArchiveInv

(* verify_specification, field by field.                                   *)
LEMMA ShardFacts ==
    ASSUME IndInv, Waiting, NEW i \in Own, HasOutcome(entries[i])
    PROVE  LET e == entries[i]
               bad == FirstBad(file.lines, e.lo, e.hi)
           IN /\ e.outcome.status = "rejected" <=> bad # 0
              /\ bad # 0 => /\ e.lo + e.outcome.at = bad
                            /\ e.outcome.kind = KindAt(file.lines, e.lo, bad)
              /\ e.outcome.first = file.lines[e.lo].id
              /\ e.outcome.last = file.lines[e.hi].id
              /\ \A c : c \in e.outcome.claims <=>
                   \E k \in e.lo..e.hi :
                      /\ c = <<file.lines[k].id, k>>
                      /\ \/ bad = 0 \/ k < bad
                         \/ k = bad /\ KindAt(file.lines, e.lo, k) = "data"
<1> DEFINE e == entries[i]
           bad == FirstBad(file.lines, e.lo, e.hi)
<1>1. e.outcome = ShardOutcome(file.lines, e.lo, e.hi)
    BY DEF Waiting, IndInv, VerifyInv
<1>2. e.lo \in Nat \ {0} /\ e.hi \in Nat
    BY ShardTyped
<1>3. bad # 0 => bad \in e.lo..e.hi
    BY <1>2, FirstBadIsFirst
<1>4. e.outcome =
        [status |-> IF bad = 0 THEN "verified" ELSE "rejected",
         kind |-> IF bad = 0 THEN "none" ELSE KindAt(file.lines, e.lo, bad),
         at |-> IF bad = 0 THEN 0 ELSE bad - e.lo,
         claims |-> Claims(file.lines, e.lo, e.hi, bad),
         first |-> file.lines[e.lo].id, last |-> file.lines[e.hi].id]
    BY <1>1 DEF ShardOutcome
<1>5. \A c : c \in Claims(file.lines, e.lo, e.hi, bad) <=>
        \E k \in e.lo..e.hi :
          /\ c = <<file.lines[k].id, k>>
          /\ \/ bad = 0 \/ k < bad
             \/ k = bad /\ KindAt(file.lines, e.lo, k) = "data"
    BY DEF Claims
<1> HIDE DEF bad, e
<1>6. /\ e.outcome.status = "rejected" <=> bad # 0
      /\ bad # 0 => /\ e.lo + e.outcome.at = bad
                    /\ e.outcome.kind = KindAt(file.lines, e.lo, bad)
      /\ e.outcome.first = file.lines[e.lo].id
      /\ e.outcome.last = file.lines[e.hi].id
      /\ e.outcome.claims = Claims(file.lines, e.lo, e.hi, bad)
    BY <1>2, <1>3, <1>4
<1> QED
    BY <1>5, <1>6 DEF bad, e

(* A shard whose verifier accepted it: every line is claimed, and wrong    *)
(* only if its identity was claimed before the shard.                      *)
Clean(i) == HasOutcome(entries[i]) /\ entries[i].outcome.status # "rejected"

(* What an accepted shard says of its lines.                               *)
LEMMA CleanFacts ==
    ASSUME IndInv, Waiting, NEW i \in Own, Clean(i)
    PROVE  \A k \in entries[i].lo..entries[i].hi :
             /\ KindAt(file.lines, entries[i].lo, k) = "none"
             /\ <<file.lines[k].id, k>> \in entries[i].outcome.claims
             /\ KindAt(file.lines, 1, k) \in {"none", "duplicate"}
<1> DEFINE e == entries[i]
           bad == FirstBad(file.lines, e.lo, e.hi)
<1>1. e.lo \in Nat \ {0} /\ e.hi \in Nat
    BY ShardTyped
<1>2. bad = 0
    BY ShardFacts DEF Clean
<1>3. \A k \in e.lo..e.hi : KindAt(file.lines, e.lo, k) = "none"
    BY <1>1, <1>2, FirstBadIsFirst
<1>4. \A k \in e.lo..e.hi : <<file.lines[k].id, k>> \in e.outcome.claims
    BY <1>2, ShardFacts DEF Clean
<1>5. \A k \in e.lo..e.hi : KindAt(file.lines, 1, k) \in {"none", "duplicate"}
  <2> TAKE k \in e.lo..e.hi
  <2>1. k \in Nat /\ e.lo <= k
    BY <1>1
  <2>2. KindAt(file.lines, e.lo, k) = "none"
    BY <1>3
  <2> HIDE DEF e
  <2>3. CASE \E j \in 1..(e.lo - 1) : file.lines[j].id = file.lines[k].id
    BY <1>1, <2>1, <2>2, <2>3, KindsRelate
  <2>4. CASE \A j \in 1..(e.lo - 1) : file.lines[j].id # file.lines[k].id
    BY <1>1, <2>1, <2>2, <2>4, KindsRelate
  <2> QED
    BY <2>3, <2>4
<1> QED
    BY <1>3, <1>4, <1>5

(* The shard of a line, and the shards of the lines before it.             *)
LEMMA ShardOfLine ==
    ASSUME IndInv, Waiting, NEW k \in 1..Len(file.lines)
    PROVE  \E i \in Own : k \in entries[i].lo..entries[i].hi
<1>1. PICK i \in Own : entries[i].lo <= k /\ k <= entries[i].hi
    BY DEF Waiting, IndInv, VerifyInv, Partition
<1> QED
    BY <1>1, ShardTyped

(* Shards and lines have the same order.                                   *)
LEMMA ShardsInOrder ==
    ASSUME IndInv, Waiting, NEW s \in Own, NEW t \in Own,
           NEW j \in entries[t].lo..entries[t].hi, NEW k \in entries[s].lo..entries[s].hi
    PROVE  /\ t < s => j < entries[s].lo
           /\ j < entries[s].lo => t < s
           /\ j <= k => t <= s
<1>1. /\ s \in Nat /\ entries[s].lo \in Nat /\ entries[s].hi \in Nat
      /\ t \in Nat /\ entries[t].lo \in Nat /\ entries[t].hi \in Nat
    BY ShardTyped
<1>2. /\ t < s => entries[t].hi < entries[s].lo
      /\ s < t => entries[s].hi < entries[t].lo
    BY DEF Waiting, IndInv, VerifyInv, Partition
<1> QED
    BY <1>1, <1>2

(* merge_cycle_identity_ledgers reports a line only if an earlier shard    *)
(* holds its identity ...                                                  *)
LEMMA CrossIsDuplicate ==
    ASSUME IndInv, Waiting, NEW m \in Own, NEW d \in CrossDuplicates(m),
           \A i \in task.from..m : HasOutcome(entries[i])
    PROVE  \E s \in task.from..m :
             /\ s \in Own
             /\ d \in entries[s].lo..entries[s].hi
             /\ <<file.lines[d].id, d>> \in entries[s].outcome.claims
             /\ \E j \in 1..(entries[s].lo - 1) : file.lines[j].id = file.lines[d].id
<1>1. PICK s \in task.from..m : \E b \in entries[s].outcome.claims :
        /\ \E t \in task.from..(s - 1) : \E a \in entries[t].outcome.claims : a[1] = b[1]
        /\ d = b[2]
    BY DEF CrossDuplicates
<1>b. PICK b \in entries[s].outcome.claims :
        /\ \E t \in task.from..(s - 1) : \E a \in entries[t].outcome.claims : a[1] = b[1]
        /\ d = b[2]
    BY <1>1
<1>t. PICK t \in task.from..(s - 1) : \E a \in entries[t].outcome.claims : a[1] = b[1]
    BY <1>b
<1>a. PICK a \in entries[t].outcome.claims : a[1] = b[1]
    BY <1>t
<1>2. s \in Own /\ t \in Own /\ t < s /\ t \in task.from..m
    BY DEF Own, IndInv, TypeOK, TaskTypeOK
<1>3. PICK k \in entries[s].lo..entries[s].hi : b = <<file.lines[k].id, k>>
    BY <1>2, ShardFacts
<1>4. PICK j \in entries[t].lo..entries[t].hi : a = <<file.lines[j].id, j>>
    BY <1>2, ShardFacts
<1>5. d = k /\ file.lines[j].id = file.lines[k].id
    BY <1>a, <1>b, <1>3, <1>4
<1>6. j \in 1..(entries[s].lo - 1)
    BY <1>2, ShardsInOrder, ShardTyped
<1> QED
    BY <1>1, <1>2, <1>3, <1>5, <1>6

(* ... and misses none, when the earlier shards were accepted.             *)
LEMMA CrossIsComplete ==
    ASSUME IndInv, Waiting, NEW m \in Own,
           NEW s \in task.from..m, \A t \in task.from..(s - 1) : Clean(t),
           NEW k \in entries[s].lo..entries[s].hi,
           <<file.lines[k].id, k>> \in entries[s].outcome.claims,
           k \notin CrossDuplicates(m)
    PROVE  \A j \in 1..(entries[s].lo - 1) : file.lines[j].id # file.lines[k].id
<1> SUFFICES ASSUME NEW j \in 1..(entries[s].lo - 1), file.lines[j].id = file.lines[k].id
             PROVE  FALSE
    OBVIOUS
<1>1. s \in Own
    BY DEF Own, IndInv, TypeOK, TaskTypeOK
<1>2. j \in 1..Len(file.lines) /\ j < entries[s].lo
    BY <1>1, ShardTyped
<1>3. PICK t \in Own : j \in entries[t].lo..entries[t].hi
    BY <1>2, ShardOfLine
<1>4. t < s
    BY <1>1, <1>2, <1>3, ShardsInOrder
<1>5. t \in task.from..(s - 1)
    BY <1>1, <1>3, <1>4, ShardTyped DEF Own, IndInv, TypeOK, TaskTypeOK
<1>6. <<file.lines[j].id, j>> \in entries[t].outcome.claims
    BY <1>3, <1>5, CleanFacts
<1> DEFINE a == <<file.lines[j].id, j>>
           b == <<file.lines[k].id, k>>
<1>7. a[1] = b[1] /\ b[2] = k
    OBVIOUS
<1> HIDE DEF a, b
<1>8. \E c \in entries[t].outcome.claims : c[1] = b[1]
    BY <1>6, <1>7 DEF a
<1>9. b[2] \in CrossDuplicates(m)
    BY <1>5, <1>8 DEF CrossDuplicates, b
<1> QED
    BY <1>7, <1>9


(* A line that its shard's verifier passed, after earlier shards that were *)
(* accepted as a whole, in a shard up to m.                                *)
Passed(m, k) ==
    \E s \in task.from..m :
        /\ k \in entries[s].lo..entries[s].hi
        /\ KindAt(file.lines, entries[s].lo, k) = "none"
        /\ <<file.lines[k].id, k>> \in entries[s].outcome.claims
        /\ \A t \in task.from..(s - 1) : Clean(t)

(* Such a line can only be a duplicate, and is one only if the merge of    *)
(* the ledgers says so.                                                    *)
LEMMA PassedKinds ==
    ASSUME IndInv, Waiting, NEW m \in Own, NEW k, Passed(m, k)
    PROVE  /\ KindAt(file.lines, 1, k) \in {"none", "duplicate"}
           /\ k \notin CrossDuplicates(m) => KindAt(file.lines, 1, k) = "none"
<1>1. PICK s \in task.from..m :
        /\ k \in entries[s].lo..entries[s].hi
        /\ KindAt(file.lines, entries[s].lo, k) = "none"
        /\ <<file.lines[k].id, k>> \in entries[s].outcome.claims
        /\ \A t \in task.from..(s - 1) : Clean(t)
    BY DEF Passed
<1>2. s \in Own
    BY DEF Own, IndInv, TypeOK, TaskTypeOK
<1>3. entries[s].lo \in Nat \ {0} /\ k \in Nat /\ entries[s].lo <= k
    BY <1>1, <1>2, ShardTyped
<1>4. CASE \E j \in 1..(entries[s].lo - 1) : file.lines[j].id = file.lines[k].id
  <2>1. KindAt(file.lines, 1, k) = "duplicate"
    BY <1>1, <1>3, <1>4, KindsRelate
  <2>2. k \in CrossDuplicates(m)
    BY <1>1, <1>4, CrossIsComplete
  <2> QED
    BY <2>1, <2>2
<1>5. CASE \A j \in 1..(entries[s].lo - 1) : file.lines[j].id # file.lines[k].id
    BY <1>1, <1>3, <1>5, KindsAgree
<1> QED
    BY <1>4, <1>5

(* The lines before a shard whose predecessors were accepted ...           *)
LEMMA BeforeShard ==
    ASSUME IndInv, Waiting, NEW b \in Own, \A t \in task.from..(b - 1) : Clean(t),
           NEW k \in 1..(entries[b].lo - 1), NEW m \in Nat, m = b - 1 \/ m = b
    PROVE  Passed(m, k)
<1>1. /\ b \in Nat /\ entries[b].lo \in Nat \ {0} /\ entries[b].hi \in Nat
      /\ entries[b].lo <= entries[b].hi
      /\ k \in 1..Len(file.lines) /\ k < entries[b].lo
    BY ShardTyped
<1>2. PICK t \in Own : k \in entries[t].lo..entries[t].hi
    BY <1>1, ShardOfLine
<1>3. entries[b].lo \in entries[b].lo..entries[b].hi
    BY <1>1
<1>4. t < b /\ t \in Nat /\ task.from \in Nat /\ t >= task.from
    BY <1>1, <1>2, <1>3, ShardsInOrder, ShardTyped DEF Own, IndInv, TypeOK, TaskTypeOK
<1>5. t \in task.from..(b - 1) /\ t \in task.from..m /\ \A u \in task.from..(t - 1) : Clean(u)
    BY <1>1, <1>4
<1>6. /\ KindAt(file.lines, entries[t].lo, k) = "none"
      /\ <<file.lines[k].id, k>> \in entries[t].outcome.claims
    BY <1>2, <1>5, CleanFacts
<1> QED
    BY <1>2, <1>5, <1>6 DEF Passed

(* ... and the ones before its first wrong line.                           *)
LEMMA BeforeRejection ==
    ASSUME IndInv, Waiting, NEW b \in Own, \A t \in task.from..(b - 1) : Clean(t),
           HasOutcome(entries[b]), NEW k \in 1..Len(file.lines),
           FirstBad(file.lines, entries[b].lo, entries[b].hi) # 0,
           k < FirstBad(file.lines, entries[b].lo, entries[b].hi)
    PROVE  Passed(b, k)
<1> DEFINE e == entries[b]
           bad == FirstBad(file.lines, e.lo, e.hi)
<1>1. b \in Nat /\ e.lo \in Nat \ {0} /\ e.hi \in Nat
    BY ShardTyped
<1>2. bad \in e.lo..e.hi /\ \A j \in e.lo..e.hi : j < bad => KindAt(file.lines, e.lo, j) = "none"
    BY <1>1, FirstBadIsFirst
<1>3. CASE k < e.lo
  <2>1. k \in 1..(e.lo - 1)
    BY <1>1, <1>3
  <2> QED
    BY <1>1, <2>1, BeforeShard
<1>4. CASE k >= e.lo
  <2>1. k \in e.lo..e.hi /\ KindAt(file.lines, e.lo, k) = "none"
    BY <1>1, <1>2, <1>4
  <2>2. <<file.lines[k].id, k>> \in e.outcome.claims
    BY <2>1, ShardFacts
  <2>3. b \in task.from..b
    BY <1>1 DEF Own, IndInv, TypeOK, TaskTypeOK
  <2> QED
    BY <2>1, <2>2, <2>3 DEF Passed
<1> QED
    BY <1>1, <1>3, <1>4

(* A line the merge reports, with nothing but passed lines before it, is   *)
(* what a sequential reader reports.                                       *)
LEMMA CrossWins ==
    ASSUME IndInv, Waiting, NEW m \in Own, NEW d \in CrossDuplicates(m),
           \A i \in task.from..m : HasOutcome(entries[i]),
           \A j \in 1..Len(file.lines) : j < d => Passed(m, j)
    PROVE  SequentialKind(file) = "duplicate"
<1>1. PICK s \in task.from..m :
        /\ s \in Own
        /\ d \in entries[s].lo..entries[s].hi
        /\ <<file.lines[d].id, d>> \in entries[s].outcome.claims
        /\ \E j \in 1..(entries[s].lo - 1) : file.lines[j].id = file.lines[d].id
    BY CrossIsDuplicate
<1> DEFINE e == entries[s]
           bad == FirstBad(file.lines, e.lo, e.hi)
<1>2. /\ e.lo \in Nat \ {0} /\ e.hi \in Nat /\ d \in Nat /\ e.lo <= d
      /\ d \in 1..Len(file.lines) /\ Len(file.lines) \in Nat
    BY <1>1, ShardTyped
<1>3. \E k \in e.lo..e.hi : /\ <<file.lines[d].id, d>> = <<file.lines[k].id, k>>
                            /\ \/ bad = 0 \/ k < bad
                               \/ k = bad /\ KindAt(file.lines, e.lo, k) = "data"
    BY <1>1, ShardFacts
<1>4. \/ bad = 0 \/ d < bad
      \/ d = bad /\ KindAt(file.lines, e.lo, d) = "data"
    BY <1>3
<1>5. KindAt(file.lines, e.lo, d) # "framing"
  <2>1. /\ bad = 0 => \A k \in e.lo..e.hi : KindAt(file.lines, e.lo, k) = "none"
        /\ bad # 0 => \A k \in e.lo..e.hi : k < bad => KindAt(file.lines, e.lo, k) = "none"
    BY <1>2, FirstBadIsFirst
  <2> QED
    BY <1>1, <1>4, <2>1
<1>6. KindAt(file.lines, 1, d) = "duplicate"
    BY <1>1, <1>2, <1>5, KindsRelate
<1>7. \A j \in 1..d : KindAt(file.lines, 1, j) \in {"none", "duplicate"}
  <2> TAKE j \in 1..d
  <2>1. CASE j = d
    BY <1>6, <2>1
  <2>2. CASE j # d
    <3>1. j \in 1..Len(file.lines) /\ j < d
      BY <1>2, <2>2
    <3> QED
      BY <3>1, PassedKinds
  <2> QED
    BY <2>1, <2>2
<1> QED
    BY <1>2, <1>6, <1>7, SequentialIs

(* All lines, when every shard was accepted.                               *)
LEMMA AllPassed ==
    ASSUME IndInv, Waiting, \A i \in Own : Clean(i), NEW k \in 1..Len(file.lines)
    PROVE  Passed(Len(entries), k)
<1>1. PICK s \in Own : k \in entries[s].lo..entries[s].hi
    BY ShardOfLine
<1>2. s \in task.from..Len(entries) /\ \A t \in task.from..(s - 1) : t \in Own
    BY DEF Own, IndInv, TypeOK, TaskTypeOK
<1>3. /\ KindAt(file.lines, entries[s].lo, k) = "none"
      /\ <<file.lines[k].id, k>> \in entries[s].outcome.claims
    BY <1>1, CleanFacts
<1> QED
    BY <1>1, <1>2, <1>3 DEF Passed

-----------------------------------------------------------------------------
(* The verdict of a verification.                                          *)

(* The count and the boundaries the shards found.                          *)
ShardBounds(n) ==
    [count |-> n,
     first |-> IF n = 0 THEN 0 ELSE entries[task.from].outcome.first,
     last |-> IF n = 0 THEN 0 ELSE Last(entries).outcome.last]

(* The whole-file checks as a cascade.                                     *)
LEMMA FileVerdictIs ==
    ASSUME NEW n
    PROVE  FileVerdict(n) =
             IF ~task.seen.whole THEN "size"
             ELSE IF task.seen.content # task.evidence.digest THEN "digest"
             ELSE IF \/ task.seen.tail # task.evidence.meta
                     \/ task.seen.tail # ShardBounds(n) THEN "metadata"
             ELSE IF ~Unchanged THEN "changed" ELSE "accepted"
BY DEF FileVerdict, ShardBounds

(* Every line fine in sequence, and the whole-file checks passed: the      *)
(* archive is the one of the evidence.                                     *)
LEMMA FileAccepted ==
    ASSUME IndInv, Waiting, NEW n, FileVerdict(n) = "accepted",
           ShardBounds(n) = Boundaries(file.lines),
           BadLines(file.lines, 1, Len(file.lines)) = {}
    PROVE  Reads(file, task.evidence) /\ Sound(task.evidence)
<1>1. /\ task.seen.whole /\ task.seen.content = task.evidence.digest
      /\ task.seen.tail = task.evidence.meta
      /\ task.seen.tail = Boundaries(file.lines)
    BY FileVerdictIs
<1>2. task.seen = Seen
    BY DEF IndInv, VerifyInv, Waiting
<1>3. /\ task.seen.whole = file.whole /\ task.seen.content = Content(file)
      /\ task.seen.tail = file.tail
    BY <1>2 DEF Seen
<1>4. Content(file)[1] = file.lines /\ Content(file)[2] = file.tail
    BY DEF Content
<1>5. Reads(file, task.evidence)
    BY <1>1, <1>3 DEF Reads, ReadsToTheEnd, StatesLines
<1>6. Sound(task.evidence)
    BY <1>1, <1>3, <1>4 DEF Sound, StatesLines
<1> QED
    BY <1>5, <1>6

(* The boundaries the shards found are the ones of the lines.              *)
LEMMA BoundsAreTheLines ==
    ASSUME IndInv, Waiting, \A i \in Own : HasOutcome(entries[i])
    PROVE  ShardBounds(IF Own = {} THEN 0 ELSE Last(entries).hi) = Boundaries(file.lines)
<1>1. /\ file.lines \in Seq(LineRows) /\ Len(file.lines) \in Nat
      /\ entries \in Seq(EntryRows) /\ task.from \in Nat \ {0} /\ Len(entries) \in Nat
    BY DEF IndInv, RunInv, RunTypeOK, TypeOK, TaskTypeOK
<1>2. CASE Own = {}
  <2>1. 1 \notin 1..Len(file.lines)
    BY <1>2, ShardOfLine
  <2>2. Len(file.lines) = 0
    BY <1>1, <2>1
  <2>3. file.lines = <<>>
    BY <1>1, <2>2
  <2> QED
    BY <1>2, <2>2, <2>3 DEF ShardBounds, Boundaries
<1>3. CASE Own # {}
  <2> DEFINE z == Len(entries)
             n == Len(file.lines)
  <2>1. z \in Own /\ task.from \in Own /\ Last(entries) = entries[z] /\ entries # <<>>
    BY <1>1, <1>3 DEF Own, Last
  <2>2. /\ entries[z].lo \in Nat \ {0} /\ entries[z].hi \in Nat /\ entries[z].lo <= entries[z].hi
        /\ entries[z].hi <= n
        /\ entries[task.from].lo \in Nat \ {0} /\ entries[task.from].hi \in Nat
        /\ entries[task.from].lo <= entries[task.from].hi
    BY <2>1, ShardTyped
  <2>3. 1 \in 1..n /\ n \in 1..n /\ n # 0
    BY <1>1, <2>2
  <2>4. PICK i \in Own : n \in entries[i].lo..entries[i].hi
    BY <2>3, ShardOfLine
  <2>5. entries[z].hi = n
    <3>1. entries[z].hi \in entries[z].lo..entries[z].hi
      BY <2>2
    <3>2. i <= z
      BY <1>1, <2>4 DEF Own
    <3>3. CASE i = z
      BY <1>1, <2>2, <2>4, <3>3
    <3>4. CASE i < z
      <4>1. n < entries[z].lo
        BY <2>1, <2>4, <3>1, <3>4, ShardsInOrder
      <4> QED
        BY <1>1, <2>2, <4>1
    <3> QED
      BY <1>1, <2>4, <3>2, <3>3, <3>4 DEF Own
  <2>6. PICK j \in Own : 1 \in entries[j].lo..entries[j].hi
    BY <2>3, ShardOfLine
  <2>7. entries[task.from].lo = 1
    <3>1. entries[task.from].lo \in entries[task.from].lo..entries[task.from].hi
      BY <2>2
    <3>2. j >= task.from /\ j \in Nat /\ entries[j].lo \in Nat \ {0} /\ entries[j].hi \in Nat
      BY <1>1, <2>6, ShardTyped DEF Own
    <3>3. CASE j = task.from
      BY <2>2, <2>6, <3>3
    <3>4. CASE task.from < j
      <4>1. entries[task.from].lo < entries[j].lo
        BY <2>1, <2>6, <3>1, <3>4, ShardsInOrder
      <4> QED
        BY <2>2, <2>6, <3>2, <4>1
    <3> QED
      BY <1>1, <3>2, <3>3, <3>4
  <2>8. entries[task.from].outcome.first = file.lines[1].id
    BY <2>1, <2>7, ShardFacts
  <2>9. entries[z].outcome.last = file.lines[n].id
    BY <2>1, <2>5, ShardFacts
  <2>10. file.lines # <<>> /\ Head(file.lines) = file.lines[1] /\ Last(file.lines) = file.lines[n]
    BY <1>1, <2>3 DEF Last
  <2> QED
    BY <1>3, <2>1, <2>3, <2>5, <2>8, <2>9, <2>10 DEF ShardBounds, Boundaries
<1> QED
    BY <1>2, <1>3

(* What VerdictIsSequential says of a verdict v.                           *)
Sequential(v) ==
    /\ v = "accepted" => Reads(file, task.evidence) /\ Sound(task.evidence)
    /\ v \in {"framing", "duplicate", "data"} => v = SequentialKind(file)
    /\ v \in {"accepted", "size", "digest", "metadata"} => SequentialKind(file) = "none"
    /\ v = "process" => \E i \in Own : /\ entries[i].worker # "done"
                                       /\ BadLines(file.lines, 1, entries[i].lo - 1) = {}

(* Every shard accepted.                                                   *)
LEMMA AllClean ==
    ASSUME IndInv, Waiting, \A i \in Own : Clean(i)
    PROVE  Sequential(IF CrossDuplicates(Len(entries)) # {} THEN "duplicate"
                      ELSE FileVerdict(IF Own = {} THEN 0 ELSE Last(entries).hi))
<1> DEFINE z == Len(entries)
           n == IF Own = {} THEN 0 ELSE Last(entries).hi
<1>1. /\ entries \in Seq(EntryRows) /\ task.from \in Nat \ {0} /\ z \in Nat
    BY DEF IndInv, TypeOK, TaskTypeOK
<1>2. CASE CrossDuplicates(z) # {}
  <2>1. z \in Own
    <3>1. task.from..z # {}
      BY <1>2 DEF CrossDuplicates
    <3> QED
      BY <1>1, <3>1 DEF Own
  <2>2. PICK d : d \in CrossDuplicates(z)
    BY <1>2
  <2>3. \A j \in 1..Len(file.lines) : Passed(z, j)
    BY <2>1, AllPassed
  <2>4. \A i \in task.from..z : HasOutcome(entries[i])
    BY DEF Own, Clean
  <2>5. SequentialKind(file) = "duplicate"
    BY <2>1, <2>2, <2>3, <2>4, CrossWins
  <2> QED
    BY <1>2, <2>5 DEF Sequential
<1>3. CASE CrossDuplicates(z) = {}
  <2>1. \A k \in 1..Len(file.lines) : KindAt(file.lines, 1, k) = "none"
    <3> TAKE k \in 1..Len(file.lines)
    <3>1. PICK i \in Own : k \in entries[i].lo..entries[i].hi
      BY ShardOfLine
    <3>2. z \in Own
      BY <1>1, <3>1 DEF Own
    <3>3. Passed(z, k)
      BY <3>2, AllPassed
    <3> QED
      BY <1>3, <3>2, <3>3, PassedKinds
  <2>2. SequentialKind(file) = "none" /\ BadLines(file.lines, 1, Len(file.lines)) = {}
    BY <2>1, SequentialIsNone
  <2>3. ShardBounds(n) = Boundaries(file.lines)
    BY BoundsAreTheLines DEF Clean
  <2> HIDE DEF n
  <2>4. FileVerdict(n) = "accepted" => Reads(file, task.evidence) /\ Sound(task.evidence)
    BY <2>2, <2>3, FileAccepted
  <2>5. FileVerdict(n) \in {"size", "digest", "metadata", "changed", "accepted"}
    BY FileVerdictIs
  <2>6. Sequential(FileVerdict(n))
    BY <2>2, <2>4, <2>5 DEF Sequential
  <2> QED
    BY <1>3, <2>6 DEF n
<1> QED
    BY <1>2, <1>3

(* A verifier of shard b left nothing; every shard before it was accepted. *)
LEMMA CrashedShard ==
    ASSUME IndInv, Waiting, NEW b \in Own, \A t \in task.from..(b - 1) : Clean(t),
           ~HasOutcome(entries[b])
    PROVE  Sequential(IF CrossDuplicates(b - 1) # {} THEN "duplicate" ELSE "process")
<1> DEFINE m == b - 1
           lo == entries[b].lo
<1>1. /\ b \in Nat \ {0} /\ task.from \in Nat \ {0} /\ Len(entries) \in Nat
      /\ lo \in Nat \ {0} /\ entries[b].hi \in Nat /\ lo <= entries[b].hi
      /\ entries[b].hi <= Len(file.lines) /\ Len(file.lines) \in Nat
      /\ b >= task.from
    BY ShardTyped DEF Own, IndInv, TypeOK, TaskTypeOK
<1>2. m \in task.from..m => m \in Own
    BY <1>1 DEF Own
<1>3. CASE CrossDuplicates(m) # {}
  <2>1. m \in Own
    <3>1. task.from..m # {}
      BY <1>3 DEF CrossDuplicates
    <3> QED
      BY <1>1, <1>2, <3>1
  <2>2. PICK d : d \in CrossDuplicates(m)
    BY <1>3
  <2>3. \A i \in task.from..m : HasOutcome(entries[i])
    BY DEF Clean
  <2>4. \A j \in 1..Len(file.lines) : j < d => Passed(m, j)
    <3> SUFFICES ASSUME NEW j \in 1..Len(file.lines), j < d
                 PROVE  Passed(m, j)
      OBVIOUS
    <3>1. PICK s \in task.from..m : s \in Own /\ d \in entries[s].lo..entries[s].hi
      BY <2>1, <2>2, <2>3, CrossIsDuplicate
    <3>2. lo \in entries[b].lo..entries[b].hi /\ s < b
      BY <1>1, <3>1
    <3>3. d < lo /\ d \in Nat
      BY <3>1, <3>2, ShardsInOrder, ShardTyped
    <3>4. j \in 1..(lo - 1)
      BY <1>1, <3>3
    <3> QED
      BY <1>1, <3>4, BeforeShard
  <2>5. SequentialKind(file) = "duplicate"
    BY <2>1, <2>2, <2>3, <2>4, CrossWins
  <2> QED
    BY <1>3, <2>5 DEF Sequential
<1>4. CASE CrossDuplicates(m) = {}
  <2>1. BadLines(file.lines, 1, lo - 1) = {}
    <3> SUFFICES ASSUME NEW k \in 1..(lo - 1)
                 PROVE  KindAt(file.lines, 1, k) = "none"
      BY DEF BadLines
    <3>1. Passed(m, k) /\ m \in Nat
      BY <1>1, BeforeShard
    <3>2. m \in Own
      <4>1. task.from..m # {}
        BY <3>1 DEF Passed
      <4> QED
        BY <1>1, <1>2, <4>1
    <3> QED
      BY <1>4, <3>1, <3>2, PassedKinds
  <2>2. entries[b].worker # "done"
    BY DEF HasOutcome
  <2> QED
    BY <1>4, <2>1, <2>2 DEF Sequential
<1> QED
    BY <1>3, <1>4

(* Shard b was rejected; every shard before it was accepted.               *)
LEMMA RejectedShard ==
    ASSUME IndInv, Waiting, NEW b \in Own, \A t \in task.from..(b - 1) : Clean(t),
           HasOutcome(entries[b]), entries[b].outcome.status = "rejected"
    PROVE  Sequential(IF DuplicateWins(CrossDuplicates(b), entries[b].lo + entries[b].outcome.at)
                        THEN "duplicate" ELSE entries[b].outcome.kind)
<1> DEFINE e == entries[b]
           r == FirstBad(file.lines, e.lo, e.hi)
<1>1. /\ b \in Nat \ {0} /\ task.from \in Nat \ {0} /\ e.lo \in Nat \ {0} /\ e.hi \in Nat
      /\ e.hi <= Len(file.lines) /\ Len(file.lines) \in Nat
    BY ShardTyped DEF Own, IndInv, TypeOK, TaskTypeOK
<1>2. r # 0 /\ e.lo + e.outcome.at = r /\ e.outcome.kind = KindAt(file.lines, e.lo, r)
    BY ShardFacts
<1>3. r \in e.lo..e.hi /\ KindAt(file.lines, e.lo, r) # "none" /\ r \in 1..Len(file.lines)
  <2>0. e.lo \in Nat \ {0} /\ e.hi \in Nat /\ r # 0
    BY <1>1, <1>2
  <2>1. r \in e.lo..e.hi /\ KindAt(file.lines, e.lo, r) # "none"
    <3> HIDE DEF e
    <3> QED
      BY <2>0, FirstBadIsFirst
  <2> HIDE DEF r
  <2> QED
    BY <1>1, <2>1
<1>4. \A j \in 1..Len(file.lines) : j < r => Passed(b, j)
    BY <1>2, BeforeRejection
<1>5. CASE DuplicateWins(CrossDuplicates(b), r)
  <2>1. PICK d \in CrossDuplicates(b) : d <= r
    BY <1>5 DEF DuplicateWins
  <2>2. \A i \in task.from..b : HasOutcome(entries[i])
    <3>1. \A i \in task.from..b : i = b \/ i \in task.from..(b - 1)
      BY <1>1
    <3> QED
      BY <3>1 DEF Clean
  <2>3. PICK s \in task.from..b : s \in Own /\ d \in entries[s].lo..entries[s].hi
    BY <2>1, <2>2, CrossIsDuplicate
  <2>4. d \in Nat
    BY <2>3, ShardTyped
  <2>5. \A j \in 1..Len(file.lines) : j < d => Passed(b, j)
    BY <1>1, <1>3, <1>4, <2>1, <2>4
  <2>6. SequentialKind(file) = "duplicate"
    BY <2>1, <2>2, <2>5, CrossWins
  <2> QED
    BY <1>2, <1>5, <2>6 DEF Sequential
<1>6. CASE ~DuplicateWins(CrossDuplicates(b), r)
  <2>1. \A j \in 1..Len(file.lines) : j <= r => j \notin CrossDuplicates(b)
    BY <1>6 DEF DuplicateWins
  <2>2. \A j \in 1..Len(file.lines) : j < r => KindAt(file.lines, 1, j) = "none"
    <3> SUFFICES ASSUME NEW j \in 1..Len(file.lines), j < r
                 PROVE  KindAt(file.lines, 1, j) = "none"
      OBVIOUS
    <3>1. Passed(b, j) /\ j \notin CrossDuplicates(b)
      BY <1>1, <1>3, <1>4, <2>1
    <3> QED
      BY <3>1, PassedKinds
  <2>3. KindAt(file.lines, 1, r) = KindAt(file.lines, e.lo, r)
    <3>1. r \in Nat /\ e.lo <= r
      BY <1>1, <1>3
    <3>2. KindAt(file.lines, e.lo, r) \in {"framing", "duplicate", "data", "none"}
      BY <1>1, <3>1, KindsRelate
    <3>3. CASE KindAt(file.lines, e.lo, r) \in {"framing", "duplicate"}
      BY <1>1, <3>1, <3>3, KindsRelate
    <3>4. CASE KindAt(file.lines, e.lo, r) = "data"
      <4>1. <<file.lines[r].id, r>> \in e.outcome.claims
        BY <1>3, <3>4, ShardFacts
      <4>2. r \notin CrossDuplicates(b)
        BY <1>1, <1>3, <2>1
      <4>3. b \in task.from..b
        BY <1>1 DEF Own
      <4>4. \A j \in 1..(e.lo - 1) : file.lines[j].id # file.lines[r].id
        BY <1>3, <4>1, <4>2, <4>3, CrossIsComplete
      <4> QED
        BY <1>1, <3>1, <4>4, KindsAgree
    <3> QED
      BY <1>3, <3>2, <3>3, <3>4
  <2>4. SequentialKind(file) = KindAt(file.lines, e.lo, r)
    <3> DEFINE x == KindAt(file.lines, e.lo, r)
    <3>1. KindAt(file.lines, 1, r) # "none" /\ KindAt(file.lines, 1, r) = x
      BY <1>3, <2>3
    <3>2. \A j \in 1..r : KindAt(file.lines, 1, j) \in {"none", x}
      <4> TAKE j \in 1..r
      <4>1. CASE j = r
        BY <3>1, <4>1
      <4>2. CASE j # r
        <5>1. j \in 1..Len(file.lines) /\ j < r
          BY <1>1, <1>3, <4>2
        <5> QED
          BY <2>2, <5>1
      <4> QED
        BY <4>1, <4>2
    <3> HIDE DEF x
    <3>3. SequentialKind(file) = x
      BY <1>3, <3>1, <3>2, SequentialIs
    <3> QED
      BY <3>3 DEF x
  <2>5. KindAt(file.lines, e.lo, r) \in {"framing", "duplicate", "data"}
    <3>1. r \in Nat /\ e.lo <= r
      BY <1>1, <1>3
    <3>2. KindAt(file.lines, e.lo, r) \in {"framing", "duplicate", "data", "none"}
      BY <1>1, <3>1, KindsRelate
    <3> QED
      BY <1>3, <3>2
  <2> HIDE DEF r
  <2>6. Sequential(e.outcome.kind)
    BY <1>2, <2>4, <2>5 DEF Sequential
  <2> QED
    BY <1>2, <1>6, <2>6
<1> QED
    BY <1>2, <1>5, <1>6

(* However the lines are cut into shards, the verdict is the one of a      *)
(* sequential reader.                                                      *)
LEMMA InterpretedIsSequential ==
    ASSUME IndInv, Waiting
    PROVE  Sequential(Interpreted)
<1> DEFINE bad == {i \in Own : ~HasOutcome(entries[i]) \/ entries[i].outcome.status = "rejected"}
<1>1. Interpreted =
        IF bad = {}
          THEN IF CrossDuplicates(Len(entries)) # {} THEN "duplicate"
               ELSE FileVerdict(IF Own = {} THEN 0 ELSE Last(entries).hi)
          ELSE IF ~HasOutcome(entries[Min(bad)])
                 THEN IF CrossDuplicates(Min(bad) - 1) # {} THEN "duplicate" ELSE "process"
                 ELSE IF DuplicateWins(CrossDuplicates(Min(bad)),
                           entries[Min(bad)].lo + entries[Min(bad)].outcome.at)
                        THEN "duplicate" ELSE entries[Min(bad)].outcome.kind
    BY DEF Interpreted
<1>2. Own \subseteq Nat
    BY ShardTyped
<1>3. CASE bad = {}
  <2>1. \A i \in Own : Clean(i)
    BY <1>3 DEF Clean
  <2> HIDE DEF bad
  <2> QED
    BY <1>1, <1>3, <2>1, AllClean
<1>4. CASE bad # {}
  <2>1. bad \in SUBSET Nat
    BY <1>2
  <2>2. Min(bad) \in bad /\ \A i \in bad : Min(bad) <= i
    <3> HIDE DEF bad
    <3> QED
      BY <1>4, <2>1, MinIsLeast
  <2>3. PICK b \in Own : b = Min(bad)
    BY <2>2
  <2>4. /\ ~HasOutcome(entries[b]) \/ entries[b].outcome.status = "rejected"
        /\ \A i \in Own : i < b => Clean(i)
    <3>1. \A i \in Own : i \notin bad => Clean(i)
      BY DEF Clean
    <3>2. ~HasOutcome(entries[b]) \/ entries[b].outcome.status = "rejected"
      BY <2>2, <2>3
    <3> HIDE DEF bad
    <3>3. \A i \in Own : i < b => i \notin bad
      BY <1>2, <2>2, <2>3
    <3> QED
      BY <3>1, <3>2, <3>3
  <2>5. \A t \in task.from..(b - 1) : Clean(t)
    <3>1. \A t \in task.from..(b - 1) : t \in Own /\ t < b
      BY DEF Own, IndInv, TypeOK, TaskTypeOK
    <3> QED
      BY <2>4, <3>1
  <2> HIDE DEF bad
  <2>6. CASE ~HasOutcome(entries[b])
    BY <1>1, <1>4, <2>3, <2>5, <2>6, CrashedShard
  <2>7. CASE HasOutcome(entries[b])
    BY <1>1, <1>4, <2>3, <2>4, <2>5, <2>7, RejectedShard
  <2> QED
    BY <2>6, <2>7
<1> QED
    BY <1>3, <1>4

-----------------------------------------------------------------------------
(* What recovery steps do to the entries.                                  *)

(* An entry b that an entry a may become.                                  *)
Evolves(a, b) ==
    /\ b \in EntryRows /\ Accounted(b)
    /\ b.lo = a.lo /\ b.hi = a.hi
    /\ b.worker = "unstarted" => a.worker = "unstarted"

(* ... and that claims no outcome a had not.                               *)
Inherits(a, b) == HasOutcome(b) => HasOutcome(a) /\ b.outcome = a.outcome

(* An entry may stay.                                                      *)
LEMMA EvolvesItself ==
    ASSUME NEW e \in EntryRows, Accounted(e)
    PROVE  Evolves(e, e) /\ Inherits(e, e)
BY DEF Evolves, Inherits

(* The parts of a pair.                                                    *)
LEMMA PairHas == \A x, y : <<x, y>>[1] = x /\ <<x, y>>[2] = y
OBVIOUS

(* registry.finish releases the session of a worker that is gone, or       *)
(* retains it.                                                             *)
LEMMA FinishEvolves ==
    ASSUME NEW e \in EntryRows, Accounted(e), NEW f \in Finishes(e)
    PROVE  /\ Evolves(e, f[1]) /\ Inherits(e, f[1])
           /\ ~e.session => f = <<e, FALSE>>
<1> DEFINE w == IF Alive(e) THEN "failed" ELSE e.worker
           a == [e EXCEPT !.session = FALSE, !.worker = w]
           b == [Ended(e) EXCEPT !.session = TRUE]
<1>1. Ended(e) = a
    BY DEF Ended
<1>2. \/ f[1] = e
      \/ e.session /\ f[1] = a
      \/ e.session /\ f[1] = b
  <2>1. \/ f = <<e, FALSE>> \/ f = <<e, TRUE>>
        \/ e.session /\ f = <<Ended(e), FALSE>>
        \/ e.session /\ f = <<Ended(e), TRUE>>
        \/ e.session /\ f = <<b, TRUE>>
    <3>1. CASE ~e.session
      BY <3>1 DEF Finishes
    <3>2. CASE e.session /\ faults < MaxFaults
      BY <3>2 DEF Finishes
    <3>3. CASE e.session /\ ~(faults < MaxFaults)
      BY <3>3 DEF Finishes
    <3> QED
      BY <3>1, <3>2, <3>3
  <2>2. \A x : f = <<x, FALSE>> \/ f = <<x, TRUE>> => f[1] = x
    BY PairHas
  <2>3. \/ f[1] = e
        \/ e.session /\ f[1] = Ended(e)
        \/ e.session /\ f[1] = b
    <3> HIDE DEF b
    <3> QED
      BY <2>1, <2>2, Zenon
  <2> HIDE DEF a, b
  <2> QED
    BY <1>1, <2>3
<1>3. ~e.session => f = <<e, FALSE>>
    BY DEF Finishes
<1>4. /\ a \in EntryRows /\ a.worker = w /\ ~a.session /\ a.scratch = e.scratch
      /\ a.dest = e.dest /\ a.outcome = e.outcome /\ a.lo = e.lo /\ a.hi = e.hi
    BY DEF EntryRows, Alive
<1>5. b = [a EXCEPT !.session = TRUE]
    BY <1>1
<1> HIDE DEF a
<1>6. /\ b \in EntryRows /\ b.worker = w /\ b.session /\ b.scratch = e.scratch
      /\ b.dest = e.dest /\ b.outcome = e.outcome /\ b.lo = e.lo /\ b.hi = e.hi
    BY <1>4, <1>5 DEF EntryRows
<1> HIDE DEF b
<1>7. w # "live" /\ (w = "unstarted" => e.worker = "unstarted") /\ (w = "done" => e.worker = "done")
    BY DEF Alive
<1> HIDE DEF w
<1>8. CASE f[1] = e
    BY <1>3, <1>8, EvolvesItself
<1>9. CASE e.session /\ f[1] = a
    BY <1>3, <1>4, <1>7, <1>9 DEF Evolves, Inherits, Accounted, HasOutcome, Alive
<1>10. CASE e.session /\ f[1] = b
    BY <1>3, <1>6, <1>7, <1>10 DEF Evolves, Inherits, Accounted, HasOutcome, Alive
<1> QED
    BY <1>2, <1>8, <1>9, <1>10

(* Without a session the scratch directory is retained and released.       *)
LEMMA KeepEvolves ==
    ASSUME NEW e \in EntryRows, Accounted(e), ~e.session
    PROVE  /\ Evolves(e, Keep(e)) /\ Inherits(e, Keep(e))
           /\ ~Keep(e).session /\ Keep(e).scratch # "own"
<1>1. CASE e.scratch = "own"
  <2> DEFINE b == [e EXCEPT !.scratch = "pending", !.kept = e.remove]
  <2>1. Keep(e) = b
    BY <1>1 DEF Keep
  <2>2. /\ b \in EntryRows /\ b.worker = e.worker /\ ~b.session /\ b.scratch = "pending"
        /\ b.outcome = e.outcome /\ b.lo = e.lo /\ b.hi = e.hi
    BY DEF EntryRows
  <2> HIDE DEF b
  <2> QED
    BY <2>1, <2>2 DEF Evolves, Inherits, Accounted, HasOutcome, Alive
<1>2. CASE e.scratch # "own"
  <2>1. Keep(e) = e
    BY <1>2 DEF Keep
  <2> QED
    BY <1>2, <2>1, EvolvesItself
<1> QED
    BY <1>1, <1>2

(* The destination is removed ...                                          *)
LEMMA UnlinkedEvolves ==
    ASSUME NEW e \in EntryRows, Accounted(e), e.scratch # "own"
    PROVE  /\ Evolves(e, Unlinked(e)) /\ Inherits(e, Unlinked(e))
           /\ Unlinked(e).scratch = e.scratch /\ ~Unlinked(e).session
<1> DEFINE b == Unlinked(e)
<1>1. /\ b \in EntryRows /\ b.worker = e.worker /\ b.session = e.session
      /\ b.scratch = e.scratch /\ b.outcome = e.outcome /\ b.lo = e.lo /\ b.hi = e.hi
    BY DEF EntryRows, Unlinked
<1> HIDE DEF b
<1>2. Evolves(e, b) /\ Inherits(e, b) /\ b.scratch = e.scratch /\ ~b.session
    BY <1>1 DEF Evolves, Inherits, Accounted, HasOutcome, Alive
<1> QED
    BY <1>2 DEF b

(* ... when the copy of the metadata says so ...                           *)
LEMMA ClearedEvolves ==
    ASSUME NEW e \in EntryRows, Accounted(e), e.scratch # "own"
    PROVE  /\ Evolves(e, Cleared(e)) /\ Inherits(e, Cleared(e))
           /\ Cleared(e).scratch = e.scratch /\ ~Cleared(e).session
<1>1. CASE e.kept
    BY <1>1, UnlinkedEvolves DEF Cleared
<1>2. CASE ~e.kept
    BY <1>2, EvolvesItself DEF Cleared, Accounted
<1> QED
    BY <1>1, <1>2

(* Evolution is transitive.                                                *)
LEMMA EvolvesAgain ==
    ASSUME NEW a, NEW b, NEW c, Evolves(a, b) /\ Inherits(a, b), Evolves(b, c) /\ Inherits(b, c)
    PROVE  Evolves(a, c) /\ Inherits(a, c)
BY DEF Evolves, Inherits

(* ... and a pending release is tried.                                     *)
LEMMA ReleasedEvolves ==
    ASSUME NEW e \in EntryRows, Accounted(e), e.scratch # "own", NEW r \in Released(e)
    PROVE  /\ Evolves(e, r[1]) /\ Inherits(e, r[1])
           /\ ~r[1].session /\ r[1].scratch # "own"
<1> DEFINE c == Cleared(e)
           b == [c EXCEPT !.scratch = "gone"]
<1>1. r[1] = e \/ r[1] = c \/ r[1] = b
  <2>1. r = <<e, FALSE>> \/ r = <<e, TRUE>> \/ r = <<c, TRUE>> \/ r = <<b, FALSE>>
    <3>1. CASE e.scratch # "pending"
      BY <3>1 DEF Released
    <3>2. CASE e.scratch = "pending" /\ faults < MaxFaults
      BY <3>2 DEF Released
    <3>3. CASE e.scratch = "pending" /\ ~(faults < MaxFaults)
      BY <3>3 DEF Released
    <3> QED
      BY <3>1, <3>2, <3>3
  <2> HIDE DEF b, c
  <2> QED
    BY <2>1, PairHas
<1>2. /\ Evolves(e, c) /\ Inherits(e, c) /\ c.scratch = e.scratch /\ ~c.session
      /\ c \in EntryRows /\ Accounted(c)
    BY ClearedEvolves DEF Evolves
<1> HIDE DEF c
<1>3. /\ b \in EntryRows /\ b.worker = c.worker /\ b.session = c.session /\ b.scratch = "gone"
      /\ b.outcome = c.outcome /\ b.lo = c.lo /\ b.hi = c.hi
    BY <1>2 DEF EntryRows
<1>4. ~e.session
    BY DEF Accounted
<1> HIDE DEF b
<1>5. Evolves(c, b) /\ Inherits(c, b)
    BY <1>2, <1>3 DEF Evolves, Inherits, Accounted, HasOutcome, Alive
<1>6. Evolves(e, b) /\ Inherits(e, b) /\ ~b.session /\ b.scratch # "own"
    BY <1>2, <1>3, <1>5, EvolvesAgain
<1>7. CASE r[1] = e
    BY <1>4, <1>7, EvolvesItself
<1>8. CASE r[1] = c
    BY <1>2, <1>8
<1>9. CASE r[1] = b
    BY <1>6, <1>9
<1> QED
    BY <1>1, <1>7, <1>8, <1>9

(* A destination is removed, or cannot be.                                 *)
LEMMA UnlinksEvolves ==
    ASSUME NEW e \in EntryRows, Accounted(e), e.scratch # "own", NEW u \in Unlinks(e)
    PROVE  Evolves(e, u[1]) /\ Inherits(e, u[1])
<1>1. u = <<Unlinked(e), FALSE>> \/ u = <<e, TRUE>>
  <2>1. CASE faults < MaxFaults
    BY <2>1 DEF Unlinks
  <2>2. CASE ~(faults < MaxFaults)
    BY <2>2 DEF Unlinks
  <2> QED
    BY <2>1, <2>2
<1>2. u[1] = Unlinked(e) \/ u[1] = e
    BY <1>1, PairHas
<1> QED
    BY <1>2, UnlinkedEvolves, EvolvesItself

(* verify_specification leaves a typed outcome.                            *)
LEMMA OutcomeTyped ==
    ASSUME NEW lines \in Seq(LineRows), NEW lo \in Nat \ {0}, NEW hi \in Nat,
           lo <= hi, hi <= Len(lines)
    PROVE  ShardOutcome(lines, lo, hi) \in OutcomeRows
<1> DEFINE bad == FirstBad(lines, lo, hi)
           claims == Claims(lines, lo, hi, bad)
           kind_ == IF bad = 0 THEN "none" ELSE KindAt(lines, lo, bad)
           at_ == IF bad = 0 THEN 0 ELSE bad - lo
<1>1. \A k \in lo..hi : lines[k].id \in Nat /\ k \in Nat
  <2> TAKE k \in lo..hi
  <2>1. k \in 1..Len(lines)
    OBVIOUS
  <2>2. lines[k] \in LineRows
    BY <2>1
  <2> QED
    BY <2>2 DEF LineRows
<1>2. claims \in SUBSET (Nat \X Nat)
    BY <1>1 DEF Claims
<1>3. bad # 0 => bad \in lo..hi
    BY FirstBadIsFirst
<1>4. kind_ \in {"none", "framing", "duplicate", "data"}
  <2>1. bad # 0 => bad \in Nat /\ lo <= bad
    BY <1>3
  <2> HIDE DEF bad
  <2> QED
    BY <2>1, KindsRelate
<1>5. at_ \in Nat
  <2> HIDE DEF bad
  <2> QED
    BY <1>3
<1>6. lines[lo].id \in Nat /\ lines[hi].id \in Nat
    BY <1>1
<1>7. ShardOutcome(lines, lo, hi) =
        [status |-> IF bad = 0 THEN "verified" ELSE "rejected", kind |-> kind_, at |-> at_,
         claims |-> claims, first |-> lines[lo].id, last |-> lines[hi].id]
    BY DEF ShardOutcome
<1> HIDE DEF bad, claims, kind_, at_
<1> QED
    BY <1>2, <1>4, <1>5, <1>6, <1>7 DEF OutcomeRows

-----------------------------------------------------------------------------
(* The parts of the invariant that recovery steps keep alike.              *)

(* The run, its Result and the archive stay as they are.                   *)
AtRest ==
    /\ UNCHANGED <<inputVars, phase, total, processVars, frames, writer, dir, file>>
    /\ faults' \in Nat

(* Then the invariant of the run stays.                                    *)
LEMMA RunAtRest ==
    ASSUME RunInv, AtRest
    PROVE  RunInv' /\ file' = file /\ phase' = phase
<1> USE DEF AtRest, inputVars, processVars
<1>1. RunTypeOK'
    BY DEF RunInv, RunTypeOK
<1>2. FramesInv' /\ WrittenInv' /\ EndInv' /\ SealInv'
    BY DEF RunInv, FramesInv, WrittenInv, EndInv, SealInv, Written, LimitReached
<1> QED
    BY <1>1, <1>2 DEF RunInv

(* The entries are the same, each as it was or evolved.                    *)
Evolving ==
    /\ entries' \in Seq(EntryRows) /\ Len(entries') = Len(entries)
    /\ \A i \in DOMAIN entries : Evolves(entries[i], entries'[i])

(* An entry is typed and accounted for.                                    *)
LEMMA EntryFacts ==
    ASSUME IndInv, NEW i \in DOMAIN entries
    PROVE  entries[i] \in EntryRows /\ Accounted(entries[i]) /\ i \in Nat \ {0} /\ i <= Len(entries)
BY DEF IndInv, TypeOK, SessionInv

(* No entry changes.                                                       *)
LEMMA NoneEvolves ==
    ASSUME IndInv, entries' = entries
    PROVE  Evolving
<1>1. entries \in Seq(EntryRows)
    BY DEF IndInv, TypeOK
<1> QED
    BY <1>1, EntryFacts, EvolvesItself DEF Evolving

(* One entry changes.                                                      *)
LEMMA OneEvolves ==
    ASSUME IndInv, NEW i \in DOMAIN entries, NEW b, Evolves(entries[i], b),
           entries' = [entries EXCEPT ![i] = b]
    PROVE  /\ Evolving /\ entries'[i] = b
           /\ \A j \in DOMAIN entries : j # i => entries'[j] = entries[j]
<1>1. entries \in Seq(EntryRows) /\ b \in EntryRows
    BY DEF IndInv, TypeOK, Evolves
<1>2. entries' \in Seq(EntryRows) /\ Len(entries') = Len(entries)
    BY <1>1
<1>3. entries'[i] = b /\ \A j \in DOMAIN entries : j # i => entries'[j] = entries[j]
    BY <1>1
<1>4. \A j \in DOMAIN entries : Evolves(entries[j], entries'[j])
    BY <1>3, EntryFacts, EvolvesItself
<1> QED
    BY <1>2, <1>3, <1>4 DEF Evolving

Ground == RunInv /\ TypeOK /\ ArchiveInv /\ SessionInv /\ SnapInv

(* Entries that evolve under a typed request keep that part of the         *)
(* invariant.                                                              *)
LEMMA GroundKept ==
    ASSUME IndInv, AtRest, Evolving, identity' = identity, tasks' \in Nat,
           stopping' \in BOOLEAN, reply' \in Replies, shut' \in ShutRows,
           shut'.snap \subseteq shut.snap, TaskTypeOK', task'.id <= identity,
           phase # "over" => task'.step = "idle",
           task'.step \in ProjectSteps => task'.at \in DOMAIN entries
    PROVE  Ground'
<1>1. RunInv' /\ file' = file /\ phase' = phase
    BY RunAtRest DEF IndInv
<1>2. /\ entries \in Seq(EntryRows) /\ entries' \in Seq(EntryRows)
      /\ DOMAIN entries' = DOMAIN entries
    BY DEF IndInv, TypeOK, Evolving
<1>3. TypeOK'
    BY <1>1, <1>2 DEF IndInv, TypeOK, RunInv
<1>4. phase # "over" => entries' = <<>>
  <2>1. phase # "over" => Len(entries') = 0
    BY DEF IndInv, ArchiveInv, Evolving
  <2> QED
    BY <1>2, <2>1
<1>5. ArchiveInv'
    BY <1>1, <1>2, <1>4 DEF IndInv, ArchiveInv, Evolving, Evolves
<1>6. SessionInv'
    BY <1>2 DEF SessionInv, Evolving, Evolves
<1>7. SnapInv'
    BY <1>2 DEF IndInv, SnapInv, Evolving, Evolves
<1> QED
    BY <1>1, <1>3, <1>5, <1>6, <1>7 DEF Ground

(* A request that ends, a projection on its way and a verification that is *)
(* decided.                                                                *)
LEMMA IdleTyped ==
    ASSUME NEW t, t = Idle
    PROVE  /\ DOMAIN t = {"step", "from", "at", "id", "evidence", "seen", "verdict", "error"}
           /\ t.step = "idle" /\ t.from = 1 /\ t.at = 1 /\ t.id = 0
BY DEF Idle

(* A request that has ended keeps the rest ...                             *)
LEMMA IdleKeeps ==
    ASSUME Ground', task' = Idle, row' # NoRow => SoundRow(row)'
    PROVE  IndInv'
<1>1. task'.step = "idle"
    BY IdleTyped
<1> QED
    BY <1>1 DEF Ground, IndInv, FreshInv, VerifyInv, AcceptInv, VerifySteps

(* ... and so does a projection past its launch ...                        *)
LEMMA ProjectKeeps ==
    ASSUME Ground', task'.step \in {"watch", "finish", "check", "release"},
           row' # NoRow => SoundRow(row)'
    PROVE  IndInv'
BY DEF Ground, IndInv, FreshInv, VerifyInv, AcceptInv, VerifySteps

(* ... and a verification that is decided, with its evidence.              *)
LEMMA DecidedKeeps ==
    ASSUME Ground', task'.step \in {"cleanup", "commit", "receipt"},
           DOMAIN task'.evidence = {"digest", "meta"},
           task'.step # "cleanup" => task'.verdict = "accepted",
           task'.verdict = "accepted" =>
             Sound(task.evidence)' /\ (Unchanged' => Reads(file, task.evidence)'),
           row' # NoRow => SoundRow(row)', task'.step = "receipt" => row' # NoRow
    PROVE  IndInv'
BY DEF Ground, IndInv, FreshInv, VerifyInv, AcceptInv, VerifySteps

(* A row that stays is still sound.                                        *)
LEMMA RowIsSound ==
    ASSUME IndInv, row' = row
    PROVE  row' # NoRow => SoundRow(row)'
BY DEF IndInv, AcceptInv, SoundRow

(* A request in its next step is typed.                                    *)
LEMMA StepsTyped ==
    ASSUME IndInv, NEW t, DOMAIN t = DOMAIN task, t.step \in VerifySteps \cup ProjectSteps,
           t.from = task.from, t.at \in Nat \ {0}, t.id \in Nat, task' = t
    PROVE  TaskTypeOK'
BY DEF IndInv, TypeOK, TaskTypeOK

(* What goes on beside a request: workers, and a shutdown.                 *)
LEMMA BesideKeeps ==
    ASSUME IndInv, AtRest, Evolving, UNCHANGED <<identity, row, task, tasks, reply>>,
           stopping' \in BOOLEAN, shut' \in ShutRows, shut'.snap \subseteq shut.snap,
           \A i \in DOMAIN entries : Fresh(entries[i]) => entries'[i] = entries[i],
           \A i \in DOMAIN entries : entries[i].lo > 0 =>
             \/ Inherits(entries[i], entries'[i])
             \/ entries'[i].outcome = ShardOutcome(file.lines, entries[i].lo, entries[i].hi)
    PROVE  IndInv'
<1>1. Ground'
  <2>1. TaskTypeOK' /\ task'.id <= identity /\ (phase # "over" => task'.step = "idle")
    BY DEF IndInv, TypeOK, TaskTypeOK, ArchiveInv
  <2>2. tasks' \in Nat /\ reply' \in Replies
    BY DEF IndInv, TypeOK
  <2>3. task'.step \in ProjectSteps => task'.at \in DOMAIN entries
    BY DEF IndInv, ArchiveInv
  <2> QED
    BY <2>1, <2>2, <2>3, GroundKept
<1>2. file' = file /\ DOMAIN entries' = DOMAIN entries /\ Len(entries') = Len(entries)
    BY RunAtRest DEF IndInv, TypeOK, Evolving
<1>3. FreshInv'
    BY <1>2 DEF IndInv, FreshInv
<1>4. /\ Own' = Own /\ (Own \subseteq DOMAIN entries)
      /\ \A i \in DOMAIN entries : entries'[i].lo = entries[i].lo /\ entries'[i].hi = entries[i].hi
    BY <1>2 DEF Own, IndInv, TypeOK, TaskTypeOK, Evolving, Evolves
<1>5. VerifyInv'
  <2>1. task'.step \in {"starting", "waiting"} => Partition'
    BY <1>2, <1>4 DEF IndInv, VerifyInv, Partition
  <2>2. task'.step \in {"starting", "waiting"} /\ Unchanged' =>
          \A i \in Own' : HasOutcome(entries'[i]) =>
            entries'[i].outcome = ShardOutcome(file'.lines, entries'[i].lo, entries'[i].hi)
    <3> SUFFICES ASSUME task.step \in {"starting", "waiting"}, Unchanged,
                        NEW i \in Own, HasOutcome(entries'[i])
                 PROVE  entries'[i].outcome =
                          ShardOutcome(file.lines, entries[i].lo, entries[i].hi)
      BY <1>2, <1>4 DEF Unchanged
    <3>1. entries[i].lo > 0
      BY DEF IndInv, VerifyInv, Partition
    <3>2. HasOutcome(entries[i]) =>
            entries[i].outcome = ShardOutcome(file.lines, entries[i].lo, entries[i].hi)
      BY DEF IndInv, VerifyInv
    <3> QED
      BY <1>4, <3>1, <3>2 DEF Inherits
  <2>3. task'.step = "waiting" /\ Unchanged' => task'.seen = Seen'
    BY <1>2 DEF IndInv, VerifyInv, Unchanged, Seen, Content
  <2> QED
    BY <2>1, <2>2, <2>3 DEF VerifyInv, HasOutcome
<1>6. AcceptInv'
    BY <1>2 DEF IndInv, AcceptInv, Sound, SoundRow, Unchanged, Reads, ReadsToTheEnd, Content, StatesLines,
           Boundaries
<1> QED
    BY <1>1, <1>3, <1>5, <1>6 DEF Ground, IndInv

-----------------------------------------------------------------------------
(* Steps beside a request.                                                 *)

(* Failures are counted.                                                   *)
LEMMA SpendTyped ==
    ASSUME RunInv
    PROVE  faults \in Nat /\ faults + 1 \in Nat /\ (Fault => faults' \in Nat)
BY DEF RunInv, RunTypeOK, Fault

(* A verifier leaves its outcome, or dies.                                 *)
LEMMA VerifyShardKeeps ==
    ASSUME IndInv, NEW i \in DOMAIN entries, VerifyShard(i)
    PROVE  IndInv'
<1> DEFINE e == entries[i]
           x == ShardOutcome(file.lines, e.lo, e.hi)
           done == [e EXCEPT !.worker = "done", !.outcome = x]
           dead == [e EXCEPT !.worker = "failed"]
<1>1. /\ AtRest /\ UNCHANGED <<identity, row, task, tasks, reply, stopping, shut>>
    BY SpendTyped DEF VerifyShard, AtRest, NoFault, IndInv
<1>2. /\ e \in EntryRows /\ Accounted(e) /\ e.worker = "live" /\ e.lo > 0
      /\ entries \in Seq(EntryRows)
    BY EntryFacts DEF VerifyShard, Alive, IndInv, TypeOK
<1>3. x \in OutcomeRows
  <2>1. e.lo \in Nat \ {0} /\ e.hi \in Nat /\ e.lo <= e.hi /\ e.hi <= Len(file.lines)
    BY <1>2 DEF EntryRows, IndInv, ArchiveInv
  <2>2. file.lines \in Seq(LineRows)
    BY DEF IndInv, RunInv, RunTypeOK
  <2> QED
    BY <2>1, <2>2, OutcomeTyped
<1>4. \/ entries' = [entries EXCEPT ![i] = done]
      \/ entries' = [entries EXCEPT ![i] = dead]
    BY <1>2 DEF VerifyShard
<1> HIDE DEF x
<1>5. /\ done \in EntryRows /\ done.worker = "done" /\ done.outcome = x
      /\ done.session = e.session /\ done.scratch = e.scratch /\ done.dest = e.dest
      /\ done.lo = e.lo /\ done.hi = e.hi
    BY <1>2, <1>3 DEF EntryRows
<1>6. /\ dead \in EntryRows /\ dead.worker = "failed"
      /\ dead.session = e.session /\ dead.scratch = e.scratch /\ dead.dest = e.dest
      /\ dead.lo = e.lo /\ dead.hi = e.hi
    BY <1>2 DEF EntryRows
<1> HIDE DEF done, dead
<1>7. Evolves(e, done) /\ Evolves(e, dead) /\ Inherits(e, dead) /\ ~Fresh(e)
    BY <1>2, <1>5, <1>6 DEF Evolves, Inherits, Accounted, Alive, HasOutcome, Fresh
<1>8. /\ Evolving /\ entries'[i] \in {done, dead}
      /\ \A j \in DOMAIN entries : j # i => entries'[j] = entries[j]
  <2>1. CASE entries' = [entries EXCEPT ![i] = done]
    BY <1>7, <2>1, OneEvolves
  <2>2. CASE entries' = [entries EXCEPT ![i] = dead]
    BY <1>7, <2>2, OneEvolves
  <2> QED
    BY <1>4, <2>1, <2>2
<1>9. \A j \in DOMAIN entries :
        /\ Fresh(entries[j]) => entries'[j] = entries[j]
        /\ \/ Inherits(entries[j], entries'[j])
           \/ entries'[j].outcome = ShardOutcome(file.lines, entries[j].lo, entries[j].hi)
  <2> TAKE j \in DOMAIN entries
  <2>1. CASE j = i
    BY <1>5, <1>7, <1>8, <2>1 DEF x
  <2>2. CASE j # i
    BY <1>8, <2>2, EntryFacts, EvolvesItself
  <2> QED
    BY <2>1, <2>2
<1>10. stopping' \in BOOLEAN /\ shut' \in ShutRows /\ shut'.snap \subseteq shut.snap
    BY <1>1 DEF IndInv, TypeOK
<1> QED
    BY <1>1, <1>8, <1>9, <1>10, BesideKeeps

(* A projection worker writes its destination, ends or fails.              *)
LEMMA ProjectStepKeeps ==
    ASSUME IndInv, NEW i \in DOMAIN entries, ProjectWrites(i) \/ ProjectEnds(i)
    PROVE  IndInv'
<1> DEFINE e == entries[i]
           written == [e EXCEPT !.dest = "written"]
           done == [e EXCEPT !.worker = "done"]
           dead(d) == [e EXCEPT !.worker = "failed", !.dest = d]
<1>1. /\ AtRest /\ UNCHANGED <<identity, row, task, tasks, reply, stopping, shut>>
    BY SpendTyped
    DEF ProjectWrites, ProjectEnds, AtRest, NoFault, IndInv, runVars, inputVars, processVars
<1>2. /\ e \in EntryRows /\ Accounted(e) /\ e.worker = "live" /\ e.lo = 0
      /\ entries \in Seq(EntryRows)
    BY EntryFacts DEF ProjectWrites, ProjectEnds, Alive, IndInv, TypeOK
<1>3. PICK d \in {"none", e.dest} :
        \/ entries' = [entries EXCEPT ![i] = written]
        \/ entries' = [entries EXCEPT ![i] = done]
        \/ entries' = [entries EXCEPT ![i] = dead(d)]
  <2>1. CASE ProjectWrites(i)
    BY <1>2, <2>1 DEF ProjectWrites
  <2>2. CASE ProjectEnds(i)
    BY <1>2, <2>2 DEF ProjectEnds
  <2> QED
    BY <2>1, <2>2
<1>4. d \in {"none", "written"}
  <2>1. e.scratch = "own"
    BY <1>2 DEF Accounted, Alive
  <2>2. e.dest \in {"none", "written", "removed"}
    BY <1>2 DEF EntryRows
  <2> QED
    BY <1>2, <2>1, <2>2 DEF Accounted
<1>5. /\ written \in EntryRows /\ written.worker = "live" /\ written.dest = "written"
      /\ written.session = e.session /\ written.scratch = e.scratch
      /\ written.lo = e.lo /\ written.hi = e.hi
    BY <1>2 DEF EntryRows
<1>6. /\ done \in EntryRows /\ done.worker = "done" /\ done.dest = e.dest
      /\ done.session = e.session /\ done.scratch = e.scratch
      /\ done.lo = e.lo /\ done.hi = e.hi
    BY <1>2 DEF EntryRows
<1>7. /\ dead(d) \in EntryRows /\ dead(d).worker = "failed" /\ dead(d).dest = d
      /\ dead(d).session = e.session /\ dead(d).scratch = e.scratch
      /\ dead(d).lo = e.lo /\ dead(d).hi = e.hi
    BY <1>2, <1>4 DEF EntryRows
<1>8. \E x : /\ entries' = [entries EXCEPT ![i] = x] /\ x \in EntryRows /\ Accounted(x)
             /\ x.worker # "unstarted" /\ x.lo = e.lo /\ x.hi = e.hi
  <2> HIDE DEF written, done, dead
  <2>1. Accounted(written) /\ Accounted(done) /\ Accounted(dead(d))
    BY <1>2, <1>4, <1>5, <1>6, <1>7 DEF Accounted, Alive
  <2>2. CASE entries' = [entries EXCEPT ![i] = written]
    BY <1>5, <2>1, <2>2
  <2>3. CASE entries' = [entries EXCEPT ![i] = done]
    BY <1>6, <2>1, <2>3
  <2>4. CASE entries' = [entries EXCEPT ![i] = dead(d)]
    BY <1>7, <2>1, <2>4
  <2> QED
    BY <1>3, <2>2, <2>3, <2>4
<1> HIDE DEF written, done, dead
<1>9. Evolving /\ (\A j \in DOMAIN entries : j # i => entries'[j] = entries[j])
  <2>1. PICK x : /\ entries' = [entries EXCEPT ![i] = x] /\ x \in EntryRows /\ Accounted(x)
                 /\ x.worker # "unstarted" /\ x.lo = e.lo /\ x.hi = e.hi
    BY <1>8
  <2>2. Evolves(entries[i], x)
    BY <2>1 DEF Evolves
  <2> QED
    BY <2>1, <2>2, OneEvolves
<1>10. \A j \in DOMAIN entries :
        /\ Fresh(entries[j]) => entries'[j] = entries[j]
        /\ entries[j].lo > 0 => Inherits(entries[j], entries'[j])
  <2> TAKE j \in DOMAIN entries
  <2>1. CASE j = i
    BY <1>2, <2>1 DEF Fresh
  <2>2. CASE j # i
    BY <1>9, <2>2, EntryFacts, EvolvesItself
  <2> QED
    BY <2>1, <2>2
<1>11. stopping' \in BOOLEAN /\ shut' \in ShutRows /\ shut'.snap \subseteq shut.snap
    BY <1>1 DEF IndInv, TypeOK
<1> QED
    BY <1>1, <1>9, <1>10, <1>11, BesideKeeps

(* The snapshot and the stop of a shutdown.                                *)
LEMMA ShutdownBeginKeeps ==
    ASSUME IndInv, ShutdownSnapshot \/ ShutdownStops
    PROVE  IndInv'
<1>1. /\ UNCHANGED <<runVars, identity, row, task, tasks, entries, reply>>
    BY DEF ShutdownSnapshot, ShutdownStops
<1>2. AtRest /\ Evolving
    BY <1>1, NoneEvolves, SpendTyped DEF AtRest, runVars, inputVars, processVars, IndInv
<1>3. \A i \in DOMAIN entries : entries'[i] = entries[i] /\ Inherits(entries[i], entries'[i])
    BY <1>1, EntryFacts, EvolvesItself
<1>4. CASE ShutdownStops
  <2>1. stopping' \in BOOLEAN /\ shut' \in ShutRows /\ shut'.snap \subseteq shut.snap
    BY <1>4 DEF ShutdownStops, IndInv, TypeOK, ShutRows
  <2> QED
    BY <1>1, <1>2, <1>3, <2>1, BesideKeeps
<1>5. CASE ShutdownSnapshot
  <2>1. /\ shut' = [step |-> "stop", snap |-> {i \in DOMAIN entries : entries[i].session},
                    keys |-> {}]
        /\ stopping' = stopping
    BY <1>5 DEF ShutdownSnapshot, NoShutdown
  <2>2. SnapInv'
    BY <1>1, <2>1, EntryFacts DEF SnapInv, Accounted
  <2>3. TypeOK'
    <3>1. shut' \in ShutRows
      BY <2>1, EntryFacts DEF ShutRows
    <3> QED
      BY <1>1, <2>1, <3>1, RunAtRest, <1>2 DEF IndInv, TypeOK, TaskTypeOK, RunInv
  <2>4. RunInv' /\ ArchiveInv' /\ SessionInv'
    BY <1>1, <1>2, RunAtRest DEF IndInv, ArchiveInv, SessionInv
  <2>5. FreshInv' /\ VerifyInv' /\ AcceptInv'
    <3>1. UNCHANGED <<task, entries, identity, row, file>>
      BY <1>1 DEF runVars
    <3>2. FreshInv'
      BY <3>1 DEF IndInv, FreshInv
    <3>3. VerifyInv'
      BY <3>1 DEF IndInv, VerifyInv, Own, Partition, Unchanged, HasOutcome, Seen, Content
    <3>4. AcceptInv'
      BY <3>1 DEF IndInv, AcceptInv, Sound, SoundRow, Unchanged, Reads, ReadsToTheEnd, Content, StatesLines,
             Boundaries
    <3> QED
      BY <3>2, <3>3, <3>4
  <2> QED
    BY <2>2, <2>3, <2>4, <2>5 DEF IndInv
<1> QED
    BY <1>4, <1>5

(* registry.shutdown.                                                      *)
LEMMA ShutdownKillsKeeps ==
    ASSUME IndInv, ShutdownKills
    PROVE  IndInv'
<1>1. /\ UNCHANGED <<identity, row, task, tasks, reply, stopping>>
      /\ UNCHANGED <<inputVars, phase, total, processVars, frames, writer, dir, file>>
    BY DEF ShutdownKills
<1>2. stopping' \in BOOLEAN
    BY <1>1 DEF IndInv, TypeOK
<1>3. ASSUME NEW i \in DOMAIN entries, entries[i].session, NEW f \in Finishes(entries[i]),
             Spend(f[2]), entries' = [entries EXCEPT ![i] = f[1]], shut' = shut
      PROVE  IndInv'
  <2>1. Evolves(entries[i], f[1]) /\ Inherits(entries[i], f[1])
    BY <1>3, EntryFacts, FinishEvolves
  <2>2. /\ Evolving /\ entries'[i] = f[1]
        /\ \A j \in DOMAIN entries : j # i => entries'[j] = entries[j]
    BY <1>3, <2>1, OneEvolves
  <2>3. \A j \in DOMAIN entries :
          /\ Fresh(entries[j]) => entries'[j] = entries[j]
          /\ Inherits(entries[j], entries'[j])
    <3> TAKE j \in DOMAIN entries
    <3>1. CASE j = i
      BY <1>3, <2>1, <2>2, <3>1 DEF Fresh
    <3>2. CASE j # i
      BY <2>2, <3>2, EntryFacts, EvolvesItself
    <3> QED
      BY <3>1, <3>2
  <2>4. AtRest
    BY <1>1, <1>3, SpendTyped DEF AtRest, Spend, IndInv
  <2>5. shut' \in ShutRows /\ shut'.snap \subseteq shut.snap
    BY <1>3 DEF IndInv, TypeOK
  <2> QED
    BY <1>1, <1>2, <2>2, <2>3, <2>4, <2>5, BesideKeeps
<1>4. CASE shut' = [shut EXCEPT !.step = "retain"] /\ UNCHANGED <<entries, faults>>
  <2>1. AtRest /\ Evolving
    BY <1>1, <1>4, NoneEvolves, SpendTyped DEF AtRest, IndInv
  <2>2. \A i \in DOMAIN entries : entries'[i] = entries[i] /\ Inherits(entries[i], entries'[i])
    BY <1>4, EntryFacts, EvolvesItself
  <2>3. shut' \in ShutRows /\ shut'.snap \subseteq shut.snap
    BY <1>4 DEF IndInv, TypeOK, ShutRows
  <2> QED
    BY <1>1, <1>2, <2>1, <2>2, <2>3, BesideKeeps
<1> QED
    BY <1>3, <1>4 DEF ShutdownKills

(* The sessions that are no longer current are retained for release.       *)
LEMMA ShutdownRetainsKeeps ==
    ASSUME IndInv, ShutdownRetains
    PROVE  IndInv'
<1> DEFINE K(i) == IF i \in shut.snap /\ ~Retained(entries[i]) THEN Keep(entries[i]) ELSE entries[i]
           keys == {i \in DOMAIN entries : entries'[i].scratch = "pending"}
<1>1. /\ UNCHANGED <<runVars, identity, row, task, tasks, stopping, reply>>
      /\ shut' = [shut EXCEPT !.step = "release", !.keys = keys]
    BY DEF ShutdownRetains
<1>2. entries' = [i \in DOMAIN entries |-> K(i)]
    BY DEF ShutdownRetains
<1>3. \A i \in DOMAIN entries :
        /\ Evolves(entries[i], K(i)) /\ Inherits(entries[i], K(i))
        /\ Fresh(entries[i]) => K(i) = entries[i]
  <2> TAKE i \in DOMAIN entries
  <2>1. entries[i] \in EntryRows /\ Accounted(entries[i])
    BY EntryFacts
  <2>2. Evolves(entries[i], K(i)) /\ Inherits(entries[i], K(i))
    BY <2>1, KeepEvolves, EvolvesItself DEF Retained
  <2>3. Fresh(entries[i]) => K(i) = entries[i]
    BY DEF Fresh, IndInv, SnapInv
  <2> QED
    BY <2>2, <2>3
<1> HIDE DEF K
<1>4. \A i \in DOMAIN entries : entries'[i] = K(i)
    BY <1>2
<1>5. Evolving
  <2>1. entries \in Seq(EntryRows) /\ DOMAIN entries = 1..Len(entries) /\ Len(entries) \in Nat
    BY DEF IndInv, TypeOK
  <2>2. \A i \in DOMAIN entries : K(i) \in EntryRows
    BY <1>3 DEF Evolves
  <2>3. entries' \in [1..Len(entries) -> EntryRows]
    BY <1>2, <2>1, <2>2
  <2>4. entries' \in Seq(EntryRows) /\ Len(entries') = Len(entries)
    BY <2>1, <2>3, FunctionsAreSequences
  <2> QED
    BY <1>3, <1>4, <2>4 DEF Evolving
<1>6. AtRest
    BY <1>1, SpendTyped DEF AtRest, runVars, inputVars, processVars, IndInv
<1>7. stopping' \in BOOLEAN /\ shut' \in ShutRows /\ shut'.snap \subseteq shut.snap
  <2>1. keys \in SUBSET Nat
    BY EntryFacts
  <2> HIDE DEF keys
  <2> QED
    BY <1>1, <2>1 DEF IndInv, TypeOK, ShutRows
<1> QED
    BY <1>1, <1>3, <1>4, <1>5, <1>6, <1>7, BesideKeeps

(* The pending releases are tried.                                         *)
LEMMA ShutdownReleasesKeeps ==
    ASSUME IndInv, ShutdownReleases
    PROVE  IndInv'
<1>1. /\ UNCHANGED <<identity, row, task, tasks, reply, stopping>>
      /\ UNCHANGED <<inputVars, phase, total, processVars, frames, writer, dir, file>>
    BY DEF ShutdownReleases
<1>2. stopping' \in BOOLEAN
    BY <1>1 DEF IndInv, TypeOK
<1>3. ASSUME NEW i \in DOMAIN entries, NEW r \in Released(entries[i]), Spend(r[2]),
             entries' = [entries EXCEPT ![i] = r[1]], shut' = [shut EXCEPT !.keys = @ \ {i}]
      PROVE  IndInv'
  <2>1. /\ Evolves(entries[i], r[1]) /\ Inherits(entries[i], r[1])
        /\ Fresh(entries[i]) => r[1] = entries[i]
    <3>1. CASE entries[i].scratch = "own"
      <4>1. r = <<entries[i], FALSE>>
        BY <1>3, <3>1 DEF Released
      <4>2. r[1] = entries[i]
        BY <4>1, PairHas
      <4> QED
        BY <4>2, EntryFacts, EvolvesItself
    <3>2. CASE entries[i].scratch # "own"
      BY <1>3, <3>2, EntryFacts, ReleasedEvolves DEF Fresh
    <3> QED
      BY <3>1, <3>2
  <2>2. /\ Evolving /\ entries'[i] = r[1]
        /\ \A j \in DOMAIN entries : j # i => entries'[j] = entries[j]
    BY <1>3, <2>1, OneEvolves
  <2>3. \A j \in DOMAIN entries :
          /\ Fresh(entries[j]) => entries'[j] = entries[j]
          /\ Inherits(entries[j], entries'[j])
    <3> TAKE j \in DOMAIN entries
    <3>1. CASE j = i
      BY <2>1, <2>2, <3>1
    <3>2. CASE j # i
      BY <2>2, <3>2, EntryFacts, EvolvesItself
    <3> QED
      BY <3>1, <3>2
  <2>4. AtRest
    BY <1>1, <1>3, SpendTyped DEF AtRest, Spend, IndInv
  <2>5. shut' \in ShutRows /\ shut'.snap \subseteq shut.snap
    BY <1>3 DEF IndInv, TypeOK, ShutRows
  <2> QED
    BY <1>1, <1>2, <2>2, <2>3, <2>4, <2>5, BesideKeeps
<1>4. CASE shut' = [shut EXCEPT !.step = "done"] /\ UNCHANGED <<entries, faults>>
  <2>1. AtRest /\ Evolving
    BY <1>1, <1>4, NoneEvolves, SpendTyped DEF AtRest, IndInv
  <2>2. \A i \in DOMAIN entries : entries'[i] = entries[i] /\ Inherits(entries[i], entries'[i])
    BY <1>4, EntryFacts, EvolvesItself
  <2>3. shut' \in ShutRows /\ shut'.snap \subseteq shut.snap
    BY <1>4 DEF IndInv, TypeOK, ShutRows
  <2> QED
    BY <1>1, <1>2, <2>1, <2>2, <2>3, BesideKeeps
<1> QED
    BY <1>3, <1>4 DEF ShutdownReleases

-----------------------------------------------------------------------------
(* Steps of a request.                                                     *)

(* A request that is told its answer.                                      *)
LEMMA SaysKeeps ==
    ASSUME IndInv, AtRest, Evolving, NEW r \in Replies, Say(r), identity' = identity,
           tasks' \in Nat, UNCHANGED <<stopping, shut>>, row' # NoRow => SoundRow(row)'
    PROVE  IndInv'
<1>1. task' = Idle /\ reply' \in Replies
    BY DEF Say
<1>2. TaskTypeOK' /\ task'.step = "idle" /\ task'.id <= identity
    BY <1>1, IdleTyped DEF TaskTypeOK, IndInv, TypeOK
<1>3. Ground'
    BY <1>1, <1>2, GroundKept DEF IndInv, TypeOK, ProjectSteps
<1> QED
    BY <1>1, <1>3, IdleKeeps

(* A request that goes on.                                                 *)
LEMMA GoesOn ==
    ASSUME IndInv, AtRest, Evolving, NEW t, Go(t), DOMAIN t = DOMAIN task,
           task.step # "idle", t.step \in VerifySteps \cup ProjectSteps, t.from = task.from,
           t.at \in Nat \ {0}, t.id \in Nat, t.id <= identity,
           t.step \in ProjectSteps => t.at \in DOMAIN entries,
           UNCHANGED <<identity, tasks, stopping, shut>>
    PROVE  Ground' /\ task' = t
<1>1. task' = t /\ reply' = reply
    BY DEF Go
<1>2. TaskTypeOK'
    BY <1>1, StepsTyped
<1>3. phase = "over"
    BY DEF IndInv, ArchiveInv
<1> QED
    BY <1>1, <1>2, <1>3, GroundKept DEF IndInv, TypeOK

(* load_unindexed_result_archive.                                          *)
LEMMA LoadEvidenceKeeps ==
    ASSUME IndInv, LoadEvidence
    PROVE  IndInv'
<1>1. /\ phase = "over" /\ tasks' = tasks + 1
      /\ UNCHANGED <<runVars, identity, row, entries, stopping, shut>>
    BY DEF LoadEvidence
<1>2. AtRest /\ Evolving /\ tasks' \in Nat
    BY <1>1, NoneEvolves, SpendTyped DEF AtRest, runVars, inputVars, processVars, IndInv, TypeOK
<1>3. row' # NoRow => SoundRow(row)'
    BY <1>1, RowIsSound
<1>4. CASE file.whole
  <2> DEFINE n == Len(entries) + 1
             x == ManifestEvidence
  <2>1. /\ reply' = "none"
        /\ task' = [step |-> "loaded", from |-> n, at |-> n, id |-> 0, evidence |-> x,
                    seen |-> <<>>, verdict |-> "none", error |-> FALSE]
    BY <1>4 DEF LoadEvidence, Begin
  <2>2. n \in Nat \ {0} /\ Len(entries') + 1 = n /\ DOMAIN x = {"digest", "meta"}
    BY <1>1 DEF IndInv, TypeOK, ManifestEvidence
  <2> HIDE DEF n, x
  <2>3. /\ task'.step = "loaded" /\ task'.from = n /\ task'.id = 0 /\ task'.evidence = x
        /\ TaskTypeOK'
    BY <2>1, <2>2 DEF TaskTypeOK, VerifySteps
  <2>4. Ground'
    BY <1>1, <1>2, <2>1, <2>3, GroundKept DEF IndInv, TypeOK, Replies, ProjectSteps
  <2>5. FreshInv' /\ VerifyInv' /\ AcceptInv'
    BY <1>3, <2>2, <2>3 DEF FreshInv, VerifyInv, AcceptInv
  <2> QED
    BY <2>4, <2>5 DEF Ground, IndInv
<1>5. CASE ~file.whole
  <2>1. Say("rejected") /\ "rejected" \in Replies
    BY <1>5 DEF LoadEvidence, Replies
  <2> QED
    BY <1>1, <1>2, <1>3, <2>1, SaysKeeps
<1> QED
    BY <1>4, <1>5

(* The evidence and the archive a step does not touch.                     *)
LEMMA EvidenceStays ==
    ASSUME IndInv, AtRest, identity' = identity, task'.evidence = task.evidence,
           task'.id = task.id, task.step \in {"cleanup", "commit", "receipt"},
           task.verdict = "accepted"
    PROVE  Sound(task.evidence)' /\ (Unchanged' => Reads(file, task.evidence)')
<1>1. file' = file
    BY RunAtRest DEF IndInv
<1> QED
    BY <1>1 DEF IndInv, AcceptInv, Sound, SoundRow, Unchanged, Reads, ReadsToTheEnd, Content,
           StatesLines, Boundaries

(* A verification has evidence.                                            *)
LEMMA EvidenceTyped ==
    ASSUME IndInv, task.step \in VerifySteps
    PROVE  DOMAIN task.evidence = {"digest", "meta"} /\ task.evidence # NoRow
<1>1. DOMAIN task.evidence = {"digest", "meta"}
    BY DEF IndInv, AcceptInv
<1>2. DOMAIN NoRow = {}
    BY DEF NoRow
<1> QED
    BY <1>1, <1>2

(* A worker is started.                                                    *)
LEMMA HeldEvolves ==
    ASSUME IndInv, NEW i \in DOMAIN entries, Fresh(entries[i]), entries' = Held(i)
    PROVE  /\ Evolving /\ ~HasOutcome(entries'[i])
           /\ \A j \in DOMAIN entries : j # i => entries'[j] = entries[j]
<1> DEFINE e == entries[i]
           b == [e EXCEPT !.worker = "live", !.session = TRUE]
<1>1. e \in EntryRows /\ Accounted(e) /\ entries \in Seq(EntryRows)
    BY EntryFacts DEF IndInv, TypeOK
<1>2. entries' = [entries EXCEPT ![i] = b]
    BY <1>1 DEF Held
<1>3. /\ b \in EntryRows /\ b.worker = "live" /\ b.session /\ b.scratch = e.scratch
      /\ b.dest = e.dest /\ b.lo = e.lo /\ b.hi = e.hi
    BY <1>1 DEF EntryRows
<1> HIDE DEF b
<1>4. Evolves(e, b) /\ ~HasOutcome(b)
    BY <1>1, <1>3 DEF Evolves, Accounted, Alive, HasOutcome, Fresh
<1> QED
    BY <1>2, <1>4, OneEvolves

(* A failed start leaves the entry, or a worker under a placeholder        *)
(* session.                                                                *)
LEMMA StartFailsEvolves ==
    ASSUME IndInv, NEW i \in DOMAIN entries, Fresh(entries[i]), StartFails(i)
    PROVE  Evolving
BY HeldEvolves, NoneEvolves DEF StartFails

(* The verifiers are started one after another.                            *)
LEMMA StartShardKeeps ==
    ASSUME IndInv, StartShard
    PROVE  IndInv'
<1>1. /\ task.step = "starting" /\ task.at \in DOMAIN entries
      /\ task.at \in Nat \ {0} /\ task.id \in Nat /\ task.from \in Nat \ {0} /\ task.id <= identity
      /\ entries \in Seq(EntryRows)
      /\ UNCHANGED <<inputVars, phase, total, processVars, frames, writer, dir,
                     file, identity, row, tasks, stopping, shut>>
    BY DEF StartShard, IndInv, TypeOK, TaskTypeOK, ArchiveInv
<1>2. Fresh(entries[task.at])
    BY <1>1 DEF IndInv, FreshInv
<1>3. row' # NoRow => SoundRow(row)'
    BY <1>1, RowIsSound
<1>4. DOMAIN task = {"step", "from", "at", "id", "evidence", "seen", "verdict", "error"}
    BY DEF IndInv, TypeOK, TaskTypeOK
<1>5. CASE Starts(task.at) /\ Go([task EXCEPT !.at = @ + 1])
  <2> DEFINE t == [task EXCEPT !.at = @ + 1]
  <2>1. AtRest
    BY <1>1, <1>5, SpendTyped DEF Starts, NoFault, AtRest, IndInv
  <2>2. /\ Evolving /\ ~HasOutcome(entries'[task.at])
        /\ \A j \in DOMAIN entries : j # task.at => entries'[j] = entries[j]
    BY <1>1, <1>2, <1>5, HeldEvolves DEF Starts
  <2>3. /\ DOMAIN t = DOMAIN task /\ t.step = "starting" /\ t.from = task.from
        /\ t.at = task.at + 1 /\ t.id = task.id /\ t.evidence = task.evidence
    BY <1>1, <1>4
  <2> HIDE DEF t
  <2>4. Go(t)
    BY <1>5 DEF t
  <2>5. Ground' /\ task' = t
    BY <1>1, <2>1, <2>2, <2>3, <2>4, GoesOn DEF VerifySteps, ProjectSteps
  <2>6. file' = file /\ Len(entries') = Len(entries) /\ DOMAIN entries' = DOMAIN entries
    BY <1>1, <2>2 DEF Evolving
  <2>7. FreshInv'
    <3> SUFFICES ASSUME NEW j \in DOMAIN entries, j >= task.at + 1
                 PROVE  Fresh(entries'[j])
      BY <2>3, <2>5, <2>6 DEF FreshInv
    <3>1. j # task.at /\ j >= task.at
      BY <1>1, EntryFacts
    <3> QED
      BY <1>1, <2>2, <3>1 DEF IndInv, FreshInv
  <2>8. VerifyInv'
    <3>1. Own' = Own /\ Own \subseteq DOMAIN entries
      BY <1>1, <2>3, <2>5, <2>6 DEF Own
    <3>2. \A i \in DOMAIN entries : entries'[i].lo = entries[i].lo /\ entries'[i].hi = entries[i].hi
      BY <2>2 DEF Evolving, Evolves
    <3>3. Partition'
      BY <1>1, <2>6, <3>1, <3>2 DEF IndInv, VerifyInv, Partition
    <3>4. Unchanged' => \A i \in Own' : HasOutcome(entries'[i]) =>
              entries'[i].outcome = ShardOutcome(file'.lines, entries'[i].lo, entries'[i].hi)
      <4> SUFFICES ASSUME Unchanged, NEW i \in Own, HasOutcome(entries'[i])
                   PROVE  entries'[i].outcome =
                            ShardOutcome(file.lines, entries[i].lo, entries[i].hi)
        BY <1>1, <2>3, <2>5, <3>1, <3>2 DEF Unchanged
      <4>1. entries'[i] = entries[i]
        BY <2>2, <3>1
      <4> QED
        BY <1>1, <4>1 DEF IndInv, VerifyInv
    <3> QED
      BY <2>3, <2>5, <3>3, <3>4 DEF VerifyInv, HasOutcome
  <2>9. AcceptInv'
    BY <1>1, <1>3, <2>3, <2>5, EvidenceTyped DEF AcceptInv, VerifySteps
  <2> QED
    BY <2>5, <2>7, <2>8, <2>9 DEF Ground, IndInv
<1>6. ASSUME StartFails(task.at), NEW v, v # "accepted", Decide(v)
      PROVE  IndInv'
  <2> DEFINE t == [task EXCEPT !.step = "cleanup", !.at = task.from, !.verdict = v, !.seen = <<>>]
  <2>1. AtRest
    BY <1>1, <1>6, SpendTyped DEF StartFails, NoFault, AtRest, IndInv
  <2>2. Evolving
    BY <1>1, <1>2, <1>6, StartFailsEvolves
  <2>3. /\ DOMAIN t = DOMAIN task /\ t.step = "cleanup" /\ t.from = task.from
        /\ t.at = task.from /\ t.id = task.id /\ t.evidence = task.evidence /\ t.verdict = v
    BY <1>1, <1>4
  <2> HIDE DEF t
  <2>4. Go(t)
    BY <1>6 DEF t, Decide
  <2>5. Ground' /\ task' = t
    BY <1>1, <2>1, <2>2, <2>3, <2>4, GoesOn DEF VerifySteps, ProjectSteps
  <2> QED
    BY <1>1, <1>3, <1>6, <2>3, <2>5, EvidenceTyped, DecidedKeeps DEF VerifySteps
<1> QED
  <2>1. (IF stopping THEN "stopped" ELSE "process") # "accepted"
    OBVIOUS
  <2> QED
    BY <1>5, <1>6, <2>1 DEF StartShard

(* hash_result_archive and read_framed_result_metadata.                    *)
LEMMA ParentReadsKeeps ==
    ASSUME IndInv, ParentReads
    PROVE  IndInv'
<1> DEFINE t == [task EXCEPT !.step = "waiting", !.seen = Seen]
<1>1. /\ task.step = "starting" /\ Go(t)
      /\ UNCHANGED <<runVars, identity, row, tasks, entries, stopping, shut>>
    BY DEF ParentReads
<1>2. AtRest /\ Evolving /\ file' = file
    BY <1>1, NoneEvolves, SpendTyped DEF AtRest, runVars, inputVars, processVars, IndInv
<1>3. row' # NoRow => SoundRow(row)'
    BY <1>1, RowIsSound
<1>4. /\ DOMAIN t = DOMAIN task /\ t.step = "waiting" /\ t.from = task.from
      /\ t.at = task.at /\ t.id = task.id /\ t.evidence = task.evidence /\ t.seen = Seen
      /\ task.at \in Nat \ {0} /\ task.id \in Nat /\ task.id <= identity
    BY DEF IndInv, TypeOK, TaskTypeOK, ArchiveInv
<1> HIDE DEF t
<1>5. Ground' /\ task' = t
    BY <1>1, <1>2, <1>4, GoesOn DEF VerifySteps, ProjectSteps
<1>6. FreshInv'
    BY <1>4, <1>5 DEF FreshInv
<1>7. VerifyInv'
  <2>1. UNCHANGED <<entries, file, identity>> /\ Own' = Own /\ Unchanged' = Unchanged
    BY <1>1, <1>2, <1>4, <1>5 DEF Own, Unchanged
  <2>2. Partition'
    BY <1>1, <2>1 DEF IndInv, VerifyInv, Partition
  <2>3. Seen' = Seen
    BY <2>1 DEF Seen, Content
  <2>4. Unchanged' => \A i \in Own' : HasOutcome(entries'[i]) =>
          entries'[i].outcome = ShardOutcome(file'.lines, entries'[i].lo, entries'[i].hi)
    BY <1>1, <2>1 DEF IndInv, VerifyInv
  <2> QED
    BY <1>4, <1>5, <2>2, <2>3, <2>4 DEF VerifyInv, HasOutcome
<1>8. AcceptInv'
    BY <1>1, <1>3, <1>4, <1>5, EvidenceTyped DEF AcceptInv, VerifySteps
<1> QED
    BY <1>5, <1>6, <1>7, <1>8 DEF Ground, IndInv

(* Only an unchanged archive is accepted.                                  *)
LEMMA AcceptedIsUnchanged ==
    ASSUME IndInv, Interpreted = "accepted"
    PROVE  Unchanged
<1> DEFINE bad == {i \in Own : ~HasOutcome(entries[i]) \/ entries[i].outcome.status = "rejected"}
<1>1. Interpreted =
        IF bad = {}
          THEN IF CrossDuplicates(Len(entries)) # {} THEN "duplicate"
               ELSE FileVerdict(IF Own = {} THEN 0 ELSE Last(entries).hi)
          ELSE IF ~HasOutcome(entries[Min(bad)])
                 THEN IF CrossDuplicates(Min(bad) - 1) # {} THEN "duplicate" ELSE "process"
                 ELSE IF DuplicateWins(CrossDuplicates(Min(bad)),
                           entries[Min(bad)].lo + entries[Min(bad)].outcome.at)
                        THEN "duplicate" ELSE entries[Min(bad)].outcome.kind
    BY DEF Interpreted
<1>2. Own \subseteq Nat /\ Own \subseteq DOMAIN entries
    BY DEF Own, IndInv, TypeOK, TaskTypeOK
<1>3. CASE bad = {}
  <2> HIDE DEF bad
  <2> QED
    BY <1>1, <1>3, FileVerdictIs
<1>4. CASE bad # {}
  <2>1. bad \in SUBSET Nat
    BY <1>2
  <2>2. Min(bad) \in bad
    <3> HIDE DEF bad
    <3> QED
      BY <1>4, <2>1, MinIsLeast
  <2>3. PICK b \in DOMAIN entries : b = Min(bad)
    BY <1>2, <2>2
  <2>4. entries[b].outcome.kind # "accepted"
    <3>1. entries[b] \in EntryRows
      BY EntryFacts
    <3>2. entries[b].outcome \in OutcomeRows
      BY <3>1 DEF EntryRows
    <3> QED
      BY <3>2 DEF OutcomeRows
  <2> HIDE DEF bad
  <2> QED
    BY <1>1, <1>4, <2>3, <2>4
<1> QED
    BY <1>3, <1>4

(* A verification that has its verdict.                                    *)
LEMMA DecideKeeps ==
    ASSUME IndInv, task.step = "waiting", NEW v, Decide(v),
           v = "accepted" => Unchanged /\ Reads(file, task.evidence) /\ Sound(task.evidence),
           UNCHANGED <<runVars, identity, row, tasks, entries, stopping, shut>>
    PROVE  IndInv'
<1> DEFINE t == [task EXCEPT !.step = "cleanup", !.at = task.from, !.verdict = v, !.seen = <<>>]
<1>1. AtRest /\ Evolving /\ file' = file
    BY NoneEvolves, SpendTyped DEF AtRest, runVars, inputVars, processVars, IndInv
<1>2. row' # NoRow => SoundRow(row)'
    BY RowIsSound
<1>3. /\ DOMAIN t = DOMAIN task /\ t.step = "cleanup" /\ t.from = task.from
      /\ t.at = task.from /\ t.id = task.id /\ t.evidence = task.evidence /\ t.verdict = v
      /\ task.from \in Nat \ {0} /\ task.id \in Nat /\ task.id <= identity
    BY DEF IndInv, TypeOK, TaskTypeOK, ArchiveInv
<1> HIDE DEF t
<1>4. Go(t)
    BY DEF t, Decide
<1>5. Ground' /\ task' = t
    BY <1>1, <1>3, <1>4, GoesOn DEF VerifySteps, ProjectSteps
<1>6. DOMAIN task.evidence = {"digest", "meta"}
    BY EvidenceTyped DEF VerifySteps
<1>7. task'.verdict = "accepted" =>
        Sound(task.evidence)' /\ (Unchanged' => Reads(file, task.evidence)')
    BY <1>1, <1>3, <1>5 DEF Sound, Reads, ReadsToTheEnd, Content, StatesLines, Boundaries
<1> QED
    BY <1>2, <1>3, <1>5, <1>6, <1>7, DecidedKeeps

(* The verdict of the shards, or of a stop.                                *)
LEMMA InterpretKeeps ==
    ASSUME IndInv, Interpret \/ WaitStopped
    PROVE  IndInv'
<1>1. /\ task.step = "waiting"
      /\ UNCHANGED <<runVars, identity, row, tasks, entries, stopping, shut>>
    BY DEF Interpret, WaitStopped
<1>2. CASE Interpret
  <2>1. Decide(Interpreted)
    BY <1>2 DEF Interpret
  <2>2. Interpreted = "accepted" =>
          Unchanged /\ Reads(file, task.evidence) /\ Sound(task.evidence)
    BY <1>1, AcceptedIsUnchanged, InterpretedIsSequential DEF Waiting, Sequential
  <2> QED
    BY <1>1, <2>1, <2>2, DecideKeeps
<1>3. CASE WaitStopped
  <2>1. Decide("stopped") /\ "stopped" # "accepted"
    BY <1>3 DEF WaitStopped
  <2> QED
    BY <1>1, <2>1, DecideKeeps
<1> QED
    BY <1>2, <1>3

(* The cleanup of one entry.                                               *)
LEMMA CleanupEvolves ==
    ASSUME NEW e \in EntryRows, Accounted(e), NEW f \in Finishes(e),
           NEW r \in (IF Retained(f[1]) THEN {<<f[1], FALSE>>} ELSE Released(Keep(f[1])))
    PROVE  Evolves(e, [r[1] EXCEPT !.outcome = NoOutcome])
<1>1. Evolves(e, f[1]) /\ Inherits(e, f[1])
    BY FinishEvolves
<1>2. f[1] \in EntryRows /\ Accounted(f[1])
    BY <1>1 DEF Evolves
<1>3. Evolves(f[1], r[1]) /\ Inherits(f[1], r[1])
  <2>1. CASE Retained(f[1])
    <3>1. r = <<f[1], FALSE>>
      BY <2>1
    <3>2. r[1] = f[1]
      BY <3>1
    <3> QED
      BY <1>2, <3>2, EvolvesItself
  <2>2. CASE ~Retained(f[1])
    <3>1. /\ Evolves(f[1], Keep(f[1])) /\ Inherits(f[1], Keep(f[1]))
          /\ Keep(f[1]).scratch # "own"
      BY <1>2, <2>2, KeepEvolves DEF Retained
    <3>2. Keep(f[1]) \in EntryRows /\ Accounted(Keep(f[1]))
      BY <3>1 DEF Evolves
    <3>3. Evolves(Keep(f[1]), r[1]) /\ Inherits(Keep(f[1]), r[1])
      BY <2>2, <3>1, <3>2, ReleasedEvolves
    <3> QED
      BY <3>1, <3>3, EvolvesAgain
  <2> QED
    BY <2>1, <2>2
<1>4. Evolves(e, r[1])
    BY <1>1, <1>3, EvolvesAgain
<1>5. NoOutcome \in OutcomeRows
    BY DEF NoOutcome, OutcomeRows
<1> DEFINE b == [r[1] EXCEPT !.outcome = NoOutcome]
<1>6. r[1] \in EntryRows
    BY <1>4 DEF Evolves
<1>7. /\ b \in EntryRows /\ b.lo = r[1].lo /\ b.hi = r[1].hi /\ b.worker = r[1].worker
      /\ b.session = r[1].session /\ b.scratch = r[1].scratch /\ b.dest = r[1].dest
    BY <1>5, <1>6 DEF EntryRows
<1> HIDE DEF b
<1>8. Evolves(e, b)
    BY <1>4, <1>7 DEF Evolves, Accounted, Alive
<1> QED
    BY <1>8 DEF b

(* _cleanup_verifier_entries.                                              *)
LEMMA CleanupShardKeeps ==
    ASSUME IndInv, CleanupShard
    PROVE  IndInv'
<1>1. /\ task.step = "cleanup" /\ task.at \in DOMAIN entries
      /\ task.at \in Nat \ {0} /\ task.id \in Nat /\ task.from \in Nat \ {0} /\ task.id <= identity
      /\ UNCHANGED <<inputVars, phase, total, processVars, frames, writer, dir,
                     file, identity, row, tasks, stopping, shut>>
    BY DEF CleanupShard, IndInv, TypeOK, TaskTypeOK, ArchiveInv
<1>2. PICK f \in Finishes(Current) :
        \E r \in (IF Retained(f[1]) THEN {<<f[1], FALSE>>} ELSE Released(Keep(f[1]))) :
          /\ Spend(f[2] \/ r[2])
          /\ entries' = [entries EXCEPT ![task.at] = [r[1] EXCEPT !.outcome = NoOutcome]]
          /\ Go([task EXCEPT !.at = @ + 1, !.error = @ \/ f[2] \/ r[2]])
    BY DEF CleanupShard
<1>3. PICK r \in (IF Retained(f[1]) THEN {<<f[1], FALSE>>} ELSE Released(Keep(f[1]))) :
        /\ Spend(f[2] \/ r[2])
        /\ entries' = [entries EXCEPT ![task.at] = [r[1] EXCEPT !.outcome = NoOutcome]]
        /\ Go([task EXCEPT !.at = @ + 1, !.error = @ \/ f[2] \/ r[2]])
    BY <1>2
<1> DEFINE x == task.error \/ f[2] \/ r[2]
           t == [task EXCEPT !.at = @ + 1, !.error = x]
           b == [r[1] EXCEPT !.outcome = NoOutcome]
<1>4. AtRest
    BY <1>1, <1>3, SpendTyped DEF AtRest, Spend, IndInv
<1>5. Evolves(entries[task.at], b)
    BY <1>1, EntryFacts, CleanupEvolves DEF Current
<1> HIDE DEF b
<1>6. Evolving
    BY <1>1, <1>3, <1>5, OneEvolves DEF b
<1> HIDE DEF x
<1>7. /\ DOMAIN t = DOMAIN task /\ t.step = "cleanup" /\ t.from = task.from
      /\ t.at = task.at + 1 /\ t.id = task.id /\ t.evidence = task.evidence
      /\ t.verdict = task.verdict
    BY <1>1 DEF IndInv, TypeOK, TaskTypeOK
<1> HIDE DEF t
<1>8. Go(t)
    BY <1>3 DEF t, x
<1>9. Ground' /\ task' = t
    BY <1>1, <1>4, <1>6, <1>7, <1>8, GoesOn DEF VerifySteps, ProjectSteps
<1>10. DOMAIN task.evidence = {"digest", "meta"}
    BY <1>1, EvidenceTyped DEF VerifySteps
<1>11. task'.verdict = "accepted" =>
         Sound(task.evidence)' /\ (Unchanged' => Reads(file, task.evidence)')
    BY <1>1, <1>4, <1>7, <1>9, EvidenceStays
<1>12. row' # NoRow => SoundRow(row)'
    BY <1>1, RowIsSound
<1> QED
    BY <1>7, <1>9, <1>10, <1>11, <1>12, DecidedKeeps

(* The end of a verification, the rows and the receipt.                    *)
LEMMA EndVerifyKeeps ==
    ASSUME IndInv, EndVerify
    PROVE  IndInv'
<1>1. /\ task.step = "cleanup"
      /\ UNCHANGED <<runVars, identity, row, tasks, entries, stopping, shut>>
    BY DEF EndVerify
<1>2. AtRest /\ Evolving
    BY <1>1, NoneEvolves, SpendTyped DEF AtRest, runVars, inputVars, processVars, IndInv
<1>3. row' # NoRow => SoundRow(row)'
    BY <1>1, RowIsSound
<1>4. CASE task.verdict = "accepted" /\ ~task.error
  <2> DEFINE t == [task EXCEPT !.step = "commit"]
  <2>1. /\ DOMAIN t = DOMAIN task /\ t.step = "commit" /\ t.from = task.from /\ t.at = task.at
        /\ t.id = task.id /\ t.evidence = task.evidence /\ t.verdict = "accepted"
        /\ task.at \in Nat \ {0} /\ task.id \in Nat /\ task.id <= identity
    BY <1>4 DEF IndInv, TypeOK, TaskTypeOK, ArchiveInv
  <2> HIDE DEF t
  <2>2. Go(t)
    BY <1>4 DEF EndVerify, t
  <2>3. Ground' /\ task' = t
    BY <1>1, <1>2, <2>1, <2>2, GoesOn DEF VerifySteps, ProjectSteps
  <2>4. DOMAIN task.evidence = {"digest", "meta"}
    BY <1>1, EvidenceTyped DEF VerifySteps
  <2>5. Sound(task.evidence)' /\ (Unchanged' => Reads(file, task.evidence)')
    BY <1>1, <1>2, <1>4, <2>1, <2>3, EvidenceStays
  <2> QED
    BY <1>3, <2>1, <2>3, <2>4, <2>5, DecidedKeeps
<1>5. CASE ~(task.verdict = "accepted" /\ ~task.error)
  <2> DEFINE r == IF task.verdict = "accepted" THEN "process" ELSE "rejected"
  <2>1. Say(r) /\ r \in Replies
    BY <1>5 DEF EndVerify, Replies
  <2> HIDE DEF r
  <2>2. tasks' \in Nat
    BY <1>1 DEF IndInv, TypeOK
  <2> QED
    BY <1>1, <1>2, <1>3, <2>1, <2>2, SaysKeeps
<1> QED
    BY <1>4, <1>5

(* commit_recovered_result_catalog.                                        *)
LEMMA CommitKeeps ==
    ASSUME IndInv, Commit
    PROVE  IndInv'
<1>1. /\ task.step = "commit"
      /\ UNCHANGED <<inputVars, phase, total, processVars, frames, writer, dir,
                     file, identity, tasks, entries, stopping, shut>>
    BY DEF Commit
<1>2. AtRest /\ Evolving /\ tasks' \in Nat
    BY <1>1, NoneEvolves, SpendTyped DEF AtRest, Commit, NoFault, IndInv, TypeOK
<1>3. task.verdict = "accepted" /\ Sound(task.evidence)
    BY <1>1 DEF IndInv, AcceptInv
<1>4. task.evidence # NoRow /\ DOMAIN task.evidence = {"digest", "meta"}
    BY <1>1, EvidenceTyped DEF VerifySteps
<1>5. Inserted # NoRow /\ SoundRow(Inserted)
  <2>1. /\ Catalogued(task.evidence).digest = task.evidence.digest
        /\ Catalogued(task.evidence).count = task.evidence.meta.count
        /\ Catalogued(task.evidence) # NoRow
    BY DEF Catalogued, NoRow
  <2>2. SoundRow(Catalogued(task.evidence))
    BY <1>3, <2>1 DEF Sound, SoundRow
  <2> QED
    BY <2>1, <2>2 DEF Inserted, IndInv, AcceptInv
<1>6. row' \in {row, Inserted}
    BY DEF Commit
<1>7. row' # NoRow => SoundRow(row)'
    BY <1>5, <1>6 DEF SoundRow, IndInv, AcceptInv
<1>8. CASE row' = Inserted /\ Go([task EXCEPT !.step = "receipt"])
  <2> DEFINE t == [task EXCEPT !.step = "receipt"]
  <2>1. /\ DOMAIN t = DOMAIN task /\ t.step = "receipt" /\ t.from = task.from /\ t.at = task.at
        /\ t.id = task.id /\ t.evidence = task.evidence /\ t.verdict = "accepted"
        /\ task.at \in Nat \ {0} /\ task.id \in Nat /\ task.id <= identity
    BY <1>3 DEF IndInv, TypeOK, TaskTypeOK, ArchiveInv
  <2> HIDE DEF t
  <2>2. Go(t)
    BY <1>8 DEF t
  <2>3. Ground' /\ task' = t
    BY <1>1, <1>2, <2>1, <2>2, GoesOn DEF VerifySteps, ProjectSteps
  <2>4. Sound(task.evidence)' /\ (Unchanged' => Reads(file, task.evidence)')
    BY <1>1, <1>2, <1>3, <2>1, <2>3, EvidenceStays
  <2> QED
    BY <1>4, <1>5, <1>7, <1>8, <2>1, <2>3, <2>4, DecidedKeeps
<1>9. CASE Say("process")
  <2>1. "process" \in Replies
    BY DEF Replies
  <2> QED
    BY <1>1, <1>2, <1>7, <1>9, <2>1, SaysKeeps
<1> QED
    BY <1>8, <1>9 DEF Commit

(* require_recovered_result_commit, and a recovery that finds its rows.    *)
LEMMA AnswerKeeps ==
    ASSUME IndInv, Receipt \/ RecoverIndexed
    PROVE  IndInv'
<1>1. UNCHANGED <<runVars, identity, row, entries, stopping, shut>> /\ tasks' \in {tasks, tasks + 1}
    BY DEF Receipt, RecoverIndexed
<1>2. AtRest /\ Evolving /\ tasks' \in Nat
    BY <1>1, NoneEvolves, SpendTyped DEF AtRest, runVars, inputVars, processVars, IndInv, TypeOK
<1>3. PICK r \in {"recovered", "rejected"} : Say(r)
    BY DEF Receipt, RecoverIndexed
<1>4. r \in Replies
    BY DEF Replies
<1> QED
    BY <1>1, <1>2, <1>3, <1>4, RowIsSound, SaysKeeps

(* A new entry is typed and fresh.                                         *)
LEMMA EntryTyped ==
    ASSUME NEW lo \in Nat, NEW hi \in Nat, NEW remove \in BOOLEAN, NEW e,
           e = Entry(lo, hi, remove)
    PROVE  /\ e \in EntryRows /\ e.lo = lo /\ e.hi = hi /\ Fresh(e) /\ Accounted(e)
<1>1. NoOutcome \in OutcomeRows
    BY DEF NoOutcome, OutcomeRows
<1>2. /\ e \in EntryRows /\ e.lo = lo /\ e.hi = hi /\ e.worker = "unstarted"
      /\ e.session = FALSE /\ e.scratch = "own" /\ e.dest = "none"
    BY <1>1 DEF Entry, EntryRows
<1> QED
    BY <1>2 DEF Fresh, Accounted, Alive

(* Entries for ranges that follow one another and cover n lines.           *)
Covers(q, n) ==
    /\ \A i \in 1..Len(q) :
         /\ Fresh(q[i]) /\ Accounted(q[i])
         /\ q[i].lo > 0 /\ q[i].lo <= q[i].hi /\ q[i].hi <= n
    /\ \A i, j \in 1..Len(q) : i < j => q[i].hi < q[j].lo
    /\ \A k \in 1..n : \E i \in 1..Len(q) : q[i].lo <= k /\ k <= q[i].hi

(* plan_framed_cycle_ranges plans such ranges.                             *)
LEMMA PlanCovers ==
    ASSUME NEW n \in Nat \ {0}, NEW ends \in Plans(n)
    PROVE  Ranges(ends) \in Seq(EntryRows) /\ Covers(Ranges(ends), n)
<1> DEFINE q == Ranges(ends)
           lo(i) == IF i = 1 THEN 1 ELSE ends[i - 1] + 1
<1>1. PICK m \in 1..MaxShards : ends \in [1..m -> 1..n]
    BY DEF Plans
<1>2. m \in Nat \ {0}
    BY RecoveryAssumption
<1>3. ends \in Seq(1..n) /\ Len(ends) = m
    BY <1>1, <1>2, FunctionsAreSequences
<1>4. /\ \A i, j \in 1..m : i < j => ends[i] < ends[j]
      /\ ends[m] = n
      /\ \A i \in 1..m : ends[i] \in 1..n
    BY <1>1, <1>3 DEF Plans
<1>5. \A i \in 1..m : lo(i) \in Nat \ {0} /\ lo(i) <= ends[i] /\ ends[i] <= n
  <2> TAKE i \in 1..m
  <2>1. CASE i = 1
    BY <1>4, <2>1
  <2>2. CASE i # 1
    <3>1. i - 1 \in 1..m /\ i - 1 < i
      BY <1>2, <2>2
    <3>2. ends[i - 1] < ends[i] /\ ends[i - 1] \in 1..n /\ ends[i] \in 1..n
      BY <1>4, <3>1
    <3> QED
      BY <2>2, <3>2
  <2> QED
    BY <2>1, <2>2
<1>6. q = [i \in 1..m |-> Entry(lo(i), ends[i], FALSE)]
    BY <1>1 DEF Ranges
<1>7. \A i \in 1..m : /\ q[i] = Entry(lo(i), ends[i], FALSE)
                      /\ lo(i) \in Nat /\ ends[i] \in Nat
    BY <1>4, <1>5, <1>6
<1> HIDE DEF q, lo
<1>8. ASSUME NEW i \in 1..m
      PROVE  /\ q[i] \in EntryRows /\ q[i].lo = lo(i) /\ q[i].hi = ends[i]
             /\ Fresh(q[i]) /\ Accounted(q[i])
  <2>1. lo(i) \in Nat /\ ends[i] \in Nat /\ q[i] = Entry(lo(i), ends[i], FALSE)
    BY <1>7
  <2> QED
    <3>1. PICK x \in Nat, y \in Nat, z \in BOOLEAN :
            x = lo(i) /\ y = ends[i] /\ q[i] = Entry(x, y, z)
      BY <2>1
    <3>2. /\ q[i] \in EntryRows /\ q[i].lo = x /\ q[i].hi = y
          /\ Fresh(q[i]) /\ Accounted(q[i])
      BY <3>1, EntryTyped
    <3> QED
      BY <3>1, <3>2
<1>9. q \in [1..m -> EntryRows]
    BY <1>6, <1>7, <1>8
<1>10. q \in Seq(EntryRows) /\ Len(q) = m
    BY <1>2, <1>9, FunctionsAreSequences
<1>11. \A i, j \in 1..m : i < j => q[i].hi < q[j].lo
  <2> SUFFICES ASSUME NEW i \in 1..m, NEW j \in 1..m, i < j
               PROVE  ends[i] < lo(j)
    BY <1>8
  <2>1. j - 1 \in 1..m /\ i <= j - 1 /\ lo(j) = ends[j - 1] + 1
    BY <1>2 DEF lo
  <2>2. ends[i] <= ends[j - 1] /\ ends[i] \in 1..n /\ ends[j - 1] \in 1..n
    BY <1>4, <2>1
  <2> QED
    BY <2>1, <2>2
<1>12. \A k \in 1..n : \E i \in 1..m : q[i].lo <= k /\ k <= q[i].hi
  <2> TAKE k \in 1..n
  <2> DEFINE S == {i \in 1..m : k <= ends[i]}
  <2>1. m \in S /\ S \in SUBSET Nat /\ S # {}
    BY <1>2, <1>4
  <2>2. Min(S) \in S /\ \A i \in S : Min(S) <= i
    <3> HIDE DEF S
    <3> QED
      BY <2>1, MinIsLeast
  <2>3. PICK i \in 1..m : i = Min(S) /\ k <= ends[i]
    BY <2>2
  <2>4. lo(i) <= k
    <3>1. CASE i = 1
      BY <3>1 DEF lo
    <3>2. CASE i # 1
      <4>1. i - 1 \in 1..m /\ ~(i <= i - 1)
        BY <1>2, <3>2
      <4>2. i - 1 \notin S
        BY <2>2, <2>3, <4>1
      <4>3. ~(k <= ends[i - 1]) /\ ends[i - 1] \in 1..n
        BY <1>4, <4>1, <4>2
      <4> QED
        BY <3>2, <4>3 DEF lo
    <3> QED
      BY <3>1, <3>2
  <2> QED
    BY <1>8, <2>3, <2>4
<1>13. \A i \in 1..m : q[i].lo > 0 /\ q[i].lo <= q[i].hi /\ q[i].hi <= n
    BY <1>5, <1>8
<1> QED
    BY <1>8, <1>10, <1>11, <1>12, <1>13 DEF q, Covers

(* Entries of a new request follow the ones there are.                     *)
LEMMA Appended ==
    ASSUME IndInv, NEW q \in Seq(EntryRows), entries' = entries \o q
    PROVE  /\ entries' \in Seq(EntryRows) /\ Len(entries') = Len(entries) + Len(q)
           /\ \A i \in 1..Len(entries) : entries'[i] = entries[i]
           /\ \A i \in (Len(entries) + 1)..Len(entries') :
                i - Len(entries) \in 1..Len(q) /\ entries'[i] = q[i - Len(entries)]
<1>1. entries \in Seq(EntryRows) /\ Len(entries) \in Nat /\ Len(q) \in Nat
    BY DEF IndInv, TypeOK
<1>2. entries' \in Seq(EntryRows) /\ Len(entries') = Len(entries) + Len(q)
    BY <1>1
<1>3. \A i \in 1..Len(entries) : entries'[i] = entries[i]
    BY <1>1
<1>4. \A i \in (Len(entries) + 1)..Len(entries') :
        i - Len(entries) \in 1..Len(q) /\ entries'[i] = q[i - Len(entries)]
    BY <1>1, <1>2
<1> QED
    BY <1>2, <1>3, <1>4

(* New entries keep that part of the invariant.                            *)
LEMMA AppendedGround ==
    ASSUME IndInv, AtRest, NEW q \in Seq(EntryRows), entries' = entries \o q,
           \A i \in 1..Len(q) : /\ Accounted(q[i])
                                /\ q[i].lo > 0 => q[i].lo <= q[i].hi /\ q[i].hi <= Len(file.lines),
           identity' = identity, tasks' \in Nat, UNCHANGED <<stopping, shut>>, reply' \in Replies,
           TaskTypeOK', task'.id <= identity, phase = "over",
           task'.step \in ProjectSteps => task'.at \in DOMAIN entries'
    PROVE  Ground'
<1>1. RunInv' /\ file' = file /\ phase' = phase
    BY RunAtRest DEF IndInv
<1>2. /\ entries \in Seq(EntryRows) /\ Len(entries) \in Nat
      /\ entries' \in Seq(EntryRows) /\ Len(entries') = Len(entries) + Len(q) /\ Len(q) \in Nat
      /\ \A i \in 1..Len(entries) : entries'[i] = entries[i]
      /\ \A i \in (Len(entries) + 1)..Len(entries') :
           i - Len(entries) \in 1..Len(q) /\ entries'[i] = q[i - Len(entries)]
    BY Appended DEF IndInv, TypeOK
<1>3. \A i \in DOMAIN entries' :
        \/ i \in DOMAIN entries /\ entries'[i] = entries[i]
        \/ \E j \in 1..Len(q) : entries'[i] = q[j]
  <2> TAKE i \in DOMAIN entries'
  <2>1. i \in 1..Len(entries) \/ i \in (Len(entries) + 1)..Len(entries')
    BY <1>2
  <2> QED
    BY <1>2, <2>1
<1>4. TypeOK'
    BY <1>1, <1>2 DEF IndInv, TypeOK, RunInv
<1>5. ArchiveInv'
    BY <1>1, <1>3 DEF IndInv, ArchiveInv
<1>6. SessionInv'
    BY <1>3 DEF IndInv, SessionInv
<1>7. SnapInv'
  <2>1. \A i \in DOMAIN entries : i \in DOMAIN entries' /\ entries'[i] = entries[i]
    BY <1>2
  <2> QED
    BY <2>1 DEF IndInv, SnapInv
<1> QED
    BY <1>1, <1>4, <1>5, <1>6, <1>7 DEF Ground

(* A verification plans its shards.                                        *)
LEMMA StartVerifyKeeps ==
    ASSUME IndInv, StartVerify
    PROVE  IndInv'
<1> DEFINE n == Len(file.lines)
           t == [task EXCEPT !.step = "starting", !.at = task.from, !.id = identity]
<1>1. /\ task.step = "loaded"
      /\ UNCHANGED <<runVars, identity, row, tasks, stopping, shut>>
    BY DEF StartVerify
<1>2. AtRest /\ file' = file /\ tasks' \in Nat
    BY <1>1, SpendTyped DEF AtRest, runVars, inputVars, processVars, IndInv, TypeOK
<1>3. row' # NoRow => SoundRow(row)'
    BY <1>1, RowIsSound
<1>4. phase = "over" /\ task.from = Len(entries) + 1 /\ n \in Nat /\ Len(entries) \in Nat
    BY <1>1 DEF IndInv, ArchiveInv, FreshInv, RunInv, RunTypeOK, TypeOK
<1>5. CASE stopping \/ ~file.whole \/ file.meta # task.evidence.meta
  <2> DEFINE r == IF stopping THEN "stopped" ELSE "rejected"
  <2>1. Say(r) /\ entries' = entries /\ r \in Replies
    BY <1>5 DEF StartVerify, Replies
  <2> HIDE DEF r
  <2> QED
    BY <1>1, <1>2, <1>3, <2>1, NoneEvolves, SaysKeeps
<1>6. CASE ~(stopping \/ ~file.whole \/ file.meta # task.evidence.meta)
  <2>1. /\ Go(t)
        /\ \/ n = 0 /\ entries' = entries
           \/ n # 0 /\ \E ends \in Plans(n) : entries' = entries \o Ranges(ends)
    BY <1>6 DEF StartVerify
  <2>2. PICK q \in Seq(EntryRows) : entries' = entries \o q /\ Covers(q, n)
    <3>1. CASE n = 0 /\ entries' = entries
      <4>1. <<>> \in Seq(EntryRows) /\ Len(<<>>) = 0 /\ entries' = entries \o <<>>
        BY <3>1 DEF IndInv, TypeOK
      <4>2. Covers(<<>>, n)
        BY <3>1, <4>1 DEF Covers
      <4> QED
        BY <4>1, <4>2
    <3>2. CASE n # 0 /\ \E ends \in Plans(n) : entries' = entries \o Ranges(ends)
      <4>1. n \in Nat \ {0}
        BY <1>4, <3>2
      <4> HIDE DEF n
      <4>2. PICK ends \in Plans(n) : entries' = entries \o Ranges(ends)
        BY <3>2
      <4>3. Ranges(ends) \in Seq(EntryRows) /\ Covers(Ranges(ends), n)
        BY <4>1, PlanCovers
      <4> QED
        BY <4>2, <4>3
    <3> QED
      BY <2>1, <3>1, <3>2
  <2>3. /\ \A i \in 1..Len(q) :
             /\ Fresh(q[i]) /\ Accounted(q[i])
             /\ q[i].lo > 0 /\ q[i].lo <= q[i].hi /\ q[i].hi <= n
        /\ \A i, j \in 1..Len(q) : i < j => q[i].hi < q[j].lo
        /\ \A k \in 1..n : \E i \in 1..Len(q) : q[i].lo <= k /\ k <= q[i].hi
    BY <2>2 DEF Covers
  <2>4. /\ DOMAIN t = DOMAIN task /\ t.step = "starting" /\ t.from = task.from
        /\ t.at = task.from /\ t.id = identity /\ t.evidence = task.evidence
        /\ task.from \in Nat \ {0} /\ identity \in Nat
    BY DEF IndInv, TypeOK, TaskTypeOK
  <2> HIDE DEF t
  <2>5. task' = t /\ reply' = reply /\ TaskTypeOK'
    BY <2>1, <2>4, StepsTyped DEF Go, VerifySteps
  <2>6. Ground'
    <3>1. reply' \in Replies /\ task'.id <= identity /\ task'.step \notin ProjectSteps
      BY <2>4, <2>5 DEF IndInv, TypeOK, ProjectSteps
    <3>2. \A i \in 1..Len(q) : /\ Accounted(q[i])
                               /\ q[i].lo > 0 => q[i].lo <= q[i].hi /\ q[i].hi <= Len(file.lines)
      BY <2>3
    <3> QED
      BY <1>1, <1>2, <1>4, <2>2, <2>5, <3>1, <3>2, AppendedGround
  <2>7. /\ entries' \in Seq(EntryRows) /\ Len(entries') = Len(entries) + Len(q) /\ Len(q) \in Nat
        /\ \A i \in (Len(entries) + 1)..Len(entries') :
             i - Len(entries) \in 1..Len(q) /\ entries'[i] = q[i - Len(entries)]
    BY <2>2, Appended
  <2>8. /\ Own' = (Len(entries) + 1)..Len(entries')
        /\ \A i \in Own' : i - Len(entries) \in 1..Len(q) /\ entries'[i] = q[i - Len(entries)]
    BY <1>4, <2>4, <2>5, <2>7 DEF Own
  <2>9. FreshInv'
    <3> SUFFICES ASSUME NEW i \in DOMAIN entries', i >= task'.at
                 PROVE  Fresh(entries'[i])
      BY <2>4, <2>5 DEF FreshInv
    <3>1. i \in Own'
      BY <1>4, <2>4, <2>5, <2>7, <2>8
    <3> QED
      BY <2>3, <2>8, <3>1
  <2>10. VerifyInv'
    <3>1. \A i \in Own' : entries'[i].lo > 0 /\ ~HasOutcome(entries'[i])
      BY <2>3, <2>8 DEF Fresh, HasOutcome
    <3>2. \A i, j \in Own' : i < j => entries'[i].hi < entries'[j].lo
      <4> SUFFICES ASSUME NEW i \in Own', NEW j \in Own', i < j
                   PROVE  entries'[i].hi < entries'[j].lo
        OBVIOUS
      <4>1. i - Len(entries) < j - Len(entries)
        BY <1>4, <2>7, <2>8
      <4> QED
        BY <2>3, <2>8, <4>1
    <3>3. \A k \in 1..n : \E i \in Own' : entries'[i].lo <= k /\ k <= entries'[i].hi
      <4> TAKE k \in 1..n
      <4>1. PICK j \in 1..Len(q) : q[j].lo <= k /\ k <= q[j].hi
        BY <2>3
      <4>2. PICK i \in Own' : i - Len(entries) = j
        <5>1. Len(entries) + j \in Own' /\ (Len(entries) + j) - Len(entries) = j
          BY <1>4, <2>7, <2>8
        <5> QED
          BY <5>1
      <4> QED
        BY <2>8, <4>1, <4>2
    <3>4. Partition'
      BY <1>2, <3>1, <3>2, <3>3 DEF Partition
    <3> QED
      BY <2>4, <2>5, <3>1, <3>4 DEF VerifyInv, HasOutcome
  <2>11. AcceptInv'
    BY <1>1, <1>3, <2>4, <2>5, EvidenceTyped DEF AcceptInv, VerifySteps
  <2> QED
    BY <2>6, <2>9, <2>10, <2>11 DEF Ground, IndInv
<1> QED
    BY <1>5, <1>6

-----------------------------------------------------------------------------
(* Projections.                                                            *)

(* write_result_projection_in_runtime begins.                              *)
LEMMA StartProjectionKeeps ==
    ASSUME IndInv, StartProjection
    PROVE  IndInv'
<1>1. /\ phase = "over" /\ tasks' = tasks + 1
      /\ UNCHANGED <<runVars, identity, row, stopping, shut>>
    BY DEF StartProjection
<1>2. AtRest /\ tasks' \in Nat
    BY <1>1, SpendTyped DEF AtRest, runVars, inputVars, processVars, IndInv, TypeOK
<1>3. row' # NoRow => SoundRow(row)'
    BY <1>1, RowIsSound
<1>4. CASE stopping \/ ~Indexed
  <2> DEFINE r == IF stopping THEN "stopped" ELSE "rejected"
  <2>1. Say(r) /\ entries' = entries /\ r \in Replies
    BY <1>4 DEF StartProjection, Replies
  <2> HIDE DEF r
  <2> QED
    BY <1>1, <1>2, <1>3, <2>1, NoneEvolves, SaysKeeps
<1>5. CASE ~(stopping \/ ~Indexed)
  <2> DEFINE n == Len(entries) + 1
  <2>1. PICK e : e = Entry(0, 0, TRUE)
    OBVIOUS
  <2>2. e \in EntryRows /\ e.lo = 0 /\ Fresh(e) /\ Accounted(e)
    <3>1. PICK x \in Nat, z \in BOOLEAN : x = 0 /\ e = Entry(x, x, z)
      BY <2>1
    <3>2. e \in EntryRows /\ e.lo = x /\ Fresh(e) /\ Accounted(e)
      BY <3>1, EntryTyped
    <3> QED
      BY <3>1, <3>2
  <2>3. /\ entries' = Append(entries, e) /\ reply' = "none"
        /\ task' = [step |-> "launch", from |-> n, at |-> n, id |-> 0, evidence |-> ManifestEvidence,
                    seen |-> <<>>, verdict |-> "none", error |-> FALSE]
    BY <1>5, <2>1 DEF StartProjection, Begin
  <2>4. /\ entries \in Seq(EntryRows) /\ Len(entries) \in Nat /\ n \in Nat \ {0}
    BY DEF IndInv, TypeOK
  <2>5. /\ <<e>> \in Seq(EntryRows) /\ Len(<<e>>) = 1 /\ <<e>>[1] = e
        /\ entries' = entries \o <<e>>
    BY <2>2, <2>3, <2>4
  <2>6. /\ Len(entries') = n /\ entries'[n] = e /\ entries' \in Seq(EntryRows)
    BY <2>2, <2>3, <2>4
  <2> HIDE DEF n
  <2>7. /\ task'.step = "launch" /\ task'.at = n /\ task'.id = 0 /\ TaskTypeOK'
    BY <2>3, <2>4 DEF TaskTypeOK, ProjectSteps
  <2>8. Ground'
    <3>1. \A i \in 1..Len(<<e>>) :
            /\ Accounted(<<e>>[i])
            /\ <<e>>[i].lo > 0 => <<e>>[i].lo <= <<e>>[i].hi /\ <<e>>[i].hi <= Len(file.lines)
      BY <2>2, <2>5
    <3>2. reply' \in Replies /\ task'.id <= identity /\ identity' = identity
      BY <1>1, <2>3, <2>7 DEF IndInv, TypeOK, Replies
    <3>3. task'.at \in DOMAIN entries'
      BY <2>4, <2>6, <2>7
    <3>4. PICK q \in Seq(EntryRows) : q = <<e>>
      BY <2>5
    <3> QED
      BY <1>1, <1>2, <2>5, <2>7, <3>1, <3>2, <3>3, <3>4, AppendedGround
  <2>9. FreshInv'
    <3>1. \A i \in DOMAIN entries' : i >= n => i = n
      BY <2>4, <2>6
    <3> QED
      BY <2>2, <2>6, <2>7, <3>1 DEF FreshInv
  <2>10. VerifyInv' /\ AcceptInv'
    BY <1>3, <2>7 DEF VerifyInv, AcceptInv, VerifySteps
  <2> QED
    BY <2>8, <2>9, <2>10 DEF Ground, IndInv
<1> QED
    BY <1>4, <1>5

(* A projection on its way to its answer.                                  *)
LEMMA ProjectionGoesOn ==
    ASSUME IndInv, AtRest, Evolving, NEW t, Go(t), DOMAIN t = DOMAIN task,
           task.step \in ProjectSteps, t.step \in {"watch", "finish", "check", "release"},
           t.from = task.from, t.at = task.at, t.id = task.id,
           UNCHANGED <<identity, row, tasks, stopping, shut>>
    PROVE  IndInv'
<1>1. /\ task.at \in Nat \ {0} /\ task.id \in Nat /\ task.id <= identity
      /\ task.at \in DOMAIN entries /\ task.step # "idle"
    BY DEF IndInv, TypeOK, TaskTypeOK, ArchiveInv, ProjectSteps
<1>2. t.step \in VerifySteps \cup ProjectSteps
    BY DEF ProjectSteps
<1>3. Ground' /\ task' = t
    BY <1>1, <1>2, GoesOn
<1> QED
    BY <1>3, RowIsSound, ProjectKeeps

(* The projection worker is started.                                       *)
LEMMA LaunchKeeps ==
    ASSUME IndInv, Launch
    PROVE  IndInv'
<1>1. /\ task.step = "launch" /\ task.step \in ProjectSteps
      /\ UNCHANGED <<inputVars, phase, total, processVars, frames, writer, dir,
                     file, identity, row, tasks, stopping, shut>>
    BY DEF Launch, ProjectSteps
<1>2. task.at \in DOMAIN entries
    BY <1>1 DEF IndInv, ArchiveInv
<1>3. Fresh(entries[task.at])
    BY <1>1, <1>2 DEF IndInv, FreshInv, TypeOK, TaskTypeOK
<1>4. DOMAIN task = {"step", "from", "at", "id", "evidence", "seen", "verdict", "error"}
    BY DEF IndInv, TypeOK, TaskTypeOK
<1>5. CASE Starts(task.at) /\ Go([task EXCEPT !.step = "watch"])
  <2> DEFINE t == [task EXCEPT !.step = "watch"]
  <2>1. AtRest /\ Evolving
    BY <1>1, <1>2, <1>3, <1>5, SpendTyped, HeldEvolves DEF Starts, NoFault, AtRest, IndInv
  <2>2. /\ DOMAIN t = DOMAIN task /\ t.step = "watch" /\ t.from = task.from
        /\ t.at = task.at /\ t.id = task.id
    BY <1>4
  <2> HIDE DEF t
  <2>3. Go(t)
    BY <1>5 DEF t
  <2> QED
    BY <1>1, <2>1, <2>2, <2>3, ProjectionGoesOn
<1>6. CASE StartFails(task.at) /\ Go([task EXCEPT !.step = "finish", !.verdict = "process"])
  <2> DEFINE t == [task EXCEPT !.step = "finish", !.verdict = "process"]
  <2>1. AtRest /\ Evolving
    BY <1>1, <1>2, <1>3, <1>6, SpendTyped, StartFailsEvolves DEF StartFails, NoFault, AtRest, IndInv
  <2>2. /\ DOMAIN t = DOMAIN task /\ t.step = "finish" /\ t.from = task.from
        /\ t.at = task.at /\ t.id = task.id
    BY <1>4
  <2> HIDE DEF t
  <2>3. Go(t)
    BY <1>6 DEF t
  <2> QED
    BY <1>1, <2>1, <2>2, <2>3, ProjectionGoesOn
<1> QED
    BY <1>5, <1>6 DEF Launch

(* The wait loop of a projection ends.                                     *)
LEMMA WatchKeeps ==
    ASSUME IndInv, Watch
    PROVE  IndInv'
<1> DEFINE v == IF stopping THEN "stopped"
                ELSE IF Current.worker = "done" THEN "accepted" ELSE "process"
           t == [task EXCEPT !.step = "finish", !.verdict = v]
<1>1. /\ task.step \in ProjectSteps /\ Go(t)
      /\ UNCHANGED <<runVars, identity, row, tasks, entries, stopping, shut>>
    BY DEF Watch, ProjectSteps
<1>2. AtRest /\ Evolving
    BY <1>1, NoneEvolves, SpendTyped DEF AtRest, runVars, inputVars, processVars, IndInv
<1> HIDE DEF v
<1>3. /\ DOMAIN t = DOMAIN task /\ t.step = "finish" /\ t.from = task.from
      /\ t.at = task.at /\ t.id = task.id
    BY DEF IndInv, TypeOK, TaskTypeOK
<1> HIDE DEF t
<1> QED
    BY <1>1, <1>2, <1>3, ProjectionGoesOn

(* registry.finish of a projection.                                        *)
LEMMA FinishProjectionKeeps ==
    ASSUME IndInv, FinishProjection
    PROVE  IndInv'
<1>1. /\ task.step \in ProjectSteps
      /\ UNCHANGED <<inputVars, phase, total, processVars, frames, writer, dir,
                     file, identity, row, tasks, stopping, shut>>
    BY DEF FinishProjection, ProjectSteps
<1>2. task.at \in DOMAIN entries
    BY <1>1 DEF IndInv, ArchiveInv
<1>3. PICK f \in Finishes(Current) :
        /\ Spend(f[2])
        /\ entries' = [entries EXCEPT ![task.at] = f[1]]
        /\ Go([task EXCEPT !.step = "check", !.error = f[2]])
    BY DEF FinishProjection
<1> DEFINE x == f[2]
           t == [task EXCEPT !.step = "check", !.error = x]
<1>4. AtRest
    BY <1>1, <1>3, SpendTyped DEF AtRest, Spend, IndInv
<1>5. Evolves(entries[task.at], f[1])
    BY <1>2, EntryFacts, FinishEvolves DEF Current
<1>6. Evolving
    BY <1>2, <1>3, <1>5, OneEvolves
<1> HIDE DEF x
<1>7. /\ DOMAIN t = DOMAIN task /\ t.step = "check" /\ t.from = task.from
      /\ t.at = task.at /\ t.id = task.id
    BY DEF IndInv, TypeOK, TaskTypeOK
<1> HIDE DEF t
<1>8. Go(t)
    BY <1>3 DEF t, x
<1> QED
    BY <1>1, <1>4, <1>6, <1>7, <1>8, ProjectionGoesOn

(* A valid destination is kept.                                            *)
LEMMA CheckDestinationKeeps ==
    ASSUME IndInv, CheckDestination
    PROVE  IndInv'
<1> DEFINE fine == task.verdict = "accepted" /\ ~task.error
           v == IF fine /\ Current.dest # "written" THEN "process" ELSE task.verdict
           t == [task EXCEPT !.step = "release", !.verdict = v]
           e == entries[task.at]
           b == [e EXCEPT !.remove = FALSE]
<1>1. /\ task.step \in ProjectSteps /\ Go(t)
      /\ UNCHANGED <<runVars, identity, row, tasks, stopping, shut>>
    BY DEF CheckDestination, ProjectSteps
<1>2. task.at \in DOMAIN entries /\ entries \in Seq(EntryRows)
    BY <1>1 DEF IndInv, ArchiveInv, TypeOK
<1>3. AtRest
    BY <1>1, SpendTyped DEF AtRest, runVars, inputVars, processVars, IndInv
<1>4. entries' = entries \/ entries' = [entries EXCEPT ![task.at] = b]
    BY <1>2 DEF CheckDestination
<1>5. e \in EntryRows /\ Accounted(e)
    BY <1>2, EntryFacts
<1>6. /\ b \in EntryRows /\ b.worker = e.worker /\ b.session = e.session
      /\ b.scratch = e.scratch /\ b.dest = e.dest /\ b.lo = e.lo /\ b.hi = e.hi
    BY <1>5 DEF EntryRows
<1> HIDE DEF b
<1>7. Evolves(e, b)
    BY <1>5, <1>6 DEF Evolves, Accounted, Alive
<1>8. Evolving
    BY <1>2, <1>4, <1>7, NoneEvolves, OneEvolves
<1> HIDE DEF v
<1>9. /\ DOMAIN t = DOMAIN task /\ t.step = "release" /\ t.from = task.from
      /\ t.at = task.at /\ t.id = task.id
    BY DEF IndInv, TypeOK, TaskTypeOK
<1> HIDE DEF t
<1> QED
    BY <1>1, <1>3, <1>8, <1>9, ProjectionGoesOn

(* The release of a projection, and its answer.                            *)
LEMMA ReleaseProjectionKeeps ==
    ASSUME IndInv, ReleaseProjection
    PROVE  IndInv'
<1>1. /\ task.step = "release"
      /\ UNCHANGED <<inputVars, phase, total, processVars, frames, writer, dir,
                     file, identity, row, tasks, stopping, shut>>
    BY DEF ReleaseProjection
<1>2. task.at \in DOMAIN entries
    BY <1>1 DEF IndInv, ArchiveInv, ProjectSteps
<1>3. Current \in EntryRows /\ Accounted(Current) /\ Current = entries[task.at]
    BY <1>2, EntryFacts DEF Current
<1>4. PICK r \in (IF Retained(Current) THEN {<<Current, FALSE>>} ELSE Released(Keep(Current))) :
        \E failed \in BOOLEAN :
          \E u \in (IF failed /\ ~Retained(Current) THEN Unlinks(r[1]) ELSE {<<r[1], FALSE>>}) :
            /\ Spend(r[2] \/ u[2])
            /\ entries' = [entries EXCEPT ![task.at] = u[1]]
            /\ Say(IF failed THEN "rejected" ELSE "projected")
  <2>1. PICK r \in (IF Retained(Current) THEN {<<Current, FALSE>>} ELSE Released(Keep(Current))) :
          LET failed == task.verdict # "accepted" \/ task.error \/ r[2] IN
          \E u \in (IF failed /\ ~Retained(Current) THEN Unlinks(r[1]) ELSE {<<r[1], FALSE>>}) :
            /\ ~(r[2] /\ u[2])
            /\ Spend(r[2] \/ u[2])
            /\ entries' = [entries EXCEPT ![task.at] = u[1]]
            /\ Say(IF failed THEN "rejected" ELSE "projected")
    BY DEF ReleaseProjection, MayUnlink
  <2>2. PICK failed \in BOOLEAN : failed = (task.verdict # "accepted" \/ task.error \/ r[2])
    <3>1. (task.verdict # "accepted" \/ task.error \/ r[2]) \in BOOLEAN
      OBVIOUS
    <3> QED
      BY <3>1
  <2>3. \E u \in (IF failed /\ ~Retained(Current) THEN Unlinks(r[1]) ELSE {<<r[1], FALSE>>}) :
          /\ Spend(r[2] \/ u[2])
          /\ entries' = [entries EXCEPT ![task.at] = u[1]]
          /\ Say(IF failed THEN "rejected" ELSE "projected")
    BY <2>1, <2>2
  <2> QED
    BY <2>3
<1>5. PICK failed \in BOOLEAN :
        \E u \in (IF failed /\ ~Retained(Current) THEN Unlinks(r[1]) ELSE {<<r[1], FALSE>>}) :
          /\ Spend(r[2] \/ u[2])
          /\ entries' = [entries EXCEPT ![task.at] = u[1]]
          /\ Say(IF failed THEN "rejected" ELSE "projected")
    BY <1>4
<1>6. PICK u \in (IF failed /\ ~Retained(Current) THEN Unlinks(r[1]) ELSE {<<r[1], FALSE>>}) :
        /\ Spend(r[2] \/ u[2])
        /\ entries' = [entries EXCEPT ![task.at] = u[1]]
        /\ Say(IF failed THEN "rejected" ELSE "projected")
    BY <1>5
<1>7. AtRest /\ tasks' \in Nat /\ (\E s \in Replies : Say(s))
  <2>1. AtRest /\ tasks' \in Nat
    BY <1>1, <1>6, SpendTyped DEF AtRest, Spend, IndInv, TypeOK
  <2> QED
    BY <1>6, <2>1 DEF Replies
<1>8. /\ Evolves(Current, r[1]) /\ Inherits(Current, r[1])
      /\ ~Retained(Current) => r[1].scratch # "own"
  <2>1. CASE Retained(Current)
    <3>1. r = <<Current, FALSE>>
      BY <2>1
    <3>2. r[1] = Current
      BY <3>1
    <3> QED
      BY <1>3, <2>1, <3>2, EvolvesItself
  <2>2. CASE ~Retained(Current)
    <3>1. r \in Released(Keep(Current))
      BY <2>2
    <3>2. /\ Evolves(Current, Keep(Current)) /\ Inherits(Current, Keep(Current))
          /\ Keep(Current).scratch # "own"
      BY <1>3, <2>2, KeepEvolves DEF Retained
    <3>3. Keep(Current) \in EntryRows /\ Accounted(Keep(Current))
      BY <3>2 DEF Evolves
    <3>4. Evolves(Keep(Current), r[1]) /\ Inherits(Keep(Current), r[1]) /\ r[1].scratch # "own"
      BY <3>1, <3>2, <3>3, ReleasedEvolves
    <3> QED
      BY <3>2, <3>4, EvolvesAgain
  <2> QED
    BY <2>1, <2>2
<1>9. Evolves(Current, u[1])
  <2>1. CASE failed /\ ~Retained(Current)
    <3>1. u \in Unlinks(r[1])
      BY <1>6, <2>1
    <3>2. r[1] \in EntryRows /\ Accounted(r[1]) /\ r[1].scratch # "own"
      BY <1>8, <2>1 DEF Evolves
    <3>3. Evolves(r[1], u[1]) /\ Inherits(r[1], u[1])
      BY <3>1, <3>2, UnlinksEvolves
    <3> QED
      BY <1>8, <3>3, EvolvesAgain
  <2>2. CASE ~(failed /\ ~Retained(Current))
    <3>1. u = <<r[1], FALSE>>
      BY <1>6, <2>2
    <3>2. u[1] = r[1]
      BY <3>1, PairHas
    <3> QED
      BY <1>8, <3>2
  <2> QED
    BY <2>1, <2>2
<1>10. Evolving
    BY <1>2, <1>3, <1>6, <1>9, OneEvolves
<1>11. row' # NoRow => SoundRow(row)'
    BY <1>1, RowIsSound
<1> QED
    BY <1>1, <1>7, <1>10, <1>11, SaysKeeps

-----------------------------------------------------------------------------
(* The archive changes, the Engine dies, and a run goes on.                *)

(* A change leaves as many lines, all of them typed.                       *)
LEMMA DamageIs ==
    ASSUME IndInv, Damage
    PROVE  /\ DOMAIN file' = DOMAIN file
           /\ file'.lines \in Seq(LineRows) /\ Len(file'.lines) = Len(file.lines)
<1>1. /\ DOMAIN file = {"lines", "tail", "whole", "digest", "meta"}
      /\ file.lines \in Seq(LineRows)
    BY DEF IndInv, RunInv, RunTypeOK
<1>2. ASSUME NEW j \in DOMAIN file.lines, NEW k \in DOMAIN file.lines,
             NEW a \in Rewrites(file.lines[j]), NEW b \in Rewrites(file.lines[k]),
             file' = [file EXCEPT !.lines = [file.lines EXCEPT ![j] = a, ![k] = b]]
      PROVE  /\ DOMAIN file' = DOMAIN file
             /\ file'.lines \in Seq(LineRows) /\ Len(file'.lines) = Len(file.lines)
  <2> DEFINE lines == [file.lines EXCEPT ![j] = a, ![k] = b]
  <2>1. \A l \in LineRows : Rewrites(l) \subseteq LineRows
    <3>1. \A i \in Ids(file.lines) : i \in Nat
      <4>1. \A n \in DOMAIN file.lines : file.lines[n] \in LineRows
        BY <1>1
      <4>2. \A l \in LineRows : l.id \in Nat
        BY DEF LineRows
      <4> QED
        BY <4>1, <4>2 DEF Ids
    <3> QED
      BY <3>1 DEF Rewrites, LineRows
  <2>2. a \in LineRows /\ b \in LineRows
    <3>1. file.lines[j] \in LineRows /\ file.lines[k] \in LineRows
      BY <1>1
    <3> QED
      BY <1>2, <2>1, <3>1
  <2>3. lines \in Seq(LineRows) /\ Len(lines) = Len(file.lines)
    BY <1>1, <2>2
  <2> HIDE DEF lines
  <2>4. file' = [file EXCEPT !.lines = lines]
    BY <1>2 DEF lines
  <2> QED
    BY <1>1, <2>3, <2>4
<1>3. CASE \/ file' = [file EXCEPT !.tail.count = @ + 1]
           \/ file' = [file EXCEPT !.whole = FALSE]
           \/ file' = [file EXCEPT !.meta.count = @ + 1]
    BY <1>1, <1>3
<1> QED
    BY <1>2, <1>3 DEF Damage

(* The archive is no longer the one any verification began with.           *)
LEMMA DamageKeeps ==
    ASSUME IndInv, Damage
    PROVE  IndInv'
<1>1. /\ phase = "over" /\ identity' = identity + 1
      /\ UNCHANGED <<inputVars, phase, total, processVars, frames, writer, dir,
                     faults, row, task, tasks, entries, stopping, shut, reply>>
    BY DEF Damage
<1>2. /\ DOMAIN file' = DOMAIN file
      /\ file'.lines \in Seq(LineRows) /\ Len(file'.lines) = Len(file.lines)
    BY DamageIs
<1>3. identity \in Nat /\ task.id \in Nat /\ task.id <= identity
    BY DEF IndInv, TypeOK, TaskTypeOK, ArchiveInv
<1>4. RunTypeOK'
    BY <1>1, <1>2 DEF IndInv, RunInv, RunTypeOK, inputVars, processVars
<1>5. RunInv'
    BY <1>1, <1>4 DEF IndInv, RunInv, FramesInv, WrittenInv, EndInv, SealInv, Opening, Ending,
           Counted, inputVars, processVars
<1>6. TypeOK'
    BY <1>1, <1>3, <1>4 DEF IndInv, TypeOK, TaskTypeOK
<1>7. ArchiveInv'
    BY <1>1, <1>2, <1>3 DEF IndInv, ArchiveInv
<1>8. SessionInv' /\ SnapInv' /\ FreshInv'
    BY <1>1 DEF IndInv, SessionInv, SnapInv, FreshInv
<1>9. ~Unchanged'
    BY <1>1, <1>3 DEF Unchanged
<1>10. VerifyInv'
  <2>1. Own' = Own
    BY <1>1 DEF Own
  <2>2. task.step \in {"starting", "waiting"} => Partition'
    BY <1>1, <1>2, <2>1 DEF IndInv, VerifyInv, Partition
  <2> QED
    BY <1>1, <1>9, <2>2 DEF VerifyInv
<1>11. AcceptInv'
    BY <1>1, <1>9 DEF IndInv, AcceptInv, Sound, SoundRow
<1> QED
    BY <1>5, <1>6, <1>7, <1>8, <1>10, <1>11 DEF IndInv

(* The memory of the Engine is gone with its workers.                      *)
LEMMA EngineDiesKeeps ==
    ASSUME IndInv, EngineDies
    PROVE  IndInv'
<1>1. /\ phase = "over" /\ task' = Idle /\ entries' = <<>> /\ stopping' = FALSE
      /\ shut' = NoShutdown /\ reply' = "none"
      /\ UNCHANGED <<inputVars, phase, total, processVars, frames, writer, dir,
                     file, identity, row, tasks>>
    BY DEF EngineDies
<1>2. AtRest
    BY <1>1, SpendTyped DEF EngineDies, AtRest, IndInv
<1>3. RunInv' /\ phase' = "over"
    BY <1>1, <1>2, RunAtRest DEF IndInv
<1>4. shut' \in ShutRows /\ shut'.snap = {}
    BY <1>1 DEF NoShutdown, ShutRows
<1>5. TaskTypeOK' /\ task'.step = "idle" /\ task'.id = 0
    BY <1>1, IdleTyped DEF TaskTypeOK
<1>6. entries' \in Seq(EntryRows) /\ DOMAIN entries' = {}
    BY <1>1
<1>7. TypeOK'
    BY <1>1, <1>3, <1>4, <1>5, <1>6 DEF IndInv, TypeOK, RunInv, Replies
<1>8. ArchiveInv'
    BY <1>1, <1>3, <1>5, <1>6 DEF IndInv, TypeOK, ArchiveInv, ProjectSteps
<1>9. SessionInv' /\ SnapInv'
    BY <1>4, <1>6 DEF SessionInv, SnapInv
<1>10. Ground'
    BY <1>3, <1>7, <1>8, <1>9 DEF Ground
<1> QED
    BY <1>1, <1>10, RowIsSound, IdleKeeps

(* A run that is over stays over, with its Result as it is.                *)
LEMMA OverStays ==
    ASSUME RunNext, phase = "over"
    PROVE  phase' = "over" /\ file' = file /\ dir' = dir
<1>1. ~StartNext
    BY DEF StartNext, Admit, VerifyInputs, VerifyGraphs, OpenRows, OpenScript, Opens, OpenProvider,
           Passes, Refuse, CountRows, CountScript, BuildGraphs, OpenWriter, BuildFails,
           StartRows, StartScript
<1>2. ~FramesNext /\ ~WriterNext /\ ~StepFails /\ ~Discard /\ ~RuntimeDies
    BY DEF FramesNext, NextRow, ReadMessage, ScriptEnds, RowsEnd, LimitEnds, WriterNext,
           AppendCycle, EndOfFrames, Finalize, CloseRuntimes, FlushCycles, Seal, Publish,
           StepFails, Discard, RuntimeDies
<1>3. WorkerNext => UNCHANGED <<phase, file, dir>>
    BY DEF WorkerNext, EmitSample, EmitEnd, Noise, WorkerExits, WorkerDies
<1> QED
    BY <1>1, <1>2, <1>3 DEF RunNext

(* A run goes on while nothing is recovered.                               *)
LEMMA RunStepKeeps ==
    ASSUME IndInv, RunNext, UNCHANGED recoveryVars
    PROVE  IndInv'
<1>1. RunInv'
    BY RunPreserves DEF IndInv
<1>2. UNCHANGED <<identity, row, task, tasks, entries, stopping, shut, reply>>
    BY DEF recoveryVars
<1>3. TypeOK'
    BY <1>1, <1>2 DEF IndInv, TypeOK, TaskTypeOK, RunInv
<1>4. SessionInv' /\ SnapInv' /\ FreshInv'
    BY <1>2 DEF IndInv, SessionInv, SnapInv, FreshInv
<1>5. CASE phase = "over"
  <2>1. phase' = "over" /\ file' = file
    BY <1>5, OverStays
  <2>2. ArchiveInv'
    BY <1>2, <2>1 DEF IndInv, ArchiveInv
  <2>3. VerifyInv'
    BY <1>2, <2>1 DEF IndInv, VerifyInv, Own, Partition, Unchanged, HasOutcome, Seen, Content
  <2>4. AcceptInv'
    BY <1>2, <2>1 DEF IndInv, AcceptInv, Sound, SoundRow, Unchanged, Reads, ReadsToTheEnd, Content,
           StatesLines, Boundaries
  <2> QED
    BY <1>1, <1>3, <1>4, <2>2, <2>3, <2>4 DEF IndInv
<1>6. CASE phase # "over"
  <2>1. task.step = "idle" /\ entries = <<>>
    BY <1>6 DEF IndInv, ArchiveInv
  <2>2. ArchiveInv'
    BY <1>2, <2>1 DEF IndInv, ArchiveInv, ProjectSteps
  <2>3. VerifyInv' /\ AcceptInv'
    BY <1>2, <2>1 DEF IndInv, VerifyInv, AcceptInv, Sound, SoundRow, VerifySteps
  <2> QED
    BY <1>1, <1>3, <1>4, <2>2, <2>3 DEF IndInv
<1> QED
    BY <1>5, <1>6

-----------------------------------------------------------------------------
(* Theorems                                                                *)

(* The invariant holds before the run.                                     *)
LEMMA InitEstablishes == Init => IndInv
<1> SUFFICES ASSUME Init PROVE IndInv
    OBVIOUS
<1>1. RunInv
    BY RunInitEstablishes DEF Init
<1>2. /\ identity = 0 /\ row = NoRow /\ task = Idle /\ tasks = 0 /\ entries = <<>>
      /\ stopping = FALSE /\ shut = NoShutdown /\ reply = "none"
    BY DEF Init
<1>3. shut \in ShutRows /\ shut.snap = {}
    BY <1>2 DEF NoShutdown, ShutRows
<1>4. TaskTypeOK /\ task.step = "idle" /\ task.id = 0
    BY <1>2, IdleTyped DEF TaskTypeOK
<1>5. entries \in Seq(EntryRows) /\ DOMAIN entries = {}
    BY <1>2
<1>6. TypeOK
    BY <1>1, <1>2, <1>3, <1>4, <1>5 DEF TypeOK, RunInv, Replies
<1>7. ArchiveInv /\ SessionInv /\ SnapInv /\ FreshInv
    BY <1>2, <1>3, <1>4, <1>5 DEF ArchiveInv, SessionInv, SnapInv, FreshInv, ProjectSteps
<1>8. VerifyInv /\ AcceptInv
    BY <1>2, <1>4 DEF VerifyInv, AcceptInv, VerifySteps
<1> QED
    BY <1>1, <1>6, <1>7, <1>8 DEF IndInv

(* A stutter.                                                              *)
LEMMA StutterKeeps ==
    ASSUME IndInv, UNCHANGED vars
    PROVE  IndInv'
<1>1. AtRest /\ Evolving
    BY NoneEvolves, SpendTyped DEF vars, runVars, recoveryVars, AtRest, inputVars, processVars, IndInv
<1>2. UNCHANGED <<identity, row, task, tasks, reply, stopping, shut, entries>>
    BY DEF vars, recoveryVars
<1>3. \A i \in DOMAIN entries : entries'[i] = entries[i] /\ Inherits(entries[i], entries'[i])
    BY <1>2, EntryFacts, EvolvesItself
<1>4. stopping' \in BOOLEAN /\ shut' \in ShutRows /\ shut'.snap \subseteq shut.snap
    BY <1>2 DEF IndInv, TypeOK
<1> QED
    BY <1>1, <1>2, <1>3, <1>4, BesideKeeps

(* Every step keeps the invariant.                                         *)
LEMMA NextKeeps == IndInv /\ [Next]_vars => IndInv'
<1> SUFFICES ASSUME IndInv, [Next]_vars PROVE IndInv'
    OBVIOUS
<1>1. CASE VerifyNext
    BY <1>1, LoadEvidenceKeeps, StartVerifyKeeps, StartShardKeeps, ParentReadsKeeps,
       VerifyShardKeeps, InterpretKeeps, CleanupShardKeeps, EndVerifyKeeps, CommitKeeps,
       AnswerKeeps
    DEF VerifyNext
<1>2. CASE ProjectNext
    BY <1>2, StartProjectionKeeps, LaunchKeeps, ProjectStepKeeps, WatchKeeps,
       FinishProjectionKeeps, CheckDestinationKeeps, ReleaseProjectionKeeps
    DEF ProjectNext
<1>3. CASE ShutdownNext
    BY <1>3, ShutdownBeginKeeps, ShutdownKillsKeeps, ShutdownRetainsKeeps,
       ShutdownReleasesKeeps DEF ShutdownNext
<1>4. CASE RunNext /\ UNCHANGED recoveryVars
    BY <1>4, RunStepKeeps
<1>5. CASE Damage \/ EngineDies
    BY <1>5, DamageKeeps, EngineDiesKeeps
<1>6. CASE UNCHANGED vars
    BY <1>6, StutterKeeps
<1> QED
    BY <1>1, <1>2, <1>3, <1>4, <1>5, <1>6 DEF Next

(* The run's frames, lines and ends, and the recovery's shards, sessions   *)
(* and evidence keep the relations of IndInv, whatever fails and whoever   *)
(* changes the archive.                                                    *)
THEOREM Inductive == Spec => []IndInv
BY InitEstablishes, NextKeeps, PTL DEF Spec

(* Whatever the Sampler's process does and whichever call fails, what      *)
(* execute_backtest publishes is a complete Result.                        *)
THEOREM PublishedResultsAreComplete == Spec => PublishedIsComplete
<1>1. ASSUME IndInv, [Next]_vars
      PROVE  [dir # "published" /\ dir' = "published" => CompleteResult]_runVars
  <2> SUFFICES ASSUME dir # "published", dir' = "published"
               PROVE  CompleteResult
    OBVIOUS
  <2>1. RunNext
    <3>1. CASE VerifyNext
      BY <3>1 DEF VerifyNext, LoadEvidence, StartVerify, StartShard, ParentReads, VerifyShard,
             Interpret, WaitStopped, CleanupShard, EndVerify, Commit, Receipt, RecoverIndexed,
             runVars
    <3>2. CASE ProjectNext
      BY <3>2 DEF ProjectNext, StartProjection, Launch, ProjectWrites, ProjectEnds, Watch, FinishProjection,
             CheckDestination, ReleaseProjection, runVars
    <3>3. CASE ShutdownNext \/ Damage \/ EngineDies \/ UNCHANGED vars
      BY <3>3 DEF ShutdownNext, ShutdownSnapshot, ShutdownStops, ShutdownKills,
             ShutdownRetains, ShutdownReleases, Damage, EngineDies, vars, runVars
    <3> QED
      BY <1>1, <3>1, <3>2, <3>3 DEF Next
  <2>2. phase = "sealed"
    <3>1. ~WorkerNext /\ ~FramesNext
      BY DEF WorkerNext, EmitSample, EmitEnd, Noise, WorkerExits, WorkerDies,
             FramesNext, NextRow, ReadMessage, ScriptEnds, RowsEnd, LimitEnds
    <3>2. ~StartNext
      BY DEF StartNext, Admit, VerifyInputs, VerifyGraphs, OpenRows, OpenScript, Opens,
             OpenProvider, Passes, Refuse, CountRows, CountScript, BuildGraphs, OpenWriter,
             BuildFails, StartRows, StartScript
    <3>3. ~StepFails /\ ~Discard /\ ~RuntimeDies
      BY DEF StepFails, Discard, RuntimeDies
    <3>4. WriterNext => Publish
      BY DEF WriterNext, AppendCycle, EndOfFrames, Finalize, CloseRuntimes, FlushCycles, Seal
    <3> QED
      BY <2>1, <3>1, <3>2, <3>3, <3>4 DEF RunNext, Publish
  <2> QED
    BY <1>1, <2>2, SealedIsComplete DEF IndInv
<1> QED
    BY <1>1, Inductive, PTL DEF Spec, PublishedIsComplete

(* No failure and no shutdown takes the scratch directory or the           *)
(* destination of a worker that may still run                              *)
(* (_cleanup_verifier_entries, shutdown_result_runtimes).                  *)
THEOREM ReleasesAreQuiet == Spec => []ReleaseAfterQuiet
<1>1. IndInv => ReleaseAfterQuiet
    BY DEF IndInv, SessionInv, Accounted, ReleaseAfterQuiet
<1> QED
    BY <1>1, Inductive, PTL

(* However the lines are cut into shards and in whatever order their       *)
(* verifiers end, verify_result_archive_in_runtimes gives an unchanged     *)
(* archive the verdict of one sequential reader, and accepts none that is  *)
(* not sound as it stands.                                                 *)
THEOREM VerdictsAreSequential == Spec => VerdictIsSequential
<1> DEFINE Answer ==
      LET v == task'.verdict
          s == SequentialKind(file)
      IN /\ v = "accepted" => Reads(file, task.evidence)
         /\ identity = task.id /\ v \in {"framing", "duplicate", "data"} => v = s
         /\ identity = task.id /\ v \in {"accepted", "size", "digest", "metadata"} => s = "none"
         /\ identity = task.id /\ v = "process" =>
              \E i \in Own : /\ entries[i].worker # "done"
                             /\ BadLines(file.lines, 1, entries[i].lo - 1) = {}
<1>1. ASSUME IndInv, [Next]_vars
      PROVE  [Decided => Answer]_vars
  <2> SUFFICES ASSUME task.step = "waiting", task.verdict = "none", task'.verdict # "none"
               PROVE  Answer
    BY DEF Decided
  <2>1. CASE Interpret
    <3>1. task'.verdict = Interpreted
      BY <1>1, <2>1 DEF Interpret, Decide, Go, IndInv, TypeOK, TaskTypeOK
    <3>2. Interpreted = "accepted" => Unchanged
      BY <1>1, AcceptedIsUnchanged
    <3>3. Unchanged => Sequential(Interpreted)
      BY <1>1, InterpretedIsSequential DEF Waiting
    <3> QED
      BY <3>1, <3>2, <3>3 DEF Sequential, Unchanged
  <2>2. CASE WaitStopped
    <3>1. task'.verdict = "stopped"
      BY <1>1, <2>2 DEF WaitStopped, Decide, Go, IndInv, TypeOK, TaskTypeOK
    <3> QED
      BY <3>1
  <2>3. CASE ~Interpret /\ ~WaitStopped
    <3>1. ~VerifyNext \/ task' = task
      BY <2>3 DEF VerifyNext, LoadEvidence, StartVerify, StartShard, ParentReads, VerifyShard,
             CleanupShard, EndVerify, Commit, Receipt, RecoverIndexed
    <3>2. ~ProjectNext \/ task' = task
      BY DEF ProjectNext, StartProjection, Launch, ProjectWrites, ProjectEnds, Watch, FinishProjection,
             CheckDestination, ReleaseProjection
    <3>3. ShutdownNext \/ Damage \/ UNCHANGED vars \/ UNCHANGED recoveryVars => task' = task
      BY DEF ShutdownNext, ShutdownSnapshot, ShutdownStops, ShutdownKills,
             ShutdownRetains, ShutdownReleases, Damage, vars, recoveryVars
    <3>4. EngineDies => task'.verdict = "none"
      BY DEF EngineDies, Idle
    <3> QED
      BY <1>1, <3>1, <3>2, <3>3, <3>4 DEF Next
  <2> QED
    BY <2>1, <2>2, <2>3
<1>2. VerdictIsSequential <=> [][Decided => Answer]_vars
    BY DEF VerdictIsSequential
<1> QED
    BY <1>1, <1>2, Inductive, PTL DEF Spec

(* A recovery that answers its caller has a row that states the digest and *)
(* metrics of an archive that is complete and sound at that moment         *)
(* (require_recovered_result_commit).                                      *)
THEOREM RecoveredResultsAreSound == Spec => RecoveredIsSound
<1> DEFINE Answered == reply' = "recovered" /\ (reply # "recovered" \/ tasks' # tasks)
<1>1. ASSUME IndInv, [Next]_vars, Answered
      PROVE  row # NoRow /\ DescribedBy(row)
  <2>1. Receipt \/ RecoverIndexed
    <3>1. VerifyNext => Receipt \/ RecoverIndexed
      BY <1>1 DEF VerifyNext, LoadEvidence, StartVerify, StartShard, ParentReads, VerifyShard,
             Interpret, WaitStopped, CleanupShard, EndVerify, Commit, Decide, Go, Say
    <3>2. ~ProjectNext
      BY <1>1 DEF ProjectNext, StartProjection, Launch, ProjectWrites, ProjectEnds, Watch, FinishProjection,
             CheckDestination, ReleaseProjection, Go, Say
    <3>3. ~ShutdownNext /\ ~Damage /\ ~UNCHANGED vars /\ ~UNCHANGED recoveryVars /\ ~EngineDies
      BY <1>1 DEF ShutdownNext, ShutdownSnapshot, ShutdownStops, ShutdownKills,
             ShutdownRetains, ShutdownReleases, Damage, vars, recoveryVars, EngineDies
    <3> QED
      BY <1>1, <3>1, <3>2, <3>3 DEF Next
  <2>2. CASE Receipt
    <3>1. task.step = "receipt" /\ Unchanged /\ row = Catalogued(task.evidence)
      BY <1>1, <2>2 DEF Receipt, Say, ReceiptHolds
    <3>2. row # NoRow /\ Reads(file, task.evidence)
      BY <1>1, <3>1 DEF IndInv, AcceptInv
    <3>3. row.digest = task.evidence.digest /\ row.count = task.evidence.meta.count
      BY <3>1 DEF Catalogued
    <3> QED
      BY <3>2, <3>3 DEF DescribedBy, Reads, ReadsToTheEnd
  <2>3. CASE RecoverIndexed
    <3>1. row # NoRow /\ Indexed /\ Content(file) = row.digest
      BY <1>1, <2>3 DEF RecoverIndexed, Say
    <3>2. SoundRow(row)
      BY <1>1, <3>1 DEF IndInv, AcceptInv
    <3>3. Content(file)[1] = file.lines /\ Content(file)[2] = file.tail
      BY DEF Content
    <3> QED
      BY <3>1, <3>2, <3>3 DEF SoundRow, DescribedBy, Indexed, SealedAsIndexed, ReadsToTheEnd
  <2> QED
    BY <2>1, <2>2, <2>3
<1>2. ASSUME IndInv, [Next]_vars
      PROVE  [/\ reply' = "recovered"
              /\ reply # "recovered" \/ tasks' # tasks
              => row # NoRow /\ DescribedBy(row)]_vars
    BY <1>1, <1>2
<1> QED
    BY <1>2, Inductive, PTL DEF Spec, RecoveredIsSound
=============================================================================
