----------------------------- MODULE BacktestRun -----------------------------
(***************************************************************************)
(* One Backtest Runtime from the frozen request to the published Result:   *)
(* the Sampler (in process, or a sandboxed script that writes JSON lines   *)
(* to a pipe), the provider that admits its samples as frames, the cycle   *)
(* loop of execute_backtest and the streaming Result writer.               *)
(*                                                                         *)
(* A cycle id is a number: the id the provider gives sequence n is n + 1,  *)
(* so a script that names cycle 2 itself collides with its second sample.  *)
(* Instants are 1..MaxTime.  The bytes of a Result are its cycle lines and *)
(* its tail; a digest is the content it was computed from.  What a Module  *)
(* computes is left to BacktestPipeline: here a cycle succeeds or fails.   *)
(*                                                                         *)
(* Bounds: MaxSamples samples or records, PipeBound unread messages,       *)
(* MaxFaults failures of whatever the code calls (a crash is one).         *)
(***************************************************************************)
EXTENDS Naturals, Sequences, FiniteSets, SequencesExt

CONSTANTS MaxSamples, MaxTime, CustomIds, Limits, FlushAt, PipeBound, MaxFaults

ASSUME RunAssumption ==
    /\ {MaxSamples, MaxTime, FlushAt, PipeBound, MaxFaults} \subseteq Nat
    /\ CustomIds \subseteq Nat \ {0}
    /\ Limits \subseteq Nat          \* 0 stands for no limit
    /\ FlushAt > 0 /\ PipeBound > 0

VARIABLES
    kind,        \* "rows": RowMappingSampler, "script": PythonScriptSampler
    records,     \* available_at of the stored records
    recordCount, \* recordCount of the records capability's descriptor
    limit,       \* request["limit"]
    phase,       \* where execute_backtest stands
    total,       \* total_cycles
    proc,        \* the formal iteration's worker process
    pipe,        \* its unread protocol messages
    completed,   \* a completion message was read
    frames,      \* the frames the provider yielded
    writer,      \* cycles appended and not yet written
    dir,         \* the Result directory: none, staging or published
    file,        \* result.json and result-manifest.json in that directory
    faults       \* failures so far

processVars == <<proc, pipe, completed>>
inputVars == <<kind, records, recordCount, limit>>
runVars == <<kind, records, recordCount, limit, phase, total, proc, pipe,
             completed, frames, writer, dir, file, faults>>

Time == 1..MaxTime
NoProc == [state |-> "none", sent |-> 0, done |-> "no", code |-> 0]
NoFile == [lines |-> <<>>, tail |-> <<>>, whole |-> FALSE,
           digest |-> <<>>, meta |-> <<>>]

\* The samples of a script: a decisionTime and a cycleId of its own, or 0.
Sample == [type : {"sample"}, time : Time, id : CustomIds \cup {0}]
Message(t) == [type |-> t]

Fault == faults < MaxFaults /\ faults' = faults + 1
NoFault == UNCHANGED faults

\* The Runtime process ends and takes all it held with it: only the Result
\* directory stays.  How it reports to the Engine is in BacktestJobs.
Leave ==
    /\ phase' = "over" /\ total' = 0
    /\ kind' = "none" /\ records' = <<>> /\ recordCount' = 0 /\ limit' = 0
    /\ proc' = NoProc /\ pipe' = <<>> /\ completed' = FALSE
    /\ frames' = <<>> /\ writer' = <<>>

Ids(s) == {s[i].id : i \in DOMAIN s}
Ordered(s) == \A i \in 1..(Len(s) - 1) : s[i].time <= s[i + 1].time
Sorted(s) == \A i \in 1..(Len(s) - 1) : s[i] <= s[i + 1]

-----------------------------------------------------------------------------
(* The Sampler runtime and its Dataset *)

\* RowMappingSampler.__len__ believes the descriptor; it reads no record.
RowCount == recordCount

\* load_dataset_records: sequences count from zero and the number of records
\* is the descriptor's, or the load fails.
LoadsRecords == Len(records) = recordCount

\* RowMappingSampler._iterate: every record is loaded and the instants are
\* compared before the first sample is yielded.
RowsIterate == LoadsRecords /\ Sorted(records)

\* RowMappingSampler._sample: the record as a sample without an id of its own.
RowSample(n) == [type |-> "sample", time |-> records[n + 1], id |-> 0]

\* BacktestSampleProvider.__len__.
Bounded(n) == IF limit # 0 /\ limit < n THEN limit ELSE n

\* One step on the way from the frozen request to the count.
Passes(from, to) ==
    /\ phase = from /\ phase' = to
    /\ UNCHANGED <<inputVars, total, processVars, frames, writer, dir, file, faults>>

\* The request is well formed and frozen for this Engine and this Python.
Admit == Passes("new", "admitted")

\* prepare_backtest_execution: the archived Pipeline, Sampler and Dataset are
\* the ones the snapshot names ...
VerifyInputs == Passes("admitted", "inputs")

\* ... and so are the Environment and the Analysis; the composition is bound
\* again (BacktestPipeline).
VerifyGraphs == Passes("inputs", "prepared")

\* create_verified_sampler_runtime: the protocol names the factory.
Opens(k) == kind = k /\ Passes("prepared", "opened")
OpenRows == Opens("rows")
OpenScript == Opens("script")

\* BacktestSampleProvider.__init__.
OpenProvider == Passes("opened", "ready")

\* Any of these may raise; nothing is on disk yet.
Refuse ==
    /\ phase \in {"new", "admitted", "inputs", "prepared", "opened", "ready"}
    /\ Fault /\ Leave
    /\ UNCHANGED <<dir, file>>

CountRows ==
    /\ phase = "ready" /\ kind = "rows"
    /\ total' = Bounded(RowCount) /\ phase' = "counted"
    /\ UNCHANGED <<inputVars, processVars, frames, writer, dir, file, faults>>

\* SamplerRuntime.__len__ of a script: a fork of the Runtime is iterated to its
\* end by a process of its own.  The fork's process may emit another number of
\* samples than the formal one will, and the provider checks none of them.
CountScript ==
    /\ phase = "ready" /\ kind = "script"
    /\ \E n \in 0..MaxSamples : total' = Bounded(n)
    /\ phase' = "counted"
    /\ UNCHANGED <<inputVars, processVars, frames, writer, dir, file, faults>>

-----------------------------------------------------------------------------
(* The provider *)

\* build_frame: the id is the sample's own or the sequence's.
Frame(s) == [id |-> IF s.id # 0 THEN s.id ELSE Len(frames) + 1,
             time |-> s.time]

\* __iter__ remembers every cycleId it yielded.
Unclaimed(f) == f.id \notin Ids(frames)

\* ... and the previous instant.
InOrder(f) == frames = <<>> \/ Last(frames).time <= f.time

Yield(s) ==
    LET f == Frame(s) IN
    IF InOrder(f) /\ Unclaimed(f)
      THEN frames' = Append(frames, f) /\ phase' = "cycle"
      ELSE phase' = "failing" /\ UNCHANGED frames

\* islice stops without asking the Sampler for another sample.
LimitReached == limit # 0 /\ Len(frames) = limit

-----------------------------------------------------------------------------
(* The worker process of a script (sampler_worker.py) *)

Live == proc.state = "live"
HasRoom == Len(pipe) < PipeBound

\* One item of the user's iterable.  The worker numbers the samples itself.
EmitSample ==
    /\ Live /\ proc.done = "no" /\ proc.sent < MaxSamples /\ HasRoom
    /\ \E s \in Sample : pipe' = Append(pipe, s)
    /\ proc' = [proc EXCEPT !.sent = @ + 1]
    /\ UNCHANGED <<inputVars, phase, total, completed, frames, writer, dir,
                   file, faults>>

\* The iterable is exhausted; or the user's code, or an item it gave, raised.
EmitEnd ==
    /\ Live /\ proc.done = "no" /\ HasRoom
    /\ \E e \in {"complete", "error"} :
         /\ e = "error" => faults < MaxFaults
         /\ pipe' = Append(pipe, Message(e))
         /\ proc' = [proc EXCEPT !.done = e]
         /\ faults' = IF e = "error" THEN faults + 1 ELSE faults
    /\ UNCHANGED <<inputVars, phase, total, completed, frames, writer, dir,
                   file>>

\* Something else reaches the pipe: no JSON object, no known type, a line
\* over the limit or cut by the end of the stream.
Noise ==
    /\ Live /\ HasRoom /\ Fault
    /\ pipe' = Append(pipe, Message("noise"))
    /\ UNCHANGED <<inputVars, phase, total, proc, completed, frames, writer,
                   dir, file>>

WorkerExits ==
    /\ Live /\ proc.done # "no"
    /\ proc' = [proc EXCEPT !.state = "exited",
                            !.code = IF proc.done = "complete" THEN 0 ELSE 1]
    /\ UNCHANGED <<inputVars, phase, total, pipe, completed, frames, writer,
                   dir, file, faults>>

\* The process is killed from outside, before or after its last message.
WorkerDies ==
    /\ Live /\ Fault
    /\ proc' = [proc EXCEPT !.state = "exited", !.code = 1]
    /\ UNCHANGED <<inputVars, phase, total, pipe, completed, frames, writer,
                   dir, file>>

\* SamplerProcessTransport.close: the tree is terminated and the pipe dropped.
\* In _iterate an error of that close is raised only when nothing else was.
CloseTransport == proc' = [NoProc EXCEPT !.code = proc.code] /\ pipe' = <<>>

-----------------------------------------------------------------------------
(* Building the Runtimes and the writer *)

\* create_backtest_graph_runtimes.
BuildGraphs == Passes("counted", "graphs")

\* BacktestResultWriter.__init__: the destination must not exist yet.
OpenWriter ==
    /\ phase = "graphs"
    /\ dir = "none"
    /\ dir' = "staging" /\ phase' = "built"
    /\ file' = [NoFile EXCEPT !.whole = TRUE]
    /\ UNCHANGED <<inputVars, total, processVars, frames, writer, faults>>

BuildFails ==
    /\ phase \in {"counted", "graphs"} /\ Fault /\ Leave
    /\ UNCHANGED <<dir, file>>

StartRows ==
    /\ phase = "built" /\ kind = "rows"
    /\ phase' = IF RowsIterate THEN "next" ELSE "failing"
    /\ UNCHANGED <<inputVars, total, processVars, frames, writer, dir, file, faults>>

\* SamplerProcessTransport.__init__: Popen and the request.
Spawn == proc' = [NoProc EXCEPT !.state = "live"]

\* _prepare_iteration, then the process; a transport that fails to start
\* closes itself before it raises.
StartScript ==
    /\ phase = "built" /\ kind = "script"
    /\ \/ Spawn /\ phase' = "next" /\ NoFault
       \/ /\ phase' = "failing" /\ Fault /\ UNCHANGED proc
    /\ UNCHANGED <<inputVars, total, pipe, completed, frames, writer, dir,
                   file>>

-----------------------------------------------------------------------------
(* next(frames) *)

NextRow ==
    /\ phase = "next" /\ kind = "rows" /\ ~LimitReached
    /\ Len(frames) < Len(records)
    /\ Yield(RowSample(Len(frames)))
    /\ UNCHANGED <<inputVars, total, processVars, writer, dir, file, faults>>

ReadMessage ==
    /\ phase = "next" /\ kind = "script" /\ ~LimitReached /\ pipe # <<>>
    /\ pipe' = Tail(pipe)
    /\ LET m == Head(pipe) IN
       CASE completed \/ m.type \in {"noise", "error"} ->
              phase' = "failing" /\ UNCHANGED <<completed, frames>>
         [] ~completed /\ m.type = "complete" ->
              completed' = TRUE /\ UNCHANGED <<phase, frames>>
         [] ~completed /\ m.type = "sample" ->
              Yield(m) /\ UNCHANGED completed
    /\ UNCHANGED <<inputVars, total, proc, writer, dir, file, faults>>

\* read_line answers None and wait returns.
EndOfStream == pipe = <<>> /\ proc.state = "exited"

\* A code other than 0 or a missing completion message is a failure.
ScriptEnds ==
    /\ phase = "next" /\ kind = "script" /\ ~LimitReached /\ EndOfStream
    /\ phase' = IF proc.code = 0 /\ completed THEN "ended" ELSE "failing"
    /\ CloseTransport
    /\ UNCHANGED <<inputVars, total, completed, frames, writer, dir, file, faults>>

RowsEnd ==
    /\ phase = "next" /\ kind = "rows" /\ ~LimitReached
    /\ Len(frames) = Len(records)
    /\ phase' = "ended"
    /\ UNCHANGED <<inputVars, total, processVars, frames, writer, dir, file, faults>>

\* The provider closes the Sampler's iterator, which terminates the worker; no
\* completion message is needed.  Closing a generator swallows what its close
\* raises, and the Sampler has already forgotten the transport: a worker that
\* was not terminated is left, its streams closed, until the Runtime ends.
LimitEnds ==
    /\ phase = "next" /\ LimitReached /\ phase' = "ended"
    /\ \/ CloseTransport /\ NoFault
       \/ /\ kind = "script" /\ Fault
          /\ proc' = [proc EXCEPT !.state = "left"] /\ pipe' = <<>>
    /\ UNCHANGED <<inputVars, total, completed, frames, writer, dir, file>>

\* No answer for 300 seconds, a sample that is not valid, a termination that
\* fails, or a Module, the writer, finalize, close or the tail that raises.
StepFails ==
    /\ phase \in {"next", "cycle", "finalizing", "closing", "closed", "flushed"}
    /\ Fault
    /\ phase' = "failing"
    /\ UNCHANGED <<inputVars, total, processVars, frames, writer, dir, file>>

-----------------------------------------------------------------------------
(* The cycle loop and the writer *)

\* A cycle's line in the file.  Its data are well formed: "good" is "yes".
Line(f) == [id |-> f.id, good |-> "yes"]
Written == file.lines \o writer

\* _flush_pending.
FlushTo(pending) == [file EXCEPT !.lines = @ \o pending]

\* UniqueTextIndex: the writer keeps an index of its own, on disk, over all ids
\* it was given.
Claimed(id) == id \in Ids(Written)

\* Environment, Pipeline and Analysis ran; the cycle is appended.
AppendCycle ==
    /\ phase = "cycle"
    /\ LET f == Last(frames)
           pending == Append(writer, Line(f))
       IN IF Claimed(f.id)
            THEN phase' = "failing" /\ UNCHANGED <<writer, file>>
            ELSE /\ phase' = "next"
                 /\ writer' = IF Len(pending) >= FlushAt THEN <<>> ELSE pending
                 /\ file' = IF Len(pending) >= FlushAt THEN FlushTo(pending) ELSE file
    /\ UNCHANGED <<inputVars, total, processVars, frames, dir, faults>>

CountUnchecked == TRUE

\* result_writer.count != total_cycles is an error.
CountHolds == Len(Written) = total

EndOfFrames ==
    /\ phase = "ended"
    /\ phase' = IF CountHolds THEN "finalizing" ELSE "failing"
    /\ UNCHANGED <<inputVars, total, processVars, frames, writer, dir, file, faults>>

Finalize ==
    /\ phase = "finalizing" /\ phase' = "closing"
    /\ UNCHANGED <<inputVars, total, processVars, frames, writer, dir, file, faults>>

\* The Sampler's iterator is at its end and no transport is known any more.
CloseRuntimes ==
    /\ phase = "closing" /\ phase' = "closed"
    /\ UNCHANGED <<inputVars, total, processVars, frames, writer, dir, file, faults>>

FlushCycles ==
    /\ phase = "closed" /\ phase' = "flushed"
    /\ file' = FlushTo(writer) /\ writer' = <<>>
    /\ UNCHANGED <<inputVars, total, processVars, frames, dir, faults>>

\* metrics.cycleCount and sampleFrameContract.
Boundaries(s) == [count |-> Len(s),
                  first |-> IF s = <<>> THEN 0 ELSE Head(s).id,
                  last |-> IF s = <<>> THEN 0 ELSE Last(s).id]

Content(f) == <<f.lines, f.tail>>

\* finish up to the chmods: the tail, the manifest with the digest of the bytes
\* written and a copy of the metadata.  The boundaries come from the frames,
\* and must be the writer's own.
Seal ==
    /\ phase = "flushed"
    /\ LET meta == Boundaries(frames)
       IN IF meta # Boundaries(file.lines)
            THEN phase' = "failing" /\ UNCHANGED file
            ELSE /\ phase' = "sealed"
                 /\ file' = [file EXCEPT !.tail = meta, !.meta = meta,
                                         !.digest = <<file.lines, meta>>]
    /\ UNCHANGED <<inputVars, total, processVars, frames, writer, dir, faults>>

\* publish_staging_directory renames the directory and syncs its parent.  An
\* OSError after the rename is reported as uncertain, any other exception as a
\* failure; the process may also die there.  The published directory stays.
Publish ==
    /\ phase = "sealed"
    /\ \/ dir' = "published" /\ Leave /\ (NoFault \/ Fault)
       \/ phase' = "failing" /\ Fault
          /\ UNCHANGED <<inputVars, total, processVars, frames, writer, dir>>
    /\ UNCHANGED file

\* discard, then every close with its errors suppressed.  discard may fail
\* itself and leave the staging directory to the next start of the Engine.
Discard ==
    /\ phase = "failing"
    /\ Leave
    /\ \/ dir' = "none" /\ file' = NoFile /\ NoFault
       \/ Fault /\ UNCHANGED <<dir, file>>

\* The Runtime process dies after it made the staging directory (before, that
\* is Refuse or BuildFails); its sandboxed children die with it.
RuntimeDies ==
    /\ phase # "over" /\ dir = "staging" /\ Fault /\ Leave
    /\ UNCHANGED <<dir, file>>

RunInit ==
    /\ kind \in {"rows", "script"}
    /\ records \in IF kind = "rows" THEN UNION {[1..n -> Time] : n \in 0..MaxSamples}
                                    ELSE {<<>>}
    /\ recordCount \in IF kind = "rows" THEN 0..MaxSamples ELSE {0}
    /\ limit \in Limits
    /\ phase = "new" /\ total = 0
    /\ proc = NoProc /\ pipe = <<>> /\ completed = FALSE
    /\ frames = <<>> /\ writer = <<>>
    /\ dir = "none" /\ file = NoFile
    /\ faults = 0

WorkerNext == EmitSample \/ EmitEnd \/ Noise \/ WorkerExits \/ WorkerDies
FramesNext == NextRow \/ ReadMessage \/ ScriptEnds \/ RowsEnd \/ LimitEnds
StartNext == Admit \/ VerifyInputs \/ VerifyGraphs \/ OpenRows \/ OpenScript
               \/ OpenProvider \/ Refuse \/ CountRows \/ CountScript
               \/ BuildGraphs \/ OpenWriter \/ BuildFails \/ StartRows \/ StartScript
WriterNext == AppendCycle \/ EndOfFrames \/ Finalize \/ CloseRuntimes
                \/ FlushCycles \/ Seal \/ Publish
RunNext == StartNext \/ WorkerNext \/ FramesNext \/ WriterNext
             \/ StepFails \/ Discard \/ RuntimeDies

-----------------------------------------------------------------------------
(* Properties *)

\* Before the first frame, once the frames are at an end, and once the count
\* was compared.
Opening == {"new", "admitted", "inputs", "prepared", "opened", "ready",
            "counted", "graphs", "built"}
Counted == {"finalizing", "closing", "closed", "flushed", "sealed"}
Ending == {"ended"} \cup Counted

FrameRows == [id : Nat, time : Time]
LineRows == [id : Nat, good : {"yes", "framing", "data"}]
ProcRows == [state : {"none", "live", "exited", "left"}, sent : Nat,
             done : {"no", "complete", "error"}, code : {0, 1}]
Messages == Sample \cup [type : {"complete", "error", "noise"}]

RunTypeOK ==
    /\ phase \in Opening \cup Ending \cup {"next", "cycle", "failing", "over"}
    /\ dir \in {"none", "staging", "published"}
    /\ kind \in {"rows", "script", "none"}
    /\ faults \in Nat /\ recordCount \in Nat /\ limit \in Nat /\ total \in Nat
    /\ records \in Seq(Time)
    /\ proc \in ProcRows /\ pipe \in Seq(Messages) /\ completed \in BOOLEAN
    /\ frames \in Seq(FrameRows) /\ writer \in Seq(LineRows)
    /\ DOMAIN file = {"lines", "tail", "whole", "digest", "meta"}
    /\ file.lines \in Seq(LineRows)

CompleteResult ==
    /\ file.lines = [i \in DOMAIN frames |-> Line(frames[i])]
    /\ writer = <<>> /\ Len(frames) = total
    /\ Cardinality(Ids(frames)) = Len(frames) /\ Ordered(frames)
    /\ file.digest = Content(file)
    /\ file.tail = Boundaries(frames) /\ file.meta = file.tail
    /\ limit = 0 \/ Len(frames) < limit =>
         IF kind = "rows" THEN Len(frames) = Len(records)
                          ELSE completed /\ proc.code = 0
    /\ limit # 0 => Len(frames) <= limit

\* Whatever the Sampler's process does, and whichever call fails, the Result
\* the writer publishes holds exactly the counted cycles, under distinct ids
\* and in the order of their instants, its digest and metadata are those of its
\* bytes, and below its limit the Sampler was read to its own end: all
\* records, or a completion message followed by exit code 0 (execute_backtest,
\* BacktestSampleProvider.__iter__, PythonScriptSampler._iterate, finish).
PublishedIsComplete ==
    [][dir # "published" /\ dir' = "published" => CompleteResult]_runVars

-----------------------------------------------------------------------------
(* The inductive invariant of a run *)

\* The provider's frames have distinct ids, are in order and within the limit.
FramesInv ==
    /\ Ordered(frames)
    /\ IsFiniteSet(Ids(frames)) /\ Cardinality(Ids(frames)) = Len(frames)
    /\ limit # 0 => Len(frames) <= limit

\* What was appended, in memory and in the file, are the frames so far: all of
\* them between two cycles, all but the last within one.
WrittenInv ==
    /\ phase \in Opening => frames = <<>> /\ writer = <<>>
    /\ phase = "built" => file.lines = <<>>
    /\ phase \in Ending \cup {"next"} =>
         Written = [i \in 1..Len(frames) |-> Line(frames[i])]
    /\ phase = "cycle" =>
         /\ frames # <<>>
         /\ Written = [i \in 1..(Len(frames) - 1) |-> Line(frames[i])]
    /\ phase \in {"flushed", "sealed"} => writer = <<>>

\* Once the frames are at an end the worker is gone, or left at the limit, and
\* below the limit the Sampler was read to its own end.
EndInv ==
    /\ kind = "rows" => proc.state = "none"
    /\ phase \in Ending =>
         /\ proc.state = "none" \/ (proc.state = "left" /\ LimitReached)
         /\ limit = 0 \/ Len(frames) < limit =>
              IF kind = "rows" THEN Len(frames) = Len(records)
                               ELSE completed /\ proc.code = 0
    /\ phase \in Counted => Len(frames) = total

SealInv ==
    phase = "sealed" =>
        /\ file.digest = Content(file)
        /\ file.tail = Boundaries(frames) /\ file.meta = file.tail

RunInv == RunTypeOK /\ FramesInv /\ WrittenInv /\ EndInv /\ SealInv
=============================================================================
