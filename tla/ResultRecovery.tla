--------------------------- MODULE ResultRecovery ---------------------------
(***************************************************************************)
(* What the Engine does with the Result a Runtime published (BacktestRun): *)
(* it verifies the archive in processes of its own, one per shard of cycle *)
(* lines, indexes it in the catalog, and later projects it for a reader in *)
(* a further process.  Engine shutdown runs at the same time, and the      *)
(* bytes on disk may be changed by somebody else at any moment.            *)
(*                                                                         *)
(* A line is well formed, not a cycle ("framing") or a cycle whose data    *)
(* breaks its contract ("data").  Every change of the archive gives it a   *)
(* new identity (inode, size and times of its directory and files).        *)
(*                                                                         *)
(* Bounds: MaxShards shards, MaxDamage changes, MaxTasks requests,         *)
(* MaxRecoveries of them recoveries.                                       *)
(***************************************************************************)
EXTENDS BacktestRun

CONSTANTS MaxShards, MaxDamage, MaxRecoveries, MaxTasks

ASSUME RecoveryAssumption ==
    /\ {MaxShards, MaxDamage, MaxRecoveries, MaxTasks} \subseteq Nat
    /\ MaxShards > 0

VARIABLES
    identity, \* _archive_identity: the number of changes so far
    row,      \* the catalog row (Catalogued), or none
    task,     \* the request in progress
    tasks,    \* requests so far
    entries,  \* worker processes of all requests: session, scratch, outcome, dest
    stopping, \* registry.is_stopping("result:")
    shut,     \* where shutdown_result_runtimes stands
    reply     \* what the last request was told

recoveryVars == <<identity, row, task, tasks, entries, stopping, shut, reply>>
vars == <<runVars, recoveryVars>>

NoRow == <<>>
Idle == [step |-> "idle", from |-> 1, at |-> 1, id |-> 0, evidence |-> NoRow,
         seen |-> <<>>, verdict |-> "none", error |-> FALSE]
NoOutcome == [status |-> "none", kind |-> "none", at |-> 0, claims |-> {},
              first |-> 0, last |-> 0]
NoShutdown == [step |-> "no", snap |-> {}, keys |-> {}]

\* session: the registry holds it.  scratch: its temporary directory is "own",
\* kept for a later release ("pending") or "gone"; remove: the flag
\* removeDestinationOnRelease of the session's metadata; kept: the copy of
\* that flag _PENDING_RELEASES holds; dest: the destination file of a
\* projection (lo is 0 in the entry of a projection).
Entry(lo, hi, remove) ==
    [lo |-> lo, hi |-> hi, worker |-> "unstarted", session |-> FALSE,
     outcome |-> NoOutcome, scratch |-> "own", remove |-> remove, kept |-> FALSE,
     dest |-> "none"]

\* A request begins; its entries are the ones from here on.
Begin(step, evidence) ==
    [step |-> step, from |-> Len(entries) + 1, at |-> Len(entries) + 1, id |-> 0,
     evidence |-> evidence, seen |-> <<>>, verdict |-> "none", error |-> FALSE]

Own == task.from..Len(entries)
Current == entries[task.at]
Alive(e) == e.worker = "live"

-----------------------------------------------------------------------------
(* Reading cycle lines: iter_framed_cycle_values and require_cycle *)

\* What is wrong with line k for a reader that started at line lo.  The id is
\* claimed before the data are validated.
KindAt(lines, lo, k) ==
    CASE lines[k].good = "framing" -> "framing"
      [] lines[k].good # "framing" /\ (\E j \in lo..(k - 1) : lines[j].id = lines[k].id) ->
           "duplicate"
      [] OTHER -> IF lines[k].good = "data" THEN "data" ELSE "none"

BadLines(lines, lo, hi) == {k \in lo..hi : KindAt(lines, lo, k) # "none"}
FirstBad(lines, lo, hi) ==
    IF BadLines(lines, lo, hi) = {} THEN 0 ELSE Min(BadLines(lines, lo, hi))

\* ResultCycleIdentityLedger: the identities claimed by a shard, with the line.
Claims(lines, lo, hi, bad) ==
    {<<lines[k].id, k>> : k \in {j \in lo..hi :
        bad = 0 \/ j < bad \/ (j = bad /\ KindAt(lines, lo, j) = "data")}}

\* verify_specification.
ShardOutcome(lines, lo, hi) ==
    LET bad == FirstBad(lines, lo, hi) IN
    [status |-> IF bad = 0 THEN "verified" ELSE "rejected",
     kind |-> IF bad = 0 THEN "none" ELSE KindAt(lines, lo, bad),
     at |-> IF bad = 0 THEN 0 ELSE bad - lo,
     claims |-> Claims(lines, lo, hi, bad),
     first |-> lines[lo].id, last |-> lines[hi].id]

\* require_metadata: the tail states the count and the boundaries of the lines.
StatesLines(tail, lines) == tail = Boundaries(lines)

\* ResultArchiveReader: the lines in one pass, then the size and the digest.
ReadsToTheEnd(f, evidence) ==
    /\ f.whole
    /\ BadLines(f.lines, 1, Len(f.lines)) = {}
    /\ Content(f) = evidence.digest

\* write_projection, with the checks write_verified_result_projection gives it.
Reads(f, evidence) ==
    /\ ReadsToTheEnd(f, evidence)
    /\ f.tail = evidence.meta /\ StatesLines(f.tail, f.lines)

-----------------------------------------------------------------------------
(* Somebody changes the sealed archive *)

\* The lines one rewrite of line l may leave: broken bytes, invalid data, or
\* the id of some line.
Rewrites(l) == {[l EXCEPT !.good = g] : g \in {"yes", "framing", "data"}}
                 \cup {[l EXCEPT !.id = i] : i \in Ids(file.lines)}

\* One rewrite of two lines at most, of the tail's count, of the manifest's,
\* or a truncation.
Damage ==
    /\ phase = "over" /\ dir = "published" /\ identity < MaxDamage
    /\ task.step # "idle" \/ tasks < MaxTasks
    /\ identity' = identity + 1
    /\ \/ \E j, k \in DOMAIN file.lines :
            /\ j < k \/ Len(file.lines) = 1
            /\ \E a \in Rewrites(file.lines[j]), b \in Rewrites(file.lines[k]) :
                 LET lines == [file.lines EXCEPT ![j] = a, ![k] = b]
                 IN lines # file.lines /\ file' = [file EXCEPT !.lines = lines]
       \/ file' = [file EXCEPT !.tail.count = @ + 1]
       \/ file.whole /\ file' = [file EXCEPT !.whole = FALSE]
       \/ file' = [file EXCEPT !.meta.count = @ + 1]
    /\ UNCHANGED <<inputVars, phase, total, processVars, frames, writer, dir,
                   faults, row, task, tasks, entries, stopping, shut, reply>>

-----------------------------------------------------------------------------
(* verify_result_archive_in_runtimes *)

Say(r) == reply' = r /\ task' = Idle
Go(t) == task' = t /\ UNCHANGED reply
Decide(v) == Go([task EXCEPT !.step = "cleanup", !.at = task.from, !.verdict = v, !.seen = <<>>])

\* _archive_identity, against the one the verification began with.
Unchanged == identity = task.id

\* load_unindexed_result_archive: the manifest is the evidence.
ManifestEvidence == [digest |-> file.digest, meta |-> file.meta]

LoadEvidence ==
    /\ phase = "over" /\ dir = "published" /\ row = NoRow
    /\ task.step = "idle" /\ tasks < MaxRecoveries
    /\ tasks' = tasks + 1
    /\ IF file.whole
         THEN task' = Begin("loaded", ManifestEvidence) /\ reply' = "none"
         ELSE Say("rejected")
    /\ UNCHANGED <<runVars, identity, row, entries, stopping, shut>>

\* plan_framed_cycle_ranges: at most MaxShards contiguous ranges cover the
\* lines; any lines may be the last ones of their ranges.
Plans(n) ==
    {ends \in UNION {[1..m -> 1..n] : m \in 1..MaxShards} :
        /\ \A i, j \in DOMAIN ends : i < j => ends[i] < ends[j]
        /\ ends[Len(ends)] = n}
Ranges(ends) ==
    [i \in DOMAIN ends |->
       Entry(IF i = 1 THEN 1 ELSE ends[i - 1] + 1, ends[i], FALSE)]

StartVerify ==
    /\ task.step = "loaded"
    /\ LET n == Len(file.lines) IN
       IF stopping \/ ~file.whole \/ file.meta # task.evidence.meta
         THEN Say(IF stopping THEN "stopped" ELSE "rejected") /\ UNCHANGED entries
         ELSE /\ IF n = 0 THEN UNCHANGED entries
                 ELSE \E ends \in Plans(n) : entries' = entries \o Ranges(ends)
              /\ Go([task EXCEPT !.step = "starting", !.at = task.from, !.id = identity])
    /\ UNCHANGED <<runVars, identity, row, tasks, stopping, shut>>

\* registry.start under the registry's lock: refused once the Engine stops; a
\* failed start is cleaned up, or leaves its process and a placeholder session.
Held(i) == [entries EXCEPT ![i].worker = "live", ![i].session = TRUE]
Starts(i) == ~stopping /\ NoFault /\ entries' = Held(i)
StartFails(i) ==
    \/ stopping /\ NoFault /\ UNCHANGED entries
    \/ ~stopping /\ Fault /\ entries' \in {entries, Held(i)}

StartShard ==
    /\ task.step = "starting" /\ task.at <= Len(entries)
    /\ \/ Starts(task.at) /\ Go([task EXCEPT !.at = @ + 1])
       \/ /\ StartFails(task.at)
          /\ Decide(IF stopping THEN "stopped" ELSE "process")
    /\ UNCHANGED <<inputVars, phase, total, processVars, frames, writer, dir,
                   file, identity, row, tasks, stopping, shut>>

\* hash_result_archive and read_framed_result_metadata.
Seen == [whole |-> file.whole, content |-> Content(file), tail |-> file.tail]

\* The parent reads the whole file itself while the shards run.
ParentReads ==
    /\ task.step = "starting" /\ task.at = Len(entries) + 1
    /\ Go([task EXCEPT !.step = "waiting", !.seen = Seen])
    /\ UNCHANGED <<runVars, identity, row, tasks, entries, stopping, shut>>

\* A verifier process, in its own time: it leaves an outcome, or dies without.
VerifyShard(i) ==
    /\ entries[i].lo > 0 /\ Alive(entries[i])
    /\ \/ /\ entries' = [entries EXCEPT ![i].worker = "done",
               ![i].outcome = ShardOutcome(file.lines, entries[i].lo, entries[i].hi)]
          /\ NoFault
       \/ entries' = [entries EXCEPT ![i].worker = "failed"] /\ Fault
    /\ UNCHANGED <<inputVars, phase, total, processVars, frames, writer, dir,
                   file, identity, row, task, tasks, stopping, shut, reply>>

\* merge_cycle_identity_ledgers over the ledgers before shard n: the lines
\* whose identity an earlier shard holds.
CrossDuplicates(n) ==
    {c[2] : c \in UNION {{b \in entries[s].outcome.claims :
        \E t \in task.from..(s - 1) : \E a \in entries[t].outcome.claims : a[1] = b[1]}
          : s \in task.from..n}}

\* _raise_earliest_cycle_domain_error for a rejection at a line, or for none.
DuplicateWinsStrictly(dups, rejection) == \E d \in dups : d < rejection
DuplicateWins(dups, rejection) == \E d \in dups : d <= rejection

\* The whole-file checks, in their order, once no cycle is at fault.
FileVerdict(n) ==
    LET e == task.evidence
        bounds == [count |-> n,
                   first |-> IF n = 0 THEN 0 ELSE entries[task.from].outcome.first,
                   last |-> IF n = 0 THEN 0 ELSE Last(entries).outcome.last]
    IN CASE ~task.seen.whole -> "size"
         [] task.seen.whole /\ task.seen.content # e.digest -> "digest"
         [] OTHER -> IF task.seen.tail # e.meta \/ task.seen.tail # bounds
                       THEN "metadata"
                       ELSE IF ~Unchanged THEN "changed" ELSE "accepted"

\* The verifier exited with 0 and left an outcome _require_verifier_outcome
\* accepts.
HasOutcome(e) == e.worker = "done"

\* The shards are interpreted in the order of their ranges.
Interpreted ==
    LET bad == {i \in Own : ~HasOutcome(entries[i]) \/ entries[i].outcome.status = "rejected"}
    IN IF bad = {}
         THEN IF CrossDuplicates(Len(entries)) # {} THEN "duplicate"
              ELSE FileVerdict(IF Own = {} THEN 0 ELSE Last(entries).hi)
         ELSE LET b == Min(bad)
                  e == entries[b]
              IN IF ~HasOutcome(e)
                   THEN IF CrossDuplicates(b - 1) # {} THEN "duplicate" ELSE "process"
                   ELSE IF DuplicateWins(CrossDuplicates(b), e.lo + e.outcome.at)
                          THEN "duplicate" ELSE e.outcome.kind

Interpret ==
    /\ task.step = "waiting" /\ \A i \in Own : ~Alive(entries[i])
    /\ Decide(Interpreted)
    /\ UNCHANGED <<runVars, identity, row, tasks, entries, stopping, shut>>

\* The wait loop sees the stop while a shard is still running.
WaitStopped ==
    /\ task.step = "waiting" /\ stopping /\ \E i \in Own : Alive(entries[i])
    /\ Decide("stopped")
    /\ UNCHANGED <<runVars, identity, row, tasks, entries, stopping, shut>>

-----------------------------------------------------------------------------
(* Sessions and their scratch directories *)

Ended(e) == [e EXCEPT !.session = FALSE,
                      !.worker = IF Alive(e) THEN "failed" ELSE @]

\* registry.finish: the tree is gone and the session released, with or without
\* an error of the first attempt; or the session is retained, with its process
\* or only its streams not proven closed.  The last field is the error.
Finishes(e) ==
    IF ~e.session THEN {<<e, FALSE>>}
    ELSE {<<Ended(e), FALSE>>}
           \cup (IF faults < MaxFaults
                   THEN {<<Ended(e), TRUE>>, <<e, TRUE>>,
                         <<[Ended(e) EXCEPT !.session = TRUE], TRUE>>}
                   ELSE {})

NeverRetained(e) == FALSE

\* registry.is_current after finish.
Retained(e) == e.session

\* _retain_pending_release keeps the first copy of the metadata.
Keep(e) == IF e.scratch = "own" THEN [e EXCEPT !.scratch = "pending", !.kept = e.remove]
           ELSE e

\* destination.unlink(missing_ok=True), which may fail.
Unlinked(e) == [e EXCEPT !.dest = IF @ = "written" THEN "removed" ELSE @]
Unlinks(e) ==
    {<<Unlinked(e), FALSE>>} \cup (IF faults < MaxFaults THEN {<<e, TRUE>>} ELSE {})

\* _cleanup_released_runtime: the destination goes when the copy says so, and
\* then the scratch.  Either may fail; the release then stays pending,
\* whatever the other one did.
Cleared(e) == IF e.kept THEN Unlinked(e) ELSE e
Released(e) ==
    IF e.scratch # "pending" THEN {<<e, FALSE>>}
    ELSE {<<[Cleared(e) EXCEPT !.scratch = "gone"], FALSE>>}
           \cup (IF faults < MaxFaults THEN {<<e, TRUE>>, <<Cleared(e), TRUE>>} ELSE {})

Spend(error) == faults' = IF error THEN faults + 1 ELSE faults

\* _cleanup_verifier_entries, entry by entry.
CleanupShard ==
    /\ task.step = "cleanup" /\ task.at <= Len(entries)
    /\ \E f \in Finishes(Current) :
         \E r \in (IF Retained(f[1]) THEN {<<f[1], FALSE>>} ELSE Released(Keep(f[1]))) :
           /\ ~(f[2] /\ r[2])
           /\ Spend(f[2] \/ r[2])
           /\ entries' = [entries EXCEPT ![task.at] = [r[1] EXCEPT !.outcome = NoOutcome]]
           /\ Go([task EXCEPT !.at = @ + 1, !.error = @ \/ f[2] \/ r[2]])
    /\ UNCHANGED <<inputVars, phase, total, processVars, frames, writer, dir,
                   file, identity, row, tasks, stopping, shut>>

\* A cleanup error replaces success and nothing else.
EndVerify ==
    /\ task.step = "cleanup" /\ task.at = Len(entries) + 1
    /\ IF task.verdict = "accepted" /\ ~task.error
         THEN Go([task EXCEPT !.step = "commit"])
         ELSE Say(IF task.verdict = "accepted" THEN "process" ELSE "rejected")
    /\ UNCHANGED <<runVars, identity, row, tasks, entries, stopping, shut>>

-----------------------------------------------------------------------------
(* The catalog *)

\* What the rows hold of the evidence: the digest, and of the metadata the
\* Data Keys, the execution chain and the metrics, not the boundaries.
Catalogued(e) == [digest |-> e.digest, count |-> e.meta.count]

\* The rows are inserted unless the Backtest has some.
Inserted == IF row = NoRow THEN Catalogued(task.evidence) ELSE row

\* commit_recovered_result_catalog: a lost answer is resolved by reading the
\* rows back; when they cannot be read, they may be there all the same.
Commit ==
    /\ task.step = "commit"
    /\ \/ /\ row' = Inserted
          /\ Go([task EXCEPT !.step = "receipt"]) /\ NoFault
       \/ Say("process") /\ Fault /\ row' \in {row, Inserted}
    /\ UNCHANGED <<inputVars, phase, total, processVars, frames, writer, dir,
                   file, identity, tasks, entries, stopping, shut>>

ReceiptOfRow == row = Catalogued(task.evidence)

\* require_recovered_result_commit: the archive is still the one verified, and
\* the rows are the ones just written.
ReceiptHolds == Unchanged /\ row = Catalogued(task.evidence)

Receipt ==
    /\ task.step = "receipt"
    /\ Say(IF ReceiptHolds THEN "recovered" ELSE "rejected")
    /\ UNCHANGED <<runVars, identity, row, tasks, entries, stopping, shut>>

-----------------------------------------------------------------------------
(* write_result_projection_in_runtime *)

\* load_result_archive_evidence: the size and the digest the manifest states
\* are the index's ...
SealedAsIndexed == file.whole /\ file.digest = row.digest

\* ... and so is what the index holds of its copy of the metadata.
CatalogAgrees == file.meta.count = row.count
Indexed == SealedAsIndexed /\ CatalogAgrees

\* A recovery that finds the rows there: only the digest of the bytes is
\* computed again.
RecoverIndexed ==
    /\ phase = "over" /\ dir = "published" /\ row # NoRow
    /\ task.step = "idle" /\ tasks < MaxTasks
    /\ tasks' = tasks + 1
    /\ Say(IF Indexed /\ Content(file) = row.digest THEN "recovered" ELSE "rejected")
    /\ UNCHANGED <<runVars, identity, row, entries, stopping, shut>>

StartProjection ==
    /\ phase = "over" /\ dir = "published" /\ row # NoRow
    /\ task.step = "idle" /\ tasks < MaxTasks
    /\ tasks' = tasks + 1
    /\ IF stopping \/ ~Indexed
         THEN Say(IF stopping THEN "stopped" ELSE "rejected") /\ UNCHANGED entries
         ELSE /\ entries' = Append(entries, Entry(0, 0, TRUE))
              /\ task' = Begin("launch", ManifestEvidence) /\ reply' = "none"
    /\ UNCHANGED <<runVars, identity, row, stopping, shut>>

Launch ==
    /\ task.step = "launch"
    /\ \/ Starts(task.at) /\ Go([task EXCEPT !.step = "watch"])
       \/ /\ StartFails(task.at)
          /\ Go([task EXCEPT !.step = "finish", !.verdict = "process"])
    /\ UNCHANGED <<inputVars, phase, total, processVars, frames, writer, dir,
                   file, identity, row, tasks, stopping, shut>>

\* The evidence a projection was given, whatever became of its request: the
\* manifest it read agreed with the rows, and of its metadata only the count is
\* ever changed (Damage).
Given == [digest |-> row.digest, meta |-> [file.meta EXCEPT !.count = row.count]]

\* write_verified_result_projection in the worker: the archive is read to its
\* end and checked while <destination>.tmp is written; os.replace is last.
ProjectWrites(i) ==
    /\ entries[i].lo = 0 /\ Alive(entries[i]) /\ entries[i].dest = "none"
    /\ Reads(file, Given)
    /\ entries' = [entries EXCEPT ![i].dest = "written"]
    /\ UNCHANGED <<runVars, identity, row, task, tasks, stopping, shut, reply>>

\* The worker's main returns 0, or removes what it wrote and returns 1; it may
\* be killed before it does, and the removal may fail.
ProjectEnds(i) ==
    /\ entries[i].lo = 0 /\ Alive(entries[i])
    /\ \/ /\ entries[i].dest = "written" /\ NoFault
          /\ entries' = [entries EXCEPT ![i].worker = "done"]
       \/ /\ IF Reads(file, Given) \/ entries[i].dest = "written" THEN Fault ELSE NoFault
          /\ \E d \in {"none", entries[i].dest} :
               entries' = [entries EXCEPT ![i].worker = "failed", ![i].dest = d]
    /\ UNCHANGED <<inputVars, phase, total, processVars, frames, writer, dir,
                   file, identity, row, task, tasks, stopping, shut, reply>>

\* The wait loop: the worker ended, or the Engine stops.
Watch ==
    /\ task.step = "watch" /\ (stopping \/ ~Alive(Current))
    /\ Go([task EXCEPT !.step = "finish",
             !.verdict = IF stopping THEN "stopped"
                         ELSE IF Current.worker = "done" THEN "accepted" ELSE "process"])
    /\ UNCHANGED <<runVars, identity, row, tasks, entries, stopping, shut>>

FinishProjection ==
    /\ task.step = "finish"
    /\ \E f \in Finishes(Current) :
         /\ Spend(f[2])
         /\ entries' = [entries EXCEPT ![task.at] = f[1]]
         /\ Go([task EXCEPT !.step = "check", !.error = f[2]])
    /\ UNCHANGED <<inputVars, phase, total, processVars, frames, writer, dir,
                   file, identity, row, tasks, stopping, shut>>

\* A valid destination clears the flag, on the session's metadata.
CheckDestination ==
    /\ task.step = "check"
    /\ LET fine == task.verdict = "accepted" /\ ~task.error IN
       /\ entries' = IF fine /\ Current.dest = "written"
                       THEN [entries EXCEPT ![task.at].remove = FALSE] ELSE entries
       /\ Go([task EXCEPT !.step = "release",
                !.verdict = IF fine /\ Current.dest # "written" THEN "process" ELSE @])
    /\ UNCHANGED <<runVars, identity, row, tasks, stopping, shut>>

\* Mutant: the destination is removed under a worker that is retained.
AlwaysUnlinked(e) == TRUE

\* process_started and not retained.
MayUnlink(e) == ~Retained(e)

\* The release is tried, and a request that failed removes the destination.
ReleaseProjection ==
    /\ task.step = "release"
    /\ \E r \in (IF Retained(Current) THEN {<<Current, FALSE>>} ELSE Released(Keep(Current))) :
         LET failed == task.verdict # "accepted" \/ task.error \/ r[2] IN
         \E u \in (IF failed /\ MayUnlink(Current) THEN Unlinks(r[1]) ELSE {<<r[1], FALSE>>}) :
           /\ ~(r[2] /\ u[2])
           /\ Spend(r[2] \/ u[2])
           /\ entries' = [entries EXCEPT ![task.at] = u[1]]
           /\ Say(IF failed THEN "rejected" ELSE "projected")
    /\ UNCHANGED <<inputVars, phase, total, processVars, frames, writer, dir,
                   file, identity, row, tasks, stopping, shut>>

-----------------------------------------------------------------------------
(* shutdown_result_runtimes, and the end of the Engine *)

ShutdownSnapshot ==
    /\ phase = "over" /\ shut.step = "no" /\ tasks > 0
    /\ shut' = [NoShutdown EXCEPT !.step = "stop",
                  !.snap = {i \in DOMAIN entries : entries[i].session}]
    /\ UNCHANGED <<runVars, identity, row, task, tasks, entries, stopping, reply>>

ShutdownStops ==
    /\ shut.step = "stop"
    /\ stopping' = TRUE
    /\ shut' = [shut EXCEPT !.step = "kill"]
    /\ UNCHANGED <<runVars, identity, row, task, tasks, entries, reply>>

\* registry.shutdown, session by session; one that fails is passed over.
ShutdownKills ==
    /\ shut.step = "kill"
    /\ \/ \E i \in DOMAIN entries :
            /\ entries[i].session
            /\ \E f \in Finishes(entries[i]) :
                 /\ Spend(f[2])
                 /\ entries' = [entries EXCEPT ![i] = f[1]]
            /\ UNCHANGED shut
       \/ /\ \A i \in DOMAIN entries : ~entries[i].session \/ faults > 0
          /\ shut' = [shut EXCEPT !.step = "retain"]
          /\ UNCHANGED <<entries, faults>>
    /\ UNCHANGED <<inputVars, phase, total, processVars, frames, writer, dir,
                   file, identity, row, task, tasks, stopping, reply>>

\* The sessions of the snapshot that are no longer current are retained for
\* release ...
ShutdownRetains ==
    /\ shut.step = "retain"
    /\ entries' = [i \in DOMAIN entries |->
         IF i \in shut.snap /\ ~Retained(entries[i]) THEN Keep(entries[i]) ELSE entries[i]]
    /\ shut' = [shut EXCEPT !.step = "release",
                  !.keys = {i \in DOMAIN entries : entries'[i].scratch = "pending"}]
    /\ UNCHANGED <<runVars, identity, row, task, tasks, stopping, reply>>

\* ... and every release pending then is tried; one that fails stays pending.
ShutdownReleases ==
    /\ shut.step = "release"
    /\ \/ \E i \in DOMAIN entries :
            /\ i \in shut.keys
            /\ \E r \in Released(entries[i]) :
                 /\ Spend(r[2])
                 /\ entries' = [entries EXCEPT ![i] = r[1]]
            /\ shut' = [shut EXCEPT !.keys = @ \ {i}]
       \/ /\ shut.keys = {} /\ shut' = [shut EXCEPT !.step = "done"]
          /\ UNCHANGED <<entries, faults>>
    /\ UNCHANGED <<inputVars, phase, total, processVars, frames, writer, dir,
                   file, identity, row, task, tasks, stopping, reply>>

\* The Engine dies: its memory is lost and its workers with it.
EngineDies ==
    /\ phase = "over" /\ task.step # "idle" /\ Fault
    /\ task' = Idle /\ entries' = <<>> /\ stopping' = FALSE
    /\ shut' = NoShutdown /\ reply' = "none"
    /\ UNCHANGED <<inputVars, phase, total, processVars, frames, writer, dir,
                   file, identity, row, tasks>>

Init ==
    /\ RunInit
    /\ identity = 0 /\ row = NoRow /\ task = Idle /\ tasks = 0
    /\ entries = <<>> /\ stopping = FALSE /\ shut = NoShutdown
    /\ reply = "none"

VerifyNext ==
    \/ LoadEvidence \/ StartVerify \/ StartShard \/ ParentReads
    \/ (\E i \in DOMAIN entries : VerifyShard(i))
    \/ Interpret \/ WaitStopped \/ CleanupShard \/ EndVerify \/ Commit \/ Receipt
    \/ RecoverIndexed
ProjectNext ==
    \/ StartProjection \/ Launch
    \/ (\E i \in DOMAIN entries : ProjectWrites(i) \/ ProjectEnds(i))
    \/ Watch \/ FinishProjection \/ CheckDestination \/ ReleaseProjection
ShutdownNext == ShutdownSnapshot \/ ShutdownStops \/ ShutdownKills
                  \/ ShutdownRetains \/ ShutdownReleases

Next ==
    \/ RunNext /\ UNCHANGED recoveryVars
    \/ Damage \/ VerifyNext \/ ProjectNext \/ ShutdownNext \/ EngineDies

Spec == Init /\ [][Next]_vars

-----------------------------------------------------------------------------
(* Properties *)

OutcomeRows ==
    [status : {"none", "verified", "rejected"},
     kind : {"none", "framing", "duplicate", "data"}, at : Nat,
     claims : SUBSET (Nat \X Nat), first : Nat, last : Nat]
EntryRows ==
    [lo : Nat, hi : Nat, worker : {"unstarted", "live", "done", "failed"},
     session : BOOLEAN, outcome : OutcomeRows, scratch : {"own", "pending", "gone"},
     remove : BOOLEAN, kept : BOOLEAN, dest : {"none", "written", "removed"}]
Replies == {"none", "recovered", "projected", "rejected", "process", "stopped"}
ShutRows == [step : {"no", "stop", "kill", "retain", "release", "done"},
             snap : SUBSET Nat, keys : SUBSET Nat]
VerifySteps == {"loaded", "starting", "waiting", "cleanup", "commit", "receipt"}
ProjectSteps == {"launch", "watch", "finish", "check", "release"}

TaskTypeOK ==
    /\ DOMAIN task = {"step", "from", "at", "id", "evidence", "seen", "verdict", "error"}
    /\ task.step \in {"idle"} \cup VerifySteps \cup ProjectSteps
    /\ task.from \in Nat \ {0} /\ task.at \in Nat \ {0} /\ task.id \in Nat

TypeOK ==
    /\ RunTypeOK /\ TaskTypeOK
    /\ identity \in Nat /\ tasks \in Nat
    /\ stopping \in BOOLEAN
    /\ reply \in Replies
    /\ entries \in Seq(EntryRows)
    /\ shut \in ShutRows

\* What one reader of the whole file finds first.
SequentialKind(f) ==
    LET n == Len(f.lines)
        bad == FirstBad(f.lines, 1, n)
    IN IF bad = 0 THEN "none" ELSE KindAt(f.lines, 1, bad)

Decided == task.verdict = "none" /\ task'.verdict # "none" /\ task.step = "waiting"

\* However the lines are cut into shards, and in whatever order the verifiers
\* end, an unchanged archive gets the verdict of one sequential reader: its
\* first error wins (a duplicate id over the data of the same line), and a
\* crashed verifier is reported only when no line before its range is wrong.
\* Under concurrent changes an archive is accepted only if it is sound as it
\* stands (verify_result_archive_in_runtimes).
VerdictIsSequential ==
    [][Decided =>
         LET v == task'.verdict
             s == SequentialKind(file)
         IN /\ v = "accepted" => Reads(file, task.evidence)
            /\ identity = task.id /\ v \in {"framing", "duplicate", "data"} => v = s
            /\ identity = task.id /\ v \in {"accepted", "size", "digest", "metadata"} => s = "none"
            /\ identity = task.id /\ v = "process" =>
                 \E i \in Own : /\ entries[i].worker # "done"
                                /\ BadLines(file.lines, 1, entries[i].lo - 1) = {}]_vars

\* The archive is complete and sound, and is the one the rows describe.
DescribedBy(r) ==
    /\ ReadsToTheEnd(file, r)
    /\ StatesLines(file.tail, file.lines) /\ file.tail.count = r.count

\* A recovery that answers its caller has a catalog row that states the digest
\* and metrics of an archive that is, at that moment, complete and sound:
\* a change between the verification and the commit is noticed
\* (recover_backtest_result_catalog, require_recovered_result_commit).
RecoveredIsSound ==
    [][/\ reply' = "recovered"
       /\ reply # "recovered" \/ tasks' # tasks
       => row # NoRow /\ DescribedBy(row)]_vars

\* No failure of a start, a termination or a release, and no shutdown at the
\* same time, gives up the scratch directory or takes away the destination of a
\* worker that may still run: a release that is only pending is tried by
\* whoever comes next (_cleanup_verifier_entries,
\* write_result_projection_in_runtime, shutdown_result_runtimes).
ReleaseAfterQuiet ==
    \A i \in DOMAIN entries :
        entries[i].scratch # "own" \/ entries[i].dest = "removed" => ~Alive(entries[i])

-----------------------------------------------------------------------------
(* The inductive invariant *)

\* While a run is going on there is nothing to recover, an entry's range is one
\* of the published lines, and a projection has its entry.
ArchiveInv ==
    /\ phase # "over" => task.step = "idle" /\ entries = <<>>
    /\ task.id <= identity
    /\ task.step \in ProjectSteps => task.at \in DOMAIN entries
    /\ \A i \in DOMAIN entries : entries[i].lo > 0 =>
         entries[i].lo <= entries[i].hi /\ entries[i].hi <= Len(file.lines)

\* A live worker has a session, only a started one has, and what is released or
\* to be released has none.
Accounted(e) ==
    /\ Alive(e) => e.session
    /\ e.session => e.worker # "unstarted"
    /\ e.scratch # "own" => ~e.session
    /\ e.dest = "removed" => e.scratch # "own"
SessionInv == \A i \in DOMAIN entries : Accounted(entries[i])

\* A shutdown took its snapshot of workers that were started.
SnapInv == \A i \in shut.snap : i \in DOMAIN entries /\ entries[i].worker # "unstarted"

\* Entries whose worker is still to be started were touched by nobody, a
\* shutdown at the same time included.
Fresh(e) == e.worker = "unstarted" /\ ~e.session /\ e.scratch = "own"
FreshInv ==
    /\ task.step = "loaded" => task.from = Len(entries) + 1
    /\ task.step \in {"starting", "launch"} =>
         \A i \in DOMAIN entries : i >= task.at => Fresh(entries[i])

\* The shards of a verification partition the lines.
Partition ==
    /\ \A i \in Own : entries[i].lo > 0
    /\ \A i, j \in Own : i < j => entries[i].hi < entries[j].lo
    /\ \A k \in 1..Len(file.lines) :
         \E i \in Own : entries[i].lo <= k /\ k <= entries[i].hi

\* As long as the archive is the one the verification began with, what its
\* workers and the parent found is what is there now.
VerifyInv ==
    /\ task.step \in {"starting", "waiting"} =>
         /\ Partition
         /\ Unchanged => \A i \in Own : HasOutcome(entries[i]) =>
              entries[i].outcome = ShardOutcome(file.lines, entries[i].lo, entries[i].hi)
    /\ task.step = "waiting" /\ Unchanged => task.seen = Seen

\* Evidence that describes a sound archive, wherever that archive is now.
Sound(e) ==
    /\ BadLines(e.digest[1], 1, Len(e.digest[1])) = {}
    /\ e.digest[2] = e.meta /\ StatesLines(e.meta, e.digest[1])

SoundRow(r) ==
    /\ BadLines(r.digest[1], 1, Len(r.digest[1])) = {}
    /\ StatesLines(r.digest[2], r.digest[1]) /\ r.digest[2].count = r.count

AcceptInv ==
    /\ task.step \in VerifySteps => DOMAIN task.evidence = {"digest", "meta"}
    /\ task.step \in {"commit", "receipt"} => task.verdict = "accepted"
    /\ task.step \in {"cleanup", "commit", "receipt"} /\ task.verdict = "accepted" =>
         Sound(task.evidence) /\ (Unchanged => Reads(file, task.evidence))
    /\ row # NoRow => SoundRow(row)
    /\ task.step = "receipt" => row # NoRow

IndInv ==
    /\ RunInv /\ TypeOK
    /\ ArchiveInv /\ SessionInv /\ SnapInv /\ FreshInv /\ VerifyInv /\ AcceptInv
=============================================================================
