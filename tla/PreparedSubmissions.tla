------------------------ MODULE PreparedSubmissions -------------------------
(***************************************************************************)
(* Prepared Backtest submissions: a session freezes a request ("Build"),   *)
(* gets a one-shot token, and exchanges the token for a queued Job; frozen *)
(* requests are also kept in a bounded cache.  Handlers are the threads of *)
(* the HTTP server.                                                        *)
(*                                                                         *)
(* Sources: engine/service/backtest_submissions.py,                        *)
(* engine/service/backtests.py, engine/contracts/backtest.py,              *)
(* engine/jobs/manager.py (submit) and the routes of engine_service.py.    *)
(*                                                                         *)
(* A preparation holds the control-state lock throughout; the store has a  *)
(* lock of its own, and the clock is read before it is taken.  Digests are *)
(* injective, so requests and sessions stand for their digests.            *)
(***************************************************************************)
EXTENDS Naturals, Sequences, FiniteSets, SequencesExt

CONSTANTS
    Handlers, Sessions, Requests,
    Capacity,       \* max_entries
    Lifetime,       \* lifetime_seconds
    CacheLifetime,  \* build_cache_lifetime_seconds
    MaxTokens,      \* bound: tokens issued
    MaxClock,       \* bound: the clock
    MaxRestarts     \* bound: Engine restarts

ASSUME NumbersAssumption ==
    /\ Capacity \in Nat \ {0} /\ Lifetime \in Nat \ {0} /\ CacheLifetime \in Nat \ {0}
    /\ MaxTokens \in Nat /\ MaxClock \in Nat /\ MaxRestarts \in Nat

VARIABLES
    clock,
    entries,        \* _entries: token -> authority, as a set of records
    cache,          \* _build_cache, least recently used first
    issued,         \* authorities in the order of issue; the index is the token
    archived,       \* requests whose Dataset is archived
    jobs,           \* queued Jobs
    controlLock,    \* the handler in control_state_lock, or "none"
    pc, session, request, token, now,
    late,           \* handlers that began after their Dataset was archived
    restarts

store == <<entries, cache, issued>>
local == <<session, request, token, late>>
submissionVars  == <<clock, store, archived, jobs, controlLock, pc, local, now, restarts>>

Times == 0..(MaxClock + Lifetime + CacheLifetime)
Tokens == 1..MaxTokens
Authorities == [token : Tokens, session : Sessions, request : Requests, expires : Times]
Builds == [session : Sessions, request : Requests, expires : Times]
JobRows == [token : Tokens, session : Sessions, request : Requests,
            inTime : BOOLEAN, late : BOOLEAN]

TokenTypeOK ==
    /\ clock \in 0..MaxClock
    /\ entries \subseteq Authorities
    /\ issued \in Seq(Authorities)
    /\ archived \subseteq Requests
    /\ \A j \in jobs : j \in JobRows
    /\ controlLock \in Handlers \cup {"none"}
    /\ pc \in [Handlers -> {"idle", "lookup", "freeze", "issue", "reissue", "cache",
                            "consume", "admit", "insert"}]
    /\ session \in [Handlers -> Sessions \cup {"none"}]
    /\ request \in [Handlers -> Requests \cup {"none"}]
    /\ token \in [Handlers -> Tokens \cup {0}]
    /\ now \in [Handlers -> 0..MaxClock]
    /\ late \subseteq Handlers
    /\ restarts \in 0..MaxRestarts
    /\ \A h \in Handlers : pc[h] # "idle" =>
          session[h] \in Sessions /\ request[h] \in Requests

CacheTypeOK == cache \in Seq(Builds) /\ Len(cache) <= Capacity

SubmissionTypeOK == TokenTypeOK /\ CacheTypeOK

SubmissionInit ==
    /\ clock = 0 /\ entries = {} /\ cache = <<>> /\ issued = <<>>
    /\ archived = {} /\ jobs = {}
    /\ controlLock = "none"
    /\ pc = [h \in Handlers |-> "idle"]
    /\ session = [h \in Handlers |-> "none"]
    /\ request = [h \in Handlers |-> "none"]
    /\ token = [h \in Handlers |-> 0]
    /\ now = [h \in Handlers |-> 0]
    /\ late = {} /\ restarts = 0

Goto(h, label) == pc' = [pc EXCEPT ![h] = label]
ReadClock(h) == now' = [now EXCEPT ![h] = clock]

-----------------------------------------------------------------------------
(* The store.                                                              *)

(* _purge_expired_locked                                                   *)
Unexpired(es, h) == {e \in es : e.expires > now[h]}
UnexpiredBuilds(h) == SelectSeq(cache, LAMBDA b : b.expires > now[h])

IsBuildOf(b, h) == b.session = session[h] /\ b.request = request[h]
OtherBuilds(h) == SelectSeq(UnexpiredBuilds(h), LAMBDA b : ~IsBuildOf(b, h))

Superseded(h) == {e \in Unexpired(entries, h) : e.session = session[h]}

Remaining(h) == Unexpired(entries, h) \ Superseded(h)

HasRoom(h) == Superseded(h) # {} \/ Cardinality(Unexpired(entries, h)) < Capacity

(* popitem(last=False) until the capacity is met                           *)
Trimmed(builds) ==
    IF Len(builds) > Capacity THEN SubSeq(builds, Len(builds) - Capacity + 1, Len(builds))
    ELSE builds

Matches(e, h) == e.session = session[h] /\ e.request = request[h]

(* Mutant: the authority is read and not taken.                            *)
Left(h) == Unexpired(entries, h)
Taken(h) == {e \in Unexpired(entries, h) : e.token # token[h]}

-----------------------------------------------------------------------------
(* POST /api/backtest-submissions/prepare                                  *)

Begin(h, s, r, t) ==
    /\ pc[h] = "idle"
    /\ session' = [session EXCEPT ![h] = s]
    /\ request' = [request EXCEPT ![h] = r]
    /\ token' = [token EXCEPT ![h] = t]
    /\ late' = IF r \in archived THEN late \cup {h} ELSE late \ {h}
    /\ ReadClock(h)
    /\ UNCHANGED <<clock, store, archived, jobs, restarts>>

BeginPrepare(h, s, r) ==
    /\ controlLock = "none" /\ controlLock' = h
    /\ Begin(h, s, r, 0)
    /\ Goto(h, "lookup")

(* _get_cached_build                                                       *)
Lookup(h) ==
    LET found == SelectSeq(UnexpiredBuilds(h), LAMBDA b : IsBuildOf(b, h)) IN
    /\ pc[h] = "lookup"
    /\ entries' = Unexpired(entries, h)
    /\ cache' = OtherBuilds(h) \o found
    /\ Goto(h, IF found = <<>> THEN "freeze" ELSE "reissue")
    /\ ReadClock(h)
    /\ UNCHANGED <<clock, issued, archived, jobs, controlLock, local, restarts>>

(* Mutant: an archived Dataset is accepted.                                *)
AnyUsable(r) == TRUE

(* What resolve_backtest_composition and the admission check both require: *)
(* the Dataset is not archived, the Pipeline active.                       *)
Usable(r) == r \notin archived

Leave(h) ==
    /\ Goto(h, "idle")
    /\ session' = [session EXCEPT ![h] = "none"]
    /\ request' = [request EXCEPT ![h] = "none"]
    /\ token' = [token EXCEPT ![h] = 0]
    /\ now' = [now EXCEPT ![h] = 0]
    /\ late' = late \ {h}
    /\ UNCHANGED <<clock, archived, restarts>>

ReleaseLock(h) == controlLock' = IF controlLock = h THEN "none" ELSE controlLock

(* freeze_backtest_request                                                 *)
Freeze(h) ==
    /\ pc[h] = "freeze"
    /\ \/ /\ Usable(request[h])
          /\ Goto(h, "issue") /\ ReadClock(h)
          /\ UNCHANGED <<clock, issued, archived, controlLock, local, restarts>>
       \/ ~Usable(request[h]) /\ Leave(h) /\ ReleaseLock(h) /\ UNCHANGED issued
    /\ UNCHANGED <<entries, cache, jobs>>

(* _issue_prepared_submission.  A cached Build is not cached again.        *)
Issue(h) ==
    LET next == Len(issued) + 1
        e == [token |-> next, session |-> session[h], request |-> request[h],
              expires |-> now[h] + Lifetime] IN
    /\ pc[h] \in {"issue", "reissue"}
    /\ cache' = UnexpiredBuilds(h)
    /\ \/ /\ HasRoom(h) /\ next \in Tokens
          /\ entries' = Remaining(h) \cup {e}
          /\ issued' = Append(issued, e)
          /\ \/ /\ pc[h] = "issue" /\ Goto(h, "cache") /\ ReadClock(h)
                /\ UNCHANGED <<clock, archived, controlLock, local, restarts>>
             \/ pc[h] = "reissue" /\ Leave(h) /\ ReleaseLock(h)
       \/ /\ ~HasRoom(h)
          /\ entries' = Unexpired(entries, h) /\ UNCHANGED issued
          /\ Leave(h) /\ ReleaseLock(h)
    /\ UNCHANGED jobs

(* _cache_build                                                            *)
CacheBuild(h) ==
    LET build == [session |-> session[h], request |-> request[h],
                  expires |-> now[h] + CacheLifetime] IN
    /\ pc[h] = "cache"
    /\ entries' = Unexpired(entries, h)
    /\ cache' = Trimmed(Append(OtherBuilds(h), build))
    /\ Leave(h) /\ ReleaseLock(h)
    /\ UNCHANGED <<issued, jobs>>

-----------------------------------------------------------------------------
(* POST /api/backtests                                                     *)

BeginConsume(h, s, r, t) ==
    /\ t \in DOMAIN issued
    /\ Begin(h, s, r, t)
    /\ Goto(h, "consume")
    /\ UNCHANGED controlLock

(* consume: the authority is taken before it is compared.                  *)
Consume(h) ==
    LET found == {e \in Unexpired(entries, h) : e.token = token[h]} IN
    /\ pc[h] = "consume"
    /\ entries' = Taken(h)
    /\ cache' = UnexpiredBuilds(h)
    /\ \/ /\ \E e \in found : Matches(e, h)
          /\ Goto(h, "admit")
          /\ UNCHANGED <<clock, archived, local, now, restarts>>
       \/ (~\E e \in found : Matches(e, h)) /\ Leave(h)
    /\ UNCHANGED <<issued, jobs, controlLock>>

(* require_frozen_backtest_admission, in the control-state lock.  A        *)
(* submission without a token freezes instead (BacktestJobs).              *)
Admit(h) ==
    /\ pc[h] = "admit" /\ controlLock = "none"
    /\ \/ /\ Usable(request[h]) /\ Goto(h, "insert")
          /\ UNCHANGED <<clock, archived, local, now, restarts>>
       \/ ~Usable(request[h]) /\ Leave(h)
    /\ UNCHANGED <<store, jobs, controlLock>>

(* insert_queued, which may fail: the token is gone then.                  *)
Insert(h) ==
    /\ pc[h] = "insert"
    /\ \/ jobs' = jobs \cup {[token |-> token[h], session |-> session[h],
                              request |-> request[h], late |-> h \in late,
                              inTime |-> now[h] < issued[token[h]].expires]}
       \/ jobs' = jobs
    /\ Leave(h)
    /\ UNCHANGED <<store, controlLock>>

-----------------------------------------------------------------------------
(* archive_dataset does not take the control-state lock.                   *)
ArchiveDataset(r) ==
    /\ r \notin archived
    /\ archived' = archived \cup {r}
    /\ UNCHANGED <<clock, store, jobs, controlLock, pc, local, now, restarts>>

Tick ==
    /\ clock < MaxClock /\ clock' = clock + 1
    /\ UNCHANGED <<store, archived, jobs, controlLock, pc, local, now, restarts>>

(* The store is in memory only.                                            *)
Restart ==
    /\ restarts < MaxRestarts /\ restarts' = restarts + 1
    /\ entries' = {} /\ cache' = <<>>
    /\ controlLock' = "none"
    /\ pc' = [h \in Handlers |-> "idle"]
    /\ session' = [h \in Handlers |-> "none"]
    /\ request' = [h \in Handlers |-> "none"]
    /\ token' = [h \in Handlers |-> 0]
    /\ now' = [h \in Handlers |-> 0]
    /\ late' = {}
    /\ UNCHANGED <<clock, issued, archived, jobs>>

SubmissionNext ==
    \/ \E h \in Handlers :
          \/ \E s \in Sessions, r \in Requests :
                \/ BeginPrepare(h, s, r)
                \/ \E t \in Tokens : BeginConsume(h, s, r, t)
          \/ Lookup(h) \/ Freeze(h) \/ Issue(h) \/ CacheBuild(h)
          \/ Consume(h) \/ Admit(h) \/ Insert(h)
    \/ \E r \in Requests : ArchiveDataset(r)
    \/ Tick \/ Restart

SubmissionSpec == SubmissionInit /\ [][SubmissionNext]_submissionVars

-----------------------------------------------------------------------------
(***************************************************************************)
(* A token queues at most one Job, however many handlers present it: of    *)
(* the handlers and Jobs past consume, only one has it.  The Job is what   *)
(* was prepared, for the session that prepared it, and was asked for       *)
(* before the token's expiry, whatever was issued or restarted since.      *)
(***************************************************************************)
TokenIsOneShot ==
    /\ \A j \in jobs : /\ j.inTime
                       /\ j.session = issued[j.token].session
                       /\ j.request = issued[j.token].request
    /\ \A j, k \in jobs : j.token = k.token => j = k
    /\ \A h, i \in Handlers : h # i /\ token[h] = token[i] /\ token[h] # 0
            => ~(pc[h] \in {"admit", "insert"} /\ pc[i] \in {"admit", "insert"})
    /\ \A h \in Handlers, j \in jobs :
            pc[h] \in {"admit", "insert"} /\ token[h] # 0 => j.token # token[h]

(***************************************************************************)
(* No request that arrives after its Dataset was archived is queued,       *)
(* although the token or the cached Build is older than the archiving:     *)
(* the admission check looks at the Dataset again.                         *)
(***************************************************************************)
ArchivedIsRefused == \A j \in jobs : ~j.late

-----------------------------------------------------------------------------
(* The inductive invariant behind both properties.                         *)

(* Handlers that have taken a token and have not answered yet.             *)
Exchanging == {h \in Handlers : pc[h] \in {"admit", "insert"}}

(* A token is in one place only: in the store, with one handler, or in one *)
(* Job.  Wherever it is, it is what was issued under its number.           *)
StoreInv ==
    /\ \A t \in DOMAIN issued : issued[t].token = t
    /\ \A e \in entries : e.token \in DOMAIN issued /\ issued[e.token] = e
    /\ \A j \in jobs : /\ j.token \in DOMAIN issued
                       /\ \A e \in entries : e.token # j.token

HandlerInv(h) ==
    /\ token[h] \in DOMAIN issued
    /\ session[h] = issued[token[h]].session
    /\ request[h] = issued[token[h]].request
    /\ now[h] < issued[token[h]].expires
    /\ \A e \in entries : e.token # token[h]

(* Nothing takes an archiving back, so the check at the admission holds    *)
(* what the handler's arrival demands.                                     *)
LateInv ==
    /\ \A h \in late : request[h] \in archived
    /\ \A h \in Handlers : pc[h] = "insert" => h \notin late

SubmissionIndInv ==
    /\ TokenTypeOK
    /\ StoreInv
    /\ \A h \in Exchanging : HandlerInv(h)
    /\ LateInv
    /\ TokenIsOneShot
    /\ ArchivedIsRefused
=============================================================================
