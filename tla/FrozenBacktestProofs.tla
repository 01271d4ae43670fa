------------------------ MODULE FrozenBacktestProofs ------------------------
(***************************************************************************)
(* A Backtest from its prepared token to the cycle it records.             *)
(*                                                                         *)
(* The token is exchanged at most once, in time and for what it was issued *)
(* for, whatever the number of handlers, sessions, tokens, ticks and       *)
(* restarts; and no archived Dataset gets a Job through a late request.    *)
(* Both follow from SubmissionIndInv.  The Build cache is not part of it:  *)
(* it decides whether a preparation freezes again, never which tokens      *)
(* exist.                                                                  *)
(*                                                                         *)
(* The composition frozen for the token binds again to itself in the       *)
(* Engine's check and in the Runtime (FrozenInv), whatever the resources:  *)
(* its contracts are computed by the same operators from the same design.  *)
(* The cycle then runs on real data (PipelineInv).  The contract a stage   *)
(* declares is shown to describe what the heap holds for it; therefore no  *)
(* port lacks a guaranteed value and the recorded cycle is as the Result   *)
(* declares.  The data is shared by reference, so each step also has to    *)
(* leave what others still hold as it was: every writer appends cells, and *)
(* a projection writes only into cells that it made.                       *)
(*                                                                         *)
(* The sections: tokens; induction and the chains of contracts; one write  *)
(* to a contract state; the heap and reading from it; projections; the     *)
(* contracts of a whole design; `last`; the actions; reading a Result.     *)
(***************************************************************************)
EXTENDS PreparedSubmissions, BacktestPipeline, FiniteSetTheorems, WellFoundedInduction,
        SequenceTheorems, TLAPS

-----------------------------------------------------------------------------
(* Facts about the helpers.                                                *)

(* _purge_expired_locked only removes authorities.                         *)
LEMMA PurgeShrinks ==
    ASSUME NEW h
    PROVE  Unexpired(entries, h) \subseteq entries
BY DEF Unexpired

(* A step that only removes authorities, issues nothing, queues nothing    *)
(* and moves no handler past the exchange keeps the invariant's parts      *)
(* about tokens.                                                           *)
LEMMA ShrinkPreserves ==
    ASSUME SubmissionIndInv,
           entries' \subseteq entries, issued' = issued, jobs' = jobs,
           \A h \in Handlers : pc'[h] \in {"admit", "insert"} =>
               /\ pc[h] \in {"admit", "insert"}
               /\ token'[h] = token[h] /\ session'[h] = session[h]
               /\ request'[h] = request[h] /\ now'[h] = now[h]
    PROVE  /\ StoreInv' /\ TokenIsOneShot' /\ ArchivedIsRefused'
           /\ \A h \in Exchanging' : HandlerInv(h)'
<1>1. StoreInv'
    BY DEF SubmissionIndInv, StoreInv
<1>2. ArchivedIsRefused'
    BY DEF SubmissionIndInv, ArchivedIsRefused
<1>3. \A h \in Exchanging' : HandlerInv(h)'
    BY DEF SubmissionIndInv, Exchanging, HandlerInv
<1>4. TokenIsOneShot'
    BY DEF SubmissionIndInv, TokenIsOneShot
<1> QED
    BY <1>1, <1>2, <1>3, <1>4

-----------------------------------------------------------------------------
(* Preparation.                                                            *)

(* The invariant holds when the Engine starts.                             *)
LEMMA SubmissionInitEstablishes == SubmissionInit => SubmissionIndInv
BY NumbersAssumption DEF SubmissionInit, SubmissionIndInv, TokenTypeOK, StoreInv, Exchanging, LateInv, TokenIsOneShot,
        ArchivedIsRefused, JobRows, Tokens

(* A request arrives.                                                      *)
LEMMA BeginPreserves ==
    ASSUME SubmissionIndInv, NEW h \in Handlers, NEW s \in Sessions, NEW r \in Requests,
           BeginPrepare(h, s, r) \/ \E t \in Tokens : BeginConsume(h, s, r, t)
    PROVE  SubmissionIndInv'
<1> USE DEF BeginPrepare, BeginConsume, Begin, Goto, ReadClock, store
<1>1. TokenTypeOK'
  <2>1. CASE BeginPrepare(h, s, r)
    BY <2>1 DEF SubmissionIndInv, TokenTypeOK
  <2>2. CASE \E t \in Tokens : BeginConsume(h, s, r, t)
    BY <2>2 DEF SubmissionIndInv, TokenTypeOK
  <2> QED
    BY <2>1, <2>2
<1>2. LateInv'
  <2>1. \A i \in Handlers : pc'[i] # "insert" \/ (pc[i] = "insert" /\ i # h)
    BY DEF SubmissionIndInv, TokenTypeOK
  <2>2. \A i \in late' : request'[i] \in archived
    BY DEF SubmissionIndInv, TokenTypeOK, LateInv
  <2> QED
    BY <2>1, <2>2 DEF SubmissionIndInv, TokenTypeOK, LateInv
<1>3. \A i \in Handlers : pc'[i] \in {"admit", "insert"} =>
               /\ pc[i] \in {"admit", "insert"}
               /\ token'[i] = token[i] /\ session'[i] = session[i]
               /\ request'[i] = request[i] /\ now'[i] = now[i]
    BY DEF SubmissionIndInv, TokenTypeOK
<1> QED
    BY <1>1, <1>2, <1>3, ShrinkPreserves DEF SubmissionIndInv

(* A handler that leaves is at none of the labels the invariant is about.  *)
LEMMA LeaveFrees ==
    ASSUME SubmissionIndInv, NEW h \in Handlers, Leave(h)
    PROVE  /\ LateInv'
           /\ \A i \in Handlers : pc'[i] \in {"admit", "insert"} =>
               /\ pc[i] \in {"admit", "insert"}
               /\ token'[i] = token[i] /\ session'[i] = session[i]
               /\ request'[i] = request[i] /\ now'[i] = now[i]
BY DEF SubmissionIndInv, TokenTypeOK, LateInv, Leave, Goto

(* An answered request leaves typed state.                                 *)
LEMMA LeaveTypes ==
    ASSUME SubmissionIndInv, NEW h \in Handlers, Leave(h), entries' \subseteq Authorities,
           issued' \in Seq(Authorities), \A j \in jobs' : j \in JobRows,
           ReleaseLock(h) \/ controlLock' = controlLock
    PROVE  TokenTypeOK'
BY NumbersAssumption DEF SubmissionIndInv, TokenTypeOK, Leave, Goto, ReleaseLock

(* The token is looked up.                                                 *)
LEMMA LookupPreserves ==
    ASSUME SubmissionIndInv, NEW h \in Handlers, Lookup(h)
    PROVE  SubmissionIndInv'
<1> USE DEF Lookup, Goto, ReadClock, local
<1>1. entries' \subseteq entries
    BY PurgeShrinks
<1>2. TokenTypeOK'
    BY <1>1 DEF SubmissionIndInv, TokenTypeOK
<1>3. LateInv'
    BY DEF SubmissionIndInv, TokenTypeOK, LateInv
<1>4. \A i \in Handlers : pc'[i] \in {"admit", "insert"} =>
               /\ pc[i] \in {"admit", "insert"}
               /\ token'[i] = token[i] /\ session'[i] = session[i]
               /\ request'[i] = request[i] /\ now'[i] = now[i]
    BY DEF SubmissionIndInv, TokenTypeOK
<1> QED
    BY <1>1, <1>2, <1>3, <1>4, ShrinkPreserves DEF SubmissionIndInv

(* The inputs are frozen.                                                  *)
LEMMA FreezePreserves ==
    ASSUME SubmissionIndInv, NEW h \in Handlers, Freeze(h)
    PROVE  SubmissionIndInv'
<1>1. entries' = entries /\ jobs' = jobs /\ issued' = issued /\ pc[h] = "freeze"
    BY DEF Freeze
<1>2. CASE Leave(h) /\ ReleaseLock(h)
  <2>1. TokenTypeOK'
    BY <1>1, <1>2, LeaveTypes DEF SubmissionIndInv, TokenTypeOK
  <2> QED
    BY <1>1, <1>2, <2>1, LeaveFrees, ShrinkPreserves DEF SubmissionIndInv
<1>3. CASE /\ Goto(h, "issue") /\ ReadClock(h)
           /\ UNCHANGED <<clock, issued, archived, controlLock, local, restarts>>
  <2> USE DEF Goto, ReadClock, local
  <2>1. TokenTypeOK'
    BY <1>1, <1>3 DEF SubmissionIndInv, TokenTypeOK
  <2>2. LateInv'
    BY <1>1, <1>3 DEF SubmissionIndInv, TokenTypeOK, LateInv
  <2>3. \A i \in Handlers : pc'[i] \in {"admit", "insert"} =>
               /\ pc[i] \in {"admit", "insert"}
               /\ token'[i] = token[i] /\ session'[i] = session[i]
               /\ request'[i] = request[i] /\ now'[i] = now[i]
    BY <1>1, <1>3 DEF SubmissionIndInv, TokenTypeOK
  <2> QED
    BY <1>1, <2>1, <2>2, <2>3, ShrinkPreserves DEF SubmissionIndInv
<1> QED
    BY <1>2, <1>3 DEF Freeze

(* A new token has a number no authority, handler or Job has had before.   *)
LEMMA IssuePreserves ==
    ASSUME SubmissionIndInv, NEW h \in Handlers, Issue(h)
    PROVE  SubmissionIndInv'
<1> DEFINE next == Len(issued) + 1
           e == [token |-> next, session |-> session[h], request |-> request[h],
                 expires |-> now[h] + Lifetime]
<1>1. jobs' = jobs /\ pc[h] \in {"issue", "reissue"}
    BY DEF Issue
<1>2. /\ issued \in Seq(Authorities) /\ Len(issued) \in Nat
      /\ DOMAIN issued = 1..Len(issued) /\ next \notin DOMAIN issued
    BY DEF SubmissionIndInv, TokenTypeOK
<1>3. CASE ~HasRoom(h)
  <2>1. /\ entries' = Unexpired(entries, h) /\ issued' = issued
        /\ Leave(h) /\ ReleaseLock(h)
    BY <1>3 DEF Issue
  <2>2. entries' \subseteq entries
    BY <2>1, PurgeShrinks
  <2>3. TokenTypeOK'
    BY <1>1, <2>1, <2>2, LeaveTypes DEF SubmissionIndInv, TokenTypeOK
  <2> QED
    BY <1>1, <2>1, <2>2, <2>3, LeaveFrees, ShrinkPreserves DEF SubmissionIndInv
<1>4. CASE HasRoom(h)
  <2>1. /\ entries' = Remaining(h) \cup {e} /\ issued' = Append(issued, e)
        /\ next \in Tokens
    BY <1>4 DEF Issue
  <2>2. e \in Authorities
    BY <1>1, <2>1, NumbersAssumption
    DEF SubmissionIndInv, TokenTypeOK, Authorities, Tokens, Times
  <2>3. /\ issued' \in Seq(Authorities) /\ DOMAIN issued' = 1..next
        /\ issued'[next] = e /\ \A t \in DOMAIN issued : issued'[t] = issued[t]
    BY <1>2, <2>1, <2>2
  <2>4. \A a \in entries' : a = e \/ a \in entries
    BY <2>1 DEF Remaining, Unexpired
  <2>5. entries' \subseteq Authorities
    BY <2>2, <2>4 DEF SubmissionIndInv, TokenTypeOK
  <2>6. /\ TokenTypeOK' /\ LateInv'
        /\ \A i \in Handlers : pc'[i] \in {"admit", "insert"} =>
               /\ pc[i] \in {"admit", "insert"}
               /\ token'[i] = token[i] /\ session'[i] = session[i]
               /\ request'[i] = request[i] /\ now'[i] = now[i]
    <3>1. CASE Leave(h) /\ ReleaseLock(h)
      BY <1>1, <2>3, <2>5, <3>1, LeaveTypes, LeaveFrees DEF SubmissionIndInv, TokenTypeOK
    <3>2. CASE /\ pc[h] = "issue" /\ Goto(h, "cache") /\ ReadClock(h)
               /\ UNCHANGED <<clock, archived, controlLock, local, restarts>>
      BY <1>1, <2>3, <2>5, <3>2
      DEF SubmissionIndInv, TokenTypeOK, LateInv, Goto, ReadClock, local
    <3> QED
      BY <1>4, <3>1, <3>2 DEF Issue
  <2>7. StoreInv'
    BY <1>1, <1>2, <2>3, <2>4 DEF SubmissionIndInv, StoreInv
  <2>8. \A i \in Exchanging' : HandlerInv(i)'
    BY <1>2, <2>3, <2>4, <2>6 DEF SubmissionIndInv, Exchanging, HandlerInv
  <2>9. TokenIsOneShot'
    BY <1>1, <1>2, <2>3, <2>6 DEF SubmissionIndInv, StoreInv, TokenIsOneShot
  <2>10. ArchivedIsRefused'
    BY <1>1 DEF SubmissionIndInv, ArchivedIsRefused
  <2> QED
    BY <2>6, <2>7, <2>8, <2>9, <2>10 DEF SubmissionIndInv
<1> QED
    BY <1>3, <1>4

(* A built submission is cached.                                           *)
LEMMA CacheBuildPreserves ==
    ASSUME SubmissionIndInv, NEW h \in Handlers, CacheBuild(h)
    PROVE  SubmissionIndInv'
<1>1. /\ entries' = Unexpired(entries, h) /\ issued' = issued /\ jobs' = jobs
      /\ Leave(h) /\ ReleaseLock(h)
    BY DEF CacheBuild
<1>2. entries' \subseteq entries
    BY <1>1, PurgeShrinks
<1>3. TokenTypeOK'
    BY <1>1, <1>2, LeaveTypes DEF SubmissionIndInv, TokenTypeOK
<1> QED
    BY <1>1, <1>2, <1>3, LeaveFrees, ShrinkPreserves DEF SubmissionIndInv

-----------------------------------------------------------------------------
(* The exchange of a token for a Job.                                      *)

(* Whoever finds the authority takes it in the same step, so no other      *)
(* handler and no Job has it.                                              *)
LEMMA ConsumePreserves ==
    ASSUME SubmissionIndInv, NEW h \in Handlers, Consume(h)
    PROVE  SubmissionIndInv'
<1>1. /\ entries' = Taken(h) /\ issued' = issued /\ jobs' = jobs
      /\ controlLock' = controlLock /\ pc[h] = "consume"
    BY DEF Consume
<1>2. entries' \subseteq entries /\ \A a \in entries' : a.token # token[h]
    BY <1>1 DEF Taken, Unexpired
<1>3. CASE Leave(h)
  <2>1. TokenTypeOK'
    BY <1>1, <1>2, <1>3, LeaveTypes DEF SubmissionIndInv, TokenTypeOK
  <2> QED
    BY <1>1, <1>2, <1>3, <2>1, LeaveFrees, ShrinkPreserves DEF SubmissionIndInv
<1>4. CASE /\ \E e \in {e \in Unexpired(entries, h) : e.token = token[h]} : Matches(e, h)
           /\ Goto(h, "admit")
           /\ UNCHANGED <<clock, archived, local, now, restarts>>
  <2>1. PICK e \in entries : /\ e.token = token[h] /\ e.expires > now[h]
                             /\ Matches(e, h)
    BY <1>4 DEF Unexpired
  <2>2. /\ token[h] \in DOMAIN issued /\ issued[token[h]] = e
        /\ e.session = session[h] /\ e.request = request[h]
    BY <2>1 DEF SubmissionIndInv, StoreInv, Matches
  <2>3. \A j \in jobs : j.token # token[h]
    BY <2>1 DEF SubmissionIndInv, StoreInv
  <2>4. \A i \in Exchanging : token[i] # token[h]
    BY <2>1 DEF SubmissionIndInv, HandlerInv
  <2>5. Exchanging' = Exchanging \cup {h}
    BY <1>1, <1>4 DEF SubmissionIndInv, TokenTypeOK, Exchanging, Goto
  <2>6. TokenTypeOK'
    BY <1>1, <1>2, <1>4 DEF SubmissionIndInv, TokenTypeOK, Goto, local
  <2>7. LateInv'
    BY <1>1, <1>4 DEF SubmissionIndInv, TokenTypeOK, LateInv, Goto, local
  <2>8. StoreInv'
    BY <1>1, <1>2 DEF SubmissionIndInv, StoreInv
  <2>9. \A i \in Exchanging' : HandlerInv(i)'
    <3>1. HandlerInv(h)'
      BY <1>1, <1>2, <1>4, <2>1, <2>2 DEF HandlerInv, SubmissionIndInv, TokenTypeOK, Authorities, Times, local
    <3>2. \A i \in Exchanging : HandlerInv(i)'
      BY <1>1, <1>2, <1>4 DEF SubmissionIndInv, HandlerInv, local
    <3> QED
      BY <2>5, <3>1, <3>2
  <2>10. TokenIsOneShot'
    BY <1>1, <1>4, <2>3, <2>4, <2>5
    DEF SubmissionIndInv, TokenIsOneShot, Exchanging, local
  <2>11. ArchivedIsRefused'
    BY <1>1 DEF SubmissionIndInv, ArchivedIsRefused
  <2> QED
    BY <2>6, <2>7, <2>8, <2>9, <2>10, <2>11 DEF SubmissionIndInv
<1> QED
    BY <1>3, <1>4 DEF Consume

(* The Dataset is looked at again, so a late handler goes no further.      *)
LEMMA AdmitPreserves ==
    ASSUME SubmissionIndInv, NEW h \in Handlers, Admit(h)
    PROVE  SubmissionIndInv'
<1>1. /\ entries' = entries /\ issued' = issued /\ jobs' = jobs
      /\ controlLock' = controlLock /\ pc[h] = "admit"
    BY DEF Admit, store
<1>2. CASE Leave(h)
  <2>1. TokenTypeOK'
    BY <1>1, <1>2, LeaveTypes DEF SubmissionIndInv, TokenTypeOK
  <2> QED
    BY <1>1, <1>2, <2>1, LeaveFrees, ShrinkPreserves DEF SubmissionIndInv
<1>3. CASE /\ Usable(request[h]) /\ Goto(h, "insert")
           /\ UNCHANGED <<clock, archived, local, now, restarts>>
  <2> USE DEF Goto, local
  <2>1. TokenTypeOK'
    BY <1>1, <1>3 DEF SubmissionIndInv, TokenTypeOK
  <2>2. LateInv'
    BY <1>1, <1>3 DEF SubmissionIndInv, TokenTypeOK, LateInv, Usable
  <2>3. \A i \in Handlers : pc'[i] \in {"admit", "insert"} =>
               /\ pc[i] \in {"admit", "insert"}
               /\ token'[i] = token[i] /\ session'[i] = session[i]
               /\ request'[i] = request[i] /\ now'[i] = now[i]
    BY <1>1, <1>3 DEF SubmissionIndInv, TokenTypeOK
  <2> QED
    BY <1>1, <2>1, <2>2, <2>3, ShrinkPreserves DEF SubmissionIndInv
<1> QED
    BY <1>2, <1>3 DEF Admit

(* The Job gets the token from the only handler that has it.               *)
LEMMA InsertPreserves ==
    ASSUME SubmissionIndInv, NEW h \in Handlers, Insert(h)
    PROVE  SubmissionIndInv'
<1> DEFINE job == [token |-> token[h], session |-> session[h],
                   request |-> request[h], late |-> h \in late,
                   inTime |-> now[h] < issued[token[h]].expires]
<1>1. /\ entries' = entries /\ issued' = issued /\ controlLock' = controlLock
      /\ Leave(h) /\ pc[h] = "insert" /\ h \in Exchanging
    BY DEF Insert, store, Exchanging
<1>2. HandlerInv(h) /\ h \notin late
    BY <1>1 DEF SubmissionIndInv, LateInv
<1>3. CASE jobs' = jobs
  <2>1. TokenTypeOK'
    BY <1>1, <1>3, LeaveTypes DEF SubmissionIndInv, TokenTypeOK
  <2> QED
    BY <1>1, <1>3, <2>1, LeaveFrees, ShrinkPreserves DEF SubmissionIndInv
<1>4. CASE jobs' = jobs \cup {job}
  <2>1. job \in JobRows
    BY <1>1, <1>2 DEF JobRows, HandlerInv, SubmissionIndInv, TokenTypeOK, StoreInv, Authorities
  <2>2. TokenTypeOK'
    BY <1>1, <1>4, <2>1, LeaveTypes DEF SubmissionIndInv, TokenTypeOK
  <2>3. LateInv' /\ Exchanging' = Exchanging \ {h}
        /\ \A i \in Exchanging' : /\ token'[i] = token[i] /\ session'[i] = session[i]
                                   /\ request'[i] = request[i] /\ now'[i] = now[i]
    BY <1>1, LeaveFrees DEF SubmissionIndInv, TokenTypeOK, Exchanging, Leave, Goto
  <2>4. StoreInv'
    BY <1>1, <1>2, <1>4 DEF SubmissionIndInv, StoreInv, HandlerInv
  <2>5. \A i \in Exchanging' : HandlerInv(i)'
    BY <1>1, <2>3 DEF SubmissionIndInv, HandlerInv
  <2>6. token[h] # 0 /\ issued[token[h]] \in Authorities
    BY <1>2 DEF SubmissionIndInv, TokenTypeOK, HandlerInv
  <2>7. /\ \A i \in Exchanging' : token[i] # token[h]
        /\ \A j \in jobs : j.token # token[h]
    BY <1>1, <2>3, <2>6 DEF SubmissionIndInv, TokenIsOneShot, Exchanging
  <2>8. /\ job.token = token[h] /\ job.inTime /\ ~job.late
        /\ job.session = issued[job.token].session
        /\ job.request = issued[job.token].request
    BY <1>2 DEF HandlerInv
  <2> HIDE DEF job
  <2>9. TokenIsOneShot'
    <3>1. \A j \in jobs' : /\ j.inTime
                            /\ j.session = issued'[j.token].session
                            /\ j.request = issued'[j.token].request
      BY <1>1, <1>4, <2>8 DEF SubmissionIndInv, TokenIsOneShot
    <3>2. \A j, k \in jobs' : j.token = k.token => j = k
      BY <1>4, <2>7, <2>8 DEF SubmissionIndInv, TokenIsOneShot
    <3>3. \A i, k \in Handlers : i # k /\ token'[i] = token'[k] /\ token'[i] # 0
             => ~(pc'[i] \in {"admit", "insert"} /\ pc'[k] \in {"admit", "insert"})
      BY <2>3 DEF SubmissionIndInv, TokenIsOneShot, Exchanging
    <3>4. \A i \in Handlers, j \in jobs' :
             pc'[i] \in {"admit", "insert"} /\ token'[i] # 0 => j.token # token'[i]
      BY <1>4, <2>3, <2>7, <2>8 DEF SubmissionIndInv, TokenIsOneShot, Exchanging
    <3> QED
      BY <3>1, <3>2, <3>3, <3>4 DEF TokenIsOneShot
  <2>10. ArchivedIsRefused'
    BY <1>4, <2>8 DEF SubmissionIndInv, ArchivedIsRefused
  <2> QED
    BY <2>2, <2>3, <2>4, <2>5, <2>9, <2>10 DEF SubmissionIndInv
<1> QED
    BY <1>3, <1>4 DEF Insert

-----------------------------------------------------------------------------
(* What happens beside the handlers.                                       *)

(* Time passes, or a Dataset is archived.                                  *)
LEMMA ElsewherePreserves ==
    ASSUME SubmissionIndInv, Tick \/ \E r \in Requests : ArchiveDataset(r)
    PROVE  SubmissionIndInv'
<1>1. /\ UNCHANGED <<store, jobs, controlLock, pc, local, now, restarts>>
      /\ archived \subseteq archived' /\ archived' \subseteq archived \cup Requests
      /\ clock' \in 0..MaxClock
    BY NumbersAssumption DEF Tick, ArchiveDataset, SubmissionIndInv, TokenTypeOK
<1>2. TokenTypeOK'
    BY <1>1 DEF SubmissionIndInv, TokenTypeOK, store, local
<1>3. LateInv'
    BY <1>1 DEF SubmissionIndInv, LateInv, local
<1> QED
    BY <1>1, <1>2, <1>3, ShrinkPreserves DEF SubmissionIndInv, store, local

(* The Engine restarts with an empty cache.                                *)
LEMMA RestartPreserves ==
    ASSUME SubmissionIndInv, Restart
    PROVE  SubmissionIndInv'
<1>1. TokenTypeOK'
    BY NumbersAssumption DEF Restart, SubmissionIndInv, TokenTypeOK
<1>2. LateInv'
    BY DEF Restart, LateInv
<1> QED
    BY <1>1, <1>2, ShrinkPreserves DEF Restart, SubmissionIndInv

-----------------------------------------------------------------------------
(* SubmissionIndInv is an invariant: of the tokens the store issues, each is in the  *)
(* store, with one handler or in one Job (backtest_submissions.py).        *)
THEOREM SubmissionInductive == SubmissionSpec => []SubmissionIndInv
<1>1. SubmissionIndInv /\ [SubmissionNext]_submissionVars => SubmissionIndInv'
  <2> SUFFICES ASSUME SubmissionIndInv, [SubmissionNext]_submissionVars PROVE SubmissionIndInv'
    OBVIOUS
  <2>1. CASE UNCHANGED submissionVars
    BY <2>1 DEF submissionVars, store, local, SubmissionIndInv, TokenTypeOK, StoreInv, Exchanging, HandlerInv,
                LateInv, TokenIsOneShot, ArchivedIsRefused
  <2>2. ASSUME NEW h \in Handlers, NEW s \in Sessions, NEW r \in Requests,
               BeginPrepare(h, s, r) \/ \E t \in Tokens : BeginConsume(h, s, r, t)
        PROVE  SubmissionIndInv'
    BY <2>2, BeginPreserves
  <2>3. ASSUME NEW h \in Handlers,
               \/ Lookup(h) \/ Freeze(h) \/ Issue(h) \/ CacheBuild(h)
               \/ Consume(h) \/ Admit(h) \/ Insert(h)
        PROVE  SubmissionIndInv'
    BY <2>3, LookupPreserves, FreezePreserves, IssuePreserves, CacheBuildPreserves,
       ConsumePreserves, AdmitPreserves, InsertPreserves
  <2>4. CASE (\E r \in Requests : ArchiveDataset(r)) \/ Tick \/ Restart
    BY <2>4, ElsewherePreserves, RestartPreserves
  <2> QED
    BY <2>1, <2>2, <2>3, <2>4 DEF SubmissionNext
<1> QED
    BY <1>1, SubmissionInitEstablishes, PTL DEF SubmissionSpec

(* A token queues at most one Job, for the session and the request it was  *)
(* issued for and within its lifetime (consume, submit).                   *)
THEOREM TokensAreOneShot == SubmissionSpec => []TokenIsOneShot
<1>1. SubmissionIndInv => TokenIsOneShot
    BY DEF SubmissionIndInv
<1> QED
    BY <1>1, SubmissionInductive, PTL

(* No request that arrives after its Dataset was archived is queued        *)
(* (require_frozen_backtest_admission).                                    *)
THEOREM LateIsRefused == SubmissionSpec => []ArchivedIsRefused
<1>1. SubmissionIndInv => ArchivedIsRefused
    BY DEF SubmissionIndInv
<1> QED
    BY <1>1, SubmissionInductive, PTL

-----------------------------------------------------------------------------
(* Induction.                                                              *)

(* The order of the natural numbers, as the well-founded relation that the *)
(* library's theorem is about.                                             *)
Below == {p \in Nat \X Nat : p[1] < p[2]}

LEMMA BelowIsWellFounded == IsWellFoundedOn(Below, Nat)
<1>1. OpToRel(<, Nat) = Below
    BY DEF OpToRel, Below
<1> QED
    BY <1>1, NatLessThanWellFounded

(* Induction, for the numbers that are in a set.                           *)
LEMMA SetInduction ==
    ASSUME NEW S, 0 \in S, \A n \in Nat : n \in S => n + 1 \in S
    PROVE  \A n \in Nat : n \in S
<1> DEFINE T == Nat \ S
<1>1. SUFFICES ASSUME T # {} PROVE FALSE
    OBVIOUS
<1>2. PICK x \in T : \A y \in T : ~(<<y, x>> \in Below)
    BY <1>1, BelowIsWellFounded, WFMin
<1>3. x # 0 /\ x - 1 \in Nat /\ x - 1 + 1 = x /\ x - 1 < x
    OBVIOUS
<1>4. <<x - 1, x>> \in Below
    BY <1>3 DEF Below
<1>5. x - 1 \in S
    BY <1>2, <1>3, <1>4
<1> QED
    BY <1>3, <1>5

(* Induction up to a bound.                                                *)
LEMMA BoundedInduction ==
    ASSUME NEW m \in Nat, NEW S, 0 \in S, \A n \in 1 .. m : n - 1 \in S => n \in S
    PROVE  \A n \in 0 .. m : n \in S
<1> DEFINE T == S \cup {n \in Nat : n > m}
<1>1. \A n \in Nat : n \in T => n + 1 \in T
  <2> SUFFICES ASSUME NEW n \in Nat, n \in T PROVE n + 1 \in T
    OBVIOUS
  <2>1. CASE n + 1 > m
    BY <2>1
  <2>2. CASE n + 1 <= m
    <3>1. n + 1 \in 1 .. m /\ (n + 1) - 1 = n /\ n \in S
      BY <2>2
    <3> QED
      BY <3>1
  <2> QED
    BY <2>1, <2>2
<1>2. \A n \in Nat : n \in T
  <2> HIDE DEF T
  <2>1. 0 \in T
    BY DEF T
  <2> QED
    BY <1>1, <2>1, SetInduction
<1> QED
    BY <1>2

-----------------------------------------------------------------------------
(* The composition reaches a fixed point of itself.                        *)

(* The recursion of Chain has a solution, which is Chain.                  *)
LEMMA ChainUnfolds ==
    ASSUME NEW modules, NEW state, Len(modules) \in Nat
    PROVE  Chain(modules, state) =
             [i \in 0 .. Len(modules) |->
                IF i = 0 THEN state
                ELSE ApplyModule(Chain(modules, state)[i - 1], modules[i])]
<1> DEFINE Step(f, i) == IF i = 0 THEN state ELSE ApplyModule(f[i - 1], modules[i])
           Solves(f, n) == f = [i \in 0 .. n |-> Step(f, i)]
           Good == {n \in Nat : \E f : Solves(f, n)}
<1>1. 0 \in Good
  <2>1. Solves([i \in 0 .. 0 |-> state], 0)
    OBVIOUS
  <2> QED
    BY <2>1
<1>2. ASSUME NEW n \in 1 .. Len(modules), n - 1 \in Good PROVE n \in Good
  <2>1. PICK f : Solves(f, n - 1)
    BY <1>2
  <2> DEFINE h == [i \in 0 .. n |-> IF i = n THEN Step(f, n) ELSE f[i]]
  <2>2. \A i \in 0 .. n : h[i] = Step(h, i)
    <3>1. ASSUME NEW i \in 0 .. (n - 1) PROVE h[i] = Step(h, i)
      <4>1. i # 0 => i - 1 \in 0 .. (n - 1) /\ i - 1 # n /\ h[i - 1] = f[i - 1]
        OBVIOUS
      <4>2. f[i] = Step(f, i) /\ h[i] = f[i]
        <5> HIDE DEF Step
        <5> QED
          BY <2>1
      <4> QED
        BY <4>1, <4>2
    <3>2. h[n] = Step(h, n)
      <4>1. n # 0 /\ n - 1 \in 0 .. n /\ n - 1 # n /\ h[n - 1] = f[n - 1] /\ h[n] = Step(f, n)
        OBVIOUS
      <4> QED
        BY <4>1
    <3>3. \A i \in 0 .. n : i \in 0 .. (n - 1) \/ i = n
      OBVIOUS
    <3> HIDE DEF Step, h
    <3> QED
      BY <3>1, <3>2, <3>3
  <2>3. h = [i \in 0 .. n |-> Step(h, i)]
    BY <2>2
  <2>4. \E g : Solves(g, n)
    <3> WITNESS h
    <3> QED
      BY <2>3
  <2> HIDE DEF Solves
  <2> QED
    BY <2>4
<1>3. Len(modules) \in Good
  <2> HIDE DEF Good
  <2>1. \A n \in 0 .. Len(modules) : n \in Good
    BY <1>1, <1>2, BoundedInduction
  <2> QED
    BY <2>1
<1>4. PICK f : Solves(f, Len(modules))
    BY <1>3
<1>5. Solves(Chain(modules, state), Len(modules))
    BY <1>4 DEF Chain
<1> QED
    BY <1>5

(* The chain starts from the state and takes one Module after another.     *)
LEMMA ChainSteps ==
    ASSUME NEW modules, NEW state, Len(modules) \in Nat
    PROVE  /\ Chain(modules, state)[0] = state
           /\ \A n \in 1 .. Len(modules) :
                Chain(modules, state)[n] = ApplyModule(Chain(modules, state)[n - 1], modules[n])
<1> DEFINE c == Chain(modules, state)
<1>1. c = [i \in 0 .. Len(modules) |-> IF i = 0 THEN state ELSE ApplyModule(c[i - 1], modules[i])]
    BY ChainUnfolds
<1> HIDE DEF c
<1>2. c[0] = state
  <2>1. 0 \in 0 .. Len(modules)
    OBVIOUS
  <2> QED
    BY <1>1, <2>1
<1>3. ASSUME NEW n \in 1 .. Len(modules) PROVE c[n] = ApplyModule(c[n - 1], modules[n])
  <2>1. n \in 0 .. Len(modules) /\ n # 0
    OBVIOUS
  <2> QED
    BY <1>1, <2>1
<1> QED
    BY <1>2, <1>3 DEF c

(* What was derived depends on the design, the plan and the contracts the  *)
(* round started from only.                                                *)
LEMMA DerivedAtRest ==
    ASSUME design' = design, plan' = plan, before' = before
    PROVE  /\ InputDerived' = InputDerived /\ EntryDerived' = EntryDerived
           /\ ThroughDerived' = ThroughDerived /\ ResultDerived' = ResultDerived
           /\ PreChain' = PreChain /\ PostChain' = PostChain
BY DEF InputDerived, EntryDerived, ThroughDerived, ResultDerived, PreChain, PostChain,
       SignalGraph, EnvironmentGraph, AnalysisGraph

(* The lists of direct Modules are sequences.                              *)
LEMMA DirectModules ==
    ASSUME design \in Designs
    PROVE  Len(design.pre) \in Nat /\ Len(design.post) \in Nat
BY DesignsAssumption DEF DesignFits, ModulesFit

(* Initially nothing is composed.                                          *)
LEMMA FrozenInit == Init => FrozenInv
BY DEF Init, FrozenInv, NoPlan, Running

(* The preliminary compile freezes nothing.                                *)
LEMMA PreliminaryFreezes ==
    ASSUME FrozenInv, ComposePreliminary
    PROVE  FrozenInv'
<1>1. /\ design' = design /\ binding' = binding /\ plan' = plan /\ ~binding
      /\ phase' \in {"observation", "refused"}
    BY DEF FrozenInv, ComposePreliminary, Unbuilt
<1> QED
    BY <1>1 DEF FrozenInv, Running

(* A new round forgets the old one; the worker's round finds its input.    *)
LEMMA ObservationFreezes ==
    ASSUME FrozenInv, BindObservation
    PROVE  FrozenInv'
<1> USE DEF FrozenInv, BindObservation, Unbuilt, Bound, ObservationAgrees
<1>0. design' = design /\ binding' = binding /\ before' = before /\ phase = "observation" /\ at' = 1
    OBVIOUS
<1>1. CASE before \in seen /\ ~binding
    BY <1>1 DEF Running
<1>2. CASE ~(before \in seen /\ ~binding)
  <2> DEFINE projected == ProjectContracts(before, design)
  <2>1. CASE binding
    <3>1. plan.input = projected /\ projected.ok
      BY <2>1 DEF InputDerived
    <3>2. /\ work' = projected /\ phase' = "bindPre" /\ plan' = [plan EXCEPT !.input = projected]
      BY <1>2, <2>1, <3>1
    <3>3. plan' = plan
      BY <3>1, <3>2
    <3>4. Holds(PreChain, 0) /\ PreChain[0] = plan.input
      BY <3>1, ChainSteps, DirectModules DEF PreChain, Holds
    <3>5. 1 \in 1 .. Len(design.pre) + 1 /\ 1 - 1 = 0
      BY DirectModules
    <3> QED
      BY <1>0, <2>1, <3>1, <3>2, <3>3, <3>4, <3>5, DerivedAtRest DEF Running
  <2>2. CASE ~binding
    <3>1. /\ work' = projected /\ plan' = [plan EXCEPT !.input = projected]
          /\ phase' = IF projected.ok THEN "bindPre" ELSE "refused"
      BY <1>2, <2>2
    <3>2. plan'.input = projected
      BY <3>1
    <3>3. projected.ok => InputDerived'
      BY <1>0, <3>2 DEF InputDerived
    <3>4. projected.ok => Holds(PreChain', 0) /\ PreChain'[0] = projected
      BY <1>0, <3>2, ChainSteps, DirectModules DEF PreChain, Holds
    <3>5. 1 \in 1 .. Len(design.pre) + 1 /\ 1 - 1 = 0
      BY DirectModules
    <3>6. plan' = [env |-> plan'.env, input |-> plan'.input, entry |-> plan'.entry, signal |-> plan'.signal,
                   through |-> plan'.through, analysis |-> plan'.analysis, result |-> plan'.result]
      BY <3>1
    <3> QED
      BY <1>0, <2>2, <3>1, <3>3, <3>4, <3>5, <3>6 DEF Running
  <2> QED
    BY <2>1, <2>2
<1> QED
    BY <1>1, <1>2

(* One direct Module: the chain moves on by one, or the step is refused,   *)
(* which the worker's round, on a chain that held, never is.               *)
LEMMA DirectFreezes ==
    ASSUME FrozenInv, BindPre \/ BindPost
    PROVE  FrozenInv'
<1> USE DEF FrozenInv, Bound, Unbuilt
<1>0. /\ design' = design /\ binding' = binding /\ before' = before /\ plan' = plan
    BY DEF BindPre, BindPost, BindDirect
<1>1. CASE BindPre
  <2>0. phase = "bindPre" /\ at \in 1 .. Len(design.pre) + 1 /\ Len(design.pre) \in Nat
    BY <1>1, DirectModules DEF BindPre, BindDirect
  <2>1. CASE at > Len(design.pre)
    <3>1. phase' = "bindSignal" /\ work' = work
      BY <1>1, <2>1 DEF BindPre, BindDirect
    <3>2. at - 1 = Len(design.pre)
      BY <2>0, <2>1
    <3> QED
      BY <1>0, <2>0, <3>1, <3>2, DerivedAtRest DEF Running
  <2>2. CASE ~(at > Len(design.pre))
    <3> DEFINE next == ApplyModule(work, design.pre[at])
    <3>1. at' = at + 1 /\ work' = next
          /\ phase' = IF next.ok THEN "bindPre" ELSE IF binding THEN "mismatch" ELSE "refused"
      BY <1>1, <2>2 DEF BindPre, BindDirect
    <3>2. at \in 1 .. Len(design.pre) /\ at \in 0 .. Len(design.pre) /\ at' - 1 = at
          /\ at' \in 1 .. Len(design.pre) + 1
      BY <2>0, <2>2, <3>1
    <3>3. PreChain[at] = next
      BY <2>0, <3>2, ChainSteps DEF PreChain
    <3>4. binding => next.ok
      BY <3>2, <3>3 DEF EntryDerived, Holds
    <3>5. next.ok => Holds(PreChain, at)
      <4>1. \A i \in 0 .. at : i \in 0 .. (at - 1) \/ i = at
        BY <3>2
      <4> QED
        BY <2>0, <3>3, <4>1 DEF Holds
    <3> HIDE DEF next
    <3> QED
      BY <1>0, <2>0, <3>1, <3>2, <3>3, <3>4, <3>5, DerivedAtRest DEF Running
  <2> QED
    BY <2>1, <2>2
<1>2. CASE BindPost
  <2>0. phase = "bindPost" /\ at \in 1 .. Len(design.post) + 1 /\ Len(design.post) \in Nat
    BY <1>2, DirectModules DEF BindPost, BindDirect
  <2>1. CASE at > Len(design.post)
    <3>1. phase' = "environmentGraph" /\ work' = work
      BY <1>2, <2>1 DEF BindPost, BindDirect
    <3>2. at - 1 = Len(design.post)
      BY <2>0, <2>1
    <3> QED
      BY <1>0, <2>0, <3>1, <3>2, DerivedAtRest DEF Running
  <2>2. CASE ~(at > Len(design.post))
    <3> DEFINE next == ApplyModule(work, design.post[at])
    <3>1. at' = at + 1 /\ work' = next
          /\ phase' = IF next.ok THEN "bindPost" ELSE IF binding THEN "mismatch" ELSE "refused"
      BY <1>2, <2>2 DEF BindPost, BindDirect
    <3>2. at \in 1 .. Len(design.post) /\ at \in 0 .. Len(design.post) /\ at' - 1 = at
          /\ at' \in 1 .. Len(design.post) + 1
      BY <2>0, <2>2, <3>1
    <3>3. PostChain[at] = next
      BY <2>0, <3>2, ChainSteps DEF PostChain
    <3>4. binding => next.ok
      BY <3>2, <3>3 DEF ThroughDerived, Holds
    <3>5. next.ok => Holds(PostChain, at)
      <4>1. \A i \in 0 .. at : i \in 0 .. (at - 1) \/ i = at
        BY <3>2
      <4> QED
        BY <2>0, <3>3, <4>1 DEF Holds
    <3> HIDE DEF next
    <3> QED
      BY <1>0, <2>0, <3>1, <3>2, <3>3, <3>4, <3>5, DerivedAtRest DEF Running
  <2> QED
    BY <2>1, <2>2
<1> QED
    BY <1>1, <1>2

(* The Signal Graph is compiled against the end of the first chain, and    *)
(* what it writes starts the second.                                       *)
LEMMA SignalFreezes ==
    ASSUME FrozenInv, BindSignal
    PROVE  FrozenInv'
<1> USE DEF FrozenInv, BindSignal, Bound, Unbuilt
<1> DEFINE signal == Compile(design.signal, [from \in {"data"} |-> work], TRUE)
           next == ApplyAll(work, signal.outputs)
<1>0. /\ design' = design /\ binding' = binding /\ before' = before /\ phase = "bindSignal" /\ at' = 1
      /\ InputDerived /\ work = PreChain[Len(design.pre)] /\ Holds(PreChain, Len(design.pre))
      /\ Len(design.pre) \in Nat /\ Len(design.post) \in Nat
    BY DirectModules
<1>1. CASE ~signal.ok
  <2>1. ~binding
    <3>1. binding => work = plan.entry /\ SignalGraph.ok
      BY <1>0 DEF EntryDerived
    <3> QED
      BY <1>1, <3>1 DEF SignalGraph
  <2>2. phase' = "refused" /\ plan' = plan
    BY <1>1, <2>1 DEF Refused
  <2> QED
    BY <1>0, <2>1, <2>2 DEF Running
<1>2. CASE signal.ok
  <2>1. binding => PipelineAgrees(signal)
    <3>1. binding => work = plan.entry /\ plan.signal = SignalGraph.outputs
      BY <1>0 DEF EntryDerived
    <3> QED
      BY <3>1 DEF PipelineAgrees, SignalGraph
  <2>2. /\ work' = next /\ plan' = [plan EXCEPT !.entry = work, !.signal = signal.outputs]
        /\ phase' = IF next.ok THEN "bindPost" ELSE IF binding THEN "mismatch" ELSE "refused"
    BY <1>2, <2>1
  <2> HIDE DEF signal
  <2>3. plan'.entry = work /\ plan'.signal = signal.outputs /\ plan'.input = plan.input
    BY <2>2
  <2>4. PreChain' = PreChain /\ InputDerived'
    BY <1>0, <2>3 DEF PreChain, InputDerived
  <2>5. SignalGraph' = signal
    BY <1>0, <2>3 DEF SignalGraph, signal
  <2>6. next.ok => EntryDerived'
    BY <1>0, <1>2, <2>3, <2>4, <2>5 DEF EntryDerived
  <2>7. PostChain'[0] = next
    BY <1>0, <2>3, ChainSteps DEF PostChain
  <2>8. next.ok => Holds(PostChain', 0)
    BY <2>7 DEF Holds
  <2>9. plan' = [env |-> plan'.env, input |-> plan'.input, entry |-> plan'.entry, signal |-> plan'.signal,
                 through |-> plan'.through, analysis |-> plan'.analysis, result |-> plan'.result]
    BY <2>2
  <2>10. 1 \in 1 .. Len(design.post) + 1 /\ 1 - 1 = 0
    BY <1>0
  <2>11. CASE binding
    <3>1. plan.entry = work /\ plan.signal = signal.outputs
      BY <2>1, <2>11 DEF PipelineAgrees
    <3>2. plan' = plan
      BY <2>2, <3>1
    <3>3. next.ok
      BY <2>11, <3>1 DEF EntryDerived
    <3> HIDE DEF next
    <3> QED
      BY <1>0, <2>2, <2>7, <2>8, <2>10, <2>11, <3>2, <3>3, DerivedAtRest DEF Running
  <2>12. CASE ~binding
    <3> HIDE DEF next
    <3> QED
      BY <1>0, <2>2, <2>4, <2>6, <2>7, <2>8, <2>9, <2>10, <2>12 DEF Running
  <2> QED
    BY <2>11, <2>12
<1> QED
    BY <1>1, <1>2

(* The Environment closes the round only at the fixed point.               *)
LEMMA EnvironmentFreezes ==
    ASSUME FrozenInv, CompileEnvironment
    PROVE  FrozenInv'
<1> USE DEF FrozenInv, Bound, Unbuilt
<1> DEFINE environment == Compile(design.environment, CycleSources(design, work), TRUE)
           next == ApplyAll(Empty, environment.outputs)
<1>0. /\ design' = design /\ binding' = binding /\ phase = "environmentGraph"
      /\ InputDerived /\ EntryDerived
      /\ work = PostChain[Len(design.post)] /\ Holds(PostChain, Len(design.post))
    BY DEF CompileEnvironment
<1>1. binding => environment = EnvironmentGraph /\ environment.ok /\ EnvironmentAgrees(environment)
  <2>1. binding => work = plan.through
    BY <1>0 DEF ThroughDerived
  <2>2. binding => environment = EnvironmentGraph
    BY <2>1 DEF EnvironmentGraph
  <2> HIDE DEF environment
  <2> QED
    BY <2>1, <2>2 DEF ThroughDerived, EnvironmentAgrees
<1>2. CASE ~environment.ok
  <2>1. ~binding /\ phase' = "refused" /\ plan' = plan /\ before' = before
    BY <1>1, <1>2 DEF CompileEnvironment, Refused
  <2> QED
    BY <1>0, <2>1 DEF Running
<1>3. CASE environment.ok /\ ~binding /\ ~Stable(next)
  <2>1. phase' = "observation" /\ plan' = plan
    BY <1>3 DEF CompileEnvironment
  <2> QED
    BY <1>0, <1>3, <2>1 DEF Running
<1>4. CASE environment.ok /\ (~binding => Stable(next))
  <2>1. /\ phase' = "analysisGraph" /\ before' = before /\ work' = work
        /\ plan' = [plan EXCEPT !.env = environment.outputs, !.through = work]
    BY <1>1, <1>4 DEF CompileEnvironment
  <2> HIDE DEF environment
  <2>2. CASE binding
    <3>1. plan.env = environment.outputs /\ plan.through = work
      BY <1>1, <2>2 DEF EnvironmentAgrees
    <3>2. plan' = plan
      BY <2>1, <3>1
    <3> QED
      BY <1>0, <2>1, <2>2, <3>1, <3>2, DerivedAtRest DEF Running
  <2>3. CASE ~binding
    <3>1. /\ plan'.env = environment.outputs /\ plan'.through = work
          /\ plan'.input = plan.input /\ plan'.entry = plan.entry /\ plan'.signal = plan.signal
      BY <2>1
    <3>2. /\ plan' = [env |-> plan'.env, input |-> plan'.input, entry |-> plan'.entry, signal |-> plan'.signal,
                     through |-> plan'.through, analysis |-> plan'.analysis, result |-> plan'.result]
      BY <2>1
    <3>3. InputDerived'
      BY <1>0, <2>1, <3>1 DEF InputDerived
    <3>4. EntryDerived'
      BY <1>0, <3>1 DEF EntryDerived, PreChain, SignalGraph
    <3>5. PostChain' = PostChain /\ EnvironmentGraph' = environment
      BY <1>0, <3>1 DEF PostChain, EnvironmentGraph, environment
    <3>6. before = next
      BY <1>4, <2>3 DEF Stable
    <3>7. ThroughDerived'
      BY <1>0, <1>4, <2>1, <3>1, <3>5, <3>6 DEF ThroughDerived
    <3> QED
      BY <1>0, <2>1, <2>3, <3>1, <3>2, <3>3, <3>4, <3>7 DEF Running
  <2> QED
    BY <2>2, <2>3
<1> QED
    BY <1>2, <1>3, <1>4

(* The Analysis completes the artifact.  The worker starts from the frozen *)
(* Environment outputs, which at the fixed point give the contracts the    *)
(* last round started from.                                                *)
LEMMA AnalysisFreezes ==
    ASSUME FrozenInv, CompileAnalysis
    PROVE  FrozenInv'
<1> USE DEF FrozenInv, Bound, Unbuilt
<1> DEFINE analysis == Compile(design.analysis, CycleSources(design, work), TRUE)
           result == ApplyAll(work, analysis.outputs)
<1>0. /\ design' = design /\ phase = "analysisGraph" /\ work = plan.through
      /\ InputDerived /\ EntryDerived /\ ThroughDerived /\ analysis = AnalysisGraph
    BY DEF CompileAnalysis, AnalysisGraph
<1>1. binding => analysis.ok /\ result.ok /\ AnalysisAgrees(analysis, result)
  <2>1. binding => /\ AnalysisGraph.ok /\ plan.analysis = AnalysisGraph.outputs
                   /\ plan.result = ApplyAll(work, AnalysisGraph.outputs) /\ plan.result.ok
    BY <1>0 DEF ResultDerived
  <2> HIDE DEF analysis
  <2> QED
    BY <1>0, <2>1 DEF AnalysisAgrees
<1>2. CASE ~(analysis.ok /\ result.ok)
  <2>1. ~binding /\ phase' = "refused" /\ plan' = plan /\ binding' = binding /\ before' = before
    BY <1>1, <1>2 DEF CompileAnalysis, Refused
  <2> QED
    BY <1>0, <2>1 DEF Running
<1>3. CASE analysis.ok /\ result.ok /\ binding
  <2>1. phase' = "sample" /\ plan' = plan /\ binding' = binding /\ before' = before
    BY <1>1, <1>3 DEF CompileAnalysis
  <2> QED
    BY <1>0, <1>3, <2>1, DerivedAtRest DEF Running
<1>4. CASE analysis.ok /\ result.ok /\ ~binding
  <2>1. /\ plan' = [plan EXCEPT !.analysis = analysis.outputs, !.result = result]
        /\ phase' = "observation" /\ binding' = TRUE /\ before' = ApplyAll(Empty, plan.env)
    BY <1>4 DEF CompileAnalysis, StartBinding
  <2> HIDE DEF analysis
  <2>2. before' = before
    BY <1>0, <2>1 DEF ThroughDerived
  <2>3. /\ plan'.analysis = analysis.outputs /\ plan'.result = result
        /\ plan'.env = plan.env /\ plan'.through = plan.through
        /\ plan'.input = plan.input /\ plan'.entry = plan.entry /\ plan'.signal = plan.signal
    BY <2>1
  <2>4. /\ plan' = [env |-> plan'.env, input |-> plan'.input, entry |-> plan'.entry, signal |-> plan'.signal,
                   through |-> plan'.through, analysis |-> plan'.analysis, result |-> plan'.result]
    BY <2>1
  <2>5. InputDerived'
    BY <1>0, <2>2, <2>3 DEF InputDerived
  <2>6. EntryDerived'
    BY <1>0, <2>3 DEF EntryDerived, PreChain, SignalGraph
  <2>7. ThroughDerived'
    BY <1>0, <2>2, <2>3 DEF ThroughDerived, PostChain, EnvironmentGraph
  <2>8. AnalysisGraph' = AnalysisGraph
    BY <1>0, <2>3 DEF AnalysisGraph
  <2>9. ResultDerived'
    BY <1>0, <1>4, <2>3, <2>8 DEF ResultDerived
  <2> QED
    BY <1>0, <2>1, <2>4, <2>5, <2>6, <2>7, <2>9 DEF Running
<1> QED
    BY <1>2, <1>3, <1>4

(* The cycles and the reader leave the composition alone.                  *)
LEMMA RunFreezes ==
    ASSUME FrozenInv, phase \in Running, phase' \in Running,
           design' = design, binding' = binding, before' = before, plan' = plan
    PROVE  FrozenInv'
BY DerivedAtRest DEF FrozenInv, Running

(* A step of a cycle, or of the reader.                                    *)
RunStep ==
    \/ NextSample \/ RunEnvironment \/ RunProjection \/ RunPre \/ RunSignal \/ RunPost
    \/ KeepPrevious \/ RunAnalysis \/ AppendCycle
    \/ OpenResult \/ DecodeCycle \/ RunTemporary \/ ProveProjection

LEMMA RunStepsRun ==
    ASSUME RunStep
    PROVE  /\ phase \in Running /\ phase' \in Running
           /\ design' = design /\ binding' = binding /\ before' = before /\ plan' = plan
<1> USE DEF Running, Composed, Fail
<1>1. CASE NextSample \/ RunProjection \/ KeepPrevious \/ AppendCycle
    BY <1>1 DEF NextSample, RunProjection, KeepPrevious, AppendCycle
<1>2. CASE RunEnvironment \/ RunSignal \/ RunAnalysis
    BY <1>2 DEF RunEnvironment, RunSignal, RunAnalysis, Execute
<1>3. CASE RunPre \/ RunPost \/ RunTemporary
    BY <1>3 DEF RunPre, RunPost, RunTemporary, RunDirect
<1>4. CASE OpenResult \/ DecodeCycle \/ ProveProjection
    BY <1>4 DEF OpenResult, DecodeCycle, ProveProjection
<1> QED
    BY <1>1, <1>2, <1>3, <1>4 DEF RunStep

LEMMA FrozenNext ==
    ASSUME FrozenInv, [Next]_vars
    PROVE  FrozenInv'
<1>1. CASE UNCHANGED vars
  <2>1. /\ design' = design /\ binding' = binding /\ before' = before /\ plan' = plan
        /\ phase' = phase /\ at' = at /\ work' = work
    BY <1>1 DEF vars
  <2> QED
    BY <2>1, DerivedAtRest DEF FrozenInv
<1>2. CASE RunStep
    BY <1>2, RunStepsRun, RunFreezes
<1>3. CASE \/ ComposePreliminary \/ BindObservation \/ BindPre \/ BindSignal \/ BindPost
           \/ CompileEnvironment \/ CompileAnalysis
    BY <1>3, PreliminaryFreezes, ObservationFreezes, DirectFreezes, SignalFreezes,
       EnvironmentFreezes, AnalysisFreezes
<1>4. CASE Finished
    BY <1>1, <1>4 DEF Finished
<1> QED
    BY <1>1, <1>2, <1>3, <1>4 DEF Next, RunStep

(* Whatever the resources, each part of the plan is what its step derives  *)
(* from the parts before it, in the composition and in the worker's round. *)
THEOREM FrozenInductive == Spec => []FrozenInv
BY FrozenInit, FrozenNext, PTL DEF Spec

(* The worker that binds a frozen composition derives what was frozen      *)
(* (bind_frozen_backtest_composition never refuses what                    *)
(* compose_backtest_plans accepted).                                       *)
THEOREM FrozenBinds == Spec => []FrozenCompositionBinds
<1>1. FrozenInv => FrozenCompositionBinds
    BY DEF FrozenInv, FrozenCompositionBinds, Running
<1> QED
    BY <1>1, FrozenInductive, PTL

-----------------------------------------------------------------------------
(* DataKeys, shapes and schemas.                                            *)

(* A DataKey is a root or a field of one.                                  *)
LEMMA KeyForm ==
    ASSUME NEW key \in Keys
    PROVE  /\ Len(key) \in {1, 2} /\ Root(key) \in Roots /\ Root(key) \in Nat
           /\ Len(key) = 1 => key = <<Root(key)>> /\ Leaf(key) = Self
           /\ Len(key) = 2 => /\ key = <<Root(key), Leaf(key)>>
                              /\ Leaf(key) # Self /\ <<Root(key)>> \in Keys
<1>1. PICK i \in DOMAIN DataKeys : key = DataKeys[i]
    BY DEF Keys
<1>2. DataKeys \in Seq(Seq(Nat)) /\ key \in Seq(Nat) /\ Len(key) \in {1, 2}
    BY <1>1, KeysAssumption DEF KeysInOrder
<1>3. key[1] \in Nat
    BY <1>2
<1>4. Len(key) = 1 => key = <<key[1]>>
    BY <1>2
<1>5. Len(key) = 2 => key = <<key[1], key[2]>>
    BY <1>2
<1>6. Len(key) = 2 => key[2] # Self /\ <<key[1]>> \in Keys
  <2>1. ASSUME Len(key) = 2 PROVE key[2] # Self /\ \E j \in 1 .. i : DataKeys[j] = <<key[1]>>
    BY <1>1, <2>1, KeysAssumption DEF KeysInOrder
  <2>2. \A j \in 1 .. i : j \in DOMAIN DataKeys
    BY <1>1, <1>2
  <2> QED
    BY <2>1, <2>2 DEF Keys
<1> QED
    BY <1>2, <1>3, <1>4, <1>5, <1>6 DEF Root, Leaf, Roots

(* The roots are natural numbers, finitely many.                           *)
LEMMA RootsFinite == Roots \subseteq Nat /\ IsFiniteSet(Roots)
<1>1. Roots \subseteq Nat
    BY KeyForm DEF Roots, Root
<1>2. DataKeys \in Seq(Seq(Nat)) /\ Len(DataKeys) \in Nat /\ DOMAIN DataKeys = 1 .. Len(DataKeys)
    BY KeysAssumption DEF KeysInOrder
<1>3. IsFiniteSet(1 .. Len(DataKeys))
    BY <1>2, FS_Interval
<1> DEFINE g == [i \in 1 .. Len(DataKeys) |-> DataKeys[i][1]]
           image == {g[i] : i \in 1 .. Len(DataKeys)}
<1>4. Roots = image
    BY <1>2 DEF Roots, Keys
<1>5. g \in Surjection(1 .. Len(DataKeys), image)
    BY DEF Surjection
<1>6. IsFiniteSet(image)
    BY <1>3, <1>5, FS_Surjection
<1> QED
    BY <1>1, <1>4, <1>6

(* A value of a shape is of every shape that includes it.                  *)
LEMMA SubsetFits ==
    ASSUME NEW v, NEW s, NEW t, Fits(v, s), ShapeSubset(s, t)
    PROVE  Fits(v, t)
BY DEF Fits, ShapeSubset

(* schemas_compatible: what one accepts the other does.                    *)
LEMMA CompatibleAccepts ==
    ASSUME NEW S, NEW T, NEW v, Compatible(S, T), Accepts(S, v)
    PROVE  Accepts(T, v)
BY SubsetFits DEF Compatible, Accepts

(* A value of a scalar alternative is a scalar, and no other is.           *)
LEMMA ScalarFits ==
    ASSUME NEW S, WellFormed(S), NEW s \in S, NEW v, Fits(v, s)
    PROVE  /\ IsObject(s) => Self \notin DOMAIN v
           /\ ~IsObject(s) => Self \in DOMAIN v /\ DOMAIN v = {Self} /\ v[Self] \in s.props[Self]
<1>1. IsObject(s) => Self \notin DOMAIN v
    BY DEF Fits, IsObject
<1>2. ~IsObject(s) => s.req = {Self} /\ DOMAIN s.props = {Self}
    BY DEF WellFormed
<1>3. ~IsObject(s) => Self \in DOMAIN v /\ DOMAIN v \subseteq {Self}
    BY <1>2 DEF Fits
<1> QED
    BY <1>1, <1>3 DEF Fits

(* The one scalar alternative of some types.                               *)
LEMMA ScalarSchema ==
    ASSUME NEW types
    PROVE  /\ WellFormed(Scalar(types))
           /\ \A s \in Scalar(types) : ~IsObject(s)
           /\ TypesOf(Scalar(types)) = types
           /\ \A v : Accepts(Scalar(types), v) <=> DOMAIN v = {Self} /\ v[Self] \in types
<1> DEFINE s == [props |-> [leaf \in {Self} |-> types], req |-> {Self}]
<1>1. Scalar(types) = {s}
    BY DEF Scalar
<1>2. s.req = {Self} /\ DOMAIN s.props = {Self} /\ s.props[Self] = types
    OBVIOUS
<1> HIDE DEF s
<1>3. WellFormed({s}) /\ ~IsObject(s)
    BY <1>2 DEF WellFormed, IsObject
<1>4. \A v : Fits(v, s) <=> DOMAIN v = {Self} /\ v[Self] \in types
    BY <1>2 DEF Fits
<1>5. TypesOf({s}) = types
    BY <1>2, <1>3 DEF TypesOf
<1> QED
    BY <1>1, <1>3, <1>4, <1>5 DEF Accepts

(* normalize_schema: merging the scalars accepts what each of them did.    *)
LEMMA MergedAccepts ==
    ASSUME NEW S, WellFormed(S)
    PROVE  /\ WellFormed(Merged(S))
           /\ \A v : Accepts(S, v) => Accepts(Merged(S), v)
<1> DEFINE scalars == {s \in S : ~IsObject(s)}
           types == UNION {s.props[Self] : s \in scalars}
<1>1. CASE scalars = {}
    BY <1>1 DEF Merged
<1>2. CASE scalars # {}
  <2>1. Merged(S) = (S \ scalars) \cup Scalar(types)
    BY <1>2 DEF Merged
  <2>2. WellFormed(Merged(S))
    BY <2>1, ScalarSchema DEF WellFormed
  <2>3. ASSUME NEW v, Accepts(S, v) PROVE Accepts(Merged(S), v)
    <3>1. PICK s \in S : Fits(v, s)
      BY <2>3 DEF Accepts
    <3>2. CASE s \in scalars
      <4>1. DOMAIN v = {Self} /\ v[Self] \in types
        BY <3>1, <3>2, ScalarFits
      <4>2. Accepts(Scalar(types), v)
        BY <4>1, ScalarSchema
      <4> QED
        BY <2>1, <4>2 DEF Accepts
    <3>3. CASE s \notin scalars
      BY <2>1, <3>1, <3>3 DEF Accepts
    <3> QED
      BY <3>2, <3>3
  <2> QED
    BY <2>2, <2>3
<1> QED
    BY <1>1, <1>2

(* _optional_schema_union: it accepts what either accepts.                 *)
LEMMA UnionAccepts ==
    ASSUME NEW L, NEW R, WellFormed(L), WellFormed(R)
    PROVE  /\ WellFormed(OptionalUnion(L, R))
           /\ \A v : Accepts(L, v) \/ Accepts(R, v) => Accepts(OptionalUnion(L, R), v)
<1>1. CASE L = {} \/ Compatible(L, R)
  <2>1. OptionalUnion(L, R) = R
    BY <1>1 DEF OptionalUnion
  <2>2. \A v : Accepts(L, v) => Accepts(R, v)
    BY <1>1, CompatibleAccepts DEF Accepts
  <2> QED
    BY <2>1, <2>2
<1>2. CASE ~(L = {} \/ Compatible(L, R)) /\ Compatible(R, L)
  <2>1. OptionalUnion(L, R) = L
    BY <1>2 DEF OptionalUnion
  <2>2. \A v : Accepts(R, v) => Accepts(L, v)
    BY <1>2, CompatibleAccepts
  <2> QED
    BY <2>1, <2>2
<1>3. CASE ~(L = {} \/ Compatible(L, R)) /\ ~Compatible(R, L)
  <2>1. OptionalUnion(L, R) = Merged(L \cup R)
    BY <1>3 DEF OptionalUnion
  <2>2. WellFormed(L \cup R)
    BY DEF WellFormed
  <2>3. \A v : Accepts(L, v) \/ Accepts(R, v) => Accepts(L \cup R, v)
    BY DEF Accepts
  <2> QED
    BY <2>1, <2>2, <2>3, MergedAccepts
<1> QED
    BY <1>1, <1>2, <1>3

-----------------------------------------------------------------------------
(* One write, in the contracts and in the data.                             *)

(* A value with one field written, and a Data Dict with one key written.   *)
WithField(old, field, type) ==
    [leaf \in DOMAIN old \cup {field} |-> IF leaf = field THEN type ELSE old[leaf]]
Altered(V, key, v) ==
    [r \in DOMAIN V \cup {Root(key)} |->
        IF r # Root(key) THEN V[r]
        ELSE IF Len(key) = 1 THEN v
        ELSE WithField(IF r \in DOMAIN V THEN V[r] ELSE <<>>, Leaf(key), v[Self])]

(* What the runtime refuses: a scalar for an object, or the other way.     *)
Clash(V, key, v) ==
    /\ Root(key) \in DOMAIN V
    /\ IF Len(key) = 1 THEN ~(Self \in DOMAIN V[Root(key)] <=> Self \in DOMAIN v)
       ELSE Self \in DOMAIN V[Root(key)]

(* A write the compilers may meet.                                         *)
WriteOK(w) ==
    /\ w.key \in Keys /\ WellFormed(w.schema)
    /\ Len(w.key) = 2 => \A s \in w.schema : ~IsObject(s)

(* The written field fits the written alternative, and a value that was    *)
(* not written fits it when the write is optional.                         *)
LEMMA FieldFits ==
    ASSUME NEW s, NEW field, field # Self, NEW types, NEW required \in BOOLEAN,
           s.req \subseteq DOMAIN s.props, IsObject(s)
    PROVE  LET t == WriteField(s, field, types, required) IN
           /\ t.req \subseteq DOMAIN t.props /\ IsObject(t)
           /\ \A v, type : Fits(v, s) /\ type \in types => Fits(WithField(v, field, type), t)
           /\ ~required => \A v : Fits(v, s) => Fits(v, t)
<1> DEFINE t == WriteField(s, field, types, required)
<1>1. /\ t.req = IF required THEN s.req \cup {field} ELSE s.req
      /\ DOMAIN t.props = DOMAIN s.props \cup {field}
      /\ \A leaf \in DOMAIN t.props :
           t.props[leaf] = IF leaf # field THEN s.props[leaf]
                           ELSE IF required \/ field \notin DOMAIN s.props THEN types
                           ELSE s.props[field] \cup types
    BY DEF WriteField
<1> HIDE DEF t
<1>2. t.req \subseteq DOMAIN t.props /\ IsObject(t)
    BY <1>1 DEF IsObject
<1>3. ASSUME NEW v, NEW type, Fits(v, s), type \in types
      PROVE  Fits(WithField(v, field, type), t)
  <2> DEFINE u == WithField(v, field, type)
  <2>1. /\ DOMAIN u = DOMAIN v \cup {field} /\ u[field] = type
        /\ \A leaf \in DOMAIN v : leaf # field => u[leaf] = v[leaf]
    BY DEF WithField
  <2>2. /\ s.req \subseteq DOMAIN v /\ DOMAIN v \subseteq DOMAIN s.props
        /\ \A leaf \in DOMAIN v : v[leaf] \in s.props[leaf]
    BY <1>3 DEF Fits
  <2> HIDE DEF u
  <2>3. t.req \subseteq DOMAIN u /\ DOMAIN u \subseteq DOMAIN t.props
    BY <1>1, <2>1, <2>2
  <2>4. ASSUME NEW leaf \in DOMAIN u PROVE u[leaf] \in t.props[leaf]
    <3>1. CASE leaf = field
      BY <1>1, <1>3, <2>1, <3>1
    <3>2. CASE leaf # field
      BY <1>1, <2>1, <2>2, <2>4, <3>2
    <3> QED
      BY <3>1, <3>2
  <2> QED
    BY <2>3, <2>4 DEF Fits, u
<1>4. ASSUME ~required, NEW v, Fits(v, s) PROVE Fits(v, t)
  <2>1. /\ s.req \subseteq DOMAIN v /\ DOMAIN v \subseteq DOMAIN s.props
        /\ \A leaf \in DOMAIN v : v[leaf] \in s.props[leaf]
    BY <1>4 DEF Fits
  <2>2. ASSUME NEW leaf \in DOMAIN v PROVE v[leaf] \in t.props[leaf]
    <3>1. leaf \in DOMAIN s.props /\ v[leaf] \in s.props[leaf] /\ leaf \in DOMAIN t.props
      BY <1>1, <2>1, <2>2
    <3>2. s.props[leaf] \subseteq t.props[leaf]
      BY <1>1, <1>4, <3>1
    <3> QED
      BY <3>1, <3>2
  <2> QED
    BY <1>1, <1>4, <2>1, <2>2 DEF Fits
<1> QED
    BY <1>2, <1>3, <1>4 DEF t

(* The shape that a write of a field creates.                              *)
LEMMA CreatedFits ==
    ASSUME NEW field, field # Self, NEW types
    PROVE  /\ WellFormed(Created(field, types)) /\ \A s \in Created(field, types) : IsObject(s)
           /\ \A type \in types : Accepts(Created(field, types), WithField(<<>>, field, type))
<1> DEFINE s == [props |-> [leaf \in {field} |-> types], req |-> {field}]
<1>1. Created(field, types) = {s}
    BY DEF Created
<1>2. s.req = {field} /\ DOMAIN s.props = {field} /\ s.props[field] = types
    OBVIOUS
<1> HIDE DEF s
<1>3. WellFormed({s}) /\ IsObject(s)
    BY <1>2 DEF WellFormed, IsObject
<1>4. ASSUME NEW type \in types PROVE Fits(WithField(<<>>, field, type), s)
  <2>1. DOMAIN <<>> = {}
    OBVIOUS
  <2>2. /\ DOMAIN WithField(<<>>, field, type) = {field}
        /\ WithField(<<>>, field, type)[field] = type
    BY <2>1 DEF WithField
  <2> QED
    BY <1>2, <2>2 DEF Fits
<1> QED
    BY <1>1, <1>3, <1>4 DEF Accepts

(* The value of a scalar write has one of its types.                       *)
LEMMA WrittenType ==
    ASSUME NEW S, WellFormed(S), \A s \in S : ~IsObject(s), NEW x, Accepts(S, x)
    PROVE  x[Self] \in TypesOf(S)
<1>1. PICK s \in S : Fits(x, s)
    BY DEF Accepts
<1>2. x[Self] \in s.props[Self]
    BY <1>1, ScalarFits
<1> QED
    BY <1>1, <1>2 DEF TypesOf

(* A nested write: the schema it leaves accepts the root with the field    *)
(* written, the root the write creates when there may be none, and the     *)
(* root as it was when the write is optional.                              *)
LEMMA WrittenRootSound ==
    ASSUME NEW state, NEW w, WriteOK(w), Len(w.key) = 2, w.required \in BOOLEAN,
           WellFormed(state.schema[Root(w.key)]),
           \A s \in state.schema[Root(w.key)] : IsObject(s)
    PROVE  LET old == state.schema[Root(w.key)]
               new == WrittenRoot(state, w) IN
           /\ WellFormed(new)
           /\ \A x : Accepts(w.schema, x) =>
                /\ \A v : Accepts(old, v) => Accepts(new, WithField(v, Leaf(w.key), x[Self]))
                /\ old = {} \/ Root(w.key) \notin state.req =>
                     Accepts(new, WithField(<<>>, Leaf(w.key), x[Self]))
           /\ ~w.required => \A v : Accepts(old, v) => Accepts(new, v)
<1> DEFINE old == state.schema[Root(w.key)]
           new == WrittenRoot(state, w)
           types == TypesOf(w.schema)
           field == Leaf(w.key)
           updated == {WriteField(s, field, types, w.required) : s \in old}
           created == Created(field, types)
<1>0. field # Self
    BY KeyForm DEF WriteOK
<1>1. \A x : Accepts(w.schema, x) => x[Self] \in types
    BY WrittenType DEF WriteOK
<1>2. ASSUME NEW s \in old
      PROVE  LET t == WriteField(s, field, types, w.required) IN
             /\ t.req \subseteq DOMAIN t.props /\ IsObject(t)
             /\ \A v, type : Fits(v, s) /\ type \in types => Fits(WithField(v, field, type), t)
             /\ ~w.required => \A v : Fits(v, s) => Fits(v, t)
  <2>1. s.req \subseteq DOMAIN s.props /\ IsObject(s)
    BY DEF WellFormed
  <2> HIDE DEF types, field
  <2> QED
    BY <1>0, <2>1, FieldFits
<1>3. WellFormed(updated)
    BY <1>2 DEF WellFormed
<1>4. ASSUME NEW v, Accepts(old, v), NEW type \in types
      PROVE  Accepts(updated, WithField(v, field, type))
  <2>1. PICK s \in old : Fits(v, s)
    BY <1>4 DEF Accepts
  <2>2. Fits(WithField(v, field, type), WriteField(s, field, types, w.required))
    BY <1>2, <2>1
  <2> QED
    BY <2>2 DEF Accepts
<1>5. ASSUME ~w.required, NEW v, Accepts(old, v) PROVE Accepts(updated, v)
  <2>1. PICK s \in old : Fits(v, s)
    BY <1>5 DEF Accepts
  <2>2. Fits(v, WriteField(s, field, types, w.required))
    BY <1>2, <1>5, <2>1
  <2> QED
    BY <2>2 DEF Accepts
<1>6. /\ WellFormed(created)
      /\ \A type \in types : Accepts(created, WithField(<<>>, field, type))
    BY <1>0, CreatedFits
<1> SUFFICES /\ WellFormed(new)
             /\ \A x : Accepts(w.schema, x) =>
                  /\ \A v : Accepts(old, v) => Accepts(new, WithField(v, field, x[Self]))
                  /\ old = {} \/ Root(w.key) \notin state.req =>
                       Accepts(new, WithField(<<>>, field, x[Self]))
             /\ ~w.required => \A v : Accepts(old, v) => Accepts(new, v)
    OBVIOUS
<1>7. CASE old = {}
  <2>1. new = created
    BY <1>7 DEF WrittenRoot
  <2>2. \A v : ~Accepts(old, v)
    BY <1>7 DEF Accepts
  <2> HIDE DEF new, created, types, field, old
  <2> QED
    BY <1>1, <1>6, <2>1, <2>2
<1>8. CASE old # {} /\ Root(w.key) \in state.req
  <2>1. new = updated
    BY <1>8 DEF WrittenRoot
  <2> HIDE DEF new, updated, types, field, old
  <2> QED
    BY <1>1, <1>3, <1>4, <1>5, <1>8, <2>1
<1>9. CASE old # {} /\ Root(w.key) \notin state.req
  <2>1. new = OptionalUnion(updated, created)
    BY <1>9 DEF WrittenRoot
  <2> HIDE DEF new, updated, created, types, field, old
  <2>2. WellFormed(new) /\ \A v : Accepts(updated, v) \/ Accepts(created, v) => Accepts(new, v)
    BY <1>3, <1>6, <2>1, UnionAccepts
  <2> QED
    BY <1>1, <1>4, <1>5, <1>6, <2>2
<1> QED
    BY <1>7, <1>8, <1>9

(* Whole roots keep their structure: a written value can only replace one  *)
(* of its own kind.                                                        *)
LEMMA StructureKept ==
    ASSUME NEW S, NEW T, WellFormed(S), WellFormed(T), KeepsStructure(S, T),
           NEW v, NEW x, Accepts(S, v), Accepts(T, x)
    PROVE  Self \in DOMAIN v <=> Self \in DOMAIN x
<1>1. PICK s \in S : Fits(v, s)
    BY DEF Accepts
<1>2. PICK t \in T : Fits(x, t)
    BY DEF Accepts
<1>3. IsObject(s) = IsObject(t)
    BY DEF KeepsStructure
<1>4. CASE IsObject(s)
  <2>1. IsObject(t)
    BY <1>3, <1>4
  <2> QED
    BY <1>1, <1>2, <1>4, <2>1, ScalarFits
<1>5. CASE ~IsObject(s)
  <2>1. ~IsObject(t)
    BY <1>3, <1>5
  <2> QED
    BY <1>1, <1>2, <1>5, <2>1, ScalarFits
<1> QED
    BY <1>4, <1>5

(* Objects accept objects only.                                            *)
LEMMA ObjectsAccepted ==
    ASSUME NEW S, \A s \in S : IsObject(s), NEW v, Accepts(S, v)
    PROVE  Self \notin DOMAIN v
BY DEF Accepts, Fits, IsObject

(* One write: when the contracts admit it, no accepted value clashes, and  *)
(* what it leaves fits the contracts it leaves; so does what was there     *)
(* when the write is optional and not carried out.                         *)
LEMMA ApplySound ==
    ASSUME NEW state, NEW w, ContractState(state), WriteOK(w), w.required \in BOOLEAN,
           Apply(state, w).ok
    PROVE  /\ state.ok /\ ContractState(Apply(state, w))
           /\ \A V : DOMAIN V \subseteq Roots /\ Declares(state, V) =>
                /\ ~w.required => Declares(Apply(state, w), V)
                /\ \A x : Accepts(w.schema, x) =>
                     ~Clash(V, w.key, x) /\ Declares(Apply(state, w), Altered(V, w.key, x))
<1> DEFINE r == Root(w.key)
           old == state.schema[r]
           new == IF Len(w.key) = 1 THEN ReplacedRoot(state, w) ELSE WrittenRoot(state, w)
           next == Apply(state, w)
           allowed == IF Len(w.key) = 1 THEN KeepsStructure(old, w.schema)
                      ELSE \A s \in old : IsObject(s)
<1>0. r \in Roots /\ Len(w.key) \in {1, 2} /\ WellFormed(old) /\ WellFormed(w.schema)
    BY KeyForm DEF WriteOK, ContractState
<1>1. state.ok /\ allowed
  <2>1. ~(state.ok /\ allowed) => next = Refused
    BY DEF Apply
  <2>2. ~Refused.ok
    BY DEF Refused, Empty
  <2> HIDE DEF next, allowed
  <2> QED
    BY <2>1, <2>2 DEF next
<1>2. next = [ok |-> TRUE, schema |-> [state.schema EXCEPT ![r] = new],
              req |-> IF w.required THEN state.req \cup {r} ELSE state.req]
    BY <1>1 DEF Apply
<1>3. /\ next.schema = [q \in Roots |-> IF q = r THEN new ELSE state.schema[q]]
      /\ next.req = IF w.required THEN state.req \cup {r} ELSE state.req
  <2>1. state.schema = [q \in Roots |-> state.schema[q]]
    BY DEF ContractState
  <2>2. next.schema = [state.schema EXCEPT ![r] = new]
        /\ next.req = IF w.required THEN state.req \cup {r} ELSE state.req
    BY <1>2
  <2> HIDE DEF new, next
  <2> QED
    BY <2>1, <2>2
(* The written root.                                                       *)
<1>4. /\ WellFormed(new)
      /\ ~w.required => \A v : Accepts(old, v) => Accepts(new, v)
  <2>1. CASE Len(w.key) = 1
    <3>1. new = IF w.required THEN w.schema ELSE OptionalUnion(old, w.schema)
      BY <2>1 DEF ReplacedRoot
    <3> HIDE DEF new, old
    <3> QED
      BY <1>0, <3>1, UnionAccepts
  <2>2. CASE Len(w.key) = 2
    <3>1. new = WrittenRoot(state, w) /\ \A s \in old : IsObject(s)
      BY <1>1, <2>2
    <3> QED
      BY <1>0, <2>2, <3>1, WrittenRootSound
  <2> QED
    BY <1>0, <2>1, <2>2
<1>5. ContractState(next)
  <2> HIDE DEF new
  <2>1. next = [ok |-> next.ok, schema |-> next.schema, req |-> next.req]
    BY <1>2
  <2>2. next.req \subseteq Roots
    BY <1>0, <1>3 DEF ContractState
  <2>3. \A q \in Roots : WellFormed(next.schema[q])
    BY <1>3, <1>4 DEF ContractState
  <2>4. next.schema = [q \in Roots |-> next.schema[q]]
    BY <1>3
  <2> QED
    BY <2>1, <2>2, <2>3, <2>4 DEF ContractState
<1>6. ASSUME NEW V, DOMAIN V \subseteq Roots, Declares(state, V)
      PROVE  /\ ~w.required => Declares(next, V)
             /\ \A x : Accepts(w.schema, x) =>
                  ~Clash(V, w.key, x) /\ Declares(next, Altered(V, w.key, x))
  <2>1. state.req \subseteq DOMAIN V /\ \A q \in DOMAIN V : Accepts(state.schema[q], V[q])
    BY <1>6 DEF Declares
  <2>2. ASSUME ~w.required PROVE Declares(next, V)
    <3> HIDE DEF new, next
    <3>1. \A q \in DOMAIN V : Accepts(next.schema[q], V[q])
      BY <1>3, <1>4, <1>6, <2>1, <2>2
    <3> QED
      BY <1>3, <2>1, <2>2, <3>1 DEF Declares
  <2>3. ASSUME NEW x, Accepts(w.schema, x) PROVE ~Clash(V, w.key, x)
    <3>1. CASE Len(w.key) = 1
      <4>1. KeepsStructure(old, w.schema)
        BY <1>1, <3>1
      <4>2. r \in DOMAIN V => Accepts(old, V[r])
        BY <2>1
      <4> HIDE DEF old
      <4>3. r \in DOMAIN V => (Self \in DOMAIN V[r] <=> Self \in DOMAIN x)
        BY <1>0, <2>3, <4>1, <4>2, StructureKept
      <4> QED
        BY <3>1, <4>3 DEF Clash
    <3>2. CASE Len(w.key) = 2
      <4>1. \A s \in old : IsObject(s)
        BY <1>1, <3>2
      <4>2. r \in DOMAIN V => Accepts(old, V[r])
        BY <2>1
      <4> HIDE DEF old
      <4>3. r \in DOMAIN V => Self \notin DOMAIN V[r]
        BY <4>1, <4>2, ObjectsAccepted
      <4> QED
        BY <3>2, <4>3 DEF Clash
    <3> QED
      BY <1>0, <3>1, <3>2
  <2>4. ASSUME NEW x, Accepts(w.schema, x) PROVE Declares(next, Altered(V, w.key, x))
    <3> DEFINE W == Altered(V, w.key, x)
    <3>1. /\ DOMAIN W = DOMAIN V \cup {r}
          /\ \A q \in DOMAIN V : q # r => W[q] = V[q]
          /\ W[r] = IF Len(w.key) = 1 THEN x
                    ELSE WithField(IF r \in DOMAIN V THEN V[r] ELSE <<>>, Leaf(w.key), x[Self])
      BY DEF Altered
    <3> HIDE DEF W
    <3>2. Accepts(new, W[r])
      <4>1. CASE Len(w.key) = 1
        <5>1. new = IF w.required THEN w.schema ELSE OptionalUnion(old, w.schema)
          BY <4>1 DEF ReplacedRoot
        <5> HIDE DEF new, old
        <5> QED
          BY <1>0, <2>4, <3>1, <4>1, <5>1, UnionAccepts
      <4>2. CASE Len(w.key) = 2
        <5>1. new = WrittenRoot(state, w) /\ \A s \in old : IsObject(s)
          BY <1>1, <4>2
        <5>2. /\ \A v : Accepts(old, v) => Accepts(new, WithField(v, Leaf(w.key), x[Self]))
              /\ old = {} \/ r \notin state.req =>
                   Accepts(new, WithField(<<>>, Leaf(w.key), x[Self]))
          BY <1>0, <2>4, <4>2, <5>1, WrittenRootSound
        <5>3. W[r] = WithField(IF r \in DOMAIN V THEN V[r] ELSE <<>>, Leaf(w.key), x[Self])
          BY <3>1, <4>2
        <5> HIDE DEF new
        <5>4. r \in DOMAIN V => Accepts(old, V[r])
          BY <2>1
        <5>5. r \notin DOMAIN V => r \notin state.req
          BY <2>1
        <5> QED
          BY <5>2, <5>3, <5>4, <5>5
      <4> QED
        BY <1>0, <4>1, <4>2
    <3> HIDE DEF new, next
    <3>3. next.req \subseteq DOMAIN W
      BY <1>3, <2>1, <3>1
    <3>4. ASSUME NEW q \in DOMAIN W PROVE Accepts(next.schema[q], W[q])
      <4>1. CASE q = r
        BY <1>0, <1>3, <3>2, <4>1
      <4>2. CASE q # r
        BY <1>3, <1>6, <2>1, <3>1, <3>4, <4>2
      <4> QED
        BY <4>1, <4>2
    <3> QED
      BY <3>3, <3>4 DEF Declares, W
  <2> QED
    BY <2>2, <2>3, <2>4
<1> QED
  <2> HIDE DEF next
  <2> QED
    BY <1>1, <1>5, <1>6 DEF next

-----------------------------------------------------------------------------
(* A list of writes.                                                        *)
(* The recursion of ApplyAll has a solution, whose end is ApplyAll.        *)
LEMMA ApplyAllUnfolds ==
    ASSUME NEW state, NEW writes, Len(writes) \in Nat
    PROVE  \E f : /\ f = [i \in 0 .. Len(writes) |-> IF i = 0 THEN state ELSE IF writes[i].schema = {} THEN f[i - 1] ELSE Apply(f[i - 1], writes[i])]
                  /\ ApplyAll(state, writes) = f[Len(writes)]
<1> DEFINE Step(f, i) == IF i = 0 THEN state ELSE IF writes[i].schema = {} THEN f[i - 1] ELSE Apply(f[i - 1], writes[i])
           Solves(f, m) == f = [i \in 0 .. m |-> Step(f, i)]
           Good == {m \in Nat : \E f : Solves(f, m)}
<1>1. 0 \in Good
  <2>1. Solves([i \in 0 .. 0 |-> state], 0)
    OBVIOUS
  <2> QED
    BY <2>1
<1>2. ASSUME NEW m \in 1 .. Len(writes), m - 1 \in Good PROVE m \in Good
  <2>1. PICK f : Solves(f, m - 1)
    BY <1>2
  <2> DEFINE h == [i \in 0 .. m |-> IF i = m THEN Step(f, m) ELSE f[i]]
  <2>2. \A i \in 0 .. m : h[i] = Step(h, i)
    <3>1. ASSUME NEW i \in 0 .. (m - 1) PROVE h[i] = Step(h, i)
      <4>1. i # 0 => i - 1 \in 0 .. (m - 1) /\ i - 1 # m /\ h[i - 1] = f[i - 1]
        OBVIOUS
      <4>2. f[i] = Step(f, i) /\ h[i] = f[i]
        <5> HIDE DEF Step
        <5> QED
          BY <2>1
      <4> QED
        BY <4>1, <4>2
    <3>2. h[m] = Step(h, m)
      <4>1. m # 0 /\ m - 1 \in 0 .. m /\ m - 1 # m /\ h[m - 1] = f[m - 1] /\ h[m] = Step(f, m)
        OBVIOUS
      <4> QED
        BY <4>1
    <3>3. \A i \in 0 .. m : i \in 0 .. (m - 1) \/ i = m
      OBVIOUS
    <3> HIDE DEF Step, h
    <3> QED
      BY <3>1, <3>2, <3>3
  <2>3. h = [i \in 0 .. m |-> Step(h, i)]
    BY <2>2
  <2>4. \E g : Solves(g, m)
    <3> WITNESS h
    <3> QED
      BY <2>3
  <2> HIDE DEF Solves
  <2> QED
    BY <2>4
<1>3. Len(writes) \in Good
  <2> HIDE DEF Good
  <2>1. \A m \in 0 .. Len(writes) : m \in Good
    BY <1>1, <1>2, BoundedInduction
  <2> QED
    BY <2>1
<1>4. PICK f : Solves(f, Len(writes))
    BY <1>3
<1> QED
    BY <1>4 DEF ApplyAll

(* Once refused, always refused: so none was.                              *)
LEMMA AcceptedBefore ==
    ASSUME NEW n \in Nat, NEW f, f[n].ok, \A i \in 1 .. n : f[i].ok => f[i - 1].ok
    PROVE  \A i \in 0 .. n : f[i].ok
<1> DEFINE G == {k \in 0 .. n : f[n - k].ok}
<1>1. 0 \in G
    OBVIOUS
<1>2. ASSUME NEW k \in 1 .. n, k - 1 \in G PROVE k \in G
  <2>1. n - (k - 1) \in 1 .. n /\ (n - (k - 1)) - 1 = n - k /\ k \in 0 .. n
    OBVIOUS
  <2>2. f[n - (k - 1)].ok
    BY <1>2
  <2>3. f[n - k].ok
    BY <2>1, <2>2
  <2> QED
    BY <2>1, <2>3
<1> HIDE DEF G
<1>3. \A k \in 0 .. n : k \in G
    BY <1>1, <1>2, BoundedInduction
<1>4. ASSUME NEW i \in 0 .. n PROVE f[i].ok
  <2>1. n - i \in 0 .. n /\ n - (n - i) = i
    OBVIOUS
  <2>2. n - i \in G
    BY <1>3, <2>1
  <2> QED
    BY <2>1, <2>2 DEF G
<1> QED
    BY <1>4

(* The contracts between the writes of a list, none of which is refused.   *)
Accepted(f, state, writes) ==
    /\ f[0] = state /\ ApplyAll(state, writes) = f[Len(writes)]
    /\ \A i \in 0 .. Len(writes) : f[i].ok
    /\ \A i \in 1 .. Len(writes) :
         f[i] = IF writes[i].schema = {} THEN f[i - 1] ELSE Apply(f[i - 1], writes[i])

LEMMA ApplyAllAccepted ==
    ASSUME NEW state, NEW writes, Len(writes) \in Nat, ApplyAll(state, writes).ok
    PROVE  \E f : Accepted(f, state, writes)
<1> DEFINE n == Len(writes)
<1>1. PICK f : /\ f = [i \in 0 .. n |-> IF i = 0 THEN state
                                       ELSE IF writes[i].schema = {} THEN f[i - 1]
                                       ELSE Apply(f[i - 1], writes[i])]
               /\ ApplyAll(state, writes) = f[n]
    BY ApplyAllUnfolds
<1> HIDE DEF n
<1>0. n \in Nat
    BY DEF n
<1>2. f[0] = state
  <2>1. 0 \in 0 .. n
    BY <1>0
  <2> QED
    BY <1>1, <2>1
<1>3. ASSUME NEW i \in 1 .. n
      PROVE  f[i] = IF writes[i].schema = {} THEN f[i - 1] ELSE Apply(f[i - 1], writes[i])
  <2>1. i \in 0 .. n /\ i # 0
    BY <1>0
  <2> QED
    BY <1>1, <2>1
<1>4. ASSUME NEW i \in 1 .. n, f[i].ok PROVE f[i - 1].ok
  <2>1. CASE writes[i].schema = {}
    BY <1>3, <1>4, <2>1
  <2>2. CASE writes[i].schema # {}
    <3>1. f[i] = Apply(f[i - 1], writes[i])
      BY <1>3, <2>2
    <3>2. ~f[i - 1].ok => Apply(f[i - 1], writes[i]) = Refused
      BY DEF Apply
    <3>3. ~Refused.ok
      BY DEF Refused, Empty
    <3> QED
      BY <1>4, <3>1, <3>2, <3>3
  <2> QED
    BY <2>1, <2>2
<1>5. f[n].ok
    BY <1>1 DEF n
<1>6. \A i \in 0 .. n : f[i].ok
    BY <1>0, <1>4, <1>5, AcceptedBefore
<1>7. Accepted(f, state, writes)
    BY <1>1, <1>2, <1>3, <1>6 DEF Accepted, n
<1> QED
    BY <1>7

(* The contracts after each write of a list.                               *)
Steps(f, state, writes) ==
    /\ f[0] = state /\ f[Len(writes)] = ApplyAll(state, writes)
    /\ \A i \in 0 .. Len(writes) : ContractState(f[i]) /\ f[i].ok
    /\ \A i \in 1 .. Len(writes) :
         f[i] = IF writes[i].schema = {} THEN f[i - 1] ELSE Apply(f[i - 1], writes[i])

(* A list that is not refused has no refused write, and leaves contracts.  *)
LEMMA ApplyAllSteps ==
    ASSUME NEW state, ContractState(state), NEW writes, Len(writes) \in Nat,
           \A i \in 1 .. Len(writes) : WriteOK(writes[i]) /\ writes[i].required \in BOOLEAN,
           ApplyAll(state, writes).ok
    PROVE  \E f : Steps(f, state, writes)
<1> DEFINE n == Len(writes)
<1>0. n \in Nat
    OBVIOUS
<1>1. PICK f : Accepted(f, state, writes)
    BY ApplyAllAccepted
<1>2. f[0] = state /\ ApplyAll(state, writes) = f[n]
    BY <1>1 DEF Accepted
<1>3. ASSUME NEW i \in 1 .. n
      PROVE  f[i] = IF writes[i].schema = {} THEN f[i - 1] ELSE Apply(f[i - 1], writes[i])
    BY <1>1 DEF Accepted
<1>5. \A i \in 0 .. n : f[i].ok
    BY <1>1 DEF Accepted
<1> HIDE DEF n
<1>6. \A i \in 0 .. n : ContractState(f[i])
  <2> DEFINE G == {k \in 0 .. n : ContractState(f[k])}
  <2>1. 0 \in G
    BY <1>0, <1>2
  <2>2. ASSUME NEW k \in 1 .. n, k - 1 \in G PROVE k \in G
    <3>1. k \in 0 .. n /\ ContractState(f[k - 1]) /\ f[k].ok
      BY <1>0, <1>5, <2>2
    <3>2. WriteOK(writes[k]) /\ writes[k].required \in BOOLEAN
      BY DEF n
    <3>3. ContractState(f[k])
      BY <1>3, <3>1, <3>2, ApplySound
    <3> QED
      BY <3>1, <3>3
  <2> HIDE DEF G
  <2>3. \A k \in 0 .. n : k \in G
    BY <1>0, <2>1, <2>2, BoundedInduction
  <2> QED
    BY <2>3 DEF G
<1> QED
    BY <1>1, <1>2, <1>3, <1>5, <1>6 DEF n, Steps

(* The recursion of ByKey has a solution, whose end is ByKey.              *)
LEMMA ByKeyUnfolds ==
    ASSUME NEW writes, (2 * Len(DataKeys)) \in Nat
    PROVE  \E f : /\ f = [i \in 0 .. (2 * Len(DataKeys)) |-> IF i = 0 THEN <<>> ELSE IF InTurn(writes, i) = {} THEN f[i - 1] ELSE Append(f[i - 1], CHOOSE w \in InTurn(writes, i) : TRUE)]
                  /\ ByKey(writes) = f[(2 * Len(DataKeys))]
<1> DEFINE Step(f, i) == IF i = 0 THEN <<>> ELSE IF InTurn(writes, i) = {} THEN f[i - 1] ELSE Append(f[i - 1], CHOOSE w \in InTurn(writes, i) : TRUE)
           Solves(f, m) == f = [i \in 0 .. m |-> Step(f, i)]
           Good == {m \in Nat : \E f : Solves(f, m)}
<1>1. 0 \in Good
  <2>1. Solves([i \in 0 .. 0 |-> <<>>], 0)
    OBVIOUS
  <2> QED
    BY <2>1
<1>2. ASSUME NEW m \in 1 .. (2 * Len(DataKeys)), m - 1 \in Good PROVE m \in Good
  <2>1. PICK f : Solves(f, m - 1)
    BY <1>2
  <2> DEFINE h == [i \in 0 .. m |-> IF i = m THEN Step(f, m) ELSE f[i]]
  <2>2. \A i \in 0 .. m : h[i] = Step(h, i)
    <3>1. ASSUME NEW i \in 0 .. (m - 1) PROVE h[i] = Step(h, i)
      <4>1. i # 0 => i - 1 \in 0 .. (m - 1) /\ i - 1 # m /\ h[i - 1] = f[i - 1]
        OBVIOUS
      <4>2. f[i] = Step(f, i) /\ h[i] = f[i]
        <5> HIDE DEF Step
        <5> QED
          BY <2>1
      <4> QED
        BY <4>1, <4>2
    <3>2. h[m] = Step(h, m)
      <4>1. m # 0 /\ m - 1 \in 0 .. m /\ m - 1 # m /\ h[m - 1] = f[m - 1] /\ h[m] = Step(f, m)
        OBVIOUS
      <4> QED
        BY <4>1
    <3>3. \A i \in 0 .. m : i \in 0 .. (m - 1) \/ i = m
      OBVIOUS
    <3> HIDE DEF Step, h
    <3> QED
      BY <3>1, <3>2, <3>3
  <2>3. h = [i \in 0 .. m |-> Step(h, i)]
    BY <2>2
  <2>4. \E g : Solves(g, m)
    <3> WITNESS h
    <3> QED
      BY <2>3
  <2> HIDE DEF Solves
  <2> QED
    BY <2>4
<1>3. (2 * Len(DataKeys)) \in Good
  <2> HIDE DEF Good
  <2>1. \A m \in 0 .. (2 * Len(DataKeys)) : m \in Good
    BY <1>1, <1>2, BoundedInduction
  <2> QED
    BY <2>1
<1>4. PICK f : Solves(f, (2 * Len(DataKeys)))
    BY <1>3
<1> QED
    BY <1>4 DEF ByKey

(* The ordered writes are some of the writes.                              *)
LEMMA ByKeyElements ==
    ASSUME NEW writes
    PROVE  ByKey(writes) \in Seq(writes)
<1> DEFINE n == 2 * Len(DataKeys)
<1>0. n \in Nat
    BY KeysAssumption DEF KeysInOrder
<1>1. PICK f : /\ f = [i \in 0 .. n |-> IF i = 0 THEN <<>>
                                       ELSE IF InTurn(writes, i) = {} THEN f[i - 1]
                                       ELSE Append(f[i - 1], CHOOSE w \in InTurn(writes, i) : TRUE)]
               /\ ByKey(writes) = f[n]
    BY <1>0, ByKeyUnfolds
<1> HIDE DEF n
<1> DEFINE G == {k \in 0 .. n : f[k] \in Seq(writes)}
<1>2. 0 \in G
  <2>1. 0 \in 0 .. n
    BY <1>0
  <2>2. f[0] = <<>>
    BY <1>1, <2>1
  <2>3. <<>> \in Seq(writes)
    OBVIOUS
  <2> QED
    BY <2>1, <2>2, <2>3
<1>3. ASSUME NEW k \in 1 .. n, k - 1 \in G PROVE k \in G
  <2> DEFINE here == CHOOSE w \in InTurn(writes, k) : TRUE
  <2>1. k \in 0 .. n /\ k # 0
    BY <1>0
  <2>2. f[k] = IF InTurn(writes, k) = {} THEN f[k - 1] ELSE Append(f[k - 1], here)
    BY <1>1, <2>1
  <2>3. InTurn(writes, k) # {} => here \in writes
    BY DEF InTurn
  <2>4. f[k - 1] \in Seq(writes)
    BY <1>3
  <2> HIDE DEF here
  <2>5. CASE InTurn(writes, k) = {}
    BY <2>1, <2>2, <2>4, <2>5
  <2>6. CASE InTurn(writes, k) # {}
    <3>1. Append(f[k - 1], here) \in Seq(writes)
      BY <2>3, <2>4, <2>6
    <3> QED
      BY <2>1, <2>2, <2>6, <3>1
  <2> QED
    BY <2>5, <2>6
<1> HIDE DEF G
<1>4. \A k \in 0 .. n : k \in G
    BY <1>0, <1>2, <1>3, BoundedInduction
<1>5. n \in 0 .. n
    BY <1>0
<1> QED
    BY <1>1, <1>4, <1>5 DEF G

-----------------------------------------------------------------------------
(* The heap.                                                                *)

(* A heap that has grown: what was there is as it was.                     *)
Extends(h, g) == Len(h) <= Len(g) /\ \A i \in DOMAIN h : g[i] = h[i]

LEMMA OwnElements ==
    ASSUME NEW S, NEW q \in Seq(S)
    PROVE  q \in Seq({q[i] : i \in DOMAIN q})
OBVIOUS

LEMMA HeapForm ==
    ASSUME NEW h, HeapOK(h)
    PROVE  Len(h) \in Nat /\ DOMAIN h = 1 .. Len(h)
BY DEF HeapOK

LEMMA AppendGrows ==
    ASSUME NEW h, HeapOK(h), NEW v, IsFunction(v)
    PROVE  /\ HeapOK(Append(h, v)) /\ Extends(h, Append(h, v))
           /\ Len(h) + 1 \in DOMAIN Append(h, v) /\ Append(h, v)[Len(h) + 1] = v
           /\ Len(h) + 1 \notin DOMAIN h /\ Len(h) + 1 # 0
<1> DEFINE S == {h[i] : i \in DOMAIN h} \cup {v}
           g == Append(h, v)
<1>1. h \in Seq(S)
  <2>1. h \in Seq({h[i] : i \in DOMAIN h})
    BY DEF HeapOK
  <2> QED
    BY <2>1
<1>2. v \in S
    OBVIOUS
<1>3. /\ g \in Seq(S) /\ Len(g) = Len(h) + 1 /\ DOMAIN g = 1 .. Len(h) + 1 /\ g[Len(h) + 1] = v
      /\ Len(h) \in Nat /\ DOMAIN h = 1 .. Len(h) /\ \A i \in 1 .. Len(h) : g[i] = h[i]
  <2> HIDE DEF S
  <2> QED
    BY <1>1, <1>2
<1> HIDE DEF S, g
<1>4. g \in Seq({g[i] : i \in DOMAIN g})
    BY <1>3, OwnElements
<1>5. ASSUME NEW i \in DOMAIN g PROVE IsFunction(g[i])
  <2>1. CASE i = Len(h) + 1
    BY <1>3, <2>1
  <2>2. CASE i # Len(h) + 1
    <3>1. i \in DOMAIN h /\ g[i] = h[i]
      BY <1>3, <2>2
    <3> QED
      BY <3>1 DEF HeapOK
  <2> QED
    BY <2>1, <2>2
<1> QED
  <2>1. HeapOK(g)
    BY <1>4, <1>5 DEF HeapOK
  <2>2. Extends(h, g)
    BY <1>3 DEF Extends
  <2> QED
    BY <1>3, <2>1, <2>2 DEF g

LEMMA ExtendsTransitive ==
    ASSUME NEW h, NEW g, NEW k, HeapOK(h), HeapOK(g), HeapOK(k), Extends(h, g), Extends(g, k)
    PROVE  Extends(h, k)
BY HeapForm DEF Extends

LEMMA ExtendsReflexive ==
    ASSUME NEW h, HeapOK(h)
    PROVE  Extends(h, h)
BY HeapForm DEF Extends

(* What a Data Dict refers to is as it was in a heap that has grown.       *)
LEMMA LivesOn ==
    ASSUME NEW h, NEW g, NEW d, HeapOK(h), HeapOK(g), Extends(h, g), Lives(h, d)
    PROVE  Lives(g, d) /\ Deref(g, d) = Deref(h, d)
<1>1. \A i \in DOMAIN h : i \in DOMAIN g /\ g[i] = h[i]
    BY HeapForm DEF Extends
<1>2. \A r \in DOMAIN d : d[r] \in DOMAIN h
    BY DEF Lives
<1>3. Deref(g, d) = Deref(h, d)
    BY <1>1, <1>2 DEF Deref
<1> QED
    BY <1>1, <1>2, <1>3 DEF Lives

(* The values of a Data Dict.                                              *)
LEMMA DerefValues ==
    ASSUME NEW h, NEW d, HeapOK(h), Lives(h, d)
    PROVE  /\ DOMAIN Deref(h, d) = DOMAIN d /\ DOMAIN d \subseteq Roots
           /\ IsFunction(Deref(h, d))
           /\ \A r \in DOMAIN d : Deref(h, d)[r] = h[d[r]] /\ IsFunction(Deref(h, d)[r])
BY DEF Deref, Lives, HeapOK, IsFunction

(* Functions are equal when they agree everywhere.                         *)
LEMMA SameFunction ==
    ASSUME NEW f, NEW g, IsFunction(f), IsFunction(g), DOMAIN f = DOMAIN g,
           \A x \in DOMAIN f : f[x] = g[x]
    PROVE  f = g
BY DEF IsFunction

(* A function that has a value at one place and is as another elsewhere.   *)
Moved(V, r, v, W) ==
    /\ IsFunction(W) /\ DOMAIN W = DOMAIN V \cup {r} /\ W[r] = v
    /\ \A q \in DOMAIN V : q # r => W[q] = V[q]

LEMMA MovedIsUnique ==
    ASSUME NEW V, NEW r, NEW v, NEW W, NEW U, Moved(V, r, v, W), Moved(V, r, v, U)
    PROVE  W = U
<1>1. \A x \in DOMAIN W : W[x] = U[x]
    BY DEF Moved
<1>2. IsFunction(W) /\ IsFunction(U) /\ DOMAIN W = DOMAIN U
    BY DEF Moved
<1> QED
    BY <1>1, <1>2, SameFunction

(* A root refers to a cell, the others to what they did.                   *)
LEMMA PutValues ==
    ASSUME NEW h, HeapOK(h), NEW d, Lives(h, d), NEW r \in Roots, NEW cell \in DOMAIN h
    PROVE  /\ Lives(h, Put(d, r, cell))
           /\ Moved(Deref(h, d), r, h[cell], Deref(h, Put(d, r, cell)))
<1> DEFINE e == Put(d, r, cell)
<1>1. /\ e = [q \in DOMAIN d \cup {r} |-> IF q = r THEN cell ELSE d[q]]
      /\ DOMAIN e = DOMAIN d \cup {r}
    BY DEF Put
<1> HIDE DEF e
<1>2. Lives(h, e)
  <2>1. IsFunction(e)
    BY <1>1 DEF IsFunction
  <2>2. ASSUME NEW q \in DOMAIN e PROVE e[q] \in DOMAIN h
    BY <1>1, <2>2 DEF Lives
  <2> QED
    BY <1>1, <2>1, <2>2 DEF Lives
<1>3. Moved(Deref(h, d), r, h[cell], Deref(h, e))
    BY <1>1 DEF Deref, IsFunction, Moved
<1> QED
    BY <1>2, <1>3 DEF e

(* A wire has a cell of the heap, or a value of its own.                   *)
WireOK(h, wire) ==
    /\ IsFunction(wire.value)
    /\ wire.cell # 0 => wire.cell \in DOMAIN h /\ h[wire.cell] = wire.value

(* One write changes its own Data Dict and no cell that was there.         *)
LEMMA WriteSound ==
    ASSUME NEW s, NEW key \in Keys, NEW wire, HeapOK(s.h), Lives(s.h, s.d), s.ok, WireOK(s.h, wire),
           ~Clash(Deref(s.h, s.d), key, wire.value)
    PROVE  LET t == Write(s, key, wire) IN
           /\ t.ok /\ HeapOK(t.h) /\ Extends(s.h, t.h) /\ Lives(t.h, t.d)
           /\ Deref(t.h, t.d) = Altered(Deref(s.h, s.d), key, wire.value)
<1> DEFINE t == Write(s, key, wire)
           r == Root(key)
           V == Deref(s.h, s.d)
<1>0. /\ r \in Roots /\ Len(key) \in {1, 2}
      /\ DOMAIN V = DOMAIN s.d /\ \A q \in DOMAIN s.d : V[q] = s.h[s.d[q]] /\ IsFunction(V[q])
    BY KeyForm, DerefValues
<1> DEFINE written == IF Len(key) = 1 THEN wire.value
                      ELSE WithField(IF r \in DOMAIN V THEN V[r] ELSE <<>>, Leaf(key), wire.value[Self])
           A == Altered(V, key, wire.value)
<1>9. Moved(V, r, written, A)
    BY DEF Altered, IsFunction, Moved
<1> SUFFICES /\ t.ok /\ HeapOK(t.h) /\ Extends(s.h, t.h) /\ Lives(t.h, t.d)
             /\ Deref(t.h, t.d) = A
    OBVIOUS
(* What is left to show, for a cell of some heap that the root refers to.  *)
<1>1. ASSUME NEW g, NEW cell, HeapOK(g), Extends(s.h, g), cell \in DOMAIN g, g[cell] = written,
             t = [ok |-> TRUE, h |-> g, d |-> Put(s.d, r, cell)]
      PROVE  /\ t.ok /\ HeapOK(t.h) /\ Extends(s.h, t.h) /\ Lives(t.h, t.d)
             /\ Deref(t.h, t.d) = A
  <2> HIDE DEF A, written, r
  <2>1. Lives(g, s.d) /\ Deref(g, s.d) = V
    BY <1>1, LivesOn
  <2> DEFINE d == s.d
             e == Put(d, r, cell)
             W == Deref(g, e)
  <2>2. t.ok /\ t.h = g /\ t.d = e
    BY <1>1
  <2> HIDE DEF t, V, d
  <2>3. r \in Roots /\ HeapOK(g) /\ cell \in DOMAIN g /\ Lives(g, d) /\ Deref(g, d) = V
    BY <1>0, <1>1, <2>1 DEF d
  <2>4. Lives(g, e) /\ Moved(Deref(g, d), r, g[cell], W)
    BY <2>3, PutValues
  <2> HIDE DEF e, W
  <2>5. Moved(V, r, written, W)
    BY <1>1, <2>3, <2>4
  <2>6. W = A
    BY <1>9, <2>5, MovedIsUnique
  <2> QED
    BY <1>1, <2>2, <2>4, <2>6 DEF W
<1>2. CASE Len(key) = 1
  <2>1. ~(r \in DOMAIN s.d /\ ((Self \in DOMAIN s.h[s.d[r]]) # (Self \in DOMAIN wire.value)))
    BY <1>0, <1>2 DEF Clash
  <2>2. CASE wire.cell = 0
    <3>1. t = [ok |-> TRUE, h |-> Append(s.h, wire.value), d |-> Put(s.d, r, Len(s.h) + 1)]
      BY <1>2, <2>1, <2>2 DEF Write, WriteWhole
    <3>2. /\ HeapOK(Append(s.h, wire.value)) /\ Extends(s.h, Append(s.h, wire.value))
          /\ Len(s.h) + 1 \in DOMAIN Append(s.h, wire.value)
          /\ Append(s.h, wire.value)[Len(s.h) + 1] = wire.value
      BY AppendGrows DEF WireOK
    <3> QED
      BY <1>1, <1>2, <3>1, <3>2
  <2>3. CASE wire.cell # 0
    <3>1. t = [ok |-> TRUE, h |-> s.h, d |-> Put(s.d, r, wire.cell)]
      BY <1>2, <2>1, <2>3 DEF Write, WriteWhole
    <3>2. Extends(s.h, s.h) /\ wire.cell \in DOMAIN s.h /\ s.h[wire.cell] = wire.value
      BY <2>3, ExtendsReflexive DEF WireOK
    <3> QED
      BY <1>1, <1>2, <3>1, <3>2
  <2> QED
    BY <2>2, <2>3
<1>3. CASE Len(key) = 2
  <2> DEFINE old == IF r \in DOMAIN s.d THEN s.h[s.d[r]] ELSE <<>>
             new == WithField(old, Leaf(key), wire.value[Self])
  <2>1. old = IF r \in DOMAIN V THEN V[r] ELSE <<>>
    BY <1>0
  <2>2. Self \notin DOMAIN old
    BY <1>0, <1>3, <2>1 DEF Clash
  <2>3. IsFunction(new)
    BY DEF WithField, IsFunction
  <2>4. t = [ok |-> TRUE, h |-> Append(s.h, new), d |-> Put(s.d, r, Len(s.h) + 1)]
    <3>1. t = [ok |-> s.ok /\ Self \notin DOMAIN old, h |-> Append(s.h, new), d |-> Put(s.d, r, Len(s.h) + 1)]
      <4>1. t = WriteFieldCopying(s, r, Leaf(key), wire.value[Self])
        BY <1>3 DEF Write
      <4> HIDE DEF t, r
      <4> QED
        BY <4>1 DEF WriteFieldCopying, WithField
    <3>2. (s.ok /\ Self \notin DOMAIN old) <=> TRUE
      BY <2>2
    <3> HIDE DEF t, old, new
    <3>3. (s.ok /\ Self \notin DOMAIN old) = TRUE
      BY <3>2
    <3> QED
      BY <3>1, <3>3
  <2> HIDE DEF new
  <2>5. /\ HeapOK(Append(s.h, new)) /\ Extends(s.h, Append(s.h, new))
        /\ Len(s.h) + 1 \in DOMAIN Append(s.h, new) /\ Append(s.h, new)[Len(s.h) + 1] = new
    BY <2>3, AppendGrows
  <2>6. new = WithField(IF r \in DOMAIN V THEN V[r] ELSE <<>>, Leaf(key), wire.value[Self])
    BY <2>1 DEF new
  <2>7. Append(s.h, new)[Len(s.h) + 1] = written
    BY <1>3, <2>5, <2>6
  <2> DEFINE g == Append(s.h, new)
             cell == Len(s.h) + 1
  <2>8. /\ HeapOK(g) /\ Extends(s.h, g) /\ cell \in DOMAIN g /\ g[cell] = written
        /\ t = [ok |-> TRUE, h |-> g, d |-> Put(s.d, r, cell)]
    BY <2>4, <2>5, <2>7
  <2> HIDE DEF t, V, r, g, cell, A, written
  <2> QED
    BY <1>1, <2>8
<1> QED
    BY <1>0, <1>2, <1>3

(* The recursion of WriteOutputs has a solution, whose end is its value.   *)
LEMMA WriteOutputsUnfolds ==
    ASSUME NEW outputs, NEW out, NEW dicts, NEW target, Len(outputs) \in Nat
    PROVE  \E f : /\ f = [i \in 0 .. Len(outputs) |-> IF i = 0 THEN Dict(heap, target) ELSE IF Carries(outputs[i], out, dicts) THEN Write(f[i - 1], outputs[i].key, Carried(outputs[i], out, dicts)) ELSE f[i - 1]]
                  /\ WriteOutputs(outputs, out, dicts, target) = f[Len(outputs)]
<1> DEFINE Step(f, i) == IF i = 0 THEN Dict(heap, target) ELSE IF Carries(outputs[i], out, dicts) THEN Write(f[i - 1], outputs[i].key, Carried(outputs[i], out, dicts)) ELSE f[i - 1]
           Solves(f, m) == f = [i \in 0 .. m |-> Step(f, i)]
           Good == {m \in Nat : \E f : Solves(f, m)}
<1>1. 0 \in Good
  <2>1. Solves([i \in 0 .. 0 |-> Dict(heap, target)], 0)
    OBVIOUS
  <2> QED
    BY <2>1
<1>2. ASSUME NEW m \in 1 .. Len(outputs), m - 1 \in Good PROVE m \in Good
  <2>1. PICK f : Solves(f, m - 1)
    BY <1>2
  <2> DEFINE h == [i \in 0 .. m |-> IF i = m THEN Step(f, m) ELSE f[i]]
  <2>2. \A i \in 0 .. m : h[i] = Step(h, i)
    <3>1. ASSUME NEW i \in 0 .. (m - 1) PROVE h[i] = Step(h, i)
      <4>1. i # 0 => i - 1 \in 0 .. (m - 1) /\ i - 1 # m /\ h[i - 1] = f[i - 1]
        OBVIOUS
      <4>2. f[i] = Step(f, i) /\ h[i] = f[i]
        <5> HIDE DEF Step
        <5> QED
          BY <2>1
      <4> QED
        BY <4>1, <4>2
    <3>2. h[m] = Step(h, m)
      <4>1. m # 0 /\ m - 1 \in 0 .. m /\ m - 1 # m /\ h[m - 1] = f[m - 1] /\ h[m] = Step(f, m)
        OBVIOUS
      <4> QED
        BY <4>1
    <3>3. \A i \in 0 .. m : i \in 0 .. (m - 1) \/ i = m
      OBVIOUS
    <3> HIDE DEF Step, h
    <3> QED
      BY <3>1, <3>2, <3>3
  <2>3. h = [i \in 0 .. m |-> Step(h, i)]
    BY <2>2
  <2>4. \E g : Solves(g, m)
    <3> WITNESS h
    <3> QED
      BY <2>3
  <2> HIDE DEF Solves
  <2> QED
    BY <2>4
<1>3. Len(outputs) \in Good
  <2> HIDE DEF Good
  <2>1. \A m \in 0 .. Len(outputs) : m \in Good
    BY <1>1, <1>2, BoundedInduction
  <2> QED
    BY <2>1
<1>4. PICK f : Solves(f, Len(outputs))
    BY <1>3
<1> QED
    BY <1>4 DEF WriteOutputs

(* The boundary writes of a run: when the compiler admitted the writes and *)
(* every value carried fits its declaration, none changes a structure, and *)
(* what they leave fits the contracts they leave.                          *)
LEMMA OutputsSound ==
    ASSUME NEW start, ContractState(start), NEW outputs, Len(outputs) \in Nat,
           NEW out, NEW dicts, NEW target,
           HeapOK(heap), Lives(heap, target), Declares(start, Deref(heap, target)),
           ApplyAll(start, outputs).ok,
           \A i \in 1 .. Len(outputs) :
               /\ WriteOK(outputs[i]) /\ outputs[i].required \in BOOLEAN
               /\ outputs[i].required => Carries(outputs[i], out, dicts)
               /\ Carries(outputs[i], out, dicts) =>
                    /\ WireOK(heap, Carried(outputs[i], out, dicts))
                    /\ Accepts(outputs[i].schema, Carried(outputs[i], out, dicts).value)
    PROVE  LET s == WriteOutputs(outputs, out, dicts, target) IN
           /\ s.ok /\ HeapOK(s.h) /\ Extends(heap, s.h) /\ Lives(s.h, s.d)
           /\ Declares(ApplyAll(start, outputs), Deref(s.h, s.d))
<1> DEFINE n == Len(outputs)
           Sound(s, state) == /\ s.ok /\ HeapOK(s.h) /\ Extends(heap, s.h) /\ Lives(s.h, s.d)
                              /\ Declares(state, Deref(s.h, s.d))
<1>8. \A i \in 1 .. Len(outputs) : WriteOK(outputs[i]) /\ outputs[i].required \in BOOLEAN
    OBVIOUS
<1>9. PICK f : Steps(f, start, outputs)
    BY <1>8, ApplyAllSteps
<1>1. /\ f[0] = start /\ f[n] = ApplyAll(start, outputs)
      /\ \A i \in 0 .. n : ContractState(f[i]) /\ f[i].ok
      /\ \A i \in 1 .. n :
           f[i] = IF outputs[i].schema = {} THEN f[i - 1] ELSE Apply(f[i - 1], outputs[i])
    BY <1>9 DEF Steps
<1>2. PICK g : /\ g = [i \in 0 .. n |-> IF i = 0 THEN Dict(heap, target)
                         ELSE IF Carries(outputs[i], out, dicts)
                         THEN Write(g[i - 1], outputs[i].key, Carried(outputs[i], out, dicts))
                         ELSE g[i - 1]]
               /\ WriteOutputs(outputs, out, dicts, target) = g[n]
    BY WriteOutputsUnfolds
<1>0. n \in Nat
    OBVIOUS
<1> HIDE DEF n
<1> DEFINE G == {k \in 0 .. n : Sound(g[k], f[k])}
<1>3. 0 \in G
  <2>1. 0 \in 0 .. n
    BY <1>0
  <2>2. g[0] = Dict(heap, target)
    BY <1>2, <2>1
  <2>3. g[0].ok /\ g[0].h = heap /\ g[0].d = target
    BY <2>2 DEF Dict
  <2>4. Sound(g[0], f[0])
    BY <1>1, <2>3, ExtendsReflexive
  <2> QED
    BY <2>1, <2>4
<1>4. ASSUME NEW k \in 1 .. n, k - 1 \in G PROVE k \in G
  <2> DEFINE o == outputs[k]
             wire == Carried(o, out, dicts)
             s == g[k - 1]
             V == Deref(s.h, s.d)
  <2>1. k \in 0 .. n /\ k # 0 /\ k - 1 \in 0 .. n
    BY <1>0
  <2>2. /\ WriteOK(o) /\ o.required \in BOOLEAN
        /\ o.required => Carries(o, out, dicts)
        /\ Carries(o, out, dicts) => WireOK(heap, wire) /\ Accepts(o.schema, wire.value)
    BY DEF n
  <2>3. Sound(s, f[k - 1])
    BY <1>4
  <2>4. g[k] = IF Carries(o, out, dicts) THEN Write(s, o.key, wire) ELSE s
    BY <1>2, <2>1
  <2>5. f[k] = IF o.schema = {} THEN f[k - 1] ELSE Apply(f[k - 1], o)
    BY <1>1
  <2>6. ContractState(f[k - 1]) /\ f[k].ok
    BY <1>1, <2>1
  <2>7. DOMAIN V \subseteq Roots /\ Declares(f[k - 1], V)
    BY <2>3, DerefValues
  <2> HIDE DEF o, wire, s, V
  <2>8. CASE o.schema = {}
    <3>1. ~Carries(o, out, dicts)
      BY <2>2, <2>8 DEF Accepts
    <3> QED
      BY <2>1, <2>3, <2>4, <2>5, <2>8, <3>1
  <2>9. CASE o.schema # {}
    <3>1. f[k] = Apply(f[k - 1], o)
      BY <2>5, <2>9
    <3>2. /\ ~o.required => Declares(f[k], V)
          /\ \A x : Accepts(o.schema, x) =>
               ~Clash(V, o.key, x) /\ Declares(f[k], Altered(V, o.key, x))
      BY <2>2, <2>6, <2>7, <3>1, ApplySound
    <3>3. CASE ~Carries(o, out, dicts)
      <4>1. g[k] = s /\ Declares(f[k], V)
        BY <2>2, <2>4, <3>2, <3>3
      <4>2. Sound(g[k], f[k])
        BY <2>3, <4>1 DEF V
      <4> QED
        BY <2>1, <4>2
    <3>4. CASE Carries(o, out, dicts)
      <4> DEFINE t == Write(s, o.key, wire)
      <4>1. ~Clash(V, o.key, wire.value) /\ Declares(f[k], Altered(V, o.key, wire.value))
        BY <2>2, <3>2, <3>4
      <4>2. WireOK(s.h, wire)
        <5>1. \A i \in DOMAIN heap : i \in DOMAIN s.h /\ s.h[i] = heap[i]
          BY <2>3, HeapForm DEF Extends
        <5> QED
          BY <2>2, <3>4, <5>1 DEF WireOK
      <4>3. /\ t.ok /\ HeapOK(t.h) /\ Extends(s.h, t.h) /\ Lives(t.h, t.d)
            /\ Deref(t.h, t.d) = Altered(V, o.key, wire.value)
        <5>1. o.key \in Keys /\ HeapOK(s.h) /\ Lives(s.h, s.d) /\ s.ok
          BY <2>2, <2>3 DEF WriteOK
        <5> QED
          BY <4>1, <4>2, <5>1, WriteSound DEF V
      <4> HIDE DEF t
      <4>4. Extends(heap, t.h)
        BY <2>3, <4>3, ExtendsTransitive
      <4>5. Sound(t, f[k])
        BY <4>1, <4>3, <4>4
      <4>6. g[k] = t
        BY <2>4, <3>4 DEF t
      <4> QED
        BY <2>1, <4>5, <4>6
    <3> QED
      BY <3>3, <3>4
  <2> QED
    BY <2>8, <2>9
<1> HIDE DEF G
<1>5. \A k \in 0 .. n : k \in G
    BY <1>0, <1>3, <1>4, BoundedInduction
<1>6. n \in 0 .. n
    BY <1>0
<1> QED
    BY <1>1, <1>2, <1>5, <1>6 DEF G

-----------------------------------------------------------------------------
(* Reading a key.                                                           *)

(* What is declared of a key is of one kind: a field is a scalar.          *)
LEMMA ResolveForm ==
    ASSUME NEW state, ContractState(state), NEW key \in Keys
    PROVE  /\ WellFormed(Resolve(state, key))
           /\ Len(key) = 2 => \A s \in Resolve(state, key) : ~IsObject(s)
<1>1. Len(key) \in {1, 2} /\ Root(key) \in Roots /\ WellFormed(state.schema[Root(key)])
    BY KeyForm DEF ContractState
<1>2. CASE Len(key) = 1
  <2>1. Resolve(state, key) = state.schema[Root(key)]
    BY <1>2 DEF Resolve
  <2> QED
    BY <1>1, <1>2, <2>1
<1>3. CASE Len(key) = 2
  <2> DEFINE types == UNION {s.props[Leaf(key)] :
                               s \in {t \in state.schema[Root(key)] : Leaf(key) \in DOMAIN t.props}}
  <2>1. Resolve(state, key) = {} \/ Resolve(state, key) = Scalar(types)
    BY <1>3 DEF Resolve
  <2> HIDE DEF types
  <2>2. WellFormed({})
    BY DEF WellFormed
  <2> QED
    BY <1>3, <2>1, <2>2, ScalarSchema
<1> QED
    BY <1>1, <1>2, <1>3

(* A value that is there is of what is declared of its key.                *)
LEMMA ResolveSound ==
    ASSUME NEW state, NEW h, NEW d, NEW key \in Keys, Has(h, d, key),
           Accepts(state.schema[Root(key)], h[d[Root(key)]])
    PROVE  Accepts(Resolve(state, key), ValueAt(h, d, key))
<1> DEFINE schema == state.schema[Root(key)]
           v == h[d[Root(key)]]
           leaf == Leaf(key)
<1>1. Len(key) \in {1, 2}
    BY KeyForm
<1>2. CASE Len(key) = 1
    BY <1>2 DEF Resolve, ValueAt
<1>3. CASE Len(key) = 2
  <2> DEFINE types == UNION {s.props[leaf] : s \in {t \in schema : leaf \in DOMAIN t.props}}
  <2>1. leaf \in DOMAIN v
    BY <1>3 DEF Has
  <2>2. PICK s \in schema : Fits(v, s)
    BY DEF Accepts
  <2>3. leaf \in DOMAIN s.props /\ v[leaf] \in s.props[leaf]
    BY <2>1, <2>2 DEF Fits
  <2>4. v[leaf] \in types
    BY <2>2, <2>3
  <2>5. Resolve(state, key) = Scalar(types)
    BY <1>3, <2>4 DEF Resolve
  <2> DEFINE x == [self \in {Self} |-> v[leaf]]
  <2>6. ValueAt(h, d, key) = x
    BY <1>3 DEF ValueAt
  <2>7. DOMAIN x = {Self} /\ x[Self] = v[leaf]
    OBVIOUS
  <2> HIDE DEF x, types, leaf
  <2>8. Accepts(Scalar(types), x)
    BY <2>4, <2>7, ScalarSchema
  <2> QED
    BY <2>5, <2>6, <2>8
<1> QED
    BY <1>1, <1>2, <1>3

(* A path that is guaranteed is there when its root is.                    *)
LEMMA GuaranteedHas ==
    ASSUME NEW schema, NEW h, NEW d, NEW key \in Keys, Root(key) \in DOMAIN d,
           Accepts(schema, h[d[Root(key)]]), PathGuaranteed(schema, key)
    PROVE  Has(h, d, key)
<1>1. PICK s \in schema : Fits(h[d[Root(key)]], s)
    BY DEF Accepts
<1>2. Len(key) = 1 \/ Leaf(key) \in s.req
    BY DEF PathGuaranteed
<1> QED
    BY <1>1, <1>2 DEF Has, Fits

(* What is required at a key is there, and what is there is of what is     *)
(* declared.                                                               *)
KeyFits(state, h, d, key) ==
    /\ PathRequired(state, key) => Has(h, d, key)
    /\ Has(h, d, key) => Accepts(Resolve(state, key), ValueAt(h, d, key))

(* A value that is there has a cell, or is copied out of one.              *)
LEMMA WireSound ==
    ASSUME NEW h, NEW d, HeapOK(h), Lives(h, d), NEW key, Has(h, d, key)
    PROVE  WireOK(h, Wire(h, d, key)) /\ Wire(h, d, key).value = ValueAt(h, d, key)
<1>1. Root(key) \in DOMAIN d /\ d[Root(key)] \in DOMAIN h /\ IsFunction(h[d[Root(key)]])
    BY DEF Has, Lives, HeapOK
<1>2. /\ Wire(h, d, key).value = ValueAt(h, d, key)
      /\ Wire(h, d, key).cell = IF Len(key) = 1 THEN d[Root(key)] ELSE 0
    BY DEF Wire
<1>3. IsFunction(ValueAt(h, d, key))
    BY <1>1 DEF ValueAt, IsFunction
<1>4. Len(key) = 1 => h[d[Root(key)]] = ValueAt(h, d, key)
    BY DEF ValueAt
<1> QED
    BY <1>1, <1>2, <1>3, <1>4 DEF WireOK

(* A Data Dict that fits its contracts fits them at every key.             *)
LEMMA ReadSound ==
    ASSUME NEW state, NEW h, NEW d, HeapOK(h), Lives(h, d), Declares(state, Deref(h, d)),
           NEW key \in Keys
    PROVE  KeyFits(state, h, d, key)
<1>1. /\ state.req \subseteq DOMAIN d
      /\ \A r \in DOMAIN d : Accepts(state.schema[r], h[d[r]]) /\ IsFunction(h[d[r]]) /\ d[r] \in DOMAIN h
    BY DerefValues DEF Declares, Lives
<1>2. ASSUME PathRequired(state, key) PROVE Has(h, d, key)
  <2>1. Root(key) \in DOMAIN d /\ PathGuaranteed(state.schema[Root(key)], key)
    BY <1>1, <1>2 DEF PathRequired
  <2> QED
    BY <1>1, <2>1, GuaranteedHas
<1>3. ASSUME Has(h, d, key) PROVE Accepts(Resolve(state, key), ValueAt(h, d, key))
  <2>1. Root(key) \in DOMAIN d
    BY <1>3 DEF Has
  <2> QED
    BY <1>1, <1>3, <2>1, ResolveSound
<1> QED
    BY <1>2, <1>3 DEF KeyFits

(* A read the compiler allows neither starves nor gets what it refuses.    *)
LEMMA ReadServed ==
    ASSUME NEW state, NEW h, NEW d, NEW r, KeyFits(state, h, d, r.key),
           ReadAllowed(state, r, TRUE)
    PROVE  /\ r.required => Has(h, d, r.key)
           /\ Has(h, d, r.key) => Accepts(r.schema, ValueAt(h, d, r.key))
<1> DEFINE provided == Resolve(state, r.key)
<1>1. CASE provided = {}
  <2>1. ~r.required
    BY <1>1 DEF ReadAllowed
  <2>2. ~Has(h, d, r.key)
    BY <1>1 DEF KeyFits, Accepts
  <2> QED
    BY <2>1, <2>2
<1>2. CASE provided # {}
  <2>1. (r.required => PathRequired(state, r.key)) /\ Compatible(provided, r.schema)
    BY <1>2 DEF ReadAllowed
  <2> HIDE DEF provided
  <2>2. Has(h, d, r.key) => Accepts(provided, ValueAt(h, d, r.key))
    BY DEF KeyFits, provided
  <2> QED
    BY <2>1, <2>2, CompatibleAccepts DEF KeyFits
<1> QED
    BY <1>1, <1>2

(* What a Module returns: all that is required, each of its declaration.   *)
LEMMA ReturnsForm ==
    ASSUME NEW writes, WritesFit(writes), NEW out \in Returns(writes), NEW w \in writes
    PROVE  /\ w.required => w.key \in DOMAIN out
           /\ w.key \in DOMAIN out => IsFunction(out[w.key]) /\ Accepts(w.schema, out[w.key])
<1>1. PICK given \in {g \in SUBSET writes : {x \in writes : x.required} \subseteq g} :
           out \in {f \in [KeysOf(given) -> UNION {Values(x.schema) : x \in given}] :
                      \A x \in given : f[x.key] \in Values(x.schema)}
    BY DEF Returns
<1>2. DOMAIN out = KeysOf(given) /\ \A x \in given : out[x.key] \in Values(x.schema)
    BY <1>1
<1>3. w.required => w.key \in DOMAIN out
    BY <1>1, <1>2 DEF KeysOf
<1>4. ASSUME w.key \in DOMAIN out PROVE IsFunction(out[w.key]) /\ Accepts(w.schema, out[w.key])
  <2>1. PICK x \in given : x.key = w.key
    BY <1>2, <1>4 DEF KeysOf
  <2>2. x \in writes
    BY <1>1, <2>1
  <2>3. x = w
    BY <2>1, <2>2 DEF WritesFit
  <2>4. out[w.key] \in Values(w.schema)
    BY <1>2, <2>1, <2>3
  <2>5. PICK s \in w.schema : out[w.key] \in {v \in UNION {[leaves -> Types] : leaves \in SUBSET DOMAIN s.props} : Fits(v, s)}
    BY <2>4 DEF Values
  <2>6. PICK leaves \in SUBSET DOMAIN s.props : out[w.key] \in [leaves -> Types] /\ Fits(out[w.key], s)
    BY <2>5
  <2> QED
    BY <2>6 DEF Accepts, IsFunction
<1> QED
    BY <1>3, <1>4

-----------------------------------------------------------------------------
(* Running a compiled Graph, and a direct Module.                           *)

(* What the sources of a run are, and what they hold where it reads.       *)
SourcesOK(graph, dicts, states) ==
    \A from \in DOMAIN dicts :
        /\ ContractState(states[from]) /\ Lives(heap, dicts[from])
        /\ \A key \in KeysFrom(graph, from) : KeyFits(states[from], heap, dicts[from], key)

(* A boundary output is made by a node or wired to a Data Input.           *)
MadeBy(o, w) ==
    o.key = w.key /\ o.schema = w.schema /\ o.required = w.required /\ o.pass = FALSE
PassedBy(o, p, states) ==
    /\ o.key = p.to /\ o.schema = Resolve(states[p.from], p.key)
    /\ o.required = PathRequired(states[p.from], p.key)
    /\ o.pass = TRUE /\ o.from = p.from /\ o.of = p.key

LEMMA MadeForm ==
    ASSUME NEW writes, WritesFit(writes), NEW o \in Made(writes)
    PROVE  /\ WriteOK(o) /\ o.required \in BOOLEAN
           /\ \E w \in writes : MadeBy(o, w)
<1>1. PICK w \in writes : o = [key |-> w.key, schema |-> w.schema, required |-> w.required,
                               pass |-> FALSE, from |-> "node", of |-> w.key]
    BY DEF Made
<1>2. MadeBy(o, w)
    BY <1>1 DEF MadeBy
<1>3. /\ w.key \in Keys /\ w.required \in BOOLEAN /\ WellFormed(w.schema)
      /\ Len(w.key) = 2 => \A s \in w.schema : ~IsObject(s)
    BY DEF WritesFit
<1> QED
    BY <1>2, <1>3 DEF WriteOK, MadeBy

LEMMA OutputsForm ==
    ASSUME NEW graph, NEW from, GraphFits(graph, from),
           NEW states, \A source \in from : ContractState(states[source])
    PROVE  /\ Len(Outputs(graph, states)) \in Nat
           /\ \A i \in 1 .. Len(Outputs(graph, states)) :
                LET o == Outputs(graph, states)[i] IN
                /\ WriteOK(o) /\ o.required \in BOOLEAN
                /\ \/ \E w \in graph.writes : MadeBy(o, w)
                   \/ \E p \in graph.passes : PassedBy(o, p, states)
<1> DEFINE passed == {[key |-> p.to, schema |-> Resolve(states[p.from], p.key), pass |-> TRUE,
                       required |-> PathRequired(states[p.from], p.key),
                       from |-> p.from, of |-> p.key] : p \in graph.passes}
           q == Outputs(graph, states)
<1>1. q \in Seq(Made(graph.writes) \cup passed)
    BY ByKeyElements DEF Outputs
<1>2. ASSUME NEW o \in Made(graph.writes)
      PROVE  WriteOK(o) /\ o.required \in BOOLEAN /\ \E w \in graph.writes : MadeBy(o, w)
    BY MadeForm DEF GraphFits
<1>3. ASSUME NEW o \in passed
      PROVE  WriteOK(o) /\ o.required \in BOOLEAN /\ \E p \in graph.passes : PassedBy(o, p, states)
  <2>1. PICK p \in graph.passes :
             o = [key |-> p.to, schema |-> Resolve(states[p.from], p.key), pass |-> TRUE,
                  required |-> PathRequired(states[p.from], p.key), from |-> p.from, of |-> p.key]
    OBVIOUS
  <2>2. PassedBy(o, p, states)
    BY <2>1 DEF PassedBy
  <2>3. p.from \in from /\ p.key \in Keys /\ p.to \in Keys /\ (Len(p.to) = 2 => Len(p.key) = 2)
    BY DEF GraphFits, PassesFit
  <2>4. /\ WellFormed(Resolve(states[p.from], p.key))
        /\ Len(p.key) = 2 => \A s \in Resolve(states[p.from], p.key) : ~IsObject(s)
    BY <2>3, ResolveForm
  <2>5. PathRequired(states[p.from], p.key) \in BOOLEAN
    BY DEF PathRequired
  <2> QED
    BY <2>2, <2>3, <2>4, <2>5 DEF WriteOK, PassedBy
<1> HIDE DEF q, passed
<1>4. Len(q) \in Nat /\ \A i \in 1 .. Len(q) : q[i] \in Made(graph.writes) \cup passed
    BY <1>1
<1>5. \A i \in 1 .. Len(q) :
           /\ WriteOK(q[i]) /\ q[i].required \in BOOLEAN
           /\ \/ \E w \in graph.writes : MadeBy(q[i], w)
              \/ \E p \in graph.passes : PassedBy(q[i], p, states)
    BY <1>2, <1>3, <1>4
<1> QED
    BY <1>4, <1>5 DEF q

(* What a node made fits its declaration.                                  *)
LEMMA MadeIsCarried ==
    ASSUME NEW writes, WritesFit(writes), NEW out \in Returns(writes), NEW w \in writes,
           NEW o, MadeBy(o, w), NEW dicts
    PROVE  /\ o.required => Carries(o, out, dicts)
           /\ Carries(o, out, dicts) => /\ WireOK(heap, Carried(o, out, dicts))
                                        /\ Accepts(o.schema, Carried(o, out, dicts).value)
<1>1. /\ w.required => w.key \in DOMAIN out
      /\ w.key \in DOMAIN out => IsFunction(out[w.key]) /\ Accepts(w.schema, out[w.key])
    BY ReturnsForm
<1>2. ~o.pass /\ o.key = w.key /\ o.schema = w.schema /\ o.required = w.required
    BY DEF MadeBy
<1>3. (Carries(o, out, dicts) <=> w.key \in DOMAIN out) /\ Carried(o, out, dicts) = Own(out[w.key])
    BY <1>2 DEF Carries, Carried
<1>4. Own(out[w.key]).cell = 0 /\ Own(out[w.key]).value = out[w.key]
    BY DEF Own
<1> QED
    BY <1>1, <1>2, <1>3, <1>4 DEF WireOK

(* What a Data Input passes on is what its source declares.                *)
LEMMA PassedIsCarried ==
    ASSUME HeapOK(heap), NEW graph, NEW dicts, NEW states, SourcesOK(graph, dicts, states), NEW out,
           NEW p \in graph.passes, p.from \in DOMAIN dicts, NEW o, PassedBy(o, p, states)
    PROVE  /\ o.required => Carries(o, out, dicts)
           /\ Carries(o, out, dicts) => /\ WireOK(heap, Carried(o, out, dicts))
                                        /\ Accepts(o.schema, Carried(o, out, dicts).value)
<1> DEFINE d == dicts[p.from]
           state == states[p.from]
<1>1. Lives(heap, d) /\ KeyFits(state, heap, d, p.key)
    BY DEF SourcesOK, KeysFrom
<1>2. /\ o.pass /\ o.schema = Resolve(state, p.key)
      /\ (o.required <=> PathRequired(state, p.key))
    BY DEF PassedBy
<1>3. /\ Carries(o, out, dicts) <=> Has(heap, d, p.key)
      /\ Carried(o, out, dicts) = Wire(heap, d, p.key)
    BY DEF PassedBy, Carries, Carried
<1> HIDE DEF d, state
<1>4. Has(heap, d, p.key) => /\ WireOK(heap, Wire(heap, d, p.key))
                             /\ Wire(heap, d, p.key).value = ValueAt(heap, d, p.key)
    BY <1>1, WireSound
<1> QED
    BY <1>1, <1>2, <1>3, <1>4 DEF KeyFits

(* A run of a compiled Graph, on sources that are what it was compiled     *)
(* against: unless its entry proof asks for more than is guaranteed, it    *)
(* leaves in its target what the compiler declared.                        *)
LEMMA ExecuteSound ==
    ASSUME HeapOK(heap), NEW graph, NEW dicts, NEW states, GraphFits(graph, DOMAIN dicts),
           SourcesOK(graph, dicts, states), NEW outputs, outputs = Outputs(graph, states),
           \A r \in graph.reads : ReadAllowed(states[r.from], r, TRUE),
           NEW start, ContractState(start), NEW target, Lives(heap, target),
           Declares(start, Deref(heap, target)), ApplyAll(start, outputs).ok,
           NEW then, Execute(graph, outputs, dicts, states, target, then)
    PROVE  \/ Fail("entry")
           \/ /\ phase' = then /\ failure' = failure
              /\ HeapOK(heap') /\ Extends(heap, heap') /\ Lives(heap', data')
              /\ Declares(ApplyAll(start, outputs), Deref(heap', data'))
<1>1. \A r \in graph.reads : r.from \in DOMAIN dicts /\ r.key \in Keys
    BY DEF GraphFits, ReadsFit
<1>2. \A p \in graph.passes : p.from \in DOMAIN dicts /\ p.key \in Keys
    BY DEF GraphFits, PassesFit
<1>3. \A from \in DOMAIN dicts : \A key \in KeysFrom(graph, from) : KeyFits(states[from], heap, dicts[from], key)
    BY DEF SourcesOK
<1>4. ~EntryUnfit(graph, dicts, states)
    BY <1>3 DEF EntryUnfit, KeyFits
<1>5. ~Starves(graph.reads, dicts)
  <2>1. SUFFICES ASSUME NEW r \in graph.reads, r.required PROVE Has(heap, dicts[r.from], r.key)
    BY DEF Starves
  <2>2. ReadAllowed(states[r.from], r, TRUE) /\ r.from \in DOMAIN dicts
    BY <1>1
  <2>3. r.key \in KeysFrom(graph, r.from)
    BY DEF KeysFrom
  <2>4. KeyFits(states[r.from], heap, dicts[r.from], r.key)
    BY <1>3, <2>2, <2>3
  <2> QED
    BY <2>1, <2>2, <2>4, ReadServed
<1>6. CASE EntryMissing(graph, dicts, states)
    BY <1>6 DEF Execute
<1>7. CASE ~EntryMissing(graph, dicts, states)
  <2>1. PICK out \in Returns(graph.writes) :
             LET s == WriteOutputs(outputs, out, dicts, target) IN
             IF OutputMissing(outputs, out, dicts) THEN Fail("output")
             ELSE IF ~s.ok THEN Fail("structure")
             ELSE phase' = then /\ heap' = s.h /\ data' = s.d /\ UNCHANGED failure
    BY <1>4, <1>5, <1>7 DEF Execute
  <2> DEFINE s == WriteOutputs(outputs, out, dicts, target)
  <2>2. \A source \in DOMAIN dicts : ContractState(states[source])
    BY DEF SourcesOK
  <2>3. /\ Len(outputs) \in Nat
        /\ \A i \in 1 .. Len(outputs) :
             /\ WriteOK(outputs[i]) /\ outputs[i].required \in BOOLEAN
             /\ \/ \E w \in graph.writes : MadeBy(outputs[i], w)
                \/ \E p \in graph.passes : PassedBy(outputs[i], p, states)
    BY <2>2, OutputsForm
  <2>4. ASSUME NEW i \in 1 .. Len(outputs)
        PROVE  /\ outputs[i].required => Carries(outputs[i], out, dicts)
               /\ Carries(outputs[i], out, dicts) =>
                    /\ WireOK(heap, Carried(outputs[i], out, dicts))
                    /\ Accepts(outputs[i].schema, Carried(outputs[i], out, dicts).value)
    <3> DEFINE o == outputs[i]
    <3>1. CASE \E w \in graph.writes : MadeBy(o, w)
      <4>1. PICK w \in graph.writes : MadeBy(o, w)
        BY <3>1
      <4>2. WritesFit(graph.writes)
        BY DEF GraphFits
      <4> HIDE DEF o
      <4>3. /\ o.required => Carries(o, out, dicts)
            /\ Carries(o, out, dicts) => /\ WireOK(heap, Carried(o, out, dicts))
                                         /\ Accepts(o.schema, Carried(o, out, dicts).value)
        BY <4>1, <4>2, MadeIsCarried
      <4> QED
        BY <4>3 DEF o
    <3>2. CASE \E p \in graph.passes : PassedBy(o, p, states)
      <4>1. PICK p \in graph.passes : PassedBy(o, p, states)
        BY <3>2
      <4>2. p.from \in DOMAIN dicts
        BY <1>2
      <4> HIDE DEF o
      <4>3. /\ o.required => Carries(o, out, dicts)
            /\ Carries(o, out, dicts) => /\ WireOK(heap, Carried(o, out, dicts))
                                         /\ Accepts(o.schema, Carried(o, out, dicts).value)
        BY <4>1, <4>2, PassedIsCarried
      <4> QED
        BY <4>3 DEF o
    <3> QED
      BY <2>3, <3>1, <3>2
  <2>5. /\ s.ok /\ HeapOK(s.h) /\ Extends(heap, s.h) /\ Lives(s.h, s.d)
        /\ Declares(ApplyAll(start, outputs), Deref(s.h, s.d))
    BY <2>3, <2>4, OutputsSound
  <2>6. ~OutputMissing(outputs, out, dicts)
    <3>1. \A i \in DOMAIN outputs : i \in 1 .. Len(outputs)
      BY ByKeyElements DEF Outputs
    <3> QED
      BY <2>4, <3>1 DEF OutputMissing
  <2> HIDE DEF s
  <2>7. phase' = then /\ heap' = s.h /\ data' = s.d /\ failure' = failure
    BY <2>1, <2>5, <2>6 DEF s
  <2> QED
    BY <2>5, <2>7
<1> QED
    BY <1>6, <1>7

(* The writes of a direct Module, in the order they are made.              *)
LEMMA DirectWrites ==
    ASSUME NEW writes, WritesFit(writes)
    PROVE  LET q == ByKey(Made(writes)) IN
           /\ Len(q) \in Nat
           /\ \A i \in 1 .. Len(q) : /\ WriteOK(q[i]) /\ q[i].required \in BOOLEAN
                                     /\ \E w \in writes : MadeBy(q[i], w)
<1> DEFINE q == ByKey(Made(writes))
<1>1. q \in Seq(Made(writes))
    BY ByKeyElements
<1>2. \A o \in Made(writes) : /\ WriteOK(o) /\ o.required \in BOOLEAN
                              /\ \E w \in writes : MadeBy(o, w)
    BY MadeForm
<1> HIDE DEF q
<1>3. Len(q) \in Nat /\ \A i \in 1 .. Len(q) : q[i] \in Made(writes)
    BY <1>1
<1>4. \A i \in 1 .. Len(q) : /\ WriteOK(q[i]) /\ q[i].required \in BOOLEAN
                             /\ \E w \in writes : MadeBy(q[i], w)
    BY <1>2, <1>3
<1> QED
    BY <1>3, <1>4 DEF q

(* A direct Module that was not refused may read what it reads, and leaves *)
(* contracts.                                                              *)
LEMMA ApplyModuleForm ==
    ASSUME NEW state, ContractState(state), NEW module, WritesFit(module.writes),
           ApplyModule(state, module).ok
    PROVE  /\ \A r \in module.reads : ReadAllowed(state, r, TRUE)
           /\ ApplyModule(state, module) = ApplyAll(state, ByKey(Made(module.writes)))
           /\ ContractState(ApplyModule(state, module))
<1> DEFINE q == ByKey(Made(module.writes))
<1>1. \A r \in module.reads : ReadAllowed(state, r, TRUE)
  <2>1. ~Refused.ok
    BY DEF Refused, Empty
  <2> QED
    BY <2>1 DEF ApplyModule
<1>2. ApplyModule(state, module) = ApplyAll(state, q)
    BY <1>1 DEF ApplyModule
<1>3. Len(q) \in Nat /\ \A i \in 1 .. Len(q) : WriteOK(q[i]) /\ q[i].required \in BOOLEAN
    BY DirectWrites
<1> HIDE DEF q
<1>4. ContractState(ApplyAll(state, q))
  <2>1. PICK f : Steps(f, state, q)
    BY <1>2, <1>3, ApplyAllSteps
  <2>2. Len(q) \in 0 .. Len(q)
    BY <1>3
  <2> QED
    BY <2>1, <2>2 DEF Steps
<1> QED
    BY <1>1, <1>2, <1>4 DEF q

(* A chain of direct Modules that holds is one of contracts.               *)
LEMMA ChainContracts ==
    ASSUME NEW modules, ModulesFit(modules), NEW state, ContractState(state),
           Holds(Chain(modules, state), Len(modules))
    PROVE  /\ Len(modules) \in Nat
           /\ \A i \in 0 .. Len(modules) :
                ContractState(Chain(modules, state)[i]) /\ Chain(modules, state)[i].ok
<1> DEFINE c == Chain(modules, state)
           n == Len(modules)
           G == {i \in 0 .. n : ContractState(c[i])}
<1>0. n \in Nat /\ DOMAIN modules = 1 .. n
    BY DEF ModulesFit
<1>1. c[0] = state /\ \A i \in 1 .. n : c[i] = ApplyModule(c[i - 1], modules[i])
    BY <1>0, ChainSteps
<1>2. \A i \in 0 .. n : c[i].ok
    BY DEF Holds
<1> HIDE DEF c, n
<1>3. 0 \in G
    BY <1>0, <1>1
<1>4. ASSUME NEW i \in 1 .. n, i - 1 \in G PROVE i \in G
  <2>1. i \in 0 .. n /\ i \in DOMAIN modules /\ ContractState(c[i - 1])
    BY <1>0, <1>4
  <2>2. WritesFit(modules[i].writes) /\ c[i] = ApplyModule(c[i - 1], modules[i]) /\ c[i].ok
    BY <1>1, <1>2, <2>1 DEF ModulesFit
  <2> QED
    BY <2>1, <2>2, ApplyModuleForm
<1> HIDE DEF G
<1>5. \A i \in 0 .. n : i \in G
    BY <1>0, <1>3, <1>4, BoundedInduction
<1> QED
    BY <1>0, <1>2, <1>5 DEF G, c, n

(* A direct Module on data that fits: it gets what it reads, its writes    *)
(* change no structure, and what they leave fits the next contracts.       *)
LEMMA DirectSound ==
    ASSUME NEW modules, ModulesFit(modules), NEW state, ContractState(state),
           Holds(Chain(modules, state), Len(modules)),
           HeapOK(heap), Lives(heap, data), at \in 1 .. Len(modules) + 1,
           Declares(Chain(modules, state)[at - 1], Deref(heap, data)),
           NEW here, NEW then, RunDirect(modules, here, then)
    PROVE  /\ failure' = failure
           /\ HeapOK(heap') /\ Extends(heap, heap') /\ Lives(heap', data')
           /\ \/ /\ phase' = then /\ heap' = heap /\ data' = data
                 /\ Declares(Chain(modules, state)[Len(modules)], Deref(heap', data'))
              \/ /\ phase' = here /\ at' \in 1 .. Len(modules) + 1
                 /\ Declares(Chain(modules, state)[at' - 1], Deref(heap', data'))
<1> DEFINE c == Chain(modules, state)
           n == Len(modules)
<1>0. n \in Nat /\ DOMAIN modules = 1 .. n
    BY DEF ModulesFit
<1>1. phase = here
    BY DEF RunDirect
<1>2. CASE at > n
  <2>1. phase' = then /\ heap' = heap /\ data' = data /\ failure' = failure
    BY <1>2 DEF RunDirect
  <2>2. at - 1 = n
    BY <1>0, <1>2
  <2> HIDE DEF c
  <2>3. Declares(c[n], Deref(heap', data'))
    BY <2>1, <2>2 DEF c
  <2> QED
    BY <2>1, <2>3, ExtendsReflexive DEF c
<1>3. CASE ~(at > n)
  <2> DEFINE module == modules[at]
             q == ByKey(Made(module.writes))
             given == c[at - 1]
  <2>1. at \in 1 .. n /\ at - 1 \in 0 .. n /\ at \in 0 .. n
    BY <1>0, <1>3
  <2>2. /\ ContractState(given) /\ c[at] = ApplyModule(given, module) /\ c[at].ok
    <3>1. ContractState(given) /\ c[at].ok
      BY <2>1, ChainContracts
    <3>2. c[at] = ApplyModule(given, module)
      BY <1>0, <2>1, ChainSteps
    <3> QED
      BY <3>1, <3>2
  <2>3. ReadsFit(module.reads, {"data"}) /\ WritesFit(module.writes)
    BY <1>0, <2>1 DEF ModulesFit
  <2>4. Declares(given, Deref(heap, data))
    OBVIOUS
  <2> DEFINE fit == ~ \E r \in module.reads :
                        Has(heap, data, r.key) /\ ~Accepts(r.schema, ValueAt(heap, data, r.key))
             starves == Starves(module.reads, [from \in {"data"} |-> data])
  <2>5. IF starves THEN Fail("starved")
        ELSE IF ~fit THEN Fail("unfit")
        ELSE \E out \in Returns(module.writes) :
             \E s \in {WriteOutputs(q, out, <<>>, data)} :
                IF ~s.ok THEN Fail("structure")
                ELSE heap' = s.h /\ data' = s.d /\ at' = at + 1 /\ UNCHANGED <<phase, failure>>
    BY <1>3 DEF RunDirect
  <2> HIDE DEF module, q, given, c
  <2>6. /\ \A r \in module.reads : ReadAllowed(given, r, TRUE)
        /\ c[at] = ApplyAll(given, q)
    BY <2>2, <2>3, ApplyModuleForm DEF q
  <2>7. \A r \in module.reads : /\ r.required => Has(heap, data, r.key)
                                /\ Has(heap, data, r.key) => Accepts(r.schema, ValueAt(heap, data, r.key))
    <3>1. \A r \in module.reads : r.key \in Keys
      BY <2>3 DEF ReadsFit
    <3>2. \A r \in module.reads : KeyFits(given, heap, data, r.key)
      BY <2>4, <3>1, ReadSound
    <3> QED
      BY <2>6, <3>2, ReadServed
  <2>8. ~starves /\ fit
    <3>1. \A r \in module.reads : r.from = "data"
      BY <2>3 DEF ReadsFit
    <3>2. \A r \in module.reads : [from \in {"data"} |-> data][r.from] = data
      BY <3>1
    <3> QED
      BY <2>7, <3>2 DEF Starves
  <2> HIDE DEF starves, fit
  <2>9. PICK out \in Returns(module.writes) :
             LET s == WriteOutputs(q, out, <<>>, data) IN
             IF ~s.ok THEN Fail("structure")
             ELSE heap' = s.h /\ data' = s.d /\ at' = at + 1 /\ UNCHANGED <<phase, failure>>
    BY <2>5, <2>8
  <2>10. /\ Len(q) \in Nat
         /\ \A i \in 1 .. Len(q) : /\ WriteOK(q[i]) /\ q[i].required \in BOOLEAN
                                   /\ \E w \in module.writes : MadeBy(q[i], w)
    BY <2>3, DirectWrites DEF q
  <2>11. ASSUME NEW i \in 1 .. Len(q)
         PROVE  /\ q[i].required => Carries(q[i], out, <<>>)
                /\ Carries(q[i], out, <<>>) =>
                     /\ WireOK(heap, Carried(q[i], out, <<>>))
                     /\ Accepts(q[i].schema, Carried(q[i], out, <<>>).value)
    <3> DEFINE o == q[i]
    <3>1. PICK w \in module.writes : MadeBy(o, w)
      BY <2>10
    <3> HIDE DEF o
    <3>2. /\ o.required => Carries(o, out, <<>>)
          /\ Carries(o, out, <<>>) => /\ WireOK(heap, Carried(o, out, <<>>))
                                      /\ Accepts(o.schema, Carried(o, out, <<>>).value)
      BY <2>3, <3>1, MadeIsCarried
    <3> QED
      BY <3>2 DEF o
  <2> DEFINE s == WriteOutputs(q, out, <<>>, data)
  <2>12. /\ s.ok /\ HeapOK(s.h) /\ Extends(heap, s.h) /\ Lives(s.h, s.d)
         /\ Declares(ApplyAll(given, q), Deref(s.h, s.d))
    <3>1. ApplyAll(given, q).ok
      BY <2>2, <2>6
    <3>2. ContractState(given)
      BY <2>2
    <3> QED
      BY <2>4, <2>10, <2>11, <3>1, <3>2, OutputsSound
  <2> HIDE DEF s
  <2>13. heap' = s.h /\ data' = s.d /\ at' = at + 1 /\ phase' = phase /\ failure' = failure
    BY <2>9, <2>12 DEF s
  <2>14. at' \in 1 .. n + 1 /\ at' - 1 = at
    BY <1>0, <2>1, <2>13
  <2> QED
    BY <1>1, <2>6, <2>12, <2>13, <2>14 DEF c
<1> QED
    BY <1>2, <1>3

(* The recursion of Project has a solution, whose end is its value.        *)
LEMMA ProjectUnfolds ==
    ASSUME NEW s, NEW d, NEW keys, Len(DataKeys) \in Nat
    PROVE  \E f : /\ f = [i \in 0 .. Len(DataKeys) |-> IF i = 0 THEN s ELSE IF DataKeys[i] \in keys THEN Copy(f[i - 1], d, DataKeys[i]) ELSE f[i - 1]]
                  /\ Project(s, d, keys) = f[Len(DataKeys)]
<1> DEFINE Step(f, i) == IF i = 0 THEN s ELSE IF DataKeys[i] \in keys THEN Copy(f[i - 1], d, DataKeys[i]) ELSE f[i - 1]
           Solves(f, m) == f = [i \in 0 .. m |-> Step(f, i)]
           Good == {m \in Nat : \E f : Solves(f, m)}
<1>1. 0 \in Good
  <2>1. Solves([i \in 0 .. 0 |-> s], 0)
    OBVIOUS
  <2> QED
    BY <2>1
<1>2. ASSUME NEW m \in 1 .. Len(DataKeys), m - 1 \in Good PROVE m \in Good
  <2>1. PICK f : Solves(f, m - 1)
    BY <1>2
  <2> DEFINE h == [i \in 0 .. m |-> IF i = m THEN Step(f, m) ELSE f[i]]
  <2>2. \A i \in 0 .. m : h[i] = Step(h, i)
    <3>1. ASSUME NEW i \in 0 .. (m - 1) PROVE h[i] = Step(h, i)
      <4>1. i # 0 => i - 1 \in 0 .. (m - 1) /\ i - 1 # m /\ h[i - 1] = f[i - 1]
        OBVIOUS
      <4>2. f[i] = Step(f, i) /\ h[i] = f[i]
        <5> HIDE DEF Step
        <5> QED
          BY <2>1
      <4> QED
        BY <4>1, <4>2
    <3>2. h[m] = Step(h, m)
      <4>1. m # 0 /\ m - 1 \in 0 .. m /\ m - 1 # m /\ h[m - 1] = f[m - 1] /\ h[m] = Step(f, m)
        OBVIOUS
      <4> QED
        BY <4>1
    <3>3. \A i \in 0 .. m : i \in 0 .. (m - 1) \/ i = m
      OBVIOUS
    <3> HIDE DEF Step, h
    <3> QED
      BY <3>1, <3>2, <3>3
  <2>3. h = [i \in 0 .. m |-> Step(h, i)]
    BY <2>2
  <2>4. \E g : Solves(g, m)
    <3> WITNESS h
    <3> QED
      BY <2>3
  <2> HIDE DEF Solves
  <2> QED
    BY <2>4
<1>3. Len(DataKeys) \in Good
  <2> HIDE DEF Good
  <2>1. \A m \in 0 .. Len(DataKeys) : m \in Good
    BY <1>1, <1>2, BoundedInduction
  <2> QED
    BY <2>1
<1>4. PICK f : Solves(f, Len(DataKeys))
    BY <1>3
<1> QED
    BY <1>4 DEF Project

(* The recursion of DeleteAll has a solution, whose end is its value.      *)
LEMMA DeleteAllUnfolds ==
    ASSUME NEW s, NEW keys, Len(DataKeys) \in Nat
    PROVE  \E f : /\ f = [i \in 0 .. Len(DataKeys) |-> IF i = 0 THEN s ELSE IF DataKeys[i] \in keys THEN Delete(f[i - 1], DataKeys[i]) ELSE f[i - 1]]
                  /\ DeleteAll(s, keys) = f[Len(DataKeys)]
<1> DEFINE Step(f, i) == IF i = 0 THEN s ELSE IF DataKeys[i] \in keys THEN Delete(f[i - 1], DataKeys[i]) ELSE f[i - 1]
           Solves(f, m) == f = [i \in 0 .. m |-> Step(f, i)]
           Good == {m \in Nat : \E f : Solves(f, m)}
<1>1. 0 \in Good
  <2>1. Solves([i \in 0 .. 0 |-> s], 0)
    OBVIOUS
  <2> QED
    BY <2>1
<1>2. ASSUME NEW m \in 1 .. Len(DataKeys), m - 1 \in Good PROVE m \in Good
  <2>1. PICK f : Solves(f, m - 1)
    BY <1>2
  <2> DEFINE h == [i \in 0 .. m |-> IF i = m THEN Step(f, m) ELSE f[i]]
  <2>2. \A i \in 0 .. m : h[i] = Step(h, i)
    <3>1. ASSUME NEW i \in 0 .. (m - 1) PROVE h[i] = Step(h, i)
      <4>1. i # 0 => i - 1 \in 0 .. (m - 1) /\ i - 1 # m /\ h[i - 1] = f[i - 1]
        OBVIOUS
      <4>2. f[i] = Step(f, i) /\ h[i] = f[i]
        <5> HIDE DEF Step
        <5> QED
          BY <2>1
      <4> QED
        BY <4>1, <4>2
    <3>2. h[m] = Step(h, m)
      <4>1. m # 0 /\ m - 1 \in 0 .. m /\ m - 1 # m /\ h[m - 1] = f[m - 1] /\ h[m] = Step(f, m)
        OBVIOUS
      <4> QED
        BY <4>1
    <3>3. \A i \in 0 .. m : i \in 0 .. (m - 1) \/ i = m
      OBVIOUS
    <3> HIDE DEF Step, h
    <3> QED
      BY <3>1, <3>2, <3>3
  <2>3. h = [i \in 0 .. m |-> Step(h, i)]
    BY <2>2
  <2>4. \E g : Solves(g, m)
    <3> WITNESS h
    <3> QED
      BY <2>3
  <2> HIDE DEF Solves
  <2> QED
    BY <2>4
<1>3. Len(DataKeys) \in Good
  <2> HIDE DEF Good
  <2>1. \A m \in 0 .. Len(DataKeys) : m \in Good
    BY <1>1, <1>2, BoundedInduction
  <2> QED
    BY <2>1
<1>4. PICK f : Solves(f, Len(DataKeys))
    BY <1>3
<1> QED
    BY <1>4 DEF DeleteAll

-----------------------------------------------------------------------------
(* Projections of a Data Dict.                                              *)

(* What is wanted of a root, and the values at some keys, place by place.  *)
Wanted(V, K, r) == IF <<r>> \in K THEN DOMAIN V[r] ELSE {leaf \in DOMAIN V[r] : <<r, leaf>> \in K}
Picked(V, K, W) ==
    /\ IsFunction(W)
    /\ \A r : r \in DOMAIN W <=> r \in DOMAIN V /\ (<<r>> \in K \/ Wanted(V, K, r) # {})
    /\ \A r \in DOMAIN W : /\ IsFunction(W[r]) /\ DOMAIN W[r] = Wanted(V, K, r)
                           /\ \A leaf \in DOMAIN W[r] : W[r][leaf] = V[r][leaf]

LEMMA PickedIsUnique ==
    ASSUME NEW V, NEW K, NEW W, NEW U, Picked(V, K, W), Picked(V, K, U)
    PROVE  W = U
<1>1. DOMAIN W = DOMAIN U
    BY DEF Picked
<1>2. ASSUME NEW r \in DOMAIN W PROVE W[r] = U[r]
  <2>1. IsFunction(W[r]) /\ IsFunction(U[r]) /\ DOMAIN W[r] = DOMAIN U[r]
    BY <1>1, <1>2 DEF Picked
  <2>2. \A leaf \in DOMAIN W[r] : W[r][leaf] = U[r][leaf]
    BY <1>1, <1>2, <2>1 DEF Picked
  <2> QED
    BY <2>1, <2>2, SameFunction
<1> QED
    BY <1>1, <1>2, SameFunction DEF Picked

(* A key of a root names the root itself or a leaf of it.                  *)
LEMMA KeyNames ==
    ASSUME NEW key \in Keys, NEW r, NEW leaf, Root(key) = r, Leaf(key) = leaf
    PROVE  (key = <<r>> /\ leaf = Self) \/ (key = <<r, leaf>> /\ leaf # Self)
BY KeyForm

LEMMA NamedKeys ==
    ASSUME NEW r
    PROVE  /\ Root(<<r>>) = r /\ Leaf(<<r>>) = Self /\ Len(<<r>>) = 1
           /\ \A leaf : Root(<<r, leaf>>) = r /\ Leaf(<<r, leaf>>) = leaf /\ Len(<<r, leaf>>) = 2
BY DEF Root, Leaf

LEMMA RestrictedForm ==
    ASSUME NEW V, NEW K, K \subseteq Keys
    PROVE  Picked(V, K, Restricted(V, K))
<1> DEFINE of(r) == {k \in K : Root(k) = r}
           leaves(r) == IF <<r>> \in of(r) THEN DOMAIN V[r]
                        ELSE DOMAIN V[r] \cap {Leaf(k) : k \in of(r)}
           present == {r \in DOMAIN V : <<r>> \in of(r) \/ leaves(r) # {}}
           W == [r \in present |-> [leaf \in leaves(r) |-> V[r][leaf]]]
<1>1. W = Restricted(V, K)
    BY DEF Restricted
<1>2. ASSUME NEW r PROVE (<<r>> \in of(r) <=> <<r>> \in K) /\ leaves(r) = Wanted(V, K, r)
  <2>1. <<r>> \in of(r) <=> <<r>> \in K
    BY NamedKeys
  <2>2. CASE <<r>> \in K
    BY <2>1, <2>2 DEF Wanted
  <2>3. CASE <<r>> \notin K
    <3>1. ASSUME NEW leaf PROVE leaf \in {Leaf(k) : k \in of(r)} <=> <<r, leaf>> \in K
      <4>1. ASSUME NEW k \in of(r), leaf = Leaf(k) PROVE <<r, leaf>> \in K
        BY <2>3, <4>1, KeyNames
      <4>2. <<r, leaf>> \in K => <<r, leaf>> \in of(r) /\ Leaf(<<r, leaf>>) = leaf
        BY NamedKeys
      <4> QED
        BY <4>1, <4>2
    <3>2. leaves(r) = DOMAIN V[r] \cap {Leaf(k) : k \in of(r)}
      BY <2>1, <2>3
    <3>3. Wanted(V, K, r) = {leaf \in DOMAIN V[r] : <<r, leaf>> \in K}
      BY <2>3 DEF Wanted
    <3> HIDE DEF of, leaves
    <3> QED
      BY <2>1, <3>1, <3>2, <3>3
  <2> QED
    BY <2>1, <2>2, <2>3
<1>3. DOMAIN W = present /\ IsFunction(W)
    BY DEF IsFunction
<1>4. ASSUME NEW r \in present
      PROVE  /\ IsFunction(W[r]) /\ DOMAIN W[r] = leaves(r)
             /\ \A leaf \in DOMAIN W[r] : W[r][leaf] = V[r][leaf]
  <2>1. W[r] = [leaf \in leaves(r) |-> V[r][leaf]]
    OBVIOUS
  <2> HIDE DEF W, leaves
  <2> QED
    BY <2>1 DEF IsFunction
<1>5. \A r : r \in present <=> r \in DOMAIN V /\ (<<r>> \in K \/ Wanted(V, K, r) # {})
    BY <1>2
<1> HIDE DEF W, present, leaves, of
<1>6. Picked(V, K, W)
    BY <1>2, <1>3, <1>4, <1>5 DEF Picked
<1> QED
    BY <1>1, <1>6

(* A Data Dict with its heap.                                              *)
IsDict(s) == s = [ok |-> s.ok, h |-> s.h, d |-> s.d]

(* A projection under way: a whole root is shared, a part of one has a     *)
(* cell of its own.                                                        *)
Projected(h, d, s, K) ==
    /\ IsDict(s) /\ HeapOK(s.h) /\ Extends(h, s.h) /\ Lives(s.h, s.d)
    /\ \A r \in DOMAIN s.d : /\ <<r>> \in K => s.d[r] = d[r]
                             /\ <<r>> \notin K => s.d[r] > Len(h)
    /\ \A r, q \in DOMAIN s.d : r # q /\ s.d[r] > Len(h) => s.d[r] # s.d[q]
    /\ Picked(Deref(h, d), K, Deref(s.h, s.d))

LEMMA NothingProjected ==
    ASSUME NEW h, NEW d, HeapOK(h), Lives(h, d)
    PROVE  Projected(h, d, Dict(h, <<>>), {})
<1> DEFINE s == Dict(h, <<>>)
<1>1. s.h = h /\ s.d = <<>> /\ IsDict(s)
    BY DEF Dict, IsDict
<1>2. DOMAIN <<>> = {} /\ <<>> = [r \in {} |-> r]
    OBVIOUS
<1> HIDE DEF s
<1>3. Lives(h, <<>>)
    BY <1>2 DEF Lives, IsFunction
<1>4. DOMAIN Deref(h, <<>>) = {} /\ IsFunction(Deref(h, <<>>))
    BY <1>2 DEF Deref, IsFunction
<1>5. Picked(Deref(h, d), {}, Deref(h, <<>>))
    BY <1>4 DEF Picked, Wanted
<1> QED
    BY <1>1, <1>2, <1>3, <1>5, ExtendsReflexive DEF Projected, s

(* What is wanted of the other roots does not depend on a key.             *)
LEMMA WantedElsewhere ==
    ASSUME NEW V, NEW K, NEW key \in Keys, NEW r, r # Root(key)
    PROVE  (<<r>> \in K \cup {key} <=> <<r>> \in K) /\ Wanted(V, K \cup {key}, r) = Wanted(V, K, r)
<1>1. key # <<r>> /\ \A leaf : key # <<r, leaf>>
    BY NamedKeys
<1> QED
    BY <1>1 DEF Wanted

(* A key that is not there adds nothing.                                   *)
LEMMA PickedAbsent ==
    ASSUME NEW h, NEW d, NEW K, NEW key \in Keys, NEW W, ~Has(h, d, key),
           Picked(Deref(h, d), K, W)
    PROVE  Picked(Deref(h, d), K \cup {key}, W)
<1> DEFINE V == Deref(h, d)
           L == K \cup {key}
           r == Root(key)
<1>1. DOMAIN V = DOMAIN d /\ \A q \in DOMAIN d : V[q] = h[d[q]]
    BY DEF Deref
<1> HIDE DEF V
<1>2. ASSUME NEW q \in DOMAIN V, q # r
      PROVE  (<<q>> \in L <=> <<q>> \in K) /\ Wanted(V, L, q) = Wanted(V, K, q)
    BY <1>2, WantedElsewhere
<1>3. ASSUME r \in DOMAIN V
      PROVE  (<<r>> \in L <=> <<r>> \in K) /\ Wanted(V, L, r) = Wanted(V, K, r)
  <2>1. Len(key) = 2 /\ Leaf(key) \notin DOMAIN V[r]
    BY <1>1, <1>3, KeyForm DEF Has
  <2>2. key = <<r, Leaf(key)>> /\ key # <<r>>
    BY <2>1, KeyForm, NamedKeys
  <2>3. \A leaf : <<r, leaf>> = key => leaf = Leaf(key)
    BY NamedKeys
  <2> QED
    BY <2>1, <2>2, <2>3 DEF Wanted
<1> HIDE DEF L, r
<1>4. \A q \in DOMAIN V : (<<q>> \in L <=> <<q>> \in K) /\ Wanted(V, L, q) = Wanted(V, K, q)
    BY <1>2, <1>3
<1>5. /\ IsFunction(W)
      /\ \A q : q \in DOMAIN W <=> q \in DOMAIN V /\ (<<q>> \in K \/ Wanted(V, K, q) # {})
      /\ \A q \in DOMAIN W : /\ IsFunction(W[q]) /\ DOMAIN W[q] = Wanted(V, K, q)
                             /\ \A leaf \in DOMAIN W[q] : W[q][leaf] = V[q][leaf]
    BY DEF Picked, V
<1>6. \A q : q \in DOMAIN W <=> q \in DOMAIN V /\ (<<q>> \in L \/ Wanted(V, L, q) # {})
    BY <1>4, <1>5
<1>7. ASSUME NEW q \in DOMAIN W
      PROVE  /\ IsFunction(W[q]) /\ DOMAIN W[q] = Wanted(V, L, q)
             /\ \A leaf \in DOMAIN W[q] : W[q][leaf] = V[q][leaf]
  <2>1. q \in DOMAIN V /\ Wanted(V, L, q) = Wanted(V, K, q)
    BY <1>4, <1>5
  <2> QED
    BY <1>5, <2>1
<1>8. Picked(V, L, W)
    BY <1>5, <1>6, <1>7 DEF Picked
<1> QED
    BY <1>8 DEF V, L

(* The whole root replaces what there was of it.                           *)
LEMMA PickedWhole ==
    ASSUME NEW V, NEW K, NEW r \in DOMAIN V, <<r>> \in Keys, IsFunction(V[r]),
           NEW W, Picked(V, K, W), NEW U, Moved(W, r, V[r], U)
    PROVE  Picked(V, K \cup {<<r>>}, U)
<1>1. Wanted(V, K \cup {<<r>>}, r) = DOMAIN V[r]
    BY DEF Wanted
<1>2. \A q : q # r => (<<q>> \in K \cup {<<r>>} <=> <<q>> \in K)
                      /\ Wanted(V, K \cup {<<r>>}, q) = Wanted(V, K, q)
    BY WantedElsewhere, NamedKeys
<1>3. /\ IsFunction(U) /\ DOMAIN U = DOMAIN W \cup {r} /\ U[r] = V[r]
      /\ \A q \in DOMAIN W : q # r => U[q] = W[q]
    BY DEF Moved
<1>4. \A q : q \in DOMAIN U <=> q \in DOMAIN V /\ (<<q>> \in K \cup {<<r>>} \/ Wanted(V, K \cup {<<r>>}, q) # {})
  <2>1. \A q : q \in DOMAIN W <=> q \in DOMAIN V /\ (<<q>> \in K \/ Wanted(V, K, q) # {})
    BY DEF Picked
  <2> QED
    BY <1>2, <1>3, <2>1
<1>5. ASSUME NEW q \in DOMAIN U
      PROVE  /\ IsFunction(U[q]) /\ DOMAIN U[q] = Wanted(V, K \cup {<<r>>}, q)
             /\ \A leaf \in DOMAIN U[q] : U[q][leaf] = V[q][leaf]
  <2>1. CASE q = r
    BY <1>1, <1>3, <2>1
  <2>2. CASE q # r
    <3>1. q \in DOMAIN W /\ U[q] = W[q]
      BY <1>3, <2>2
    <3> QED
      BY <1>2, <2>2, <3>1 DEF Picked
  <2> QED
    BY <2>1, <2>2
<1> QED
    BY <1>3, <1>4, <1>5 DEF Picked

(* A field joins the fields there were of its root.                        *)
LEMMA PickedField ==
    ASSUME NEW V, NEW K, NEW key \in Keys, Len(key) = 2, Root(key) \in DOMAIN V,
           Leaf(key) \in DOMAIN V[Root(key)],
           NEW W, Picked(V, K, W),
           NEW old, old = IF Root(key) \in DOMAIN W THEN W[Root(key)] ELSE <<>>,
           NEW U, Moved(W, Root(key), WithField(old, Leaf(key), V[Root(key)][Leaf(key)]), U)
    PROVE  Picked(V, K \cup {key}, U)
<1> DEFINE r == Root(key)
           field == Leaf(key)
           new == WithField(old, field, V[r][field])
           L == K \cup {key}
<1>1. key = <<r, field>> /\ key # <<r>>
    BY KeyForm, NamedKeys
<1>2. \A leaf : <<r, leaf>> = key => leaf = field
    BY NamedKeys
<1>3. (<<r>> \in L <=> <<r>> \in K) /\ Wanted(V, L, r) = Wanted(V, K, r) \cup {field}
    BY <1>1, <1>2 DEF Wanted
<1>4. \A q : q # r => (<<q>> \in L <=> <<q>> \in K) /\ Wanted(V, L, q) = Wanted(V, K, q)
    BY WantedElsewhere
<1>5. /\ IsFunction(U) /\ DOMAIN U = DOMAIN W \cup {r} /\ U[r] = new
      /\ \A q \in DOMAIN W : q # r => U[q] = W[q]
    BY DEF Moved
<1>6. DOMAIN old = Wanted(V, K, r) /\ \A leaf \in DOMAIN old : old[leaf] = V[r][leaf]
  <2>1. CASE r \in DOMAIN W
    BY <2>1 DEF Picked
  <2>2. CASE r \notin DOMAIN W
    <3>1. Wanted(V, K, r) = {}
      BY <2>2 DEF Picked
    <3>2. old = <<>> /\ DOMAIN <<>> = {}
      BY <2>2
    <3> QED
      BY <3>1, <3>2
  <2> QED
    BY <2>1, <2>2
<1>7. /\ IsFunction(new) /\ DOMAIN new = DOMAIN old \cup {field}
      /\ \A leaf \in DOMAIN new : new[leaf] = V[r][leaf]
  <2>1. new = [leaf \in DOMAIN old \cup {field} |-> IF leaf = field THEN V[r][field] ELSE old[leaf]]
    BY DEF WithField
  <2> HIDE DEF new, r, field
  <2> QED
    BY <1>6, <2>1 DEF IsFunction
<1> HIDE DEF new, r, field, L
<1>8. \A q : q \in DOMAIN U <=> q \in DOMAIN V /\ (<<q>> \in L \/ Wanted(V, L, q) # {})
  <2>1. \A q : q \in DOMAIN W <=> q \in DOMAIN V /\ (<<q>> \in K \/ Wanted(V, K, q) # {})
    BY DEF Picked
  <2>2. r \in DOMAIN V
    BY DEF r
  <2> QED
    BY <1>3, <1>4, <1>5, <2>1, <2>2
<1>9. ASSUME NEW q \in DOMAIN U
      PROVE  /\ IsFunction(U[q]) /\ DOMAIN U[q] = Wanted(V, L, q)
             /\ \A leaf \in DOMAIN U[q] : U[q][leaf] = V[q][leaf]
  <2>1. CASE q = r
    BY <1>3, <1>5, <1>6, <1>7, <2>1
  <2>2. CASE q # r
    <3>1. q \in DOMAIN W /\ U[q] = W[q]
      BY <1>5, <2>2
    <3>2. /\ IsFunction(W[q]) /\ DOMAIN W[q] = Wanted(V, K, q)
          /\ \A leaf \in DOMAIN W[q] : W[q][leaf] = V[q][leaf]
      BY <3>1 DEF Picked
    <3>3. Wanted(V, L, q) = Wanted(V, K, q)
      BY <1>4, <2>2
    <3> QED
      BY <3>1, <3>2, <3>3
  <2> QED
    BY <2>1, <2>2
<1>10. Picked(V, L, U)
    BY <1>5, <1>8, <1>9 DEF Picked
<1> QED
    BY <1>10 DEF L

(* One cell gets another value, and only its owner sees it.                *)
Owns(d, r) == r \in DOMAIN d /\ \A q \in DOMAIN d : q # r => d[q] # d[r]
SetAt(h, cell, v) == [h EXCEPT ![cell] = v]
OnlyAt(h, cell, g) == Len(g) = Len(h) /\ \A i \in DOMAIN h : i # cell => g[i] = h[i]

LEMMA SetCell ==
    ASSUME NEW h, HeapOK(h), NEW d, Lives(h, d), NEW r, Owns(d, r), NEW v, IsFunction(v)
    PROVE  /\ HeapOK(SetAt(h, d[r], v)) /\ Lives(SetAt(h, d[r], v), d)
           /\ OnlyAt(h, d[r], SetAt(h, d[r], v))
           /\ Moved(Deref(h, d), r, v, Deref(SetAt(h, d[r], v), d))
<1> USE DEF Owns
<1> DEFINE g == SetAt(h, d[r], v)
           S == {h[i] : i \in DOMAIN h} \cup {v}
           c == d[r]
<1>1. h \in Seq(S) /\ v \in S
  <2>1. h \in Seq({h[i] : i \in DOMAIN h})
    BY DEF HeapOK
  <2> QED
    BY <2>1
<1>2. c \in 1 .. Len(h) /\ DOMAIN h = 1 .. Len(h)
    BY HeapForm DEF Lives
<1> HIDE DEF S
<1>3. /\ g \in Seq(S) /\ Len(g) = Len(h) /\ DOMAIN g = DOMAIN h /\ g[c] = v
      /\ \A i \in DOMAIN h : i # c => g[i] = h[i]
    BY <1>1, <1>2, ExceptSeq DEF SetAt
<1> HIDE DEF g
<1>4. HeapOK(g)
  <2>1. g \in Seq({g[i] : i \in DOMAIN g})
    BY <1>3, OwnElements
  <2>2. ASSUME NEW i \in DOMAIN g PROVE IsFunction(g[i])
    BY <1>3, <2>2 DEF HeapOK
  <2> QED
    BY <2>1, <2>2 DEF HeapOK
<1>5. Lives(g, d)
    BY <1>3 DEF Lives
<1>6. Moved(Deref(h, d), r, v, Deref(g, d))
  <2>1. /\ DOMAIN Deref(h, d) = DOMAIN d /\ DOMAIN Deref(g, d) = DOMAIN d
        /\ IsFunction(Deref(g, d))
        /\ \A q \in DOMAIN d : Deref(h, d)[q] = h[d[q]] /\ Deref(g, d)[q] = g[d[q]]
    BY DEF Deref, IsFunction
  <2>2. \A q \in DOMAIN d : q # r => g[d[q]] = h[d[q]]
    BY <1>3 DEF Lives
  <2>3. g[d[r]] = v
    BY <1>3
  <2> DEFINE V == Deref(h, d)
             W == Deref(g, d)
  <2>4. /\ IsFunction(W) /\ DOMAIN W = DOMAIN V \cup {r} /\ W[r] = v
        /\ \A q \in DOMAIN V : q # r => W[q] = V[q]
    <3> HIDE DEF V, W, c
    <3> QED
      BY <2>1, <2>2, <2>3 DEF V, W
  <2> HIDE DEF V, W, c
  <2>5. Moved(V, r, v, W)
    BY <2>4 DEF Moved
  <2> QED
    BY <2>5 DEF V, W
<1> QED
    BY <1>3, <1>4, <1>5, <1>6 DEF g, OnlyAt

(* One path of a projection.                                               *)
LEMMA CopyProjects ==
    ASSUME NEW h, HeapOK(h), NEW d, Lives(h, d), NEW K, NEW s, Projected(h, d, s, K),
           NEW key \in Keys
    PROVE  Projected(h, d, Copy(s, d, key), K \cup {key})
<1> DEFINE V == Deref(h, d)
           W == Deref(s.h, s.d)
           r == Root(key)
           L == K \cup {key}
           t == Copy(s, d, key)
<1>1. /\ IsDict(s) /\ HeapOK(s.h) /\ Extends(h, s.h) /\ Lives(s.h, s.d)
      /\ \A q \in DOMAIN s.d : /\ <<q>> \in K => s.d[q] = d[q]
                               /\ <<q>> \notin K => s.d[q] > Len(h)
      /\ \A p, q \in DOMAIN s.d : p # q /\ s.d[p] > Len(h) => s.d[p] # s.d[q]
      /\ Picked(V, K, W)
    BY DEF Projected
<1>2. /\ DOMAIN V = DOMAIN d /\ Len(h) \in Nat
      /\ \A q \in DOMAIN d : /\ d[q] \in 1 .. Len(h) /\ d[q] \in DOMAIN s.h
                             /\ V[q] = h[d[q]] /\ s.h[d[q]] = V[q] /\ IsFunction(V[q])
  <2>1. \A i \in DOMAIN h : i \in DOMAIN s.h /\ s.h[i] = h[i]
    BY <1>1, HeapForm DEF Extends
  <2>2. \A q \in DOMAIN d : d[q] \in DOMAIN h
    BY DEF Lives
  <2> QED
    BY <2>1, <2>2, HeapForm, DerefValues
<1>3. /\ DOMAIN W = DOMAIN s.d
      /\ \A q \in DOMAIN s.d : W[q] = s.h[s.d[q]] /\ IsFunction(W[q])
    BY <1>1, DerefValues
<1>4. Len(key) \in {1, 2} /\ r \in Roots /\ (Len(key) = 1 => key = <<r>>)
      /\ (Len(key) = 2 => key # <<r>>)
    BY KeyForm, NamedKeys
<1>5. \A q : q # r => (<<q>> \in L <=> <<q>> \in K)
    BY WantedElsewhere
<1>6. Has(s.h, d, key) <=> Has(h, d, key)
    BY <1>2 DEF Has
<1> HIDE DEF V, W, r, L, t
<1>7. CASE ~Has(h, d, key)
  <2>1. t = s
    BY <1>6, <1>7 DEF Copy, t
  <2>2. Picked(V, L, W)
    BY <1>1, <1>7, PickedAbsent DEF V, L
  <2>3. \A q \in DOMAIN s.d : <<q>> \in L <=> <<q>> \in K
    <3>1. r \in DOMAIN s.d => Len(key) = 2
      BY <1>1, <1>2, <1>3, <1>4, <1>7 DEF Picked, Has, r
    <3> QED
      BY <1>4, <1>5, <3>1 DEF L
  <2> QED
    BY <1>1, <2>1, <2>2, <2>3 DEF Projected, V, W, L, t
<1>8. CASE Has(h, d, key) /\ Len(key) = 1
  <2> DEFINE e == Put(s.d, r, d[r])
             U == Deref(s.h, e)
  <2>1. r \in DOMAIN d
    BY <1>8 DEF Has, r
  <2>2. t.h = s.h /\ t.d = e /\ IsDict(t)
    <3>1. t = WriteWhole(s, r, Wire(s.h, d, key))
      BY <1>6, <1>8 DEF Copy, t, r
    <3>2. Wire(s.h, d, key).cell = d[r] /\ d[r] # 0
      BY <1>2, <1>8, <2>1 DEF Wire, r
    <3> QED
      BY <3>1, <3>2 DEF WriteWhole, IsDict
  <2>3. Lives(s.h, e) /\ Moved(W, r, V[r], U)
    <3>1. d[r] \in DOMAIN s.h /\ s.h[d[r]] = V[r]
      BY <1>2, <2>1
    <3> QED
      BY <1>1, <1>4, <3>1, PutValues DEF W
  <2>4. DOMAIN e = DOMAIN s.d \cup {r} /\ \A q \in DOMAIN e : e[q] = IF q = r THEN d[r] ELSE s.d[q]
    BY DEF Put
  <2> HIDE DEF e, U
  <2>5. Picked(V, L, U)
    <3>1. r \in DOMAIN V /\ IsFunction(V[r]) /\ <<r>> \in Keys /\ L = K \cup {<<r>>}
      BY <1>2, <1>4, <1>8, <2>1 DEF L
    <3> QED
      BY <1>1, <2>3, <3>1, PickedWhole
  <2>6. \A q \in DOMAIN e : /\ <<q>> \in L => e[q] = d[q]
                            /\ <<q>> \notin L => e[q] > Len(h)
    <3>1. <<r>> \in L
      BY <1>4, <1>8 DEF L
    <3> QED
      BY <1>1, <1>5, <2>4, <3>1
  <2>7. \A p, q \in DOMAIN e : p # q /\ e[p] > Len(h) => e[p] # e[q]
    <3>1. ~(d[r] > Len(h)) /\ d[r] \in Nat
      BY <1>2, <2>1
    <3> QED
      BY <1>1, <2>4, <3>1
  <2> QED
    BY <1>1, <2>2, <2>3, <2>5, <2>6, <2>7 DEF Projected, V, L, t, U
<1>9. CASE Has(h, d, key) /\ Len(key) = 2
  <2> DEFINE field == Leaf(key)
             old == IF r \in DOMAIN s.d THEN s.h[s.d[r]] ELSE <<>>
             new == WithField(old, field, V[r][field])
  <2>1. r \in DOMAIN d /\ field \in DOMAIN V[r]
    BY <1>2, <1>9 DEF Has, r
  <2>2. /\ t.h = IF r \in DOMAIN s.d THEN [s.h EXCEPT ![s.d[r]] = new] ELSE Append(s.h, new)
        /\ t.d = IF r \in DOMAIN s.d THEN s.d ELSE Put(s.d, r, Len(s.h) + 1)
        /\ IsDict(t)
    <3>1. t = WriteFieldInPlace(s, r, field, ValueAt(s.h, d, key)[Self])
      BY <1>6, <1>9 DEF Copy, t, r
    <3>2. ValueAt(s.h, d, key)[Self] = V[r][field]
      BY <1>2, <1>9, <2>1 DEF ValueAt, r
    <3> HIDE DEF field
    <3> QED
      BY <3>1, <3>2 DEF WriteFieldInPlace, WithField, IsDict
  <2>3. old = IF r \in DOMAIN W THEN W[r] ELSE <<>>
    BY <1>3
  <2>4. IsFunction(new)
    BY DEF WithField, IsFunction
  <2>5. \A U : Moved(W, r, new, U) => Picked(V, L, U)
    <3>1. Root(key) \in DOMAIN V /\ Leaf(key) \in DOMAIN V[Root(key)]
      BY <1>2, <2>1 DEF r
    <3>2. ASSUME NEW U, Moved(W, r, new, U) PROVE Picked(V, K \cup {key}, U)
      <4> HIDE DEF old
      <4> QED
        BY <1>1, <1>9, <2>3, <3>1, <3>2, PickedField DEF r
    <3> QED
      BY <3>2 DEF L
  <2>6. <<r>> \in L <=> <<r>> \in K
    BY <1>4, <1>9 DEF L
  <2> HIDE DEF old, new, field
  <2>7. CASE r \in DOMAIN s.d /\ <<r>> \in K
    <3>1. s.d[r] = d[r] /\ old = V[r] /\ s.d[r] \in DOMAIN s.h
      BY <1>1, <1>2, <2>1, <2>7 DEF old
    <3>2. new = old
      <4>1. /\ IsFunction(old) /\ DOMAIN new = DOMAIN old
            /\ \A leaf \in DOMAIN new : new[leaf] = old[leaf]
        BY <1>2, <2>1, <3>1 DEF new, WithField
      <4> QED
        BY <2>4, <4>1, SameFunction
    <3>3. [s.h EXCEPT ![s.d[r]] = new] = s.h
      <4>1. s.h \in Seq({s.h[i] : i \in DOMAIN s.h})
        BY <1>1 DEF HeapOK
      <4>2. s.h[s.d[r]] = new
        BY <2>7, <3>2 DEF old
      <4> QED
        BY <4>1, <4>2
    <3>4. t.h = s.h /\ t.d = s.d
      BY <2>2, <2>7, <3>3
    <3>5. Moved(W, r, new, W)
      <4>1. r \in DOMAIN W /\ W[r] = new
        BY <1>3, <2>7, <3>2 DEF old
      <4>2. IsFunction(W)
        BY <1>1 DEF Picked
      <4>3. DOMAIN W = DOMAIN W \cup {r}
        BY <4>1
      <4> QED
        BY <4>1, <4>2, <4>3 DEF Moved
    <3>6. Picked(V, L, W)
      BY <2>5, <3>5
    <3>7. \A q \in DOMAIN s.d : <<q>> \in L <=> <<q>> \in K
      BY <1>5, <2>6
    <3> QED
      BY <1>1, <2>2, <3>4, <3>6, <3>7 DEF Projected, V, W, L, t
  <2>8. CASE r \in DOMAIN s.d /\ <<r>> \notin K
    <3> DEFINE g == SetAt(s.h, s.d[r], new)
               U == Deref(g, s.d)
    <3>1. s.d[r] > Len(h) /\ Owns(s.d, r)
      BY <1>1, <2>8 DEF Owns
    <3>2. /\ HeapOK(g) /\ Lives(g, s.d) /\ OnlyAt(s.h, s.d[r], g)
          /\ Moved(W, r, new, U)
      BY <1>1, <2>4, <3>1, SetCell DEF W
    <3>3. t.h = g /\ t.d = s.d
      BY <2>2, <2>8 DEF SetAt
    <3> HIDE DEF g
    <3>4. Extends(h, g)
      <4>1. \A i \in DOMAIN h : i \in DOMAIN s.h /\ i # s.d[r] /\ s.h[i] = h[i]
        BY <1>1, <3>1, HeapForm DEF Extends
      <4> QED
        BY <1>1, <3>2, <4>1 DEF Extends, OnlyAt
    <3>5. Picked(V, L, U)
      BY <2>5, <3>2
    <3>6. \A q \in DOMAIN s.d : <<q>> \in L <=> <<q>> \in K
      BY <1>5, <2>6
    <3> QED
      BY <1>1, <2>2, <3>2, <3>3, <3>4, <3>5, <3>6 DEF Projected, V, L, t
  <2>9. CASE r \notin DOMAIN s.d
    <3> DEFINE g == Append(s.h, new)
               c == Len(s.h) + 1
               e == Put(s.d, r, c)
               U == Deref(g, e)
    <3>1. t.h = g /\ t.d = e
      BY <2>2, <2>9
    <3>2. HeapOK(g) /\ Extends(s.h, g) /\ c \in DOMAIN g /\ g[c] = new
      BY <1>1, <2>4, AppendGrows
    <3>3. DOMAIN e = DOMAIN s.d \cup {r} /\ \A q \in DOMAIN e : e[q] = IF q = r THEN c ELSE s.d[q]
      BY DEF Put
    <3>4. /\ c > Len(h) /\ c \in Nat
          /\ \A q \in DOMAIN s.d : s.d[q] \in Nat /\ s.d[q] < c
      <4>1. Len(h) <= Len(s.h) /\ Len(s.h) \in Nat /\ DOMAIN s.h = 1 .. Len(s.h)
        BY <1>1, HeapForm DEF Extends
      <4>2. \A q \in DOMAIN s.d : s.d[q] \in 1 .. Len(s.h)
        BY <1>1, <4>1 DEF Lives
      <4> QED
        BY <1>2, <4>1, <4>2
    <3> HIDE DEF g, c, e
    <3>5. Lives(g, s.d) /\ Deref(g, s.d) = W
      BY <1>1, <3>2, LivesOn DEF W
    <3>6. Lives(g, e) /\ Moved(W, r, new, U)
      <4> DEFINE f == s.d
      <4>1. Lives(g, f) /\ Deref(g, f) = W /\ e = Put(f, r, c)
        BY <3>5 DEF e
      <4> HIDE DEF f
      <4> QED
        BY <1>4, <3>2, <4>1, PutValues
    <3>7. Picked(V, L, U)
      BY <2>5, <3>6
    <3>8. Extends(h, g)
      BY <1>1, <3>2, ExtendsTransitive
    <3>9. <<r>> \notin K
      <4>1. r \notin DOMAIN W /\ r \in DOMAIN V
        BY <1>2, <1>3, <2>1, <2>9
      <4> QED
        BY <1>1, <4>1 DEF Picked
    <3>10. \A q \in DOMAIN e : /\ <<q>> \in L => e[q] = d[q]
                               /\ <<q>> \notin L => e[q] > Len(h)
      BY <1>1, <1>5, <2>6, <3>3, <3>4, <3>9
    <3>11. \A p, q \in DOMAIN e : p # q /\ e[p] > Len(h) => e[p] # e[q]
      BY <1>1, <3>3, <3>4
    <3> QED
      BY <2>2, <3>1, <3>2, <3>6, <3>7, <3>8, <3>10, <3>11 DEF Projected, V, L, t
  <2> QED
    BY <2>7, <2>8, <2>9
<1> QED
    BY <1>4, <1>7, <1>8, <1>9 DEF t, L

(* The keys met by the i-th step of a walk over some keys.                 *)
Met(keys, i) == {DataKeys[j] : j \in 1 .. i} \cap keys

LEMMA MetSteps ==
    ASSUME NEW keys, keys \subseteq Keys
    PROVE  /\ Len(DataKeys) \in Nat
           /\ Met(keys, 0) = {} /\ Met(keys, Len(DataKeys)) = keys
           /\ \A i \in 1 .. Len(DataKeys) :
                /\ DataKeys[i] \in Keys
                /\ Met(keys, i) = IF DataKeys[i] \in keys THEN Met(keys, i - 1) \cup {DataKeys[i]}
                                  ELSE Met(keys, i - 1)
<1>1. Len(DataKeys) \in Nat /\ DOMAIN DataKeys = 1 .. Len(DataKeys)
    BY KeysAssumption DEF KeysInOrder
<1>2. Met(keys, 0) = {}
    BY DEF Met
<1>3. Met(keys, Len(DataKeys)) = keys
    BY <1>1 DEF Met, Keys
<1>4. ASSUME NEW i \in 1 .. Len(DataKeys)
      PROVE  /\ DataKeys[i] \in Keys
             /\ Met(keys, i) = IF DataKeys[i] \in keys THEN Met(keys, i - 1) \cup {DataKeys[i]}
                               ELSE Met(keys, i - 1)
  <2>1. \A j : j \in 1 .. i <=> j \in 1 .. (i - 1) \/ j = i
    BY <1>1
  <2>2. {DataKeys[j] : j \in 1 .. i} = {DataKeys[j] : j \in 1 .. (i - 1)} \cup {DataKeys[i]}
    BY <2>1
  <2> QED
    BY <1>1, <2>2 DEF Met, Keys
<1> QED
    BY <1>1, <1>2, <1>3, <1>4

(* A projection adds the keys it is asked for to what was projected.       *)
LEMMA ProjectSound ==
    ASSUME NEW h, HeapOK(h), NEW d, Lives(h, d), NEW keys, keys \subseteq Keys,
           NEW K, NEW s, Projected(h, d, s, K)
    PROVE  Projected(h, d, Project(s, d, keys), K \cup keys)
<1> DEFINE n == Len(DataKeys)
<1>0. n \in Nat
    BY MetSteps
<1>1. PICK f : /\ f = [i \in 0 .. n |-> IF i = 0 THEN s
                         ELSE IF DataKeys[i] \in keys THEN Copy(f[i - 1], d, DataKeys[i]) ELSE f[i - 1]]
               /\ Project(s, d, keys) = f[n]
    BY <1>0, ProjectUnfolds
<1>2. /\ Met(keys, 0) = {} /\ Met(keys, n) = keys
      /\ \A i \in 1 .. n :
           /\ DataKeys[i] \in Keys
           /\ Met(keys, i) = IF DataKeys[i] \in keys THEN Met(keys, i - 1) \cup {DataKeys[i]}
                             ELSE Met(keys, i - 1)
    BY MetSteps
<1> HIDE DEF n
<1> DEFINE G == {i \in 0 .. n : Projected(h, d, f[i], K \cup Met(keys, i))}
<1>3. 0 \in G
  <2>1. 0 \in 0 .. n /\ K \cup Met(keys, 0) = K
    BY <1>0, <1>2
  <2>2. f[0] = s
    BY <1>1, <2>1
  <2> QED
    BY <2>1, <2>2
<1>4. ASSUME NEW i \in 1 .. n, i - 1 \in G PROVE i \in G
  <2> DEFINE k == DataKeys[i]
  <2>1. i \in 0 .. n /\ i # 0
    BY <1>0
  <2>2. f[i] = IF k \in keys THEN Copy(f[i - 1], d, k) ELSE f[i - 1]
    BY <1>1, <2>1
  <2>3. /\ k \in Keys
        /\ Met(keys, i) = IF k \in keys THEN Met(keys, i - 1) \cup {k} ELSE Met(keys, i - 1)
    BY <1>2
  <2>4. Projected(h, d, f[i - 1], K \cup Met(keys, i - 1))
    BY <1>4
  <2> HIDE DEF k
  <2>5. CASE k \in keys
    <3>1. Projected(h, d, Copy(f[i - 1], d, k), (K \cup Met(keys, i - 1)) \cup {k})
      BY <2>3, <2>4, CopyProjects
    <3>2. (K \cup Met(keys, i - 1)) \cup {k} = K \cup Met(keys, i)
      BY <2>3, <2>5
    <3> QED
      BY <2>1, <2>2, <2>5, <3>1, <3>2
  <2>6. CASE k \notin keys
    BY <2>1, <2>2, <2>3, <2>4, <2>6
  <2> QED
    BY <2>5, <2>6
<1> HIDE DEF G
<1>5. \A i \in 0 .. n : i \in G
    BY <1>0, <1>3, <1>4, BoundedInduction
<1>6. n \in 0 .. n
    BY <1>0
<1> QED
    BY <1>1, <1>2, <1>5, <1>6 DEF G

(* The values that are left when some leaves are taken out.                *)
Cut(W, D, X) ==
    /\ IsFunction(X) /\ DOMAIN X = DOMAIN W
    /\ \A r \in DOMAIN W : /\ IsFunction(X[r]) /\ DOMAIN X[r] = {leaf \in DOMAIN W[r] : <<r, leaf>> \notin D}
                           /\ \A leaf \in DOMAIN X[r] : X[r][leaf] = W[r][leaf]

CutBack(s, t, D) ==
    /\ IsDict(t) /\ HeapOK(t.h) /\ Extends(s.h, t.h) /\ Lives(t.h, t.d)
    /\ Cut(Deref(s.h, s.d), D, Deref(t.h, t.d))

LEMMA DeleteTrims ==
    ASSUME NEW s, HeapOK(s.h), Lives(s.h, s.d), NEW t, NEW D, CutBack(s, t, D),
           NEW key \in Keys, Len(key) = 2
    PROVE  CutBack(s, Delete(t, key), D \cup {key})
<1> DEFINE W == Deref(s.h, s.d)
           X == Deref(t.h, t.d)
           r == Root(key)
           field == Leaf(key)
           E == D \cup {key}
           u == Delete(t, key)
<1>1. /\ IsDict(t) /\ HeapOK(t.h) /\ Extends(s.h, t.h) /\ Lives(t.h, t.d)
      /\ Cut(W, D, X)
    BY DEF CutBack
<1>2. DOMAIN X = DOMAIN t.d /\ \A q \in DOMAIN t.d : X[q] = t.h[t.d[q]] /\ IsFunction(X[q])
    BY <1>1, DerefValues
<1>3. key = <<r, field>> /\ r \in Roots
    BY KeyForm
<1>4. \A q, leaf : <<q, leaf>> = key <=> q = r /\ leaf = field
    BY <1>3, NamedKeys
<1>5. \A q, leaf : <<q, leaf>> \in E <=> <<q, leaf>> \in D \/ (q = r /\ leaf = field)
    BY <1>4
<1>6. /\ IsFunction(X) /\ DOMAIN X = DOMAIN W
      /\ \A q \in DOMAIN W : /\ IsFunction(X[q])
                             /\ DOMAIN X[q] = {leaf \in DOMAIN W[q] : <<q, leaf>> \notin D}
                             /\ \A leaf \in DOMAIN X[q] : X[q][leaf] = W[q][leaf]
    BY <1>1 DEF Cut
<1> HIDE DEF W, X, r, field, E, u
<1>7. CASE r \notin DOMAIN t.d
  <2>1. u = t
    BY <1>7 DEF Delete, u, r
  <2>2. \A q \in DOMAIN W : DOMAIN X[q] = {leaf \in DOMAIN W[q] : <<q, leaf>> \notin E}
    <3>1. \A q \in DOMAIN W : q # r
      BY <1>2, <1>6, <1>7
    <3> QED
      BY <1>5, <1>6, <3>1
  <2>3. Cut(W, E, X)
    BY <1>6, <2>2 DEF Cut
  <2> QED
    BY <1>1, <2>1, <2>3 DEF CutBack, W, X, E, u
<1>8. CASE r \in DOMAIN t.d
  <2> DEFINE new == [leaf \in DOMAIN X[r] \ {field} |-> X[r][leaf]]
             g == Append(t.h, new)
             c == Len(t.h) + 1
             e == Put(t.d, r, c)
             Y == Deref(g, e)
  <2>1. IsFunction(new) /\ DOMAIN new = DOMAIN X[r] \ {field} /\ \A leaf \in DOMAIN new : new[leaf] = X[r][leaf]
    BY DEF IsFunction
  <2>2. u.h = g /\ u.d = e /\ IsDict(u)
    <3>1. X[r] = t.h[t.d[r]]
      BY <1>2, <1>8
    <3>2. u = [t EXCEPT !.h = g, !.d = e]
      BY <1>8, <3>1 DEF Delete, u, r, field
    <3>3. u = [ok |-> t.ok, h |-> g, d |-> e]
      BY <1>1, <3>2 DEF IsDict
    <3> QED
      BY <3>3 DEF IsDict
  <2> HIDE DEF new
  <2>3. HeapOK(g) /\ Extends(t.h, g) /\ c \in DOMAIN g /\ g[c] = new
    BY <1>1, <2>1, AppendGrows
  <2> HIDE DEF g, c
  <2>4. Lives(g, t.d) /\ Deref(g, t.d) = X
    BY <1>1, <2>3, LivesOn DEF X
  <2>5. Lives(g, e) /\ Moved(X, r, new, Y)
    <3> DEFINE f == t.d
    <3>1. Lives(g, f) /\ Deref(g, f) = X /\ e = Put(f, r, c)
      BY <2>4
    <3> HIDE DEF f, e
    <3> QED
      BY <1>3, <2>3, <3>1, PutValues
  <2> HIDE DEF e, Y
  <2>6. /\ IsFunction(Y) /\ DOMAIN Y = DOMAIN X /\ Y[r] = new
        /\ \A q \in DOMAIN X : q # r => Y[q] = X[q]
    <3>1. r \in DOMAIN X
      BY <1>2, <1>8
    <3> QED
      BY <2>5, <3>1 DEF Moved
  <2>7. ASSUME NEW q \in DOMAIN W
        PROVE  /\ IsFunction(Y[q]) /\ DOMAIN Y[q] = {leaf \in DOMAIN W[q] : <<q, leaf>> \notin E}
               /\ \A leaf \in DOMAIN Y[q] : Y[q][leaf] = W[q][leaf]
    <3>1. CASE q = r
      BY <1>5, <1>6, <2>1, <2>6, <3>1
    <3>2. CASE q # r
      BY <1>5, <1>6, <2>6, <3>2
    <3> QED
      BY <3>1, <3>2
  <2>8. Cut(W, E, Y)
    BY <1>6, <2>6, <2>7 DEF Cut
  <2>9. Extends(s.h, g)
    BY <1>1, <2>3, ExtendsTransitive
  <2> QED
    BY <2>2, <2>3, <2>5, <2>8, <2>9 DEF CutBack, W, E, u, Y
<1> QED
    BY <1>7, <1>8 DEF u, E

(* The fields at some keys are taken out, copying what is shared.          *)
LEMMA DeleteAllSound ==
    ASSUME NEW s, IsDict(s), HeapOK(s.h), Lives(s.h, s.d), NEW keys, keys \subseteq Keys,
           \A key \in keys : Len(key) = 2
    PROVE  CutBack(s, DeleteAll(s, keys), keys)
<1> DEFINE n == Len(DataKeys)
<1>0. n \in Nat
    BY MetSteps
<1>1. PICK f : /\ f = [i \in 0 .. n |-> IF i = 0 THEN s
                         ELSE IF DataKeys[i] \in keys THEN Delete(f[i - 1], DataKeys[i]) ELSE f[i - 1]]
               /\ DeleteAll(s, keys) = f[n]
    BY <1>0, DeleteAllUnfolds
<1>2. /\ Met(keys, 0) = {} /\ Met(keys, n) = keys
      /\ \A i \in 1 .. n :
           /\ DataKeys[i] \in Keys
           /\ Met(keys, i) = IF DataKeys[i] \in keys THEN Met(keys, i - 1) \cup {DataKeys[i]}
                             ELSE Met(keys, i - 1)
    BY MetSteps
<1> HIDE DEF n
<1> DEFINE G == {i \in 0 .. n : CutBack(s, f[i], Met(keys, i))}
<1>3. 0 \in G
  <2>1. 0 \in 0 .. n
    BY <1>0
  <2>2. f[0] = s
    BY <1>1, <2>1
  <2>3. Cut(Deref(s.h, s.d), {}, Deref(s.h, s.d))
    BY DerefValues DEF Cut
  <2>4. CutBack(s, s, {})
    BY <2>3, ExtendsReflexive DEF CutBack
  <2> QED
    BY <1>2, <2>1, <2>2, <2>4
<1>4. ASSUME NEW i \in 1 .. n, i - 1 \in G PROVE i \in G
  <2> DEFINE k == DataKeys[i]
  <2>1. i \in 0 .. n /\ i # 0
    BY <1>0
  <2>2. f[i] = IF k \in keys THEN Delete(f[i - 1], k) ELSE f[i - 1]
    BY <1>1, <2>1
  <2>3. /\ k \in Keys
        /\ Met(keys, i) = IF k \in keys THEN Met(keys, i - 1) \cup {k} ELSE Met(keys, i - 1)
    BY <1>2
  <2>4. CutBack(s, f[i - 1], Met(keys, i - 1))
    BY <1>4
  <2> HIDE DEF k
  <2>5. CASE k \in keys
    <3>1. CutBack(s, Delete(f[i - 1], k), Met(keys, i - 1) \cup {k})
      BY <2>3, <2>4, <2>5, DeleteTrims
    <3> QED
      BY <2>1, <2>2, <2>3, <2>5, <3>1
  <2>6. CASE k \notin keys
    BY <2>1, <2>2, <2>3, <2>4, <2>6
  <2> QED
    BY <2>5, <2>6
<1> HIDE DEF G
<1>5. \A i \in 0 .. n : i \in G
    BY <1>0, <1>3, <1>4, BoundedInduction
<1>6. n \in 0 .. n
    BY <1>0
<1> QED
    BY <1>1, <1>2, <1>5, <1>6 DEF G

-----------------------------------------------------------------------------
(* The projected contracts.                                                 *)

(* What the whitelist selects, and what the blacklist takes out of it.     *)
LEMMA SelectedForm ==
    ASSUME NEW d, d.whitelist \subseteq Keys, d.blacklist \subseteq Keys
    PROVE  /\ Selected(d) \subseteq Keys /\ Denied(d) \subseteq Keys
           /\ \A b \in Denied(d) : Len(b) = 2 /\ <<Root(b)>> \in Selected(d)
<1>1. Selected(d) \subseteq Keys /\ Denied(d) \subseteq Keys
    BY DEF Selected, Denied, Minimal
<1>2. ASSUME NEW b \in Denied(d) PROVE Len(b) = 2 /\ <<Root(b)>> \in Selected(d)
  <2>1. PICK k \in Selected(d) : k # b /\ Covers(k, b)
    BY DEF Denied
  <2>2. Root(k) = Root(b) /\ Len(k) = 1
    BY <2>1 DEF Covers
  <2>3. k = <<Root(b)>> /\ k \in Keys /\ b \in Keys
    BY <1>1, <2>2, KeyForm
  <2>4. Len(b) # 1
    BY <2>1, <2>3, KeyForm
  <2> QED
    BY <2>3, <2>4, KeyForm
<1> QED
    BY <1>1, <1>2

(* A value without some of its fields.                                     *)
LEMMA WithoutSound ==
    ASSUME NEW s, s.req \subseteq DOMAIN s.props, ~IsObject(s) => DOMAIN s.props = {Self} /\ s.req = {Self},
           NEW denied, Self \notin denied
    PROVE  LET t == WithoutDenied(s, denied) IN
           /\ t.req \subseteq DOMAIN t.props
           /\ ~IsObject(t) => DOMAIN t.props = {Self} /\ t.req = {Self}
           /\ \A v, x : /\ Fits(v, s) /\ DOMAIN x = DOMAIN v \ denied
                        /\ \A leaf \in DOMAIN x : x[leaf] = v[leaf]
                        => Fits(x, t)
<1> DEFINE t == WithoutDenied(s, denied)
<1>1. /\ DOMAIN t.props = DOMAIN s.props \ denied /\ t.req = s.req \ denied
      /\ \A leaf \in DOMAIN t.props : t.props[leaf] = s.props[leaf]
    BY DEF WithoutDenied
<1> HIDE DEF t
<1>2. t.req \subseteq DOMAIN t.props
    BY <1>1
<1>3. ~IsObject(t) => DOMAIN t.props = {Self} /\ t.req = {Self}
    BY <1>1 DEF IsObject
<1>4. ASSUME NEW v, NEW x, Fits(v, s), DOMAIN x = DOMAIN v \ denied,
             \A leaf \in DOMAIN x : x[leaf] = v[leaf]
      PROVE  Fits(x, t)
    BY <1>1, <1>4 DEF Fits
<1> QED
    BY <1>2, <1>3, <1>4 DEF t

(* Some of the fields of a value: when there are any, the root is there.   *)
LEMMA SelectedShapesSound ==
    ASSUME NEW s, s.req \subseteq DOMAIN s.props, NEW fields, Self \notin fields
    PROVE  /\ WellFormed(SelectedShapes(s, fields))
           /\ \A v, x : /\ Fits(v, s) /\ DOMAIN x = DOMAIN v \cap fields /\ DOMAIN x # {}
                        /\ \A leaf \in DOMAIN x : x[leaf] = v[leaf]
                        => Accepts(SelectedShapes(s, fields), x)
<1> DEFINE props == [leaf \in DOMAIN s.props \cap fields |-> s.props[leaf]]
           req == s.req \cap fields
           shape(q) == [props |-> props, req |-> q]
<1>1. SelectedShapes(s, fields) = IF req # {} THEN {shape(req)} ELSE {shape({leaf}) : leaf \in DOMAIN props}
    BY DEF SelectedShapes
<1>2. /\ DOMAIN props = DOMAIN s.props \cap fields
      /\ \A leaf \in DOMAIN props : props[leaf] = s.props[leaf]
    OBVIOUS
<1>3. \A q : shape(q).props = props /\ shape(q).req = q
    OBVIOUS
<1> HIDE DEF props, shape
<1>4. \A q : q \subseteq DOMAIN props => WellFormed({shape(q)})
    BY <1>2, <1>3 DEF WellFormed, IsObject
<1>5. WellFormed(SelectedShapes(s, fields))
  <2>1. req \subseteq DOMAIN props
    BY <1>2
  <2>2. CASE req # {}
    BY <1>1, <1>4, <2>1, <2>2
  <2>3. CASE req = {}
    <3>1. \A leaf \in DOMAIN props : WellFormed({shape({leaf})})
      BY <1>4
    <3>2. \A t \in SelectedShapes(s, fields) : \E leaf \in DOMAIN props : t = shape({leaf})
      BY <1>1, <2>3
    <3>3. \A t \in SelectedShapes(s, fields) : WellFormed({t})
      BY <3>1, <3>2
    <3> QED
      BY <3>3 DEF WellFormed
  <2> QED
    BY <2>2, <2>3
<1>6. ASSUME NEW v, NEW x, Fits(v, s), DOMAIN x = DOMAIN v \cap fields, DOMAIN x # {},
             \A leaf \in DOMAIN x : x[leaf] = v[leaf]
      PROVE  Accepts(SelectedShapes(s, fields), x)
  <2>1. /\ s.req \subseteq DOMAIN v /\ DOMAIN v \subseteq DOMAIN s.props
        /\ \A leaf \in DOMAIN v : v[leaf] \in s.props[leaf]
    BY <1>6 DEF Fits
  <2>2. ASSUME NEW q, q \subseteq DOMAIN x PROVE Fits(x, shape(q))
    BY <1>2, <1>3, <1>6, <2>1, <2>2 DEF Fits
  <2>3. CASE req # {}
    <3>1. Fits(x, shape(req))
      BY <1>6, <2>1, <2>2
    <3> QED
      BY <1>1, <2>3, <3>1 DEF Accepts
  <2>4. CASE req = {}
    <3>1. PICK leaf : leaf \in DOMAIN x
      BY <1>6
    <3>2. leaf \in DOMAIN props /\ Fits(x, shape({leaf}))
      BY <1>2, <1>6, <2>1, <2>2, <3>1
    <3> QED
      BY <1>1, <2>4, <3>2 DEF Accepts
  <2> QED
    BY <2>3, <2>4
<1> QED
    BY <1>5, <1>6

(* The projection of the contracts declares the projection of the data.    *)
LEMMA ProjectionSound ==
    ASSUME NEW state, ContractState(state),
           NEW d, d.whitelist \subseteq Keys, d.blacklist \subseteq Keys,
           ProjectContracts(state, d).ok
    PROVE  /\ ContractState(ProjectContracts(state, d))
           /\ \A V, W, X : /\ Declares(state, V) /\ DOMAIN V \subseteq Roots
                           /\ Picked(V, Selected(d), W) /\ Cut(W, Denied(d), X)
                           => Declares(ProjectContracts(state, d), X)
<1> DEFINE P == ProjectContracts(state, d)
           S == Selected(d)
           D == Denied(d)
           selected(r) == {k \in S : Root(k) = r}
           fields(r) == {Leaf(k) : k \in selected(r)}
           denied(r) == {Leaf(b) : b \in {c \in D : Root(c) = r}}
           source(r) == {WithoutDenied(s, denied(r)) : s \in state.schema[r]}
           whole(r) == <<r>> \in selected(r)
           emits(r) == whole(r) \/ AlwaysEmits(source(r), fields(r))
           image(r) == CASE selected(r) = {} -> {}
                         [] whole(r) -> source(r)
                         [] OTHER -> UNION {SelectedShapes(s, fields(r)) : s \in source(r)}
<1>1. P = [ok |-> TRUE, schema |-> [r \in Roots |-> image(r)],
           req |-> {r \in state.req : selected(r) # {} /\ emits(r)}]
  <2>1. ~Refused.ok
    BY DEF Refused, Empty
  <2> QED
    BY <2>1 DEF ProjectContracts
<1>2. S \subseteq Keys /\ D \subseteq Keys /\ \A b \in D : Len(b) = 2 /\ <<Root(b)>> \in S
    BY SelectedForm
<1> HIDE DEF S, D
(* The keys of a root, by name.                                            *)
<1>3. ASSUME NEW r
      PROVE  /\ whole(r) <=> <<r>> \in S
             /\ \A leaf : leaf \in denied(r) <=> <<r, leaf>> \in D
             /\ Self \notin denied(r)
             /\ ~whole(r) => /\ \A leaf : leaf \in fields(r) <=> <<r, leaf>> \in S
                             /\ Self \notin fields(r) /\ denied(r) = {}
             /\ selected(r) = {} <=> ~whole(r) /\ fields(r) = {}
  <2>1. whole(r) <=> <<r>> \in S
    BY NamedKeys
  <2>2. ASSUME NEW leaf PROVE leaf \in denied(r) <=> <<r, leaf>> \in D
    <3>1. ASSUME NEW b \in D, Root(b) = r, Leaf(b) = leaf PROVE <<r, leaf>> \in D
      BY <1>2, <3>1, KeyForm
    <3>2. <<r, leaf>> \in D => Root(<<r, leaf>>) = r /\ Leaf(<<r, leaf>>) = leaf
      BY NamedKeys
    <3> QED
      BY <3>1, <3>2
  <2>3. Self \notin denied(r)
    BY <1>2, KeyForm
  <2>4. ASSUME ~whole(r)
        PROVE  /\ \A leaf : leaf \in fields(r) <=> <<r, leaf>> \in S
               /\ Self \notin fields(r) /\ denied(r) = {}
    <3>1. ASSUME NEW k \in S, Root(k) = r PROVE k = <<r, Leaf(k)>> /\ Leaf(k) # Self
      BY <1>2, <2>1, <2>4, <3>1, KeyForm
    <3>2. ASSUME NEW leaf PROVE leaf \in fields(r) <=> <<r, leaf>> \in S
      <4>1. ASSUME NEW k \in S, Root(k) = r, Leaf(k) = leaf PROVE <<r, leaf>> \in S
        BY <3>1, <4>1
      <4>2. <<r, leaf>> \in S => Root(<<r, leaf>>) = r /\ Leaf(<<r, leaf>>) = leaf
        BY NamedKeys
      <4> QED
        BY <4>1, <4>2
    <3>3. Self \notin fields(r)
      BY <3>1
    <3>4. denied(r) = {}
      BY <1>2, <2>1, <2>4
    <3> HIDE DEF fields, denied
    <3> QED
      BY <3>2, <3>3, <3>4
  <2>5. selected(r) = {} <=> ~whole(r) /\ fields(r) = {}
    OBVIOUS
  <2> HIDE DEF whole, fields, denied, selected
  <2> QED
    BY <2>1, <2>2, <2>3, <2>4, <2>5
<1>4. \A r \in Roots : P.schema[r] = image(r)
    BY <1>1
<1>5. \A r : r \in P.req <=> r \in state.req /\ selected(r) # {} /\ emits(r)
    BY <1>1
<1>6. P = [ok |-> P.ok, schema |-> P.schema, req |-> P.req] /\ P.schema = [r \in Roots |-> P.schema[r]]
    BY <1>1
<1> HIDE DEF P
(* The alternatives a root is projected from.                              *)
<1>7. ASSUME NEW r \in Roots, NEW s \in state.schema[r]
      PROVE  LET t == WithoutDenied(s, denied(r)) IN
             /\ t \in source(r) /\ t.req \subseteq DOMAIN t.props
             /\ ~IsObject(t) => DOMAIN t.props = {Self} /\ t.req = {Self}
             /\ \A v, x : /\ Fits(v, s) /\ DOMAIN x = DOMAIN v \ denied(r)
                          /\ \A leaf \in DOMAIN x : x[leaf] = v[leaf]
                          => Fits(x, t)
  <2>1. s.req \subseteq DOMAIN s.props /\ (~IsObject(s) => DOMAIN s.props = {Self} /\ s.req = {Self})
    BY DEF ContractState, WellFormed
  <2>2. Self \notin denied(r)
    BY <1>3
  <2>3. WithoutDenied(s, denied(r)) \in source(r)
    OBVIOUS
  <2> DEFINE banned == denied(r)
  <2> HIDE DEF banned
  <2>4. Self \notin banned
    BY <2>2 DEF banned
  <2>5. LET t == WithoutDenied(s, banned) IN
        /\ t.req \subseteq DOMAIN t.props
        /\ ~IsObject(t) => DOMAIN t.props = {Self} /\ t.req = {Self}
        /\ \A v, x : /\ Fits(v, s) /\ DOMAIN x = DOMAIN v \ banned
                     /\ \A leaf \in DOMAIN x : x[leaf] = v[leaf]
                     => Fits(x, t)
    BY <2>1, <2>4, WithoutSound
  <2> QED
    BY <2>3, <2>5 DEF banned
<1>8. ASSUME NEW r \in Roots PROVE WellFormed(image(r))
  <2>1. WellFormed(source(r))
    BY <1>7 DEF WellFormed
  <2>2. CASE selected(r) = {}
    BY <2>2 DEF WellFormed
  <2>3. CASE selected(r) # {} /\ whole(r)
    <3>1. image(r) = source(r)
      BY <2>3
    <3> HIDE DEF image, source
    <3> QED
      BY <2>1, <3>1
  <2>4. CASE selected(r) # {} /\ ~whole(r)
    <3>1. image(r) = UNION {SelectedShapes(s, fields(r)) : s \in source(r)}
      BY <2>4
    <3>2. Self \notin fields(r)
      BY <1>3, <2>4
    <3> HIDE DEF image, source, fields
    <3>3. \A s \in source(r) : WellFormed(SelectedShapes(s, fields(r)))
      <4>1. \A s \in source(r) : s.req \subseteq DOMAIN s.props
        BY <2>1 DEF WellFormed
      <4> QED
        BY <3>2, <4>1, SelectedShapesSound
    <3> QED
      BY <3>1, <3>3 DEF WellFormed
  <2> QED
    BY <2>2, <2>3, <2>4
<1>9. ContractState(P)
  <2>1. P.req \subseteq Roots
    BY <1>5 DEF ContractState
  <2> HIDE DEF image
  <2> QED
    BY <1>4, <1>6, <1>8, <2>1 DEF ContractState
<1>10. ASSUME NEW V, NEW W, NEW X, Declares(state, V), DOMAIN V \subseteq Roots,
              Picked(V, S, W), Cut(W, D, X)
       PROVE  Declares(P, X)
  <2>1. state.req \subseteq DOMAIN V /\ \A r \in DOMAIN V : Accepts(state.schema[r], V[r])
    BY <1>10 DEF Declares
  <2>2. /\ \A r : r \in DOMAIN X <=> r \in DOMAIN V /\ (<<r>> \in S \/ Wanted(V, S, r) # {})
        /\ \A r \in DOMAIN X :
             /\ DOMAIN X[r] = {leaf \in Wanted(V, S, r) : <<r, leaf>> \notin D}
             /\ \A leaf \in DOMAIN X[r] : X[r][leaf] = V[r][leaf]
    BY <1>10 DEF Picked, Cut
  <2>3. ASSUME NEW r \in DOMAIN X PROVE Accepts(P.schema[r], X[r])
    <3>1. r \in DOMAIN V /\ r \in Roots
      BY <1>10, <2>2
    <3>2. PICK s \in state.schema[r] : Fits(V[r], s)
      BY <2>1, <3>1 DEF Accepts
    <3> DEFINE t == WithoutDenied(s, denied(r))
    <3>3. /\ t \in source(r) /\ t.req \subseteq DOMAIN t.props
          /\ \A x : /\ DOMAIN x = DOMAIN V[r] \ denied(r)
                    /\ \A leaf \in DOMAIN x : x[leaf] = V[r][leaf]
                    => Fits(x, t)
      BY <1>7, <3>1, <3>2
    <3> HIDE DEF t
    <3>4. CASE whole(r)
      <4>1. selected(r) # {}
        BY <3>4
      <4>2. image(r) = source(r)
        BY <3>4, <4>1
      <4>3. <<r>> \in S /\ \A leaf : leaf \in denied(r) <=> <<r, leaf>> \in D
        BY <1>3, <3>4
      <4> HIDE DEF denied, source, image
      <4>4. DOMAIN X[r] = DOMAIN V[r] \ denied(r)
        BY <2>2, <4>3 DEF Wanted
      <4>5. Fits(X[r], t)
        BY <2>2, <3>3, <4>4
      <4> QED
        BY <1>4, <3>1, <3>3, <4>2, <4>5 DEF Accepts
    <3>5. CASE ~whole(r)
      <4>1. /\ <<r>> \notin S /\ denied(r) = {} /\ Self \notin fields(r)
            /\ \A leaf : leaf \in fields(r) <=> <<r, leaf>> \in S
            /\ \A leaf : <<r, leaf>> \notin D
        BY <1>3, <3>5
      <4>2. Wanted(V, S, r) # {} /\ Wanted(V, S, r) = {leaf \in DOMAIN V[r] : <<r, leaf>> \in S}
        BY <2>2, <4>1 DEF Wanted
      <4>3. DOMAIN X[r] = DOMAIN V[r] \cap fields(r) /\ DOMAIN X[r] # {}
        <5> HIDE DEF fields
        <5> QED
          BY <2>2, <4>1, <4>2
      <4>4. selected(r) # {}
        BY <4>3
      <4>5. image(r) = UNION {SelectedShapes(q, fields(r)) : q \in source(r)}
        BY <3>5, <4>4
      <4> HIDE DEF denied, source, image, fields
      <4>6. Fits(V[r], t)
        BY <3>3, <4>1
      <4>7. Accepts(SelectedShapes(t, fields(r)), X[r])
        BY <2>2, <3>3, <4>1, <4>3, <4>6, SelectedShapesSound
      <4> QED
        BY <1>4, <3>1, <3>3, <4>5, <4>7 DEF Accepts
    <3> QED
      BY <3>4, <3>5
  <2>4. ASSUME NEW r \in P.req PROVE r \in DOMAIN X
    <3>1. r \in state.req /\ selected(r) # {} /\ emits(r) /\ r \in DOMAIN V /\ r \in Roots
      BY <1>5, <1>10, <2>1
    <3>2. CASE whole(r)
      BY <1>3, <2>2, <3>1, <3>2
    <3>3. CASE ~whole(r)
      <4>1. AlwaysEmits(source(r), fields(r)) /\ denied(r) = {}
            /\ \A leaf : leaf \in fields(r) <=> <<r, leaf>> \in S
        BY <1>3, <3>1, <3>3
      <4>2. PICK s \in state.schema[r] : Fits(V[r], s)
        BY <2>1, <3>1 DEF Accepts
      <4> DEFINE t == WithoutDenied(s, denied(r))
      <4>3. t \in source(r) /\ t.req = s.req \ denied(r)
        BY <4>2 DEF WithoutDenied
      <4>4. t.req \cap fields(r) # {}
        <5> HIDE DEF t, source, fields
        <5> QED
          BY <4>1, <4>3 DEF AlwaysEmits
      <4>5. PICK leaf : leaf \in s.req /\ leaf \in fields(r)
        BY <4>3, <4>4
      <4>6. leaf \in DOMAIN V[r] /\ <<r, leaf>> \in S
        BY <4>1, <4>2, <4>5 DEF Fits
      <4>7. leaf \in Wanted(V, S, r)
        BY <4>6 DEF Wanted
      <4> QED
        BY <2>2, <3>1, <4>7
    <3> QED
      BY <3>2, <3>3
  <2> QED
    BY <2>3, <2>4 DEF Declares
<1> QED
    BY <1>9, <1>10 DEF P, S, D

-----------------------------------------------------------------------------
(* Numbering the cells.                                                     *)

(* Places number the members of a finite set of numbers, one to one.       *)
LEMMA RankForm ==
    ASSUME NEW S, IsFiniteSet(S), S \subseteq Nat
    PROVE  /\ Cardinality(S) \in Nat
           /\ \A x \in S : Rank(S, x) \in 1 .. Cardinality(S) /\ AtRank(S, Rank(S, x)) = x
           /\ \A i \in 1 .. Cardinality(S) : AtRank(S, i) \in S /\ Rank(S, AtRank(S, i)) = i
<1> DEFINE below(x) == {y \in S : y <= x}
           rank == [x \in S |-> Rank(S, x)]
           n == Cardinality(S)
<1>1. n \in Nat
    BY FS_CardinalityType
<1>2. ASSUME NEW x \in S
      PROVE  IsFiniteSet(below(x)) /\ Cardinality(below(x)) \in 1 .. n
  <2>1. below(x) \in SUBSET S
    OBVIOUS
  <2>2. IsFiniteSet(below(x)) /\ Cardinality(below(x)) <= n
    BY <2>1, FS_Subset
  <2>3. x \in below(x)
    OBVIOUS
  <2>4. Cardinality(below(x)) # 0 /\ Cardinality(below(x)) \in Nat
    BY <2>2, <2>3, FS_EmptySet, FS_CardinalityType
  <2> QED
    BY <1>1, <2>2, <2>4
<1>3. ASSUME NEW x \in S, NEW y \in S, x < y
      PROVE  Rank(S, x) # Rank(S, y)
  <2>0. ASSUME NEW z \in S, z <= x PROVE z <= y
    <3>1. x \in Nat /\ y \in Nat /\ z \in Nat
      OBVIOUS
    <3> QED
      BY <1>3, <2>0, <3>1
  <2>1. below(x) \in SUBSET below(y)
    BY <2>0
  <2>4. y \in below(y) /\ y \notin below(x)
    <3>1. x \in Nat /\ y \in Nat
      OBVIOUS
    <3> QED
      BY <1>3, <3>1
  <2>2. IsFiniteSet(below(y))
    BY <1>2
  <2>3. Cardinality(below(y)) # Cardinality(below(x))
    BY <2>1, <2>2, <2>4, FS_Subset
  <2> QED
    BY <2>3 DEF Rank
<1>4. ASSUME NEW x \in S, NEW y \in S, Rank(S, x) = Rank(S, y) PROVE x = y
  <2>1. x < y \/ y < x \/ x = y
    OBVIOUS
  <2> QED
    BY <1>3, <1>4, <2>1
<1>5. \A x \in S : Rank(S, x) \in 1 .. n
    BY <1>2 DEF Rank
<1>6. rank \in Injection(S, 1 .. n)
  <2>1. rank \in [S -> 1 .. n]
    BY <1>5
  <2>2. \A x, y \in S : rank[x] = rank[y] => x = y
    BY <1>4
  <2> HIDE DEF rank
  <2> QED
    BY <2>1, <2>2 DEF Injection, IsInjective
<1>7. Cardinality(1 .. n) = n /\ IsFiniteSet(1 .. n)
    BY <1>1, FS_Interval
<1>8. rank \in Surjection(S, 1 .. n)
  <2> HIDE DEF rank
  <2> QED
    BY <1>6, <1>7, FS_Injection DEF n
<1>9. ASSUME NEW i \in 1 .. n PROVE AtRank(S, i) \in S /\ Rank(S, AtRank(S, i)) = i
  <2>1. \E x \in S : rank[x] = i
    <3> HIDE DEF rank
    <3> QED
      BY <1>8 DEF Surjection
  <2>2. \E x \in S : Rank(S, x) = i
    BY <2>1
  <2> QED
    BY <2>2 DEF AtRank
<1>10. \A x \in S : AtRank(S, Rank(S, x)) = x
    BY <1>4, <1>5, <1>9
<1> QED
    BY <1>1, <1>5, <1>9, <1>10

(* Values of their own: the heap grows by them, and the dict finds them.   *)
LEMMA FreshSound ==
    ASSUME NEW h, HeapOK(h), NEW values, IsFunction(values), DOMAIN values \subseteq Roots,
           \A r \in DOMAIN values : IsFunction(values[r])
    PROVE  LET s == Fresh(h, values) IN
           /\ HeapOK(s.h) /\ Extends(h, s.h) /\ Lives(s.h, s.d)
           /\ Deref(s.h, s.d) = values
<1> DEFINE D == DOMAIN values
           n == Cardinality(D)
           q == [i \in 1 .. n |-> values[AtRank(D, i)]]
           g == h \o q
           d == [r \in D |-> Len(h) + Rank(D, r)]
           S == {h[i] : i \in DOMAIN h} \cup {values[r] : r \in D}
<1>1. Fresh(h, values).h = g /\ Fresh(h, values).d = d
    BY DEF Fresh
<1>2. IsFiniteSet(D) /\ D \subseteq Nat
    BY RootsFinite, FS_Subset
<1>3. /\ n \in Nat
      /\ \A x \in D : Rank(D, x) \in 1 .. n /\ AtRank(D, Rank(D, x)) = x
      /\ \A i \in 1 .. n : AtRank(D, i) \in D
    BY <1>2, RankForm
<1>4. h \in Seq(S) /\ Len(h) \in Nat /\ DOMAIN h = 1 .. Len(h)
  <2>1. h \in Seq({h[i] : i \in DOMAIN h})
    BY DEF HeapOK
  <2> QED
    BY <2>1
<1> HIDE DEF n
<1>5. q \in Seq(S) /\ Len(q) = n /\ \A i \in 1 .. n : q[i] = values[AtRank(D, i)]
  <2>1. \A i \in 1 .. n : values[AtRank(D, i)] \in S
    BY <1>3
  <2> HIDE DEF S, D
  <2> QED
    BY <1>3, <2>1
<1> HIDE DEF q, S, D
<1>6. /\ g \in Seq(S) /\ Len(g) = Len(h) + n /\ DOMAIN g = 1 .. Len(h) + n
      /\ \A i \in 1 .. Len(h) + n : g[i] = IF i <= Len(h) THEN h[i] ELSE q[i - Len(h)]
  <2>1. /\ h \o q \in Seq(S) /\ Len(h \o q) = Len(h) + Len(q)
        /\ \A i \in 1 .. Len(h) + Len(q) :
             (h \o q)[i] = IF i <= Len(h) THEN h[i] ELSE q[i - Len(h)]
    BY <1>4, <1>5, ConcatProperties
  <2>2. DOMAIN g = 1 .. Len(g)
    BY <2>1
  <2> QED
    BY <1>5, <2>1, <2>2
<1> HIDE DEF g
<1>7. HeapOK(g)
  <2>1. g \in Seq({g[i] : i \in DOMAIN g})
    BY <1>6, OwnElements
  <2>2. ASSUME NEW i \in DOMAIN g PROVE IsFunction(g[i])
    <3>1. CASE i <= Len(h)
      <4>1. i \in DOMAIN h /\ g[i] = h[i]
        BY <1>4, <1>6, <2>2, <3>1
      <4> QED
        BY <4>1 DEF HeapOK
    <3>2. CASE ~(i <= Len(h))
      <4>1. i - Len(h) \in 1 .. n /\ g[i] = q[i - Len(h)]
        BY <1>3, <1>4, <1>6, <2>2, <3>2
      <4>2. g[i] = values[AtRank(D, i - Len(h))] /\ AtRank(D, i - Len(h)) \in D
        BY <1>3, <1>5, <4>1
      <4> QED
        BY <4>2 DEF D
    <3> QED
      BY <3>1, <3>2
  <2> QED
    BY <2>1, <2>2 DEF HeapOK
<1>8. Extends(h, g)
    BY <1>3, <1>4, <1>6 DEF Extends
<1>9. ASSUME NEW r \in D
      PROVE  d[r] \in DOMAIN g /\ g[d[r]] = values[r]
  <2> DEFINE k == Rank(D, r)
  <2>1. d[r] = Len(h) + k
    OBVIOUS
  <2>2. k \in 1 .. n /\ AtRank(D, k) = r
    BY <1>3
  <2> HIDE DEF k, d
  <2>3. Len(h) + k \in 1 .. Len(h) + n /\ ~(Len(h) + k <= Len(h)) /\ (Len(h) + k) - Len(h) = k
    BY <1>3, <1>4, <2>2
  <2> QED
    BY <1>5, <1>6, <2>1, <2>2, <2>3
<1>10. DOMAIN d = D /\ IsFunction(d)
    BY DEF IsFunction
<1> HIDE DEF d
<1>11. Lives(g, d)
    BY <1>9, <1>10 DEF Lives, D
<1>12. Deref(g, d) = values
  <2>1. /\ IsFunction(Deref(g, d)) /\ DOMAIN Deref(g, d) = DOMAIN values
        /\ \A r \in DOMAIN values : Deref(g, d)[r] = values[r]
    BY <1>9, <1>10 DEF Deref, IsFunction, D
  <2> QED
    BY <2>1, SameFunction
<1> QED
    BY <1>1, <1>7, <1>8, <1>11, <1>12

(* Only what is still referred to outlives the cycle, unchanged.           *)
LEMMA CompactedSound ==
    ASSUME HeapOK(heap), NEW d, Lives(heap, d)
    PROVE  LET s == Compacted(d) IN
           /\ HeapOK(s.h) /\ Lives(s.h, s.d) /\ Deref(s.h, s.d) = Deref(heap, d)
<1> DEFINE live == {d[r] : r \in DOMAIN d}
           n == Cardinality(live)
           g == [i \in 1 .. n |-> heap[AtRank(live, i)]]
           e == [r \in DOMAIN d |-> Rank(live, d[r])]
           S == {heap[i] : i \in DOMAIN heap}
<1>1. Compacted(d).h = g /\ Compacted(d).d = e
    BY DEF Compacted
<1>2. Len(heap) \in Nat /\ DOMAIN heap = 1 .. Len(heap) /\ live \subseteq DOMAIN heap /\ live \subseteq Nat
    BY HeapForm DEF Lives
<1>3. IsFiniteSet(live)
  <2>1. IsFiniteSet(1 .. Len(heap))
    BY <1>2, FS_Interval
  <2> QED
    BY <1>2, <2>1, FS_Subset
<1> HIDE DEF live
<1>4. /\ n \in Nat
      /\ \A x \in live : Rank(live, x) \in 1 .. n /\ AtRank(live, Rank(live, x)) = x
      /\ \A i \in 1 .. n : AtRank(live, i) \in live
    BY <1>2, <1>3, RankForm
<1> HIDE DEF n
<1>5. g \in Seq(S) /\ DOMAIN g = 1 .. n /\ \A i \in 1 .. n : g[i] = heap[AtRank(live, i)]
  <2>1. \A i \in 1 .. n : heap[AtRank(live, i)] \in S
    BY <1>2, <1>4
  <2> HIDE DEF S
  <2> QED
    BY <1>4, <2>1
<1> HIDE DEF g, S
<1>6. HeapOK(g)
  <2>0. g \in Seq(S)
    BY <1>5
  <2>1. g \in Seq({g[i] : i \in DOMAIN g})
    BY <2>0, OwnElements
  <2>2. ASSUME NEW i \in DOMAIN g PROVE IsFunction(g[i])
    <3>1. AtRank(live, i) \in DOMAIN heap /\ g[i] = heap[AtRank(live, i)]
      BY <1>2, <1>4, <1>5, <2>2
    <3> QED
      BY <3>1 DEF HeapOK
  <2> QED
    BY <2>1, <2>2 DEF HeapOK
<1>7. ASSUME NEW r \in DOMAIN d
      PROVE  e[r] \in DOMAIN g /\ g[e[r]] = heap[d[r]]
  <2>1. d[r] \in live /\ e[r] = Rank(live, d[r])
    BY DEF live
  <2> HIDE DEF e
  <2> QED
    BY <1>4, <1>5, <2>1
<1>8. DOMAIN e = DOMAIN d /\ IsFunction(e) /\ DOMAIN d \subseteq Roots
    BY DEF IsFunction, Lives
<1> HIDE DEF e
<1>9. Lives(g, e)
    BY <1>7, <1>8 DEF Lives
<1>10. Deref(g, e) = Deref(heap, d)
  <2>1. /\ IsFunction(Deref(g, e)) /\ DOMAIN Deref(g, e) = DOMAIN d
        /\ IsFunction(Deref(heap, d)) /\ DOMAIN Deref(heap, d) = DOMAIN d
        /\ \A r \in DOMAIN d : Deref(g, e)[r] = Deref(heap, d)[r]
    BY <1>7, <1>8 DEF Deref, IsFunction
  <2> QED
    BY <2>1, SameFunction
<1> QED
    BY <1>1, <1>6, <1>9, <1>10

(***************************************************************************)
(* The contracts a composed plan is made of.                               *)
(***************************************************************************)

(* What a design is made of.                                               *)
LEMMA DesignForm ==
    ASSUME design \in Designs
    PROVE  /\ design.sampler.ok /\ ContractState(design.sampler)
           /\ GraphFits(design.environment, {"sample", "last"})
           /\ design.whitelist \subseteq Keys /\ design.blacklist \subseteq Keys
           /\ ModulesFit(design.pre) /\ GraphFits(design.signal, {"data"}) /\ ModulesFit(design.post)
           /\ GraphFits(design.analysis, {"sample", "last", "currentPipeline"})
BY DesignsAssumption DEF DesignFits, SamplerFits

(* No contracts at all are contracts.                                      *)
LEMMA EmptyContracts == ContractState(Empty) /\ Empty.ok /\ Empty.req = {}
BY DEF ContractState, Empty, WellFormed

(* Without guarantees, contracts stay contracts.                           *)
Unguaranteed(state) == [state EXCEPT !.req = {}]

LEMMA UnguaranteedContracts ==
    ASSUME NEW state, ContractState(state)
    PROVE  /\ ContractState(Unguaranteed(state))
           /\ Unguaranteed(state).req = {} /\ Unguaranteed(state).schema = state.schema
<1>1. state = [ok |-> state.ok, schema |-> state.schema, req |-> state.req]
    BY DEF ContractState
<1>2. Unguaranteed(state) = [ok |-> state.ok, schema |-> state.schema, req |-> {}]
    BY <1>1 DEF Unguaranteed
<1>3. Unguaranteed(state).schema = state.schema /\ Unguaranteed(state).req = {}
    BY <1>2
<1>4. Unguaranteed(state) = [ok |-> Unguaranteed(state).ok, schema |-> Unguaranteed(state).schema,
                             req |-> Unguaranteed(state).req]
    BY <1>2
<1> QED
    BY <1>3, <1>4 DEF ContractState

(* The three sources of a cycle have contracts.                            *)
LEMMA CycleContracts ==
    ASSUME design \in Designs, NEW through, ContractState(through)
    PROVE  LET states == CycleSources(design, through) IN
           /\ states["sample"] = design.sampler /\ states["last"] = Unguaranteed(through)
           /\ states["currentPipeline"] = through
           /\ \A from \in {"sample", "last", "currentPipeline"} : ContractState(states[from])
<1> DEFINE states == CycleSources(design, through)
<1>1. states["sample"] = design.sampler /\ states["last"] = Unguaranteed(through)
      /\ states["currentPipeline"] = through
    BY DEF CycleSources, Unguaranteed
<1>2. ContractState(design.sampler)
    BY DesignForm
<1> HIDE DEF states
<1> QED
    BY <1>1, <1>2, UnguaranteedContracts DEF states

(* The boundary writes of a Graph turn contracts into contracts.           *)
LEMMA OutputsContracts ==
    ASSUME NEW graph, NEW from, GraphFits(graph, from),
           NEW states, \A source \in from : ContractState(states[source]),
           NEW start, ContractState(start), ApplyAll(start, Outputs(graph, states)).ok
    PROVE  ContractState(ApplyAll(start, Outputs(graph, states)))
<1> DEFINE q == Outputs(graph, states)
<1>1. Len(q) \in Nat /\ \A i \in 1 .. Len(q) : WriteOK(q[i]) /\ q[i].required \in BOOLEAN
    BY OutputsForm
<1> HIDE DEF q
<1>2. ApplyAll(start, q).ok
    BY DEF q
<1>3. PICK f : Steps(f, start, q)
    BY <1>1, <1>2, ApplyAllSteps
<1>4. Len(q) \in 0 .. Len(q)
    BY <1>1
<1>5. ContractState(ApplyAll(start, q))
    BY <1>3, <1>4 DEF Steps
<1> QED
    BY <1>5 DEF q

(* A Graph that compiles has its reads allowed and its writes applied.     *)
LEMMA CompiledForm ==
    ASSUME NEW graph, NEW states, NEW strict, Compile(graph, states, strict).ok
    PROVE  /\ Compile(graph, states, strict).outputs = Outputs(graph, states)
           /\ \A r \in graph.reads : ReadAllowed(states[r.from], r, strict)
           /\ ApplyAll(Empty, Outputs(graph, states)).ok
<1>1. Compile(graph, states, strict).outputs = Outputs(graph, states)
    BY DEF Compile
<1>2. /\ \A r \in graph.reads : ReadAllowed(states[r.from], r, strict)
      /\ ApplyAll(Empty, Outputs(graph, states)).ok
    BY DEF Compile
<1> QED
    BY <1>1, <1>2

(* Up to the Signal Graph.                                                 *)
LEMMA EntryContracts ==
    ASSUME design \in Designs, ContractState(before), InputDerived, EntryDerived
    PROVE  /\ plan.input = ProjectContracts(before, design) /\ plan.input.ok /\ ContractState(plan.input)
           /\ Holds(Chain(design.pre, plan.input), Len(design.pre))
           /\ plan.entry = Chain(design.pre, plan.input)[Len(design.pre)]
           /\ ContractState(plan.entry)
           /\ plan.signal = Outputs(design.signal, [from \in {"data"} |-> plan.entry])
           /\ \A r \in design.signal.reads :
                ReadAllowed([from \in {"data"} |-> plan.entry][r.from], r, TRUE)
           /\ ApplyAll(plan.entry, plan.signal).ok /\ ContractState(ApplyAll(plan.entry, plan.signal))
<1> DEFINE states == [from \in {"data"} |-> plan.entry]
<1>1. plan.input = ProjectContracts(before, design) /\ plan.input.ok
    BY DEF InputDerived
<1>2. ContractState(plan.input)
    BY <1>1, DesignForm, ProjectionSound
<1>3. /\ plan.entry = Chain(design.pre, plan.input)[Len(design.pre)]
      /\ Holds(Chain(design.pre, plan.input), Len(design.pre))
    BY DEF EntryDerived, PreChain
<1>4. ContractState(plan.entry)
  <2>1. /\ Len(design.pre) \in Nat
        /\ \A i \in 0 .. Len(design.pre) : ContractState(Chain(design.pre, plan.input)[i])
    BY <1>2, <1>3, DesignForm, ChainContracts
  <2> QED
    BY <1>3, <2>1
<1>5. Compile(design.signal, states, TRUE).ok /\ plan.signal = Compile(design.signal, states, TRUE).outputs
      /\ ApplyAll(plan.entry, plan.signal).ok
    BY DEF EntryDerived, SignalGraph
<1>6. states["data"] = plan.entry
    OBVIOUS
<1> HIDE DEF states
<1>7. /\ plan.signal = Outputs(design.signal, states)
      /\ \A r \in design.signal.reads : ReadAllowed(states[r.from], r, TRUE)
    BY <1>5, CompiledForm
<1>8. ContractState(ApplyAll(plan.entry, plan.signal))
  <2>1. \A source \in {"data"} : ContractState(states[source])
    BY <1>4, <1>6
  <2>2. ApplyAll(plan.entry, Outputs(design.signal, states)).ok
    BY <1>5, <1>7
  <2>3. ContractState(ApplyAll(plan.entry, Outputs(design.signal, states)))
    BY <1>4, <2>1, <2>2, DesignForm, OutputsContracts
  <2> QED
    BY <1>7, <2>3
<1> QED
    BY <1>1, <1>2, <1>3, <1>4, <1>5, <1>7, <1>8 DEF states

(* Through the direct Modules behind it.                                   *)
LEMMA PostContracts ==
    ASSUME design \in Designs, ContractState(before), InputDerived, EntryDerived,
           Holds(PostChain, Len(design.post))
    PROVE  \A i \in 0 .. Len(design.post) : ContractState(PostChain[i])
<1>1. ContractState(ApplyAll(plan.entry, plan.signal))
    BY EntryContracts
<1> QED
    BY <1>1, DesignForm, ChainContracts DEF PostChain

(* The preliminary or strict Environment yields contracts.                 *)
LEMMA ObservationContracts ==
    ASSUME design \in Designs, NEW through, ContractState(through), NEW strict,
           Compile(design.environment, CycleSources(design, through), strict).ok
    PROVE  ContractState(ApplyAll(Empty, Compile(design.environment, CycleSources(design, through), strict).outputs))
<1> DEFINE states == CycleSources(design, through)
<1>1. \A source \in {"sample", "last"} : ContractState(states[source])
    BY CycleContracts
<1> HIDE DEF states
<1>2. /\ Compile(design.environment, states, strict).outputs = Outputs(design.environment, states)
      /\ ApplyAll(Empty, Outputs(design.environment, states)).ok
    BY CompiledForm DEF states
<1>3. ContractState(ApplyAll(Empty, Outputs(design.environment, states)))
    BY <1>1, <1>2, DesignForm, EmptyContracts, OutputsContracts
<1> QED
    BY <1>2, <1>3 DEF states

(* The complete plan.                                                      *)
LEMMA PlanContracts ==
    ASSUME FrozenInv, ContractState(before), phase \in Running
    PROVE  /\ design \in Designs /\ InputDerived /\ EntryDerived
           /\ Holds(Chain(design.post, ApplyAll(plan.entry, plan.signal)), Len(design.post))
           /\ plan.through = Chain(design.post, ApplyAll(plan.entry, plan.signal))[Len(design.post)]
           /\ ContractState(plan.through)
           /\ plan.env = Outputs(design.environment, CycleSources(design, plan.through))
           /\ \A r \in design.environment.reads :
                ReadAllowed(CycleSources(design, plan.through)[r.from], r, TRUE)
           /\ before = ApplyAll(Empty, plan.env) /\ before.ok
           /\ plan.analysis = Outputs(design.analysis, CycleSources(design, plan.through))
           /\ \A r \in design.analysis.reads :
                ReadAllowed(CycleSources(design, plan.through)[r.from], r, TRUE)
           /\ plan.result = ApplyAll(plan.through, plan.analysis) /\ plan.result.ok
           /\ ContractState(plan.result)
<1>1. design \in Designs /\ InputDerived /\ EntryDerived /\ ThroughDerived /\ ResultDerived
    BY DEF FrozenInv
<1>2. /\ Holds(PostChain, Len(design.post)) /\ plan.through = PostChain[Len(design.post)]
      /\ EnvironmentGraph.ok /\ plan.env = EnvironmentGraph.outputs
      /\ before = ApplyAll(Empty, plan.env)
    BY <1>1 DEF ThroughDerived
<1>3. ContractState(plan.through)
  <2>1. Len(design.post) \in 0 .. Len(design.post)
    BY <1>1, DirectModules
  <2> QED
    BY <1>1, <1>2, <2>1, PostContracts
<1> DEFINE states == CycleSources(design, plan.through)
<1>4. \A source \in {"sample", "last", "currentPipeline"} : ContractState(states[source])
    BY <1>1, <1>3, CycleContracts
<1>5. AnalysisGraph.ok /\ plan.analysis = AnalysisGraph.outputs
      /\ plan.result = ApplyAll(plan.through, plan.analysis) /\ plan.result.ok
    BY <1>1 DEF ResultDerived
<1> HIDE DEF states
<1>6. /\ plan.env = Outputs(design.environment, states)
      /\ \A r \in design.environment.reads : ReadAllowed(states[r.from], r, TRUE)
      /\ ApplyAll(Empty, Outputs(design.environment, states)).ok
    BY <1>2, CompiledForm DEF EnvironmentGraph, states
<1>7. /\ plan.analysis = Outputs(design.analysis, states)
      /\ \A r \in design.analysis.reads : ReadAllowed(states[r.from], r, TRUE)
    BY <1>5, CompiledForm DEF AnalysisGraph, states
<1>8. ContractState(plan.result)
  <2>1. ApplyAll(plan.through, Outputs(design.analysis, states)).ok
    BY <1>5, <1>7
  <2>2. ContractState(ApplyAll(plan.through, Outputs(design.analysis, states)))
    BY <1>1, <1>3, <1>4, <2>1, DesignForm, OutputsContracts
  <2> QED
    BY <1>5, <1>7, <2>2
<1> QED
    BY <1>1, <1>2, <1>3, <1>5, <1>6, <1>7, <1>8 DEF PostChain, states

(* The Observation contracts stay contracts in every round.                *)
LEMMA RoundContracts ==
    ASSUME FrozenInv, ContractState(before), Next
    PROVE  ContractState(before')
<1>1. CASE ComposePreliminary
  <2> DEFINE environment == Compile(design.environment, CycleSources(design, Empty), FALSE)
  <2>1. environment.ok => before' = ApplyAll(Empty, environment.outputs)
    BY <1>1 DEF ComposePreliminary
  <2>2. ~environment.ok => before' = before
    BY <1>1 DEF ComposePreliminary
  <2>3. environment.ok => ContractState(ApplyAll(Empty, environment.outputs))
    BY EmptyContracts, ObservationContracts DEF FrozenInv
  <2> HIDE DEF environment
  <2> QED
    BY <2>1, <2>2, <2>3
<1>2. CASE CompileEnvironment
  <2> DEFINE environment == Compile(design.environment, CycleSources(design, work), TRUE)
             next == ApplyAll(Empty, environment.outputs)
  <2>1. design \in Designs /\ InputDerived /\ EntryDerived
        /\ work = PostChain[Len(design.post)] /\ Holds(PostChain, Len(design.post))
    BY <1>2 DEF CompileEnvironment, FrozenInv
  <2>2. ContractState(work)
    <3>1. Len(design.post) \in 0 .. Len(design.post)
      BY <2>1, DirectModules
    <3> QED
      BY <2>1, <3>1, PostContracts
  <2>3. environment.ok => ContractState(next)
    BY <2>1, <2>2, ObservationContracts
  <2>4. before' = before \/ (environment.ok /\ before' = next)
    <3> HIDE DEF environment
    <3>1. CASE ~environment.ok
      BY <1>2, <3>1 DEF CompileEnvironment, environment
    <3>2. CASE environment.ok /\ binding /\ ~EnvironmentAgrees(environment)
      BY <1>2, <3>2 DEF CompileEnvironment, environment
    <3>3. CASE environment.ok /\ ~binding /\ ~Stable(next)
      BY <1>2, <3>3 DEF CompileEnvironment, environment
    <3>4. CASE environment.ok /\ (binding => EnvironmentAgrees(environment)) /\ (~binding => Stable(next))
      BY <1>2, <3>4 DEF CompileEnvironment, environment
    <3> QED
      BY <3>1, <3>2, <3>3, <3>4
  <2> HIDE DEF environment, next
  <2> QED
    BY <2>3, <2>4
<1>3. CASE CompileAnalysis
  <2> DEFINE analysis == Compile(design.analysis, CycleSources(design, work), TRUE)
             result == ApplyAll(work, analysis.outputs)
  <2>1. before = ApplyAll(Empty, plan.env)
    BY <1>3 DEF CompileAnalysis, FrozenInv, ThroughDerived
  <2>2. before' = before \/ before' = ApplyAll(Empty, plan.env)
    <3>1. CASE ~(analysis.ok /\ result.ok)
      BY <1>3, <3>1 DEF CompileAnalysis
    <3>2. CASE analysis.ok /\ result.ok /\ binding
      BY <1>3, <3>2 DEF CompileAnalysis
    <3>3. CASE analysis.ok /\ result.ok /\ ~binding
      BY <1>3, <3>3 DEF CompileAnalysis, StartBinding
    <3> QED
      BY <3>1, <3>2, <3>3
  <2> QED
    BY <2>1, <2>2
<1>4. CASE BindObservation \/ BindPre \/ BindSignal \/ BindPost
    BY <1>4 DEF BindObservation, BindPre, BindSignal, BindPost, BindDirect
<1>5. CASE RunStep
    BY <1>5, RunStepsRun
<1>6. CASE Finished
    BY <1>6 DEF Finished, vars
<1> QED
    BY <1>1, <1>2, <1>3, <1>4, <1>5, <1>6 DEF Next, RunStep

(***************************************************************************)
(* The previous cycle, of which a stage sees the keys it reads.            *)
(***************************************************************************)

(* Fitting a schema is a matter of the leaves.                             *)
LEMMA AcceptsPointwise ==
    ASSUME NEW S, NEW v, NEW x, Accepts(S, v), DOMAIN x = DOMAIN v,
           \A leaf \in DOMAIN v : x[leaf] = v[leaf]
    PROVE  Accepts(S, x)
BY DEF Accepts, Fits

(* What is picked fits at the picked keys what the whole fits, and nothing *)
(* of it is guaranteed.                                                    *)
LEMMA LastSound ==
    ASSUME NEW state, ContractState(state), NEW V, Conforms(state, V),
           NEW h, NEW d, HeapOK(h), Lives(h, d), NEW K, Picked(V, K, Deref(h, d)),
           NEW key \in Keys, key \in K
    PROVE  KeyFits(Unguaranteed(state), h, d, key)
<1> DEFINE W == Deref(h, d)
           r == Root(key)
           id == [q \in DOMAIN V |-> q]
           known == Unguaranteed(state)
<1>1. known.req = {} /\ known.schema = state.schema /\ ContractState(known)
    BY UnguaranteedContracts
<1>2. DOMAIN W = DOMAIN d /\ \A q \in DOMAIN d : W[q] = h[d[q]]
    BY DerefValues
<1>3. /\ \A q \in DOMAIN W : q \in DOMAIN V
      /\ \A q \in DOMAIN W : /\ DOMAIN W[q] = Wanted(V, K, q)
                             /\ \A leaf \in DOMAIN W[q] : W[q][leaf] = V[q][leaf]
    BY DEF Picked
<1>4. (Len(key) = 1 /\ key = <<r>>) \/ (Len(key) = 2 /\ key = <<r, Leaf(key)>>)
    BY KeyForm
<1> HIDE DEF known, r, W
<1>5. ~PathRequired(known, key)
    BY <1>1 DEF PathRequired
<1>6. ASSUME Has(h, d, key)
      PROVE  Accepts(Resolve(known, key), ValueAt(h, d, key))
  <2>1. r \in DOMAIN d /\ r \in DOMAIN W /\ r \in DOMAIN V
    BY <1>2, <1>3, <1>6 DEF Has, r
  <2>2. Accepts(known.schema[r], V[r])
    BY <1>1, <2>1 DEF Conforms
  <2>3. r \in DOMAIN id /\ id[r] = r
    BY <2>1
  <2> HIDE DEF id
  <2>4. CASE Len(key) = 1
    <3>0. <<r>> \in K
      BY <1>4, <2>4
    <3>1. DOMAIN W[r] = DOMAIN V[r] /\ \A leaf \in DOMAIN V[r] : W[r][leaf] = V[r][leaf]
      BY <1>3, <2>1, <3>0 DEF Wanted
    <3>2. Accepts(known.schema[r], W[r])
      BY <2>2, <3>1, AcceptsPointwise
    <3>3. Resolve(known, key) = known.schema[r] /\ ValueAt(h, d, key) = W[r]
      BY <1>2, <2>1, <2>4 DEF Resolve, ValueAt, r
    <3> QED
      BY <3>2, <3>3
  <2>5. CASE Len(key) = 2
    <3>1. Leaf(key) \in DOMAIN W[r]
      BY <1>2, <1>6, <2>1, <2>5 DEF Has, r
    <3>2. Leaf(key) \in DOMAIN V[r] /\ W[r][Leaf(key)] = V[r][Leaf(key)]
      BY <1>3, <2>1, <3>1 DEF Wanted
    <3>3. Has(V, id, key)
      BY <2>3, <3>2 DEF Has, r
    <3>4. Accepts(Resolve(known, key), ValueAt(V, id, key))
      BY <2>2, <2>3, <3>3, ResolveSound DEF r
    <3>5. ValueAt(V, id, key) = [leaf \in {Self} |-> V[r][Leaf(key)]]
      BY <2>3, <2>5 DEF ValueAt, r
    <3>6. ValueAt(h, d, key) = [leaf \in {Self} |-> W[r][Leaf(key)]]
      BY <1>2, <2>1, <2>5 DEF ValueAt, r
    <3> QED
      BY <3>2, <3>4, <3>5, <3>6
  <2> QED
    BY <1>4, <2>4, <2>5
<1> QED
    BY <1>5, <1>6 DEF KeyFits, known

(* The keys a Graph reads are DataKeys.                                    *)
LEMMA GraphKeys ==
    ASSUME NEW graph, NEW sources, GraphFits(graph, sources)
    PROVE  \A from : KeysFrom(graph, from) \subseteq Keys
BY DEF GraphFits, ReadsFit, PassesFit, KeysFrom

LEMMA PreviousKeysForm ==
    ASSUME design \in Designs
    PROVE  /\ LastKeys(design.environment) \subseteq PreviousKeys
           /\ LastKeys(design.analysis) \subseteq PreviousKeys
           /\ PreviousKeys \subseteq Keys
BY DesignForm, GraphKeys DEF PreviousKeys, LastKeys

(* What a stage finds in its sources: the sample, the previous cycle and   *)
(* what the Pipeline left.                                                 *)
LEMMA SampleServes ==
    ASSUME HeapOK(heap), NEW graph, NEW sources, GraphFits(graph, sources), NEW from,
           NEW state, ContractState(state), NEW d, Lives(heap, d), Declares(state, Deref(heap, d))
    PROVE  \A key \in KeysFrom(graph, from) : KeyFits(state, heap, d, key)
BY GraphKeys, ReadSound

LEMMA LastServes ==
    ASSUME HeapOK(heap), design \in Designs, NEW graph, LastKeys(graph) \subseteq PreviousKeys,
           NEW state, ContractState(state), Lives(heap, lastCycle), Conforms(state, was.last),
           Deref(heap, lastCycle) = Restricted(was.last, PreviousKeys)
    PROVE  \A key \in KeysFrom(graph, "last") : KeyFits(Unguaranteed(state), heap, lastCycle, key)
<1>1. PreviousKeys \subseteq Keys
    BY PreviousKeysForm
<1>2. Picked(was.last, PreviousKeys, Deref(heap, lastCycle))
    BY <1>1, RestrictedForm
<1>3. \A key \in KeysFrom(graph, "last") : key \in Keys /\ key \in PreviousKeys
    BY <1>1 DEF LastKeys
<1> QED
    BY <1>2, <1>3, LastSound

(***************************************************************************)
(* The steps of a cycle.                                                   *)
(***************************************************************************)

DataInv == HeapInv /\ StagesReadOneCycle /\ FitInv

(* What only depends on the composition stays as it was.                   *)
LEMMA ComposedAtRest ==
    ASSUME Composed
    PROVE  /\ design' = design /\ plan' = plan /\ before' = before /\ temporary' = temporary /\ work' = work
           /\ PreviousKeys' = PreviousKeys /\ PreChain' = PreChain /\ PostChain' = PostChain
           /\ ReaderChain' = ReaderChain
BY DEF Composed, PreviousKeys, PreChain, PostChain, ReaderChain

(* The cells of the Data Dicts are as they were in a heap that has grown.  *)
LEMMA CellsLiveOn ==
    ASSUME HeapInv, HeapOK(heap'), Extends(heap, heap')
    PROVE  /\ Lives(heap', sample) /\ Deref(heap', sample) = Deref(heap, sample)
           /\ Lives(heap', data) /\ Deref(heap', data) = Deref(heap, data)
           /\ Lives(heap', previous) /\ Deref(heap', previous) = Deref(heap, previous)
           /\ Lives(heap', lastCycle) /\ Deref(heap', lastCycle) = Deref(heap, lastCycle)
BY LivesOn DEF HeapInv

(* A step within a cycle that only adds cells and replaces the Data Dict.  *)
LEMMA StageKeeps ==
    ASSUME PipelineInv, Composed, phase \in InCycle, phase' \in InCycle \ {"analysis", "append"},
           HeapOK(heap'), Extends(heap, heap'), Lives(heap', data'),
           sample' = sample, previous' = previous, lastCycle' = lastCycle, was' = was
    PROVE  HeapInv' /\ StagesReadOneCycle'
<1>1. HeapInv /\ StagesReadOneCycle
    BY DEF PipelineInv
<1>2. /\ Lives(heap', sample) /\ Deref(heap', sample) = Deref(heap, sample)
      /\ Lives(heap', previous) /\ Lives(heap', lastCycle)
      /\ Deref(heap', lastCycle) = Deref(heap, lastCycle)
    BY <1>1, CellsLiveOn
<1>3. HeapInv'
    BY <1>1, <1>2 DEF HeapInv, InCycle, Composing
<1>4. StagesReadOneCycle'
    BY <1>1, <1>2, ComposedAtRest DEF StagesReadOneCycle, InCycle
<1> QED
    BY <1>3, <1>4

(* A run that stops at the entry proof.                                    *)
LEMMA EntryFails ==
    ASSUME PipelineInv, Composed, Fail("entry")
    PROVE  DataInv'
<1>1. HeapInv'
    BY DEF PipelineInv, HeapInv, Fail, cells, Composing
<1>2. StagesReadOneCycle'
    BY DEF StagesReadOneCycle, Fail
<1>3. FitInv'
    BY ComposedAtRest DEF PipelineInv, FitInv, Fail, cells, InCycle, Composing
<1> QED
    BY <1>1, <1>2, <1>3 DEF DataInv

(* What the Sampler may emit is declared.                                  *)
LEMMA FrameForm ==
    ASSUME design \in Designs,
           NEW frame \in {f \in [design.sampler.req -> UNION {Values(design.sampler.schema[r]) : r \in Roots}] :
                            \A r \in DOMAIN f : f[r] \in Values(design.sampler.schema[r])}
    PROVE  /\ IsFunction(frame) /\ DOMAIN frame \subseteq Roots
           /\ \A r \in DOMAIN frame : IsFunction(frame[r])
           /\ Declares(design.sampler, frame)
<1>1. design.sampler.req \subseteq Roots
    BY DesignForm DEF ContractState
<1>2. DOMAIN frame = design.sampler.req /\ IsFunction(frame)
      /\ \A r \in DOMAIN frame : frame[r] \in Values(design.sampler.schema[r])
    BY DEF IsFunction
<1>3. ASSUME NEW S, NEW v \in Values(S)
      PROVE  IsFunction(v) /\ Accepts(S, v)
  <2>1. PICK s \in S : v \in UNION {[leaves -> Types] : leaves \in SUBSET DOMAIN s.props} /\ Fits(v, s)
    BY DEF Values
  <2>2. PICK leaves \in SUBSET DOMAIN s.props : v \in [leaves -> Types]
    BY <2>1
  <2> QED
    BY <2>1, <2>2 DEF IsFunction, Accepts
<1> QED
    BY <1>1, <1>2, <1>3 DEF Declares

LEMMA NextSampleKeeps ==
    ASSUME PipelineInv, NextSample
    PROVE  DataInv'
<1>1. PICK frame \in {f \in [design.sampler.req -> UNION {Values(design.sampler.schema[r]) : r \in Roots}] :
                        \A r \in DOMAIN f : f[r] \in Values(design.sampler.schema[r])} :
         /\ heap' = Fresh(heap, frame).h /\ sample' = Fresh(heap, frame).d
         /\ was' = [sample |-> frame, last |-> was.left, left |-> <<>>]
    BY DEF NextSample
<1>2. /\ phase = "sample" /\ cycle < MaxCycles
      /\ phase' = "environment" /\ lastCycle' = previous /\ Composed
      /\ at' = at /\ data' = data /\ previous' = previous /\ cycle' = cycle
      /\ recorded' = recorded /\ failure' = failure
    BY DEF NextSample
<1>3. HeapInv /\ StagesReadOneCycle /\ FitInv /\ design \in Designs
    BY DEF PipelineInv, FrozenInv
<1>4. /\ IsFunction(frame) /\ DOMAIN frame \subseteq Roots
      /\ \A r \in DOMAIN frame : IsFunction(frame[r])
      /\ Declares(design.sampler, frame)
    BY <1>3, FrameForm
<1>5. HeapOK(heap)
    BY <1>3 DEF HeapInv
<1>6. /\ HeapOK(heap') /\ Extends(heap, heap') /\ Lives(heap', sample')
      /\ Deref(heap', sample') = frame
    BY <1>1, <1>4, <1>5, FreshSound
<1>7. /\ Lives(heap', data) /\ Lives(heap', previous) /\ Deref(heap', previous) = Deref(heap, previous)
    BY <1>3, <1>6, CellsLiveOn
<1>8. was'.sample = frame /\ was'.last = was.left /\ was'.left = <<>>
      /\ was' = [sample |-> was'.sample, last |-> was'.last, left |-> was'.left]
    BY <1>1
<1>9. HeapInv'
    BY <1>2, <1>6, <1>7, <1>8 DEF HeapInv, Composing
<1>10. StagesReadOneCycle'
  <2>1. Deref(heap, previous) = Restricted(was.left, PreviousKeys)
    BY <1>2, <1>3 DEF StagesReadOneCycle
  <2> QED
    BY <1>2, <1>6, <1>7, <1>8, <2>1, ComposedAtRest DEF StagesReadOneCycle
<1>11. FitInv'
    BY <1>2, <1>3, <1>4, <1>8, ComposedAtRest DEF FitInv, InCycle, Composing
<1> QED
    BY <1>9, <1>10, <1>11 DEF DataInv

(* The sources of the Environment and of the Analysis.                     *)
LEMMA CycleServes ==
    ASSUME PipelineInv, phase \in InCycle, NEW graph, NEW sources, GraphFits(graph, sources),
           LastKeys(graph) \subseteq PreviousKeys
    PROVE  LET states == CycleSources(design, plan.through) IN
           /\ \A from \in {"sample", "last", "currentPipeline"} : ContractState(states[from])
           /\ Lives(heap, sample) /\ Lives(heap, lastCycle)
           /\ \A key \in KeysFrom(graph, "sample") : KeyFits(states["sample"], heap, sample, key)
           /\ \A key \in KeysFrom(graph, "last") : KeyFits(states["last"], heap, lastCycle, key)
<1> DEFINE states == CycleSources(design, plan.through)
<1>1. FrozenInv /\ ContractState(before) /\ HeapInv /\ StagesReadOneCycle /\ FitInv
    BY DEF PipelineInv
<1>2. phase \in Running
    BY DEF InCycle, Running
<1>3. design \in Designs /\ ContractState(plan.through)
    BY <1>1, <1>2, PlanContracts
<1>4. HeapOK(heap) /\ Lives(heap, sample) /\ Lives(heap, lastCycle)
    BY <1>1 DEF HeapInv
<1>5. Declares(design.sampler, was.sample) /\ Conforms(plan.through, was.last)
    BY <1>1 DEF FitInv
<1>6. Deref(heap, sample) = was.sample /\ Deref(heap, lastCycle) = Restricted(was.last, PreviousKeys)
    BY <1>1 DEF StagesReadOneCycle, InCycle
<1>7. ContractState(design.sampler) /\ Declares(design.sampler, Deref(heap, sample))
    BY <1>3, <1>5, <1>6, DesignForm
<1>8. \A key \in KeysFrom(graph, "sample") : KeyFits(design.sampler, heap, sample, key)
    BY <1>4, <1>7, SampleServes
<1>9. \A key \in KeysFrom(graph, "last") : KeyFits(Unguaranteed(plan.through), heap, lastCycle, key)
    BY <1>3, <1>4, <1>5, <1>6, LastServes
<1>10. /\ states["sample"] = design.sampler /\ states["last"] = Unguaranteed(plan.through)
       /\ \A from \in {"sample", "last", "currentPipeline"} : ContractState(states[from])
    BY <1>3, CycleContracts
<1> HIDE DEF states
<1> QED
    BY <1>4, <1>8, <1>9, <1>10 DEF states

LEMMA RunEnvironmentKeeps ==
    ASSUME PipelineInv, RunEnvironment
    PROVE  DataInv'
<1> DEFINE states == CycleSources(design, plan.through)
           dicts == CycleDicts
<1>1. /\ phase = "environment" /\ Composed
      /\ Execute(design.environment, plan.env, dicts, states, <<>>, "project")
      /\ at' = at /\ sample' = sample /\ previous' = previous /\ lastCycle' = lastCycle
      /\ cycle' = cycle /\ recorded' = recorded /\ was' = was
    BY DEF RunEnvironment
<1>2. FrozenInv /\ ContractState(before) /\ HeapInv /\ FitInv
    BY DEF PipelineInv
<1>3. /\ plan.env = Outputs(design.environment, states)
      /\ \A r \in design.environment.reads : ReadAllowed(states[r.from], r, TRUE)
      /\ before = ApplyAll(Empty, plan.env) /\ before.ok /\ design \in Designs
    BY <1>1, <1>2, PlanContracts DEF Running
<1>4. /\ GraphFits(design.environment, {"sample", "last"})
      /\ LastKeys(design.environment) \subseteq PreviousKeys
    BY <1>3, DesignForm, PreviousKeysForm
<1>5. /\ DOMAIN dicts = {"sample", "last"} /\ dicts["sample"] = sample /\ dicts["last"] = lastCycle
    BY DEF CycleDicts
<1>6. /\ \A from \in {"sample", "last"} : ContractState(states[from])
      /\ Lives(heap, sample) /\ Lives(heap, lastCycle)
      /\ \A key \in KeysFrom(design.environment, "sample") : KeyFits(states["sample"], heap, sample, key)
      /\ \A key \in KeysFrom(design.environment, "last") : KeyFits(states["last"], heap, lastCycle, key)
    BY <1>1, <1>4, CycleServes DEF InCycle
<1> HIDE DEF states, dicts
<1>7. SourcesOK(design.environment, dicts, states)
    BY <1>5, <1>6 DEF SourcesOK
<1>8. HeapOK(heap) /\ Lives(heap, <<>>) /\ Declares(Empty, Deref(heap, <<>>))
    BY <1>2, EmptyContracts DEF HeapInv, Lives, Declares, Deref, IsFunction
<1>9. \/ Fail("entry")
      \/ /\ phase' = "project" /\ failure' = failure
         /\ HeapOK(heap') /\ Extends(heap, heap') /\ Lives(heap', data')
         /\ Declares(before, Deref(heap', data'))
    BY <1>1, <1>3, <1>4, <1>5, <1>7, <1>8, EmptyContracts, ExecuteSound
<1>10. CASE Fail("entry")
    BY <1>1, <1>10, EntryFails
<1>11. CASE /\ phase' = "project" /\ failure' = failure
            /\ HeapOK(heap') /\ Extends(heap, heap') /\ Lives(heap', data')
            /\ Declares(before, Deref(heap', data'))
  <2>1. HeapInv' /\ StagesReadOneCycle'
    BY <1>1, <1>11, StageKeeps DEF InCycle
  <2>2. FitInv'
    BY <1>1, <1>2, <1>11, ComposedAtRest DEF FitInv, InCycle, Composing
  <2> QED
    BY <2>1, <2>2 DEF DataInv
<1> QED
    BY <1>9, <1>10, <1>11

LEMMA RunSignalKeeps ==
    ASSUME PipelineInv, RunSignal
    PROVE  DataInv'
<1> DEFINE states == [from \in {"data"} |-> plan.entry]
           dicts == [from \in {"data"} |-> data]
           after == ApplyAll(plan.entry, plan.signal)
<1>1. /\ phase = "signal" /\ Composed
      /\ Execute(design.signal, plan.signal, dicts, states, data, "post")
      /\ at' = at /\ sample' = sample /\ previous' = previous /\ lastCycle' = lastCycle
      /\ cycle' = cycle /\ recorded' = recorded /\ was' = was
    BY DEF RunSignal
<1>2. FrozenInv /\ ContractState(before) /\ HeapInv /\ FitInv
    BY DEF PipelineInv
<1>3. design \in Designs /\ InputDerived /\ EntryDerived
    BY <1>1, <1>2, PlanContracts DEF Running
<1>4. /\ ContractState(plan.entry)
      /\ plan.signal = Outputs(design.signal, states)
      /\ \A r \in design.signal.reads : ReadAllowed(states[r.from], r, TRUE)
      /\ after.ok
    BY <1>2, <1>3, EntryContracts
<1>5. GraphFits(design.signal, {"data"}) /\ Len(design.post) \in Nat
    BY <1>3, DesignForm, DirectModules
<1>6. at = 1 /\ Declares(plan.entry, Deref(heap, data)) /\ HeapOK(heap) /\ Lives(heap, data)
    BY <1>1, <1>2 DEF FitInv, HeapInv
<1>7. \A key \in KeysFrom(design.signal, "data") : KeyFits(plan.entry, heap, data, key)
    BY <1>4, <1>5, <1>6, SampleServes
<1>8. DOMAIN dicts = {"data"} /\ dicts["data"] = data /\ states["data"] = plan.entry
    OBVIOUS
<1> HIDE DEF states, dicts, after
<1>9. SourcesOK(design.signal, dicts, states)
    BY <1>4, <1>6, <1>7, <1>8 DEF SourcesOK
<1>10. GraphFits(design.signal, DOMAIN dicts)
    BY <1>5, <1>8
<1>11. \/ Fail("entry")
       \/ /\ phase' = "post" /\ failure' = failure
          /\ HeapOK(heap') /\ Extends(heap, heap') /\ Lives(heap', data')
          /\ Declares(after, Deref(heap', data'))
    BY <1>1, <1>4, <1>6, <1>9, <1>10, ExecuteSound DEF after
<1>12. CASE Fail("entry")
    BY <1>1, <1>12, EntryFails
<1>13. CASE /\ phase' = "post" /\ failure' = failure
            /\ HeapOK(heap') /\ Extends(heap, heap') /\ Lives(heap', data')
            /\ Declares(after, Deref(heap', data'))
  <2>1. HeapInv' /\ StagesReadOneCycle'
    BY <1>1, <1>13, StageKeeps DEF InCycle
  <2>2. PostChain[0] = after
    BY <1>5, ChainSteps DEF PostChain, after
  <2>3. at' \in 1 .. Len(design.post) + 1 /\ at' - 1 = 0
    BY <1>1, <1>5, <1>6
  <2>4. FitInv'
    BY <1>1, <1>2, <1>13, <2>2, <2>3, ComposedAtRest DEF FitInv, InCycle, Composing
  <2> QED
    BY <2>1, <2>4 DEF DataInv
<1> QED
    BY <1>11, <1>12, <1>13

LEMMA RunAnalysisKeeps ==
    ASSUME PipelineInv, RunAnalysis
    PROVE  DataInv'
<1> DEFINE states == CycleSources(design, plan.through)
           dicts == [from \in {"sample", "last", "currentPipeline"} |->
                       IF from = "currentPipeline" THEN data ELSE CycleDicts[from]]
<1>1. /\ phase = "analysis" /\ Composed
      /\ Execute(design.analysis, plan.analysis, dicts, states, data, "append")
      /\ at' = at /\ sample' = sample /\ previous' = previous /\ lastCycle' = lastCycle
      /\ cycle' = cycle /\ recorded' = recorded /\ was' = was
    BY DEF RunAnalysis
<1>2. FrozenInv /\ ContractState(before) /\ HeapInv /\ StagesReadOneCycle /\ FitInv
    BY DEF PipelineInv
<1>3. /\ plan.analysis = Outputs(design.analysis, states)
      /\ \A r \in design.analysis.reads : ReadAllowed(states[r.from], r, TRUE)
      /\ plan.result = ApplyAll(plan.through, plan.analysis) /\ plan.result.ok
      /\ ContractState(plan.through) /\ design \in Designs
    BY <1>1, <1>2, PlanContracts DEF Running
<1>4. /\ GraphFits(design.analysis, {"sample", "last", "currentPipeline"})
      /\ LastKeys(design.analysis) \subseteq PreviousKeys
    BY <1>3, DesignForm, PreviousKeysForm
<1>5. /\ DOMAIN dicts = {"sample", "last", "currentPipeline"}
      /\ dicts["sample"] = sample /\ dicts["last"] = lastCycle /\ dicts["currentPipeline"] = data
    BY DEF CycleDicts
<1>6. /\ \A from \in {"sample", "last", "currentPipeline"} : ContractState(states[from])
      /\ Lives(heap, sample) /\ Lives(heap, lastCycle)
      /\ \A key \in KeysFrom(design.analysis, "sample") : KeyFits(states["sample"], heap, sample, key)
      /\ \A key \in KeysFrom(design.analysis, "last") : KeyFits(states["last"], heap, lastCycle, key)
    BY <1>1, <1>4, CycleServes DEF InCycle
<1>7. states["currentPipeline"] = plan.through
    BY <1>3, CycleContracts
<1>8. HeapOK(heap) /\ Lives(heap, data) /\ Declares(plan.through, Deref(heap, data))
    BY <1>1, <1>2 DEF HeapInv, FitInv
<1>9. \A key \in KeysFrom(design.analysis, "currentPipeline") : KeyFits(plan.through, heap, data, key)
    BY <1>3, <1>4, <1>8, SampleServes
<1> HIDE DEF states, dicts
<1>10. SourcesOK(design.analysis, dicts, states)
    BY <1>5, <1>6, <1>7, <1>8, <1>9 DEF SourcesOK
<1>11. GraphFits(design.analysis, DOMAIN dicts)
    BY <1>4, <1>5
<1>12. \/ Fail("entry")
       \/ /\ phase' = "append" /\ failure' = failure
          /\ HeapOK(heap') /\ Extends(heap, heap') /\ Lives(heap', data')
          /\ Declares(plan.result, Deref(heap', data'))
    BY <1>1, <1>3, <1>8, <1>10, <1>11, ExecuteSound
<1>13. CASE Fail("entry")
    BY <1>1, <1>13, EntryFails
<1>14. CASE /\ phase' = "append" /\ failure' = failure
            /\ HeapOK(heap') /\ Extends(heap, heap') /\ Lives(heap', data')
            /\ Declares(plan.result, Deref(heap', data'))
  <2>1. /\ Lives(heap', sample) /\ Deref(heap', sample) = Deref(heap, sample)
        /\ Lives(heap', previous) /\ Deref(heap', previous) = Deref(heap, previous)
        /\ Lives(heap', lastCycle) /\ Deref(heap', lastCycle) = Deref(heap, lastCycle)
    BY <1>2, <1>14, CellsLiveOn
  <2>2. HeapInv'
    BY <1>1, <1>2, <1>14, <2>1 DEF HeapInv, Composing
  <2>3. StagesReadOneCycle'
    BY <1>1, <1>2, <1>14, <2>1, ComposedAtRest DEF StagesReadOneCycle
  <2>4. FitInv'
    BY <1>1, <1>2, <1>14, ComposedAtRest DEF FitInv, InCycle, Composing
  <2> QED
    BY <2>2, <2>3, <2>4 DEF DataInv
<1> QED
    BY <1>12, <1>13, <1>14

(* A direct Module, or the end of their list.                              *)
LEMMA DirectEnds ==
    ASSUME NEW modules, NEW here, NEW then, RunDirect(modules, here, then), phase' = then, then # here,
           then # "failed"
    PROVE  at' = 1
<1>1. CASE at > Len(modules)
    BY <1>1 DEF RunDirect
<1>2. CASE ~(at > Len(modules))
  <2>1. phase' = "failed" \/ phase' = here
    BY <1>2 DEF RunDirect, Fail
  <2> QED
    BY <2>1
<1> QED
    BY <1>1, <1>2

LEMMA RunPreKeeps ==
    ASSUME PipelineInv, RunPre
    PROVE  DataInv'
<1>1. /\ phase = "pre" /\ Composed /\ RunDirect(design.pre, "pre", "signal")
      /\ sample' = sample /\ previous' = previous /\ lastCycle' = lastCycle
      /\ cycle' = cycle /\ recorded' = recorded /\ was' = was
    BY DEF RunPre, RunDirect
<1>2. FrozenInv /\ ContractState(before) /\ HeapInv /\ FitInv
    BY DEF PipelineInv
<1>3. design \in Designs /\ InputDerived /\ EntryDerived
    BY <1>1, <1>2, PlanContracts DEF Running
<1>4. /\ ContractState(plan.input) /\ Holds(Chain(design.pre, plan.input), Len(design.pre))
      /\ plan.entry = Chain(design.pre, plan.input)[Len(design.pre)]
    BY <1>2, <1>3, EntryContracts
<1>5. ModulesFit(design.pre)
    BY <1>3, DesignForm
<1>6. /\ HeapOK(heap) /\ Lives(heap, data) /\ at \in 1 .. Len(design.pre) + 1
      /\ Declares(Chain(design.pre, plan.input)[at - 1], Deref(heap, data))
    BY <1>1, <1>2 DEF HeapInv, FitInv, PreChain
<1>7. /\ failure' = failure
      /\ HeapOK(heap') /\ Extends(heap, heap') /\ Lives(heap', data')
      /\ \/ /\ phase' = "signal" /\ heap' = heap /\ data' = data
            /\ Declares(Chain(design.pre, plan.input)[Len(design.pre)], Deref(heap', data'))
         \/ /\ phase' = "pre" /\ at' \in 1 .. Len(design.pre) + 1
            /\ Declares(Chain(design.pre, plan.input)[at' - 1], Deref(heap', data'))
    BY <1>1, <1>4, <1>5, <1>6, DirectSound
<1>8. HeapInv' /\ StagesReadOneCycle'
    BY <1>1, <1>7, StageKeeps DEF InCycle
<1>9. phase' = "signal" => at' = 1
    BY <1>1, DirectEnds
<1>10. /\ phase' = "signal" => Declares(plan.entry, Deref(heap', data'))
       /\ phase' = "pre" => /\ at' \in 1 .. Len(design.pre) + 1
                            /\ Declares(PreChain[at' - 1], Deref(heap', data'))
    BY <1>4, <1>7 DEF PreChain
<1>11. FitInv'
    BY <1>1, <1>2, <1>7, <1>9, <1>10, ComposedAtRest DEF FitInv, InCycle, Composing
<1> QED
    BY <1>8, <1>11 DEF DataInv

LEMMA RunPostKeeps ==
    ASSUME PipelineInv, RunPost
    PROVE  DataInv'
<1> DEFINE after == ApplyAll(plan.entry, plan.signal)
<1>1. /\ phase = "post" /\ Composed /\ RunDirect(design.post, "post", "previous")
      /\ sample' = sample /\ previous' = previous /\ lastCycle' = lastCycle
      /\ cycle' = cycle /\ recorded' = recorded /\ was' = was
    BY DEF RunPost, RunDirect
<1>2. FrozenInv /\ ContractState(before) /\ HeapInv /\ FitInv
    BY DEF PipelineInv
<1>3. /\ design \in Designs /\ InputDerived /\ EntryDerived
      /\ Holds(Chain(design.post, after), Len(design.post))
      /\ plan.through = Chain(design.post, after)[Len(design.post)]
    BY <1>1, <1>2, PlanContracts DEF Running
<1>4. ContractState(after) /\ ModulesFit(design.post)
    BY <1>2, <1>3, DesignForm, EntryContracts
<1>5. PostChain = Chain(design.post, after)
    BY DEF PostChain
<1> HIDE DEF after
<1>6. /\ HeapOK(heap) /\ Lives(heap, data) /\ at \in 1 .. Len(design.post) + 1
      /\ Declares(Chain(design.post, after)[at - 1], Deref(heap, data))
    BY <1>1, <1>2, <1>5 DEF HeapInv, FitInv
<1>7. /\ failure' = failure
      /\ HeapOK(heap') /\ Extends(heap, heap') /\ Lives(heap', data')
      /\ \/ /\ phase' = "previous" /\ heap' = heap /\ data' = data
            /\ Declares(Chain(design.post, after)[Len(design.post)], Deref(heap', data'))
         \/ /\ phase' = "post" /\ at' \in 1 .. Len(design.post) + 1
            /\ Declares(Chain(design.post, after)[at' - 1], Deref(heap', data'))
    BY <1>1, <1>3, <1>4, <1>6, DirectSound
<1>8. HeapInv' /\ StagesReadOneCycle'
    BY <1>1, <1>7, StageKeeps DEF InCycle
<1>9. /\ phase' = "previous" => Declares(plan.through, Deref(heap', data'))
      /\ phase' = "post" => /\ at' \in 1 .. Len(design.post) + 1
                            /\ Declares(PostChain[at' - 1], Deref(heap', data'))
    BY <1>3, <1>5, <1>7
<1>10. FitInv'
    BY <1>1, <1>2, <1>7, <1>9, ComposedAtRest DEF FitInv, InCycle, Composing
<1> QED
    BY <1>8, <1>10 DEF DataInv

LEMMA RunProjectionKeeps ==
    ASSUME PipelineInv, RunProjection
    PROVE  DataInv'
<1> DEFINE p == Project(Dict(heap, <<>>), data, Selected(design))
           s == DeleteAll(p, Denied(design))
           held == Deref(heap, data)
<1>1. /\ phase = "project" /\ phase' = "pre" /\ at' = 1 /\ Composed
      /\ heap' = s.h /\ data' = s.d /\ failure' = failure
      /\ sample' = sample /\ previous' = previous /\ lastCycle' = lastCycle
      /\ cycle' = cycle /\ recorded' = recorded /\ was' = was
    BY DEF RunProjection
<1>2. FrozenInv /\ ContractState(before) /\ HeapInv /\ FitInv
    BY DEF PipelineInv
<1>3. design \in Designs /\ InputDerived
    BY <1>1, <1>2, PlanContracts DEF Running
<1>4. /\ design.whitelist \subseteq Keys /\ design.blacklist \subseteq Keys
      /\ Selected(design) \subseteq Keys /\ Denied(design) \subseteq Keys
      /\ \A b \in Denied(design) : Len(b) = 2
    BY <1>3, DesignForm, SelectedForm
<1>5. HeapOK(heap) /\ Lives(heap, data) /\ Declares(before, held)
    BY <1>1, <1>2 DEF HeapInv, FitInv
<1>6. DOMAIN held \subseteq Roots
    BY <1>5, DerefValues
<1>7. Projected(heap, data, Dict(heap, <<>>), {})
    BY <1>5, NothingProjected
<1>8. Projected(heap, data, p, {} \cup Selected(design))
    BY <1>4, <1>5, <1>7, ProjectSound
<1> HIDE DEF p
<1>9. /\ IsDict(p) /\ HeapOK(p.h) /\ Extends(heap, p.h) /\ Lives(p.h, p.d)
      /\ Picked(held, Selected(design), Deref(p.h, p.d))
    BY <1>8 DEF Projected
<1>10. CutBack(p, s, Denied(design))
    BY <1>4, <1>9, DeleteAllSound
<1> HIDE DEF s, held
<1>11. /\ HeapOK(s.h) /\ Extends(p.h, s.h) /\ Lives(s.h, s.d)
       /\ Cut(Deref(p.h, p.d), Denied(design), Deref(s.h, s.d))
    BY <1>10 DEF CutBack
<1>12. Declares(ProjectContracts(before, design), Deref(s.h, s.d))
    BY <1>2, <1>3, <1>4, <1>5, <1>6, <1>9, <1>11, ProjectionSound DEF held, InputDerived
<1>13. Declares(plan.input, Deref(heap', data'))
    BY <1>1, <1>3, <1>12 DEF InputDerived
<1>14. HeapOK(heap') /\ Extends(heap, heap') /\ Lives(heap', data')
    BY <1>1, <1>5, <1>9, <1>11, ExtendsTransitive
<1>15. HeapInv' /\ StagesReadOneCycle'
    BY <1>1, <1>14, StageKeeps DEF InCycle
<1>16. PreChain[0] = plan.input /\ at' \in 1 .. Len(design.pre) + 1 /\ at' - 1 = 0
    BY <1>1, <1>3, DirectModules, ChainSteps DEF PreChain
<1>17. FitInv'
    BY <1>1, <1>2, <1>13, <1>16, ComposedAtRest DEF FitInv, InCycle, Composing
<1> QED
    BY <1>15, <1>17 DEF DataInv

LEMMA KeepPreviousKeeps ==
    ASSUME PipelineInv, KeepPrevious
    PROVE  DataInv'
<1> DEFINE first == LastKeys(design.environment)
           then == LastKeys(design.analysis) \ LastKeys(design.environment)
           p == Project(Dict(heap, <<>>), data, first)
           s == Project(p, data, then)
           held == Deref(heap, data)
<1>1. /\ phase = "previous" /\ phase' = "analysis" /\ Composed
      /\ heap' = s.h /\ previous' = s.d /\ failure' = failure
      /\ was' = [was EXCEPT !.left = held]
      /\ at' = at /\ sample' = sample /\ data' = data /\ lastCycle' = lastCycle
      /\ cycle' = cycle /\ recorded' = recorded
    BY DEF KeepPrevious
<1>2. FrozenInv /\ ContractState(before) /\ HeapInv /\ StagesReadOneCycle /\ FitInv
    BY DEF PipelineInv
<1>3. design \in Designs
    BY <1>2 DEF FrozenInv
<1>4. first \subseteq Keys /\ then \subseteq Keys /\ ({} \cup first) \cup then = PreviousKeys
      /\ PreviousKeys \subseteq Keys
    BY <1>3, PreviousKeysForm DEF PreviousKeys
<1>5. HeapOK(heap) /\ Lives(heap, data) /\ Declares(plan.through, held)
    BY <1>1, <1>2 DEF HeapInv, FitInv
<1>6. Projected(heap, data, Dict(heap, <<>>), {})
    BY <1>5, NothingProjected
<1> HIDE DEF first, then
<1>7. Projected(heap, data, p, {} \cup first)
    BY <1>4, <1>5, <1>6, ProjectSound
<1> HIDE DEF p
<1>8. Projected(heap, data, s, ({} \cup first) \cup then)
    BY <1>4, <1>5, <1>7, ProjectSound
<1> HIDE DEF s
<1>9. /\ HeapOK(s.h) /\ Extends(heap, s.h) /\ Lives(s.h, s.d)
      /\ Picked(held, PreviousKeys, Deref(s.h, s.d))
    BY <1>4, <1>8 DEF Projected
<1>10. Deref(s.h, s.d) = Restricted(held, PreviousKeys)
    BY <1>4, <1>9, RestrictedForm, PickedIsUnique
<1> HIDE DEF held
<1>11. was'.left = held /\ was'.sample = was.sample /\ was'.last = was.last
       /\ was' = [sample |-> was'.sample, last |-> was'.last, left |-> was'.left]
  <2>1. was = [sample |-> was.sample, last |-> was.last, left |-> was.left]
    BY <1>2 DEF HeapInv
  <2>2. was' = [sample |-> was.sample, last |-> was.last, left |-> held]
    BY <1>1, <2>1
  <2> QED
    BY <2>2
<1>12. HeapOK(heap') /\ Extends(heap, heap') /\ Lives(heap', previous')
       /\ Deref(heap', previous') = Restricted(held, PreviousKeys)
    BY <1>1, <1>9, <1>10
<1>13. /\ Lives(heap', sample) /\ Deref(heap', sample) = Deref(heap, sample)
       /\ Lives(heap', data) /\ Deref(heap', data) = held
       /\ Lives(heap', lastCycle) /\ Deref(heap', lastCycle) = Deref(heap, lastCycle)
    BY <1>2, <1>12, CellsLiveOn DEF held
<1>14. HeapInv'
    BY <1>1, <1>11, <1>12, <1>13 DEF HeapInv, Composing
<1>15. StagesReadOneCycle'
    BY <1>1, <1>2, <1>11, <1>12, <1>13, ComposedAtRest DEF StagesReadOneCycle
<1>16. Conforms(plan.through, held)
    BY <1>5 DEF Conforms, Declares
<1>17. FitInv'
    BY <1>1, <1>2, <1>5, <1>11, <1>13, <1>16, ComposedAtRest DEF FitInv, InCycle, Composing
<1> QED
    BY <1>14, <1>15, <1>17 DEF DataInv

LEMMA AppendCycleKeeps ==
    ASSUME PipelineInv, AppendCycle
    PROVE  DataInv'
<1> DEFINE s == Compacted(previous)
<1>1. /\ phase = "append" /\ phase' = "sample" /\ Composed
      /\ recorded' = Deref(heap, data) /\ cycle' = cycle + 1
      /\ heap' = s.h /\ previous' = s.d
      /\ sample' = <<>> /\ data' = <<>> /\ lastCycle' = <<>>
      /\ was' = [was EXCEPT !.sample = <<>>, !.last = <<>>]
      /\ at' = at /\ failure' = failure
    BY DEF AppendCycle
<1>2. HeapInv /\ StagesReadOneCycle /\ FitInv
    BY DEF PipelineInv
<1>3. /\ HeapOK(heap) /\ Lives(heap, data) /\ Lives(heap, previous)
      /\ Declares(plan.result, Deref(heap, data)) /\ Conforms(plan.through, was.left)
      /\ Deref(heap, previous) = Restricted(was.left, PreviousKeys)
    BY <1>1, <1>2 DEF HeapInv, FitInv, StagesReadOneCycle
<1>4. HeapOK(s.h) /\ Lives(s.h, s.d) /\ Deref(s.h, s.d) = Deref(heap, previous)
    BY <1>3, CompactedSound
<1> HIDE DEF s
<1>5. was'.left = was.left
      /\ was' = [sample |-> was'.sample, last |-> was'.last, left |-> was'.left]
  <2>1. was = [sample |-> was.sample, last |-> was.last, left |-> was.left]
    BY <1>2 DEF HeapInv
  <2>2. was' = [sample |-> <<>>, last |-> <<>>, left |-> was.left]
    BY <1>1, <2>1
  <2> QED
    BY <2>2
<1>6. HeapInv'
  <2>1. Lives(heap', <<>>)
    BY DEF Lives, IsFunction
  <2> QED
    BY <1>1, <1>4, <1>5, <2>1 DEF HeapInv, Composing
<1>7. StagesReadOneCycle'
    BY <1>1, <1>3, <1>4, <1>5, ComposedAtRest DEF StagesReadOneCycle
<1>8. /\ IsFunction(recorded') /\ DOMAIN recorded' \subseteq Roots
      /\ \A r \in DOMAIN recorded' : IsFunction(recorded'[r])
    BY <1>1, <1>3, DerefValues
<1>9. cycle' \in 0 .. MaxCycles
    BY <1>1, <1>2, CyclesAssumption DEF FitInv, InCycle
<1>10. FitInv'
    BY <1>1, <1>2, <1>3, <1>5, <1>8, <1>9, ComposedAtRest DEF FitInv, InCycle, Composing
<1> QED
    BY <1>6, <1>7, <1>10 DEF DataInv

(***************************************************************************)
(* Reading the Result.                                                     *)
(***************************************************************************)

LEMMA DecodeCycleKeeps ==
    ASSUME PipelineInv, DecodeCycle
    PROVE  DataInv'
<1> DEFINE s == Fresh(<<>>, recorded)
<1>1. HeapInv /\ StagesReadOneCycle /\ FitInv
    BY DEF PipelineInv
<1>2. phase = "decode" /\ cycle > 0 /\ Composed
    BY DEF DecodeCycle
<1>3. /\ Declares(plan.result, recorded)
      /\ IsFunction(recorded) /\ DOMAIN recorded \subseteq Roots
      /\ \A r \in DOMAIN recorded : IsFunction(recorded[r])
    BY <1>1, <1>2 DEF FitInv
<1>4. /\ phase' = "temporary" /\ at' = 1 /\ heap' = s.h /\ data' = s.d
      /\ sample' = sample /\ previous' = previous /\ lastCycle' = lastCycle
      /\ cycle' = cycle /\ recorded' = recorded /\ failure' = failure /\ was' = was
    BY <1>3 DEF DecodeCycle
<1>5. HeapOK(<<>>)
    BY DEF HeapOK
<1>6. HeapOK(s.h) /\ Lives(s.h, s.d) /\ Deref(s.h, s.d) = recorded
    BY <1>3, <1>5, FreshSound
<1> HIDE DEF s
<1>7. sample = <<>> /\ lastCycle = <<>> /\ previous = <<>>
    BY <1>1, <1>2 DEF HeapInv
<1>8. HeapInv'
  <2>1. Lives(heap', <<>>)
    BY DEF Lives, IsFunction
  <2> QED
    BY <1>1, <1>4, <1>6, <1>7, <2>1 DEF HeapInv, Composing
<1>9. StagesReadOneCycle'
    BY <1>4 DEF StagesReadOneCycle
<1>10. ModulesFit(temporary) /\ Len(temporary) \in Nat
    BY <1>1, <1>2 DEF FitInv, ModulesFit
<1>11. ReaderChain[0] = plan.result /\ at' \in 1 .. Len(temporary) + 1 /\ at' - 1 = 0
    BY <1>4, <1>10, ChainSteps DEF ReaderChain
<1>12. Deref(heap', data') = recorded
    BY <1>4, <1>6
<1>13. FitInv'
    BY <1>1, <1>2, <1>3, <1>4, <1>11, <1>12, ComposedAtRest DEF FitInv, InCycle, Composing
<1> QED
    BY <1>8, <1>9, <1>13 DEF DataInv

LEMMA RunTemporaryKeeps ==
    ASSUME PipelineInv, RunTemporary
    PROVE  DataInv'
<1>1. /\ phase = "temporary" /\ Composed /\ RunDirect(temporary, "temporary", "transformed")
      /\ sample' = sample /\ previous' = previous /\ lastCycle' = lastCycle
      /\ cycle' = cycle /\ recorded' = recorded /\ was' = was
    BY DEF RunTemporary, RunDirect
<1>2. FrozenInv /\ ContractState(before) /\ HeapInv /\ FitInv
    BY DEF PipelineInv
<1>3. ContractState(plan.result)
    BY <1>1, <1>2, PlanContracts DEF Running
<1>4. /\ ModulesFit(temporary) /\ Holds(ReaderChain, Len(temporary))
      /\ work = ReaderChain[Len(temporary)]
      /\ at \in 1 .. Len(temporary) + 1 /\ Declares(ReaderChain[at - 1], Deref(heap, data))
    BY <1>1, <1>2 DEF FitInv
<1>5. HeapOK(heap) /\ Lives(heap, data)
    BY <1>2 DEF HeapInv
<1>6. /\ failure' = failure
      /\ HeapOK(heap') /\ Extends(heap, heap') /\ Lives(heap', data')
      /\ \/ /\ phase' = "transformed" /\ heap' = heap /\ data' = data
            /\ Declares(ReaderChain[Len(temporary)], Deref(heap', data'))
         \/ /\ phase' = "temporary" /\ at' \in 1 .. Len(temporary) + 1
            /\ Declares(ReaderChain[at' - 1], Deref(heap', data'))
    BY <1>1, <1>3, <1>4, <1>5, DirectSound DEF ReaderChain
<1>7. Lives(heap', sample) /\ Lives(heap', previous) /\ Lives(heap', lastCycle)
    BY <1>2, <1>6, CellsLiveOn
<1>8. HeapInv'
    BY <1>1, <1>2, <1>6, <1>7 DEF HeapInv, Composing
<1>9. StagesReadOneCycle'
    BY <1>6 DEF StagesReadOneCycle
<1>10. FitInv'
    BY <1>1, <1>2, <1>4, <1>6, ComposedAtRest DEF FitInv, InCycle, Composing
<1> QED
    BY <1>8, <1>9, <1>10 DEF DataInv

LEMMA ProveProjectionKeeps ==
    ASSUME PipelineInv, ProveProjection
    PROVE  DataInv'
<1>1. HeapInv /\ FitInv /\ phase = "transformed" /\ Composed
    BY DEF PipelineInv, ProveProjection
<1>2. Declares(work, Deref(heap, data))
    BY <1>1 DEF FitInv
<1>3. /\ phase' = "read" /\ failure' = failure
      /\ at' = at /\ heap' = heap /\ sample' = sample /\ data' = data /\ previous' = previous
      /\ lastCycle' = lastCycle /\ cycle' = cycle /\ recorded' = recorded /\ was' = was
    BY <1>2 DEF ProveProjection, cells
<1>4. HeapInv'
    BY <1>1, <1>3 DEF HeapInv, Composing
<1>5. StagesReadOneCycle'
    BY <1>3 DEF StagesReadOneCycle
<1>6. FitInv'
    BY <1>1, <1>3, ComposedAtRest DEF FitInv, InCycle, Composing
<1> QED
    BY <1>4, <1>5, <1>6 DEF DataInv

(* The recursion of Layer has a solution, whose end is its value.          *)
LEMMA LayerUnfolds ==
    ASSUME NEW list, NEW done, Len(list) \in Nat
    PROVE  \E f : /\ f = [i \in 0 .. Len(list) |-> IF i = 0 THEN <<>> ELSE IF i \notin done /\ Precede(list, i) \subseteq done THEN Append(f[i - 1], i) ELSE f[i - 1]]
                  /\ Layer(list, done) = f[Len(list)]
<1> DEFINE Step(f, i) == IF i = 0 THEN <<>> ELSE IF i \notin done /\ Precede(list, i) \subseteq done THEN Append(f[i - 1], i) ELSE f[i - 1]
           Solves(f, m) == f = [i \in 0 .. m |-> Step(f, i)]
           Good == {m \in Nat : \E f : Solves(f, m)}
<1>1. 0 \in Good
  <2>1. Solves([i \in 0 .. 0 |-> <<>>], 0)
    OBVIOUS
  <2> QED
    BY <2>1
<1>2. ASSUME NEW m \in 1 .. Len(list), m - 1 \in Good PROVE m \in Good
  <2>1. PICK f : Solves(f, m - 1)
    BY <1>2
  <2> DEFINE h == [i \in 0 .. m |-> IF i = m THEN Step(f, m) ELSE f[i]]
  <2>2. \A i \in 0 .. m : h[i] = Step(h, i)
    <3>1. ASSUME NEW i \in 0 .. (m - 1) PROVE h[i] = Step(h, i)
      <4>1. i # 0 => i - 1 \in 0 .. (m - 1) /\ i - 1 # m /\ h[i - 1] = f[i - 1]
        OBVIOUS
      <4>2. f[i] = Step(f, i) /\ h[i] = f[i]
        <5> HIDE DEF Step
        <5> QED
          BY <2>1
      <4> QED
        BY <4>1, <4>2
    <3>2. h[m] = Step(h, m)
      <4>1. m # 0 /\ m - 1 \in 0 .. m /\ m - 1 # m /\ h[m - 1] = f[m - 1] /\ h[m] = Step(f, m)
        OBVIOUS
      <4> QED
        BY <4>1
    <3>3. \A i \in 0 .. m : i \in 0 .. (m - 1) \/ i = m
      OBVIOUS
    <3> HIDE DEF Step, h
    <3> QED
      BY <3>1, <3>2, <3>3
  <2>3. h = [i \in 0 .. m |-> Step(h, i)]
    BY <2>2
  <2>4. \E g : Solves(g, m)
    <3> WITNESS h
    <3> QED
      BY <2>3
  <2> HIDE DEF Solves
  <2> QED
    BY <2>4
<1>3. Len(list) \in Good
  <2> HIDE DEF Good
  <2>1. \A m \in 0 .. Len(list) : m \in Good
    BY <1>1, <1>2, BoundedInduction
  <2> QED
    BY <2>1
<1>4. PICK f : Solves(f, Len(list))
    BY <1>3
<1> QED
    BY <1>4 DEF Layer

(* A layer, and all of them, are made of positions of the list.            *)
LEMMA LayerForm ==
    ASSUME NEW list, Len(list) \in Nat, NEW done
    PROVE  Layer(list, done) \in Seq(1 .. Len(list))
<1> DEFINE n == Len(list)
<1>1. PICK f : /\ f = [i \in 0 .. n |-> IF i = 0 THEN <<>>
                         ELSE IF i \notin done /\ Precede(list, i) \subseteq done THEN Append(f[i - 1], i)
                         ELSE f[i - 1]]
               /\ Layer(list, done) = f[n]
    BY LayerUnfolds
<1> HIDE DEF n
<1>0. n \in Nat
    BY DEF n
<1> DEFINE G == {k \in 0 .. n : f[k] \in Seq(1 .. n)}
<1>2. 0 \in G
  <2>1. 0 \in 0 .. n
    BY <1>0
  <2>2. f[0] = <<>>
    BY <1>1, <2>1
  <2>3. <<>> \in Seq(1 .. n)
    OBVIOUS
  <2> QED
    BY <2>1, <2>2, <2>3
<1>3. ASSUME NEW k \in 1 .. n, k - 1 \in G PROVE k \in G
  <2>1. k \in 0 .. n /\ k # 0
    BY <1>0
  <2>2. f[k] = Append(f[k - 1], k) \/ f[k] = f[k - 1]
    BY <1>1, <2>1
  <2>3. f[k - 1] \in Seq(1 .. n)
    BY <1>3
  <2>4. Append(f[k - 1], k) \in Seq(1 .. n)
    BY <2>3
  <2> QED
    BY <2>1, <2>2, <2>3, <2>4
<1>4. n \in G
  <2> HIDE DEF G
  <2>1. \A k \in 0 .. n : k \in G
    BY <1>0, <1>2, <1>3, BoundedInduction
  <2> QED
    BY <1>0, <2>1
<1> QED
    BY <1>1, <1>4 DEF n

(* The recursion of Layered has a solution, whose end is its value.        *)
LEMMA LayeredUnfolds ==
    ASSUME NEW list, Len(list) \in Nat
    PROVE  \E f : /\ f = [i \in 0 .. Len(list) |-> IF i = 0 THEN <<>> ELSE f[i - 1] \o Layer(list, {f[i - 1][j] : j \in DOMAIN f[i - 1]})]
                  /\ Layered(list) = f[Len(list)]
<1> DEFINE Step(f, i) == IF i = 0 THEN <<>> ELSE f[i - 1] \o Layer(list, {f[i - 1][j] : j \in DOMAIN f[i - 1]})
           Solves(f, m) == f = [i \in 0 .. m |-> Step(f, i)]
           Good == {m \in Nat : \E f : Solves(f, m)}
<1>1. 0 \in Good
  <2>1. Solves([i \in 0 .. 0 |-> <<>>], 0)
    OBVIOUS
  <2> QED
    BY <2>1
<1>2. ASSUME NEW m \in 1 .. Len(list), m - 1 \in Good PROVE m \in Good
  <2>1. PICK f : Solves(f, m - 1)
    BY <1>2
  <2> DEFINE h == [i \in 0 .. m |-> IF i = m THEN Step(f, m) ELSE f[i]]
  <2>2. \A i \in 0 .. m : h[i] = Step(h, i)
    <3>1. ASSUME NEW i \in 0 .. (m - 1) PROVE h[i] = Step(h, i)
      <4>1. i # 0 => i - 1 \in 0 .. (m - 1) /\ i - 1 # m /\ h[i - 1] = f[i - 1]
        OBVIOUS
      <4>2. f[i] = Step(f, i) /\ h[i] = f[i]
        <5> HIDE DEF Step
        <5> QED
          BY <2>1
      <4> QED
        BY <4>1, <4>2
    <3>2. h[m] = Step(h, m)
      <4>1. m # 0 /\ m - 1 \in 0 .. m /\ m - 1 # m /\ h[m - 1] = f[m - 1] /\ h[m] = Step(f, m)
        OBVIOUS
      <4> QED
        BY <4>1
    <3>3. \A i \in 0 .. m : i \in 0 .. (m - 1) \/ i = m
      OBVIOUS
    <3> HIDE DEF Step, h
    <3> QED
      BY <3>1, <3>2, <3>3
  <2>3. h = [i \in 0 .. m |-> Step(h, i)]
    BY <2>2
  <2>4. \E g : Solves(g, m)
    <3> WITNESS h
    <3> QED
      BY <2>3
  <2> HIDE DEF Solves
  <2> QED
    BY <2>4
<1>3. Len(list) \in Good
  <2> HIDE DEF Good
  <2>1. \A m \in 0 .. Len(list) : m \in Good
    BY <1>1, <1>2, BoundedInduction
  <2> QED
    BY <2>1
<1>4. PICK f : Solves(f, Len(list))
    BY <1>3
<1> QED
    BY <1>4 DEF Layered

LEMMA LayeredForm ==
    ASSUME NEW list, Len(list) \in Nat
    PROVE  Layered(list) \in Seq(1 .. Len(list))
<1> DEFINE n == Len(list)
<1>1. PICK f : /\ f = [i \in 0 .. n |-> IF i = 0 THEN <<>>
                         ELSE f[i - 1] \o Layer(list, {f[i - 1][j] : j \in DOMAIN f[i - 1]})]
               /\ Layered(list) = f[n]
    BY LayeredUnfolds
<1>0. n \in Nat /\ \A done : Layer(list, done) \in Seq(1 .. n)
    BY LayerForm
<1> HIDE DEF n
<1> DEFINE G == {k \in 0 .. n : f[k] \in Seq(1 .. n)}
<1>2. 0 \in G
  <2>1. 0 \in 0 .. n
    BY <1>0
  <2>2. f[0] = <<>>
    BY <1>1, <2>1
  <2>3. <<>> \in Seq(1 .. n)
    OBVIOUS
  <2> QED
    BY <2>1, <2>2, <2>3
<1>3. ASSUME NEW k \in 1 .. n, k - 1 \in G PROVE k \in G
  <2> DEFINE layer == Layer(list, {f[k - 1][j] : j \in DOMAIN f[k - 1]})
  <2>1. k \in 0 .. n /\ k # 0
    BY <1>0
  <2>2. f[k] = f[k - 1] \o layer
    BY <1>1, <2>1
  <2>3. f[k - 1] \in Seq(1 .. n)
    BY <1>3
  <2>4. layer \in Seq(1 .. n)
    BY <1>0
  <2> HIDE DEF layer
  <2>5. f[k - 1] \o layer \in Seq(1 .. n)
    BY <2>3, <2>4
  <2> QED
    BY <2>1, <2>2, <2>5
<1>4. n \in G
  <2> HIDE DEF G
  <2>1. \A k \in 0 .. n : k \in G
    BY <1>0, <1>2, <1>3, BoundedInduction
  <2> QED
    BY <1>0, <2>1
<1> QED
    BY <1>1, <1>4 DEF n

(* The list in the order of its layers is one of Modules that fit.         *)
LEMMA ReorderedFits ==
    ASSUME NEW list, ModulesFit(list), NEW order \in Seq(1 .. Len(list))
    PROVE  /\ ModulesFit([i \in DOMAIN order |-> list[order[i]]])
           /\ Len([i \in DOMAIN order |-> list[order[i]]]) \in Nat
<1> DEFINE modules == [i \in DOMAIN order |-> list[order[i]]]
<1>1. /\ Len(list) \in Nat /\ DOMAIN list = 1 .. Len(list)
      /\ \A i \in DOMAIN list : ReadsFit(list[i].reads, {"data"}) /\ WritesFit(list[i].writes)
    BY DEF ModulesFit
<1>2. DOMAIN order = 1 .. Len(order) /\ Len(order) \in Nat /\ \A i \in DOMAIN order : order[i] \in DOMAIN list
    BY <1>1
<1>3. DOMAIN modules = 1 .. Len(order) /\ \A i \in DOMAIN modules : modules[i] = list[order[i]]
    BY <1>2
<1>4. modules \in Seq({modules[i] : i \in DOMAIN modules})
  <2>1. modules = [i \in 1 .. Len(order) |-> list[order[i]]]
    BY <1>2
  <2>2. \A i \in 1 .. Len(order) : list[order[i]] \in {modules[j] : j \in DOMAIN modules}
    BY <1>3
  <2> QED
    BY <1>2, <2>1, <2>2
<1>5. Len(modules) \in Nat
    BY <1>4
<1> HIDE DEF modules
<1>6. \A i \in DOMAIN modules : ReadsFit(modules[i].reads, {"data"}) /\ WritesFit(modules[i].writes)
    BY <1>1, <1>2, <1>3
<1> QED
    BY <1>4, <1>5, <1>6 DEF ModulesFit, modules

(* A temporary Module that is accepted does what a direct Module does, on  *)
(* contracts that were accepted.                                           *)
LEMMA TemporaryApplied ==
    ASSUME NEW state, NEW module, ApplyTemporary(state, module).ok
    PROVE  state.ok /\ ApplyTemporary(state, module) = ApplyModule(state, module)
<1> DEFINE q == ByKey(Made(module.writes))
<1>1. ~Refused.ok
    BY DEF Refused, Empty
<1>2. ApplyTemporary(state, module) = ApplyModule(state, module)
    BY <1>1 DEF ApplyTemporary
<1>3. ApplyModule(state, module) = ApplyAll(state, q)
    BY <1>1, <1>2 DEF ApplyModule
<1>4. q \in Seq(Made(module.writes))
    BY ByKeyElements
<1> HIDE DEF q
<1>5. Len(q) \in Nat /\ ApplyAll(state, q).ok
    BY <1>2, <1>3, <1>4
<1>6. PICK f : Accepted(f, state, q)
    BY <1>5, ApplyAllAccepted
<1> QED
    BY <1>2, <1>5, <1>6 DEF Accepted

(* The recursion of ApplyTemporaries has a solution, whose end is its value. *)
LEMMA ApplyTemporariesUnfolds ==
    ASSUME NEW state, NEW modules, Len(modules) \in Nat
    PROVE  \E f : /\ f = [i \in 0 .. Len(modules) |-> IF i = 0 THEN state ELSE ApplyTemporary(f[i - 1], modules[i])]
                  /\ ApplyTemporaries(state, modules) = f[Len(modules)]
<1> DEFINE Step(f, i) == IF i = 0 THEN state ELSE ApplyTemporary(f[i - 1], modules[i])
           Solves(f, m) == f = [i \in 0 .. m |-> Step(f, i)]
           Good == {m \in Nat : \E f : Solves(f, m)}
<1>1. 0 \in Good
  <2>1. Solves([i \in 0 .. 0 |-> state], 0)
    OBVIOUS
  <2> QED
    BY <2>1
<1>2. ASSUME NEW m \in 1 .. Len(modules), m - 1 \in Good PROVE m \in Good
  <2>1. PICK f : Solves(f, m - 1)
    BY <1>2
  <2> DEFINE h == [i \in 0 .. m |-> IF i = m THEN Step(f, m) ELSE f[i]]
  <2>2. \A i \in 0 .. m : h[i] = Step(h, i)
    <3>1. ASSUME NEW i \in 0 .. (m - 1) PROVE h[i] = Step(h, i)
      <4>1. i # 0 => i - 1 \in 0 .. (m - 1) /\ i - 1 # m /\ h[i - 1] = f[i - 1]
        OBVIOUS
      <4>2. f[i] = Step(f, i) /\ h[i] = f[i]
        <5> HIDE DEF Step
        <5> QED
          BY <2>1
      <4> QED
        BY <4>1, <4>2
    <3>2. h[m] = Step(h, m)
      <4>1. m # 0 /\ m - 1 \in 0 .. m /\ m - 1 # m /\ h[m - 1] = f[m - 1] /\ h[m] = Step(f, m)
        OBVIOUS
      <4> QED
        BY <4>1
    <3>3. \A i \in 0 .. m : i \in 0 .. (m - 1) \/ i = m
      OBVIOUS
    <3> HIDE DEF Step, h
    <3> QED
      BY <3>1, <3>2, <3>3
  <2>3. h = [i \in 0 .. m |-> Step(h, i)]
    BY <2>2
  <2>4. \E g : Solves(g, m)
    <3> WITNESS h
    <3> QED
      BY <2>3
  <2> HIDE DEF Solves
  <2> QED
    BY <2>4
<1>3. Len(modules) \in Good
  <2> HIDE DEF Good
  <2>1. \A m \in 0 .. Len(modules) : m \in Good
    BY <1>1, <1>2, BoundedInduction
  <2> QED
    BY <2>1
<1>4. PICK f : Solves(f, Len(modules))
    BY <1>3
<1> QED
    BY <1>4 DEF ApplyTemporaries

LEMMA TemporariesForm ==
    ASSUME NEW state, NEW modules, Len(modules) \in Nat, ApplyTemporaries(state, modules).ok
    PROVE  /\ Holds(Chain(modules, state), Len(modules))
           /\ ApplyTemporaries(state, modules) = Chain(modules, state)[Len(modules)]
<1> DEFINE n == Len(modules)
           c == Chain(modules, state)
<1>1. PICK f : /\ f = [i \in 0 .. n |-> IF i = 0 THEN state ELSE ApplyTemporary(f[i - 1], modules[i])]
               /\ ApplyTemporaries(state, modules) = f[n]
    BY ApplyTemporariesUnfolds
<1>2. c[0] = state /\ \A i \in 1 .. n : c[i] = ApplyModule(c[i - 1], modules[i])
    BY ChainSteps
<1>3. n \in Nat
    OBVIOUS
<1> HIDE DEF n, c
<1>4. f[0] = state
    BY <1>1, <1>3
<1>5. ASSUME NEW i \in 1 .. n PROVE f[i] = ApplyTemporary(f[i - 1], modules[i])
  <2>1. i \in 0 .. n /\ i # 0
    BY <1>3
  <2> QED
    BY <1>1, <2>1
<1>6. ASSUME NEW i \in 1 .. n, f[i].ok PROVE f[i - 1].ok /\ f[i] = ApplyModule(f[i - 1], modules[i])
    BY <1>5, <1>6, TemporaryApplied
<1>7. f[n].ok
    BY <1>1 DEF n
<1>8. \A i \in 0 .. n : f[i].ok
    BY <1>3, <1>6, <1>7, AcceptedBefore
<1> DEFINE G == {i \in 0 .. n : f[i] = c[i]}
<1>9. 0 \in G
    BY <1>2, <1>3, <1>4
<1>10. ASSUME NEW i \in 1 .. n, i - 1 \in G PROVE i \in G
  <2>1. i \in 0 .. n
    BY <1>3
  <2>2. f[i] = ApplyModule(f[i - 1], modules[i]) /\ c[i] = ApplyModule(c[i - 1], modules[i])
    BY <1>2, <1>6, <1>8, <2>1
  <2>3. f[i - 1] = c[i - 1]
    BY <1>10
  <2> QED
    BY <2>1, <2>2, <2>3
<1>11. \A i \in 0 .. n : f[i] = c[i]
  <2> HIDE DEF G
  <2>1. \A i \in 0 .. n : i \in G
    BY <1>3, <1>9, <1>10, BoundedInduction
  <2> QED
    BY <2>1 DEF G
<1>12. n \in 0 .. n
    BY <1>3
<1>13. Holds(c, n)
    BY <1>8, <1>11 DEF Holds
<1> QED
    BY <1>1, <1>11, <1>12, <1>13 DEF c, n

LEMMA OpenResultKeeps ==
    ASSUME PipelineInv, OpenResult
    PROVE  DataInv'
<1>1. PICK list \in Temporaries :
         IF Contested(list) \/ Len(Layered(list)) < Len(list)
            \/ ~ApplyTemporaries(plan.result, [i \in DOMAIN Layered(list) |-> list[Layered(list)[i]]]).ok
         THEN phase' = "unreadable" /\ UNCHANGED <<work, temporary>>
         ELSE /\ phase' = "decode"
              /\ work' = ApplyTemporaries(plan.result, [i \in DOMAIN Layered(list) |-> list[Layered(list)[i]]])
              /\ temporary' = [i \in DOMAIN Layered(list) |-> list[Layered(list)[i]]]
    BY DEF OpenResult
<1> DEFINE modules == [i \in DOMAIN Layered(list) |-> list[Layered(list)[i]]]
<1>2. /\ phase = "sample" /\ heap' = <<>> /\ previous' = <<>> /\ was' = [was EXCEPT !.left = <<>>]
      /\ design' = design /\ plan' = plan /\ sample' = sample /\ data' = data /\ lastCycle' = lastCycle
      /\ cycle' = cycle /\ recorded' = recorded /\ failure' = failure
    BY DEF OpenResult
<1>3. HeapInv /\ StagesReadOneCycle /\ FitInv
    BY DEF PipelineInv
<1>4. sample = <<>> /\ data = <<>> /\ lastCycle = <<>>
    BY <1>2, <1>3 DEF HeapInv
<1>5. was'.left = <<>> /\ was' = [sample |-> was'.sample, last |-> was'.last, left |-> was'.left]
  <2>1. was = [sample |-> was.sample, last |-> was.last, left |-> was.left]
    BY <1>3 DEF HeapInv
  <2>2. was' = [sample |-> was.sample, last |-> was.last, left |-> <<>>]
    BY <1>2, <2>1
  <2> QED
    BY <2>2
<1>6. phase' \in {"unreadable", "decode"}
    BY <1>1
<1>7. HeapInv'
  <2>1. HeapOK(<<>>) /\ Lives(<<>>, <<>>)
    BY DEF HeapOK, Lives, IsFunction
  <2> QED
    BY <1>2, <1>4, <1>5, <1>6, <2>1 DEF HeapInv, Composing
<1>8. StagesReadOneCycle'
    BY <1>6 DEF StagesReadOneCycle
<1>9. ModulesFit(modules) /\ Len(modules) \in Nat
  <2>1. ModulesFit(list)
    BY TemporariesAssumption
  <2>2. Layered(list) \in Seq(1 .. Len(list))
    BY <2>1, LayeredForm DEF ModulesFit
  <2> QED
    BY <2>1, <2>2, ReorderedFits
<1> HIDE DEF modules
<1>10. phase' = "decode" =>
         /\ temporary' = modules /\ work' = ApplyTemporaries(plan.result, modules)
         /\ ApplyTemporaries(plan.result, modules).ok
    BY <1>1 DEF modules
<1>11. phase' = "decode" =>
         /\ ModulesFit(temporary') /\ Holds(ReaderChain', Len(temporary'))
         /\ work' = ReaderChain'[Len(temporary')]
    BY <1>2, <1>9, <1>10, TemporariesForm DEF ReaderChain
<1>12. FitInv'
    BY <1>2, <1>3, <1>6, <1>11 DEF FitInv, InCycle, Composing
<1> QED
    BY <1>7, <1>8, <1>12 DEF DataInv

(***************************************************************************)
(* The whole: no step of the composition touches the data.                 *)
(***************************************************************************)

ComposeStep ==
    \/ ComposePreliminary \/ BindObservation \/ BindPre \/ BindSignal \/ BindPost
    \/ CompileEnvironment \/ CompileAnalysis

LEMMA ComposeStepForm ==
    ASSUME ComposeStep
    PROVE  /\ phase \in Composing
           /\ heap' = heap /\ sample' = sample /\ data' = data /\ previous' = previous
           /\ lastCycle' = lastCycle /\ cycle' = cycle /\ recorded' = recorded
           /\ failure' = failure /\ was' = was
           /\ phase' \in Composing \cup {"refused", "mismatch", "sample"}
<1>1. CASE ComposePreliminary
    BY <1>1 DEF ComposePreliminary, Unbuilt, cells, Composing
<1>2. CASE BindObservation
    BY <1>2 DEF BindObservation, Unbuilt, cells, Composing, Bound
<1>3. CASE BindPre
    BY <1>3 DEF BindPre, BindDirect, Unbuilt, cells, Composing, Bound
<1>4. CASE BindSignal
    BY <1>4 DEF BindSignal, Unbuilt, cells, Composing, Bound
<1>5. CASE BindPost
    BY <1>5 DEF BindPost, BindDirect, Unbuilt, cells, Composing, Bound
<1>6. CASE CompileEnvironment
    BY <1>6 DEF CompileEnvironment, Unbuilt, cells, Composing, Bound
<1>7. CASE CompileAnalysis
    BY <1>7 DEF CompileAnalysis, StartBinding, Unbuilt, cells, Composing, Bound
<1> QED
    BY <1>1, <1>2, <1>3, <1>4, <1>5, <1>6, <1>7 DEF ComposeStep

(* Nothing at some keys is nothing.                                        *)
LEMMA NothingRestricted ==
    ASSUME NEW h, HeapOK(h), design \in Designs
    PROVE  Lives(h, <<>>) /\ Deref(h, <<>>) = Restricted(<<>>, PreviousKeys)
<1>1. Lives(h, <<>>) /\ DOMAIN Deref(h, <<>>) = {} /\ IsFunction(Deref(h, <<>>))
    BY DEF Lives, IsFunction, Deref
<1>2. Picked(<<>>, PreviousKeys, Deref(h, <<>>))
    BY <1>1 DEF Picked
<1>3. Picked(<<>>, PreviousKeys, Restricted(<<>>, PreviousKeys))
    BY PreviousKeysForm, RestrictedForm
<1> QED
    BY <1>1, <1>2, <1>3, PickedIsUnique

LEMMA ComposeStepKeeps ==
    ASSUME PipelineInv, ComposeStep
    PROVE  DataInv'
<1>1. FrozenInv /\ HeapInv /\ FitInv /\ design \in Designs
    BY DEF PipelineInv, FrozenInv
<1>2. /\ phase \in Composing
      /\ heap' = heap /\ sample' = sample /\ data' = data /\ previous' = previous
      /\ lastCycle' = lastCycle /\ cycle' = cycle /\ recorded' = recorded
      /\ failure' = failure /\ was' = was
      /\ phase' \in Composing \cup {"refused", "mismatch", "sample"}
    BY ComposeStepForm
<1>3. /\ sample = <<>> /\ data = <<>> /\ lastCycle = <<>> /\ previous = <<>> /\ was.left = <<>>
      /\ HeapOK(heap)
    BY <1>1, <1>2 DEF HeapInv
<1>4. design' = design
    BY DEF ComposeStep, ComposePreliminary, BindObservation, BindPre, BindPost, BindDirect, BindSignal,
           CompileEnvironment, CompileAnalysis, Unbuilt
<1>5. PreviousKeys' = PreviousKeys
    BY <1>4 DEF PreviousKeys
<1>6. HeapInv'
    BY <1>1, <1>2, <1>3 DEF HeapInv, Composing
<1>7. Deref(heap, <<>>) = Restricted(<<>>, PreviousKeys)
    BY <1>1, <1>3, NothingRestricted
<1>8. StagesReadOneCycle'
    BY <1>2, <1>3, <1>5, <1>7 DEF StagesReadOneCycle, Composing
<1>9. cycle = 0
    BY <1>1, <1>2 DEF FitInv
<1>10. Conforms(plan'.through, <<>>)
    BY DEF Conforms
<1>11. FitInv'
    BY <1>1, <1>2, <1>3, <1>9, <1>10 DEF FitInv, InCycle, Composing
<1> QED
    BY <1>6, <1>8, <1>11 DEF DataInv

LEMMA StutterKeeps ==
    ASSUME PipelineInv, UNCHANGED vars
    PROVE  DataInv'
<1>1. /\ design' = design /\ phase' = phase /\ plan' = plan /\ before' = before /\ at' = at /\ work' = work
      /\ heap' = heap /\ sample' = sample /\ data' = data /\ previous' = previous
      /\ lastCycle' = lastCycle /\ cycle' = cycle /\ recorded' = recorded
      /\ temporary' = temporary /\ failure' = failure /\ was' = was
    BY DEF vars, cells
<1>2. /\ PreviousKeys' = PreviousKeys /\ PreChain' = PreChain /\ PostChain' = PostChain
      /\ ReaderChain' = ReaderChain
    BY <1>1 DEF PreviousKeys, PreChain, PostChain, ReaderChain
<1>3. HeapInv'
    BY <1>1 DEF PipelineInv, HeapInv
<1>4. StagesReadOneCycle'
    BY <1>1, <1>2 DEF PipelineInv, StagesReadOneCycle
<1>5. FitInv'
    BY <1>1, <1>2 DEF PipelineInv, FitInv
<1> QED
    BY <1>3, <1>4, <1>5 DEF DataInv

LEMMA PipelineInit == Init => PipelineInv
<1> SUFFICES ASSUME Init PROVE PipelineInv
    OBVIOUS
<1>1. FrozenInv /\ ContractState(before)
    BY FrozenInit, EmptyContracts DEF Init
<1>2. HeapInv
  <2>1. HeapOK(<<>>) /\ Lives(<<>>, <<>>)
    BY DEF HeapOK, Lives, IsFunction
  <2> QED
    BY <2>1 DEF Init, HeapInv, Composing
<1>3. StagesReadOneCycle
    BY DEF Init, StagesReadOneCycle
<1>4. FitInv
    BY CyclesAssumption DEF Init, FitInv, InCycle, Composing
<1> QED
    BY <1>1, <1>2, <1>3, <1>4 DEF PipelineInv

LEMMA PipelineNext ==
    ASSUME PipelineInv, [Next]_vars
    PROVE  PipelineInv'
<1>1. CASE Next
  <2>1. FrozenInv /\ ContractState(before)
    BY DEF PipelineInv
  <2>2. FrozenInv'
    BY <1>1, <2>1, FrozenNext
  <2>3. ContractState(before')
    BY <1>1, <2>1, RoundContracts
  <2>4. DataInv'
    <3>1. CASE ComposeStep
      BY <3>1, ComposeStepKeeps
    <3>2. CASE RunStep
      BY <3>2, NextSampleKeeps, RunEnvironmentKeeps, RunProjectionKeeps, RunPreKeeps, RunSignalKeeps,
         RunPostKeeps, KeepPreviousKeeps, RunAnalysisKeeps, AppendCycleKeeps, OpenResultKeeps,
         DecodeCycleKeeps, RunTemporaryKeeps, ProveProjectionKeeps DEF RunStep
    <3>3. CASE Finished
      BY <3>3, StutterKeeps DEF Finished
    <3> QED
      BY <1>1, <3>1, <3>2, <3>3 DEF Next, ComposeStep, RunStep
  <2> QED
    BY <2>2, <2>3, <2>4 DEF PipelineInv, DataInv
<1>2. CASE UNCHANGED vars
  <2>1. FrozenInv' /\ ContractState(before')
    BY <1>2, FrozenNext DEF PipelineInv, vars
  <2>2. DataInv'
    BY <1>2, StutterKeeps
  <2> QED
    BY <2>1, <2>2 DEF PipelineInv, DataInv
<1> QED
    BY <1>1, <1>2

(* Whatever the resources, the samples and the optional outputs the        *)
(* Modules leave out: the plan is sound, the cells of the Data Dicts live, *)
(* and the data fits the contracts of its stage.                           *)
THEOREM PipelineInductive == Spec => []PipelineInv
BY PipelineInit, PipelineNext, PTL DEF Spec

(* Every phase is one the code has, and no more samples are run than the   *)
(* Sampler emits.                                                          *)
THEOREM PipelineTypes == Spec => []TypeOK
<1>1. PipelineInv => TypeOK
    BY DEF PipelineInv, FrozenInv, FitInv, TypeOK, Running
<1> QED
    BY <1>1, PipelineInductive, PTL

(* No stage of a cycle sees through `sample` or `last` what another stage  *)
(* writes, although they share their objects                               *)
(* (set_data_segments_copy_on_write).                                      *)
THEOREM OneCycleIsRead == Spec => []StagesReadOneCycle
<1>1. PipelineInv => StagesReadOneCycle
    BY DEF PipelineInv
<1> QED
    BY <1>1, PipelineInductive, PTL

(* What compose_backtest_plans accepts, the run serves: no Graph or Module *)
(* is starved or handed a value that does not fit, no required output is   *)
(* missing, no write changes a structure.                                  *)
THEOREM NothingStarves == Spec => []ComposedNeverStarves
<1>1. PipelineInv => ComposedNeverStarves
    BY DEF PipelineInv, FitInv, ComposedNeverStarves
<1> QED
    BY <1>1, PipelineInductive, PTL

(* What is recorded fits the contracts the Result declares to its readers. *)
THEOREM RecordedIsDeclared == Spec => []ResultIsAsDeclared
<1>1. PipelineInv => ResultIsAsDeclared
    BY DEF PipelineInv, FitInv, ResultIsAsDeclared
<1> QED
    BY <1>1, PipelineInductive, PTL
=============================================================================
