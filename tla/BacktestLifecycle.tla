-------------------------- MODULE BacktestLifecycle --------------------------
(***************************************************************************)
(* What the Backtest Job service promises its clients about each Job,      *)
(* whatever threads, processes, crashes and restarts lie behind it: a Job  *)
(* goes from queued to running to exactly one final state, its Result is   *)
(* indexed only while the Job runs and nothing writes any more, and no     *)
(* final state is reported while something may still write.                *)
(***************************************************************************)
CONSTANT Jobs

VARIABLES
    status,     \* the state a client reads
    writing,    \* Jobs with a Runtime process that may still write
    indexed     \* Jobs whose Result is in the catalog

vars == <<status, writing, indexed>>

Init ==
    /\ status = [j \in Jobs |-> "absent"]
    /\ writing = {}
    /\ indexed = {}

Submit(j) ==
    /\ status[j] = "absent"
    /\ status' = [status EXCEPT ![j] = "queued"]
    /\ UNCHANGED <<writing, indexed>>

Start(j) ==
    /\ status[j] = "queued"
    /\ status' = [status EXCEPT ![j] = "running"]
    /\ UNCHANGED <<writing, indexed>>

StartWriter(j) ==
    /\ status[j] = "running" /\ j \notin writing /\ j \notin indexed
    /\ writing' = writing \cup {j}
    /\ UNCHANGED <<status, indexed>>

StopWriter(j) ==
    /\ j \in writing
    /\ writing' = writing \ {j}
    /\ UNCHANGED <<status, indexed>>

Index(j) ==
    /\ status[j] = "running" /\ j \notin writing
    /\ indexed' = indexed \cup {j}
    /\ UNCHANGED <<status, writing>>

Complete(j) ==
    /\ status[j] = "running" /\ j \notin writing /\ j \in indexed
    /\ status' = [status EXCEPT ![j] = "completed"]
    /\ UNCHANGED <<writing, indexed>>

(* One UPDATE may fail several Jobs.                                       *)
Fail(failing) ==
    /\ \A j \in failing : status[j] \in {"queued", "running"} /\ j \notin writing
    /\ status' = [j \in Jobs |-> IF j \in failing THEN "failed" ELSE status[j]]
    /\ UNCHANGED <<writing, indexed>>

Next ==
    \/ \E j \in Jobs :
          \/ Submit(j) \/ Start(j) \/ StartWriter(j) \/ StopWriter(j)
          \/ Index(j) \/ Complete(j)
    \/ \E failing \in SUBSET Jobs : Fail(failing)

Spec == Init /\ [][Next]_vars
=============================================================================
