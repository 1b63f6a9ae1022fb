---------------------------- MODULE TaskLifecycle ----------------------------
(***************************************************************************)
(* What a user of TaskManager (resync/core/task_manager.py) sees of a task:*)
(* the status get_task() reports and how often it has been retried.        *)
(*                                                                         *)
(* A task is submitted once; it is run, and run again after a failure, at  *)
(* most MaxRetries[t] times; COMPLETED, FAILED and CANCELLED are final.    *)
(* The exception is a function that answers the cancellation of its task   *)
(* with a result or an error of its own: its answer replaces CANCELLED.    *)
(***************************************************************************)
EXTENDS Naturals

CONSTANTS
  Tasks,
  MaxRetries,  (* MaxRetries[t]: Task.max_retries                           *)
  Stubborn     (* tasks whose function may not let itself be cancelled      *)

VARIABLES status, retry_count

lifecycleVars == <<status, retry_count>>

Status == {"unknown", "PENDING", "RUNNING", "COMPLETED", "FAILED", "CANCELLED"}

Final == {"COMPLETED", "FAILED", "CANCELLED"}

LifecycleInit ==
  /\ status = [t \in Tasks |-> "unknown"]
  /\ retry_count = [t \in Tasks |-> 0]

Become(t, from, to) ==
  /\ status[t] \in from
  /\ status' = [status EXCEPT ![t] = to]

Submitted(t) == Become(t, {"unknown"}, "PENDING") /\ UNCHANGED retry_count

Started(t) == Become(t, {"PENDING"}, "RUNNING") /\ UNCHANGED retry_count

\* The states in which the function of t may still answer
Answering(t) == {"RUNNING"} \cup (IF t \in Stubborn THEN {"CANCELLED"} ELSE {})

Completed(t) == Become(t, Answering(t), "COMPLETED") /\ UNCHANGED retry_count

Retried(t) ==
  /\ Become(t, Answering(t), "PENDING")
  /\ retry_count[t] < MaxRetries[t]
  /\ retry_count' = [retry_count EXCEPT ![t] = @ + 1]

Failed(t) ==
  /\ Become(t, Answering(t), "FAILED")
  /\ retry_count[t] = MaxRetries[t]
  /\ UNCHANGED retry_count

Cancelled(t) ==
  Become(t, {"PENDING", "RUNNING"}, "CANCELLED") /\ UNCHANGED retry_count

LifecycleNext ==
  \E t \in Tasks :
    \/ Submitted(t) \/ Started(t) \/ Completed(t)
    \/ Retried(t) \/ Failed(t) \/ Cancelled(t)

LifecycleSpec == LifecycleInit /\ [][LifecycleNext]_lifecycleVars
=============================================================================
