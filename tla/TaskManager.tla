----------------------------- MODULE TaskManager -----------------------------
(***************************************************************************)
(* TaskManager (resync/core/task_manager.py): submitted tasks wait in a    *)
(* priority queue, one processor coroutine takes them out and runs each in *)
(* an asyncio task of its own (task_wrapper), failed tasks are queued      *)
(* again after a sleep, and any coroutine may cancel a task or stop the    *)
(* manager meanwhile.                                                      *)
(*                                                                         *)
(* The processor awaits the wrapper inside its loop, so at most one        *)
(* wrapper exists, whatever max_workers is: the semaphore is never         *)
(* contended and is left out.                                              *)
(***************************************************************************)
EXTENDS Naturals, FiniteSets

CONSTANTS
  Tasks,       (* the tasks that will be submitted                          *)
  Priority,    (* Priority[t]: TaskPriority, 1..4                           *)
  MaxRetries,  (* MaxRetries[t]: Task.max_retries                           *)
  Stubborn,    (* tasks whose function may not let itself be cancelled: it  *)
               (* answers CancelledError with a result or another exception *)
               (* (or wait_for, given a timeout, finds a result in time)    *)
  NoTask

ASSUME TaskAssumption ==
  /\ Priority \in [Tasks -> 1..4]
  /\ MaxRetries \in [Tasks -> Nat]
  /\ Stubborn \subseteq Tasks
  /\ NoTask \notin Tasks

VARIABLES
  status,       (* status[t]: Task.status, "unknown" before submit()        *)
  retry_count,  (* retry_count[t]: Task.retry_count                         *)
  queue,        (* queue[t]: entries of t in task_queue                     *)
  asleep,       (* asleep[t]: _schedule_retry(t) tasks that are sleeping    *)
  processor,    (* where _processor_task is                                 *)
  current,      (* the task in running_tasks, or NoTask                     *)
  wrapper,      (* the asyncio task of current                              *)
  cancelling,   (* wrapper.cancel() has been called                         *)
  shutdown      (* _shutdown                                                *)

vars == <<status, retry_count, queue, asleep, processor, current, wrapper,
          cancelling, shutdown>>

queueVars == <<retry_count, queue, asleep>>
runVars   == <<processor, current, wrapper, cancelling>>

\* What a user sees of a task is what get_task() returns
Lifecycle == INSTANCE TaskLifecycle WITH
  Tasks <- Tasks, MaxRetries <- MaxRetries, Stubborn <- Stubborn,
  status <- status, retry_count <- retry_count

Final == {"COMPLETED", "FAILED", "CANCELLED"}

(***************************************************************************)
(* processor: not started; started and not yet in its loop; waiting in     *)
(* task_queue.get(); awaiting the wrapper of current; ended.               *)
(* wrapper: none; created, its body not yet entered; in the function;      *)
(* finished; finished without having run its body.                         *)
(***************************************************************************)
TypeOK ==
  /\ status \in [Tasks -> Lifecycle!Status]
  /\ retry_count \in [Tasks -> Nat]
  /\ \A t \in Tasks : retry_count[t] <= MaxRetries[t]
  /\ queue \in [Tasks -> 0..1]
  /\ asleep \in [Tasks -> 0..1]
  /\ processor \in {"none", "starting", "waiting", "executing", "ended"}
  /\ current \in Tasks \cup {NoTask}
  /\ wrapper \in {"none", "created", "running", "done", "aborted"}
  /\ cancelling \in BOOLEAN
  /\ shutdown \in BOOLEAN

Init ==
  /\ status = [t \in Tasks |-> "unknown"]
  /\ retry_count = [t \in Tasks |-> 0]
  /\ queue = [t \in Tasks |-> 0]
  /\ asleep = [t \in Tasks |-> 0]
  /\ processor = "none"
  /\ current = NoTask
  /\ wrapper = "none"
  /\ cancelling = FALSE
  /\ shutdown = FALSE

-----------------------------------------------------------------------------
(* The interface *)

\* start(): a processor is created unless there is one that has not ended
StartManager ==
  /\ processor \in {"none", "ended"}
  /\ processor' = "starting"
  /\ UNCHANGED <<status, queueVars, current, wrapper, cancelling, shutdown>>

\* wrapper.cancel(): of no effect on an asyncio task that is done
RequestCancel ==
  cancelling' = (cancelling \/ wrapper \in {"created", "running"})

\* stop(), up to its await of the processor
StopManager ==
  /\ shutdown' = TRUE
  /\ RequestCancel
  /\ UNCHANGED <<status, queueVars, processor, current, wrapper>>

\* submit(): whether or not the manager is running
Submit(t) ==
  /\ status[t] = "unknown"
  /\ status' = [status EXCEPT ![t] = "PENDING"]
  /\ queue' = [queue EXCEPT ![t] = @ + 1]
  /\ UNCHANGED <<retry_count, asleep, runVars, shutdown>>

\* Faulty variant: no look at the status
CancelUnchecked(t) ==
  /\ status[t] # "unknown"
  /\ status' = [status EXCEPT ![t] = "CANCELLED"]
  /\ IF current = t THEN RequestCancel ELSE UNCHANGED cancelling
  /\ UNCHANGED <<queueVars, processor, current, wrapper, shutdown>>

\* cancel_task() that returns True
Cancel(t) ==
  /\ status[t] \in {"PENDING", "RUNNING"}
  /\ status' = [status EXCEPT ![t] = "CANCELLED"]
  /\ IF current = t THEN RequestCancel ELSE UNCHANGED cancelling
  /\ UNCHANGED <<queueVars, processor, current, wrapper, shutdown>>

-----------------------------------------------------------------------------
(* The processor: _process_tasks and _execute_task *)

\* "while not self._shutdown", evaluated at the top of the loop
LoopTop == IF shutdown THEN "ended" ELSE "waiting"

EnterLoop ==
  /\ processor = "starting"
  /\ processor' = LoopTop
  /\ UNCHANGED <<status, queueVars, current, wrapper, cancelling, shutdown>>

\* get() times out, and the loop condition is looked at again
PollTimeout ==
  /\ processor = "waiting"
  /\ shutdown
  /\ processor' = "ended"
  /\ UNCHANGED <<status, queueVars, current, wrapper, cancelling, shutdown>>

\* What get() may return: the entries of highest priority (ids break ties)
Heads ==
  {t \in Tasks : /\ queue[t] > 0
                 /\ \A u \in Tasks : queue[u] > 0 => Priority[u] <= Priority[t]}

\* get() returns t, and t is run if it is still PENDING
Dispatch(t) ==
  /\ processor = "waiting"
  /\ t \in Heads
  /\ queue' = [queue EXCEPT ![t] = @ - 1]
  /\ status[t] = "PENDING"
  /\ status' = [status EXCEPT ![t] = "RUNNING"]
  /\ processor' = "executing"
  /\ current' = t
  /\ wrapper' = "created"
  /\ cancelling' = FALSE
  /\ UNCHANGED <<retry_count, asleep, shutdown>>

\* get() returns t, which is CANCELLED or no longer PENDING
Discard(t) ==
  /\ processor = "waiting"
  /\ t \in Heads
  /\ queue' = [queue EXCEPT ![t] = @ - 1]
  /\ status[t] # "PENDING"
  /\ processor' = LoopTop
  /\ UNCHANGED <<status, retry_count, asleep, current, wrapper, cancelling, shutdown>>

\* Faulty variant: the worker's slot is not given back after a failure, and the
\* loop waits for one for ever
ResumeLeakingSlot ==
  /\ processor = "executing"
  /\ wrapper = "done"
  /\ status[current] # "FAILED"
  /\ processor' = LoopTop
  /\ current' = NoTask
  /\ wrapper' = "none"
  /\ cancelling' = FALSE
  /\ UNCHANGED <<status, queueVars, shutdown>>

\* "await asyncio_task" returns; running_tasks.pop
Resume ==
  /\ processor = "executing"
  /\ wrapper = "done"
  /\ processor' = LoopTop
  /\ current' = NoTask
  /\ wrapper' = "none"
  /\ cancelling' = FALSE
  /\ UNCHANGED <<status, queueVars, shutdown>>

\* "await asyncio_task" raises the CancelledError of a wrapper that was
\* cancelled before it entered its try: it is no Exception, and it leaves
\* _execute_task and _process_tasks
Die ==
  /\ processor = "executing"
  /\ wrapper = "aborted"
  /\ processor' = "ended"
  /\ current' = NoTask
  /\ wrapper' = "none"
  /\ cancelling' = FALSE
  /\ UNCHANGED <<status, queueVars, shutdown>>

-----------------------------------------------------------------------------
(* task_wrapper *)

EnterWrapper ==
  /\ wrapper = "created"
  /\ wrapper' = IF cancelling THEN "aborted" ELSE "running"
  /\ UNCHANGED <<status, queueVars, processor, current, cancelling, shutdown>>

\* Whether the function of current may end by itself
MayAnswer == cancelling => current \in Stubborn

\* _handle_task_success
Succeed ==
  /\ wrapper = "running"
  /\ MayAnswer
  /\ wrapper' = "done"
  /\ status' = [status EXCEPT ![current] = "COMPLETED"]
  /\ UNCHANGED <<queueVars, processor, current, cancelling, shutdown>>

\* Faulty variant: the cancelled task's status is left to whoever cancelled it
UnwindSilently ==
  /\ wrapper = "running"
  /\ wrapper' = "done"
  /\ UNCHANGED <<status, queueVars, processor, current, cancelling, shutdown>>

\* _handle_task_cancellation: CancelledError comes out of the function, because
\* of cancel() or because something it awaited was cancelled
Unwind ==
  /\ wrapper = "running"
  /\ wrapper' = "done"
  /\ status' = [status EXCEPT ![current] = "CANCELLED"]
  /\ UNCHANGED <<queueVars, processor, current, cancelling, shutdown>>

\* Faulty variant: <= for <
FailRetryOnceMore ==
  /\ wrapper = "running"
  /\ MayAnswer
  /\ wrapper' = "done"
  /\ IF retry_count[current] <= MaxRetries[current]
     THEN /\ retry_count' = [retry_count EXCEPT ![current] = @ + 1]
          /\ status' = [status EXCEPT ![current] = "PENDING"]
          /\ asleep' = [asleep EXCEPT ![current] = @ + 1]
     ELSE /\ status' = [status EXCEPT ![current] = "FAILED"]
          /\ UNCHANGED <<retry_count, asleep>>
  /\ UNCHANGED <<queue, processor, current, cancelling, shutdown>>

\* _handle_task_failure: an Exception, a timeout included
Fail ==
  /\ wrapper = "running"
  /\ MayAnswer
  /\ wrapper' = "done"
  /\ IF retry_count[current] < MaxRetries[current]
     THEN /\ retry_count' = [retry_count EXCEPT ![current] = @ + 1]
          /\ status' = [status EXCEPT ![current] = "PENDING"]
          /\ asleep' = [asleep EXCEPT ![current] = @ + 1]
     ELSE /\ status' = [status EXCEPT ![current] = "FAILED"]
          /\ UNCHANGED <<retry_count, asleep>>
  /\ UNCHANGED <<queue, processor, current, cancelling, shutdown>>

\* Faulty variant: the retry is dropped while another task runs
WakeIfIdle(t) ==
  /\ asleep[t] > 0
  /\ asleep' = [asleep EXCEPT ![t] = @ - 1]
  /\ queue' = IF status[t] = "PENDING" /\ current = NoTask
              THEN [queue EXCEPT ![t] = @ + 1]
              ELSE queue
  /\ UNCHANGED <<status, retry_count, runVars, shutdown>>

\* _schedule_retry(t), after its sleep
Wake(t) ==
  /\ asleep[t] > 0
  /\ asleep' = [asleep EXCEPT ![t] = @ - 1]
  /\ queue' = IF status[t] = "PENDING" THEN [queue EXCEPT ![t] = @ + 1] ELSE queue
  /\ UNCHANGED <<status, retry_count, runVars, shutdown>>

-----------------------------------------------------------------------------
Interface ==
  \/ StartManager
  \/ StopManager
  \/ \E t \in Tasks : Submit(t) \/ Cancel(t)

Processor ==
  \/ EnterLoop \/ PollTimeout \/ Resume \/ Die
  \/ \E t \in Tasks : Dispatch(t) \/ Discard(t)

Wrapper == EnterWrapper \/ Succeed \/ Unwind \/ Fail

Next == Interface \/ Processor \/ Wrapper \/ \E t \in Tasks : Wake(t)

Spec == Init /\ [][Next]_vars

(***************************************************************************)
(* Fairness: the event loop runs whatever is ready, sleeps end, and the    *)
(* functions of tasks end.  Nobody has to submit, cancel, start or stop.   *)
(***************************************************************************)
LiveSpec ==
  /\ Spec
  /\ WF_vars(Processor)
  /\ WF_vars(Wrapper)
  /\ \A t \in Tasks : WF_vars(Wake(t))

-----------------------------------------------------------------------------
(* Properties *)

\* A PENDING task is in exactly one place from which it will be run: the queue,
\* or a retry's sleep.  Neither cancellations nor retries lose or double it.
PendingIsSomewhere ==
  \A t \in Tasks :
    /\ queue[t] + asleep[t] <= 1
    /\ status[t] = "PENDING" => queue[t] + asleep[t] = 1

\* A task reported RUNNING is the one the processor runs, except that stop()
\* leaves the status behind when it cancels a wrapper that has not begun.
RunningIsReal ==
  \A t \in Tasks :
    status[t] = "RUNNING" =>
      \/ current = t /\ wrapper \in {"created", "running"}
      \/ shutdown

\* The manager implements the lifecycle its users see.
ImplementsLifecycle == Lifecycle!LifecycleSpec

\* As long as the processor lives and nobody has stopped the manager, a task
\* that is PENDING comes to an end, through all its retries.
TasksEnd ==
  \A t \in Tasks :
    (status[t] = "PENDING")
      ~> (status[t] \in Final \/ shutdown \/ processor \in {"none", "ended"})

\* The docstring of cancel_task, "Cancel a task if it's pending or running":
\* the task, and not the processor, which only stop() ends.
OnlyStopEndsProcessor ==
  [][processor # "ended" /\ processor' = "ended" => shutdown]_vars
=============================================================================
