-------------------------- MODULE TaskManagerProofs --------------------------
(***************************************************************************)
(* TaskManager for any set of tasks, priorities and retry limits: the      *)
(* queue neither loses nor doubles a PENDING task, and the manager         *)
(* implements TaskLifecycle.                                               *)
(*                                                                         *)
(* Both rest on knowing, for every task, where it is: in the queue, in a   *)
(* retry's sleep, or in the wrapper, and in one of them only.  Cancel()    *)
(* changes a status without moving the task, so the invariant says for     *)
(* each place which statuses it may hold; and it says that the CANCELLED   *)
(* task of a live wrapper has been asked to stop, as only a stubborn one   *)
(* can then come back.                                                     *)
(***************************************************************************)
EXTENDS TaskManager, TLAPS

\* t is in the wrapper, and its function has not ended
Active(t) == current = t /\ wrapper \in {"created", "running"}

\* There is a wrapper exactly while the processor awaits one.
WrapperOfProcessor ==
  /\ processor = "executing" <=> current # NoTask
  /\ wrapper = "none" <=> current = NoTask

\* A task waits in one place at most, and not while it is active.
OnePlace ==
  \A t \in Tasks :
    /\ queue[t] + asleep[t] <= 1
    /\ Active(t) => queue[t] + asleep[t] = 0

\* The statuses of the tasks in each place.
StatusOfPlace ==
  \A t \in Tasks :
    /\ status[t] = "PENDING" => queue[t] + asleep[t] = 1
    /\ queue[t] + asleep[t] = 1 => status[t] \in {"PENDING", "CANCELLED"}
    /\ Active(t) => status[t] \in {"RUNNING", "CANCELLED"}
    /\ status[t] = "RUNNING" => Active(t) \/ shutdown

\* The wrapper of a CANCELLED task has been asked to stop, and none is asked
\* without cause: so a RUNNING task whose wrapper is cancelled before it enters
\* its function is one that stop() has cancelled.
CancelledIsAsked ==
  \A t \in Tasks :
    Active(t) => /\ status[t] = "CANCELLED" => cancelling
                 /\ cancelling => status[t] = "CANCELLED" \/ shutdown

IInv ==
  /\ TypeOK
  /\ WrapperOfProcessor
  /\ OnePlace
  /\ StatusOfPlace
  /\ CancelledIsAsked

-----------------------------------------------------------------------------
LEMMA InitIInv == Init => IInv
<1> SUFFICES ASSUME Init PROVE IInv
  OBVIOUS
<1> USE DEF Init
<1>1. \A t \in Tasks : MaxRetries[t] \in Nat
  BY TaskAssumption
<1>2. TypeOK
  <2>1. cancelling \in BOOLEAN /\ shutdown \in BOOLEAN
    BY Zenon
  <2>2. \A t \in Tasks : retry_count[t] <= MaxRetries[t]
    BY <1>1
  <2>3. QED
    BY <2>1, <2>2 DEF TypeOK, Lifecycle!Status
<1>3. WrapperOfProcessor /\ OnePlace /\ StatusOfPlace /\ CancelledIsAsked
  BY TaskAssumption
  DEF WrapperOfProcessor, OnePlace, StatusOfPlace, CancelledIsAsked, Active
<1>4. QED
  BY <1>2, <1>3 DEF IInv

-----------------------------------------------------------------------------
(* Steps that move no task: they keep queue and asleep, and every Active   *)
(* task stays where it is.                                                 *)

\* What such a step may do to the statuses is left to the parts.
LEMMA InterfaceIInv ==
  ASSUME IInv, StartManager \/ StopManager \/ \E t \in Tasks : Cancel(t)
  PROVE  IInv'
<1> USE DEF IInv, queueVars, runVars
<1>1. CASE StartManager
  <2>1. TypeOK'
    BY <1>1 DEF StartManager, TypeOK
  <2>2. WrapperOfProcessor' /\ OnePlace' /\ StatusOfPlace' /\ CancelledIsAsked'
    BY <1>1 DEF StartManager, WrapperOfProcessor, OnePlace, StatusOfPlace,
                CancelledIsAsked, Active
  <2>3. QED
    BY <2>1, <2>2
<1>2. CASE StopManager
  <2>1. TypeOK'
    BY <1>2 DEF StopManager, RequestCancel, TypeOK
  <2>2. WrapperOfProcessor' /\ OnePlace' /\ StatusOfPlace' /\ CancelledIsAsked'
    BY <1>2 DEF StopManager, RequestCancel, WrapperOfProcessor, OnePlace,
                StatusOfPlace, CancelledIsAsked, Active
  <2>3. QED
    BY <2>1, <2>2
<1>3. ASSUME NEW t \in Tasks, Cancel(t) PROVE IInv'
  <2>1. TypeOK'
    BY <1>3 DEF Cancel, RequestCancel, TypeOK, Lifecycle!Status
  <2>2. WrapperOfProcessor' /\ OnePlace'
    BY <1>3 DEF Cancel, WrapperOfProcessor, OnePlace, Active
  <2>3. StatusOfPlace'
    BY <1>3 DEF Cancel, TypeOK, StatusOfPlace, Active
  <2>4. CancelledIsAsked'
    BY <1>3 DEF Cancel, RequestCancel, TypeOK, CancelledIsAsked, Active
  <2>5. QED
    BY <2>1, <2>2, <2>3, <2>4
<1>4. QED
  BY <1>1, <1>2, <1>3

-----------------------------------------------------------------------------
(* Steps that move one task. *)

\* submit() puts an unknown task, which was nowhere, into the queue; a retry's
\* sleep ends in the queue, or nowhere if the task was cancelled meanwhile.
LEMMA QueueingIInv ==
  ASSUME IInv, NEW t \in Tasks, Submit(t) \/ Wake(t)
  PROVE  IInv'
<1> USE DEF IInv, runVars
<1>1. queue[t] \in 0..1 /\ asleep[t] \in 0..1
  BY DEF TypeOK
<1>2. CASE Submit(t)
  <2>1. queue[t] = 0 /\ asleep[t] = 0 /\ ~ Active(t)
    BY <1>1, <1>2 DEF Submit, OnePlace, StatusOfPlace
  <2>2. TypeOK'
    BY <1>2, <2>1 DEF Submit, TypeOK, Lifecycle!Status
  <2>3. WrapperOfProcessor' /\ OnePlace'
    BY <1>2, <2>1 DEF Submit, TypeOK, WrapperOfProcessor, OnePlace, Active
  <2>4. StatusOfPlace'
    BY <1>2, <2>1 DEF Submit, TypeOK, StatusOfPlace, Active
  <2>5. CancelledIsAsked'
    BY <1>2, <2>1 DEF Submit, TypeOK, CancelledIsAsked, Active
  <2>6. QED
    BY <2>2, <2>3, <2>4, <2>5
<1>3. CASE Wake(t)
  <2>1. queue[t] = 0 /\ asleep[t] = 1 /\ ~ Active(t)
    BY <1>1, <1>3 DEF Wake, OnePlace
  <2>2. TypeOK'
    BY <1>3, <2>1 DEF Wake, TypeOK
  <2>3. WrapperOfProcessor' /\ OnePlace'
    BY <1>3, <2>1 DEF Wake, TypeOK, WrapperOfProcessor, OnePlace, Active
  <2>4. StatusOfPlace'
    BY <1>3, <2>1 DEF Wake, TypeOK, StatusOfPlace, Active
  <2>5. CancelledIsAsked'
    BY <1>3, <2>1 DEF Wake, TypeOK, CancelledIsAsked, Active
  <2>6. QED
    BY <2>2, <2>3, <2>4, <2>5
<1>4. QED
  BY <1>2, <1>3

\* The processor takes a task out of the queue, into the wrapper or nowhere.
LEMMA TakingIInv ==
  ASSUME IInv, NEW t \in Tasks, Dispatch(t) \/ Discard(t)
  PROVE  IInv'
<1> USE DEF IInv
<1>1. /\ queue[t] = 1 /\ asleep[t] = 0
      /\ current = NoTask
      /\ processor = "waiting"
  BY DEF Dispatch, Discard, Heads, TypeOK, OnePlace, WrapperOfProcessor
<1>2. \A u \in Tasks : ~ Active(u)
  BY <1>1, TaskAssumption DEF Active
<1>3. CASE Dispatch(t)
  <2>1. TypeOK'
    <3>1. cancelling' \in BOOLEAN
      BY <1>3, Zenon DEF Dispatch
    <3>2. queue' \in [Tasks -> 0..1]
      BY <1>1, <1>3 DEF Dispatch, TypeOK
    <3>3. QED
      BY <1>3, <3>1, <3>2 DEF Dispatch, TypeOK, Lifecycle!Status
  <2>2. WrapperOfProcessor' /\ OnePlace'
    BY <1>1, <1>3, TaskAssumption
    DEF Dispatch, TypeOK, WrapperOfProcessor, OnePlace, Active
  <2>3. StatusOfPlace'
    BY <1>1, <1>2, <1>3 DEF Dispatch, TypeOK, OnePlace, StatusOfPlace, Active
  <2>4. CancelledIsAsked'
    BY <1>1, <1>3 DEF Dispatch, TypeOK, CancelledIsAsked, Active
  <2>5. QED
    BY <2>1, <2>2, <2>3, <2>4
<1>4. CASE Discard(t)
  <2>1. TypeOK'
    BY <1>1, <1>4 DEF Discard, LoopTop, TypeOK
  <2>2. WrapperOfProcessor' /\ OnePlace'
    BY <1>1, <1>2, <1>4 DEF Discard, LoopTop, TypeOK, WrapperOfProcessor, OnePlace, Active
  <2>3. StatusOfPlace'
    BY <1>1, <1>2, <1>4 DEF Discard, TypeOK, StatusOfPlace, Active
  <2>4. CancelledIsAsked'
    BY <1>4 DEF Discard, CancelledIsAsked, Active
  <2>5. QED
    BY <2>1, <2>2, <2>3, <2>4
<1>5. QED
  BY <1>3, <1>4

-----------------------------------------------------------------------------
(* The rest of the processor. *)

\* Awaiting a wrapper that has ended: the task was active no more.
LEMMA ProcessorIInv ==
  ASSUME IInv, EnterLoop \/ PollTimeout \/ Resume \/ Die
  PROVE  IInv'
<1> USE DEF IInv, queueVars, LoopTop
<1>1. CASE EnterLoop \/ PollTimeout
  <2>1. TypeOK'
    BY <1>1 DEF EnterLoop, PollTimeout, TypeOK
  <2>2. WrapperOfProcessor'
    BY <1>1 DEF EnterLoop, PollTimeout, WrapperOfProcessor
  <2>3. OnePlace' /\ StatusOfPlace' /\ CancelledIsAsked'
    BY <1>1 DEF EnterLoop, PollTimeout, OnePlace, StatusOfPlace, CancelledIsAsked, Active
  <2>4. QED
    BY <2>1, <2>2, <2>3
<1>2. CASE Resume \/ Die
  <2>1. \A t \in Tasks : ~ Active(t) /\ ~ Active(t)'
    BY <1>2 DEF Resume, Die, Active
  <2>2. TypeOK'
    <3>1. cancelling' \in BOOLEAN
      BY <1>2, Zenon DEF Resume, Die
    <3>2. QED
      BY <1>2, <3>1 DEF Resume, Die, TypeOK
  <2>3. WrapperOfProcessor'
    BY <1>2 DEF Resume, Die, WrapperOfProcessor
  <2>4. OnePlace' /\ StatusOfPlace' /\ CancelledIsAsked'
    BY <1>2, <2>1 DEF Resume, Die, OnePlace, StatusOfPlace, CancelledIsAsked
  <2>5. QED
    BY <2>2, <2>3, <2>4
<1>3. QED
  BY <1>1, <1>2

-----------------------------------------------------------------------------
(* The wrapper. *)

\* Inside the function the current task is active, and in no other place.
LEMMA CurrentIsActive ==
  ASSUME IInv, wrapper \in {"created", "running"}
  PROVE  /\ current \in Tasks
         /\ processor = "executing"
         /\ Active(current)
         /\ queue[current] = 0 /\ asleep[current] = 0
         /\ status[current] \in {"RUNNING", "CANCELLED"}
<1> USE DEF IInv
<1>1. current \in Tasks
  BY DEF TypeOK, WrapperOfProcessor
<1>2. Active(current)
  BY DEF Active
<1>3. queue[current] \in 0..1 /\ asleep[current] \in 0..1
  BY <1>1 DEF TypeOK
<1>4. QED
  BY <1>1, <1>2, <1>3 DEF WrapperOfProcessor, OnePlace, StatusOfPlace

\* The four ends of a wrapper's step.
LEMMA WrapperIInv ==
  ASSUME IInv, Wrapper
  PROVE  IInv'
<1> USE DEF IInv, queueVars
<1>1. /\ current \in Tasks
      /\ processor = "executing"
      /\ Active(current)
      /\ queue[current] = 0 /\ asleep[current] = 0
      /\ status[current] \in {"RUNNING", "CANCELLED"}
  BY CurrentIsActive DEF Wrapper, EnterWrapper, Succeed, Unwind, Fail
<1>2. CASE EnterWrapper
  <2>1. TypeOK'
    BY <1>2 DEF EnterWrapper, TypeOK
  <2>2. WrapperOfProcessor' /\ OnePlace'
    BY <1>2 DEF EnterWrapper, WrapperOfProcessor, OnePlace, Active
  <2>3. StatusOfPlace'
    BY <1>2 DEF EnterWrapper, StatusOfPlace, CancelledIsAsked, Active
  <2>4. CancelledIsAsked'
    BY <1>2 DEF EnterWrapper, CancelledIsAsked, Active
  <2>5. QED
    BY <2>1, <2>2, <2>3, <2>4
<1>3. CASE Succeed \/ Unwind
  <2>1. TypeOK'
    BY <1>1, <1>3 DEF Succeed, Unwind, TypeOK, Lifecycle!Status
  <2>2. \A t \in Tasks : ~ Active(t)'
    BY <1>3 DEF Succeed, Unwind, Active
  <2>3. WrapperOfProcessor' /\ OnePlace'
    BY <1>1, <1>3, <2>2 DEF Succeed, Unwind, WrapperOfProcessor, OnePlace
  <2>4. StatusOfPlace'
    BY <1>1, <1>3, <2>2 DEF Succeed, Unwind, TypeOK, StatusOfPlace, Active
  <2>5. CancelledIsAsked'
    BY <2>2 DEF CancelledIsAsked
  <2>6. QED
    BY <2>1, <2>3, <2>4, <2>5
<1>4. CASE Fail
  <2>1. TypeOK'
    <3>1. retry_count[current] \in Nat /\ MaxRetries[current] \in Nat
      BY <1>1, TaskAssumption DEF TypeOK
    <3>2. /\ retry_count' \in [Tasks -> Nat]
          /\ \A t \in Tasks : retry_count'[t] <= MaxRetries[t]
      BY <1>1, <1>4, <3>1 DEF Fail, TypeOK
    <3>3. asleep' \in [Tasks -> 0..1]
      BY <1>1, <1>4 DEF Fail, TypeOK
    <3>4. QED
      BY <1>1, <1>4, <3>2, <3>3 DEF Fail, TypeOK, Lifecycle!Status
  <2>2. \A t \in Tasks : ~ Active(t)'
    BY <1>4 DEF Fail, Active
  <2>3. WrapperOfProcessor'
    BY <1>1, <1>4 DEF Fail, WrapperOfProcessor
  <2>4. OnePlace'
    BY <1>1, <1>4, <2>2 DEF Fail, TypeOK, OnePlace
  <2>5. StatusOfPlace'
    BY <1>1, <1>4, <2>2 DEF Fail, TypeOK, StatusOfPlace, Active
  <2>6. CancelledIsAsked'
    BY <2>2 DEF CancelledIsAsked
  <2>7. QED
    BY <2>1, <2>3, <2>4, <2>5, <2>6
<1>5. QED
  BY <1>2, <1>3, <1>4 DEF Wrapper

LEMMA NextIInv == IInv /\ [Next]_vars => IInv'
<1> SUFFICES ASSUME IInv, [Next]_vars PROVE IInv'
  OBVIOUS
<1>1. CASE Interface
  BY <1>1, InterfaceIInv, QueueingIInv DEF Interface
<1>2. CASE Processor
  BY <1>2, ProcessorIInv, TakingIInv DEF Processor
<1>3. CASE Wrapper
  BY <1>3, WrapperIInv
<1>4. CASE \E t \in Tasks : Wake(t)
  BY <1>4, QueueingIInv
<1>5. CASE UNCHANGED vars
  BY <1>5 DEF vars, IInv, TypeOK, WrapperOfProcessor, OnePlace, StatusOfPlace,
              CancelledIsAsked, Active
<1>6. QED
  BY <1>1, <1>2, <1>3, <1>4, <1>5 DEF Next

-----------------------------------------------------------------------------
(* The manager implements the lifecycle, step by step. *)

\* What a wrapper's answer is to the lifecycle: the function of a CANCELLED
\* task answers only if it is stubborn.
LEMMA AnswerIsAllowed ==
  ASSUME IInv, wrapper = "running", MayAnswer
  PROVE  current \in Tasks /\ status[current] \in Lifecycle!Answering(current)
<1>1. current \in Tasks /\ Active(current) /\ status[current] \in {"RUNNING", "CANCELLED"}
  BY CurrentIsActive
<1>2. status[current] = "CANCELLED" => current \in Stubborn
  BY <1>1 DEF IInv, CancelledIsAsked, MayAnswer
<1>3. QED
  BY <1>1, <1>2 DEF Lifecycle!Answering

LEMMA StepSimulation == IInv /\ [Next]_vars => [Lifecycle!LifecycleNext]_(Lifecycle!lifecycleVars)
<1> SUFFICES ASSUME IInv, [Next]_vars
             PROVE  Lifecycle!LifecycleNext \/ UNCHANGED <<status, retry_count>>
  BY DEF Lifecycle!lifecycleVars
<1> USE DEF queueVars, runVars, Lifecycle!LifecycleNext, Lifecycle!Become
<1>1. CASE StartManager \/ StopManager \/ EnterLoop \/ PollTimeout \/ Resume \/ Die
           \/ EnterWrapper \/ \E t \in Tasks : Wake(t) \/ Discard(t)
  BY <1>1 DEF StartManager, StopManager, EnterLoop, PollTimeout, Resume, Die,
              EnterWrapper, Wake, Discard
<1>2. ASSUME NEW t \in Tasks, Submit(t) PROVE Lifecycle!Submitted(t)
  BY <1>2 DEF Submit, Lifecycle!Submitted
<1>3. ASSUME NEW t \in Tasks, Cancel(t) PROVE Lifecycle!Cancelled(t)
  BY <1>3 DEF Cancel, Lifecycle!Cancelled
<1>4. ASSUME NEW t \in Tasks, Dispatch(t) PROVE Lifecycle!Started(t)
  BY <1>4 DEF Dispatch, Lifecycle!Started
<1>5. CASE Succeed
  <2>1. current \in Tasks /\ Lifecycle!Completed(current)
    BY <1>5, AnswerIsAllowed DEF Succeed, Lifecycle!Completed
  <2>2. QED
    BY <2>1
<1>6. CASE Unwind
  <2>1. current \in Tasks /\ status[current] \in {"RUNNING", "CANCELLED"}
    BY <1>6, CurrentIsActive DEF Unwind
  <2>2. CASE status[current] = "RUNNING"
    BY <1>6, <2>1, <2>2 DEF Unwind, Lifecycle!Cancelled
  <2>3. CASE status[current] = "CANCELLED"
    BY <1>6, <2>1, <2>3 DEF Unwind, IInv, TypeOK
  <2>4. QED
    BY <2>1, <2>2, <2>3
<1>7. CASE Fail
  <2>1. current \in Tasks /\ status[current] \in Lifecycle!Answering(current)
    BY <1>7, AnswerIsAllowed DEF Fail
  <2>2. CASE retry_count[current] < MaxRetries[current]
    BY <1>7, <2>1, <2>2 DEF Fail, Lifecycle!Retried
  <2>3. CASE ~ (retry_count[current] < MaxRetries[current])
    <3>1. retry_count[current] = MaxRetries[current]
      BY <2>1, <2>3, TaskAssumption DEF IInv, TypeOK
    <3>2. QED
      BY <1>7, <2>1, <2>3, <3>1 DEF Fail, Lifecycle!Failed
  <2>4. QED
    BY <2>2, <2>3
<1>8. CASE UNCHANGED vars
  BY <1>8 DEF vars
<1>9. QED
  BY <1>1, <1>2, <1>3, <1>4, <1>5, <1>6, <1>7, <1>8
  DEF Next, Interface, Processor, Wrapper

-----------------------------------------------------------------------------
(* The theorems. *)

LEMMA Invariance == Spec => []IInv
<1>1. Init => IInv
  BY InitIInv
<1>2. IInv /\ [Next]_vars => IInv'
  BY NextIInv
<1>3. QED
  BY <1>1, <1>2, PTL DEF Spec

\* The variables keep their types; retry_count never exceeds max_retries.
THEOREM TypeCorrect == Spec => []TypeOK
<1>1. IInv => TypeOK
  BY DEF IInv
<1>2. QED
  BY <1>1, Invariance, PTL

\* No interleaving of submissions, cancellations, retries and stops loses a
\* PENDING task or queues it twice.
THEOREM PendingIsKept == Spec => []PendingIsSomewhere
<1>1. IInv => PendingIsSomewhere
  BY DEF IInv, OnePlace, StatusOfPlace, PendingIsSomewhere
<1>2. QED
  BY <1>1, Invariance, PTL

\* A RUNNING task is the one in the wrapper, or stop() left its status behind.
THEOREM RunningIsKept == Spec => []RunningIsReal
<1>1. IInv => RunningIsReal
  BY DEF IInv, StatusOfPlace, RunningIsReal, Active
<1>2. QED
  BY <1>1, Invariance, PTL

\* TaskManager implements TaskLifecycle.
THEOREM Refinement == Spec => ImplementsLifecycle
<1>1. Init => Lifecycle!LifecycleInit
  BY DEF Init, Lifecycle!LifecycleInit
<1>2. IInv /\ [Next]_vars => [Lifecycle!LifecycleNext]_(Lifecycle!lifecycleVars)
  BY StepSimulation
<1>3. QED
  BY <1>1, <1>2, Invariance, PTL DEF Spec, ImplementsLifecycle, Lifecycle!LifecycleSpec

-----------------------------------------------------------------------------
(* What cannot be undone. *)

\* A status that stays: CANCELLED does, for a function that lets itself be
\* cancelled
Settled(t, s) == s \in Final /\ (s = "CANCELLED" => t \notin Stubborn)

\* What a step of the lifecycle does to one task.
LEMMA LifecycleStep ==
  ASSUME TypeOK, [Lifecycle!LifecycleNext]_(Lifecycle!lifecycleVars), NEW t \in Tasks
  PROVE  /\ Settled(t, status[t]) => status'[t] = status[t]
         /\ \/ retry_count'[t] = retry_count[t]
            \/ /\ retry_count'[t] = retry_count[t] + 1
               /\ status'[t] = "PENDING"
               /\ status[t] \in {"RUNNING", "CANCELLED"}
<1>1. CASE UNCHANGED <<status, retry_count>>
  BY <1>1
<1>2. ASSUME NEW u \in Tasks,
             \/ Lifecycle!Submitted(u) \/ Lifecycle!Started(u) \/ Lifecycle!Cancelled(u)
             \/ Lifecycle!Completed(u) \/ Lifecycle!Failed(u)
      PROVE  /\ Settled(t, status[t]) => status'[t] = status[t]
             /\ retry_count'[t] = retry_count[t]
  BY <1>2 DEF TypeOK, Settled, Final, Lifecycle!Submitted, Lifecycle!Started,
              Lifecycle!Cancelled, Lifecycle!Completed, Lifecycle!Failed,
              Lifecycle!Become, Lifecycle!Answering
<1>3. ASSUME NEW u \in Tasks, Lifecycle!Retried(u)
      PROVE  /\ Settled(t, status[t]) => status'[t] = status[t]
             /\ \/ retry_count'[t] = retry_count[t]
                \/ /\ retry_count'[t] = retry_count[t] + 1
                   /\ status'[t] = "PENDING"
                   /\ status[t] \in {"RUNNING", "CANCELLED"}
  BY <1>3 DEF TypeOK, Settled, Final, Lifecycle!Retried, Lifecycle!Become,
              Lifecycle!Answering
<1>4. QED
  BY <1>1, <1>2, <1>3 DEF Lifecycle!LifecycleNext, Lifecycle!lifecycleVars

\* What get_task() has once reported as COMPLETED or FAILED it reports ever
\* after, and CANCELLED too for a function that does not answer its
\* cancellation: neither a sleeping retry, nor an entry left in the queue, nor a
\* second cancel_task() revives the task.
THEOREM SettledForGood ==
  ASSUME NEW t \in Tasks, NEW s \in Final, s = "CANCELLED" => t \notin Stubborn
  PROVE  Spec => []((status[t] = s) => [](status[t] = s))
<1>1. IInv /\ status[t] = s /\ [Next]_vars => (status[t] = s)'
  BY StepSimulation, LifecycleStep DEF IInv, Settled
<1>2. QED
  BY Invariance, <1>1, PTL DEF Spec

RetriesAreCounted ==
  [][\A t \in Tasks :
       \/ retry_count'[t] = retry_count[t]
       \/ /\ retry_count'[t] = retry_count[t] + 1
          /\ retry_count'[t] <= MaxRetries[t]
          /\ status'[t] = "PENDING"
          /\ asleep[t] = 0 /\ asleep'[t] = 1]_vars

\* retry_count goes up by one with each retry that is scheduled, only then, and
\* no further than max_retries; it never goes back, so no task is run more than
\* max_retries + 1 times (_handle_task_failure).
THEOREM Counted == Spec => RetriesAreCounted
<1> DEFINE Step(t) ==
      \/ retry_count'[t] = retry_count[t]
      \/ /\ retry_count'[t] = retry_count[t] + 1
         /\ retry_count'[t] <= MaxRetries[t]
         /\ status'[t] = "PENDING"
         /\ asleep[t] = 0 /\ asleep'[t] = 1
<1>1. IInv /\ [Next]_vars => [\A t \in Tasks : Step(t)]_vars
  <2> SUFFICES ASSUME IInv, Next, NEW t \in Tasks PROVE Step(t)
    OBVIOUS
  <2>1. IInv'
    BY NextIInv
  <2>2. CASE Fail /\ t = current
    <3>1. asleep[t] = 0 /\ retry_count[t] \in Nat
      BY <2>2, CurrentIsActive DEF Fail, IInv, TypeOK
    <3>2. retry_count'[t] <= MaxRetries[t]
      BY <2>1 DEF IInv, TypeOK
    <3>3. CASE retry_count[t] < MaxRetries[t]
      BY <2>2, <3>1, <3>2, <3>3 DEF Fail, IInv, TypeOK
    <3>4. CASE ~ (retry_count[t] < MaxRetries[t])
      BY <2>2, <3>4 DEF Fail
    <3>5. QED
      BY <3>3, <3>4
  <2>3. CASE ~ (Fail /\ t = current)
    <3>1. CASE Fail
      BY <2>3, <3>1 DEF Fail, IInv, TypeOK
    <3>2. CASE ~ Fail
      BY <3>2 DEF Next, Interface, Processor, Wrapper, StartManager, StopManager,
                  Submit, Cancel, EnterLoop, PollTimeout, Resume, Die, Dispatch, Discard,
                  EnterWrapper, Succeed, Unwind, Wake, queueVars
    <3>3. QED
      BY <3>1, <3>2
  <2>4. QED
    BY <2>2, <2>3
<1>2. QED
  BY Invariance, <1>1, PTL DEF Spec, RetriesAreCounted

-----------------------------------------------------------------------------
(* The end of the processor. *)

\* A wrapper that is cancelled before its first step belongs to a task that was
\* cancelled, or the manager has been stopped.
AbortedIsAsked ==
  wrapper = "aborted" => status[current] = "CANCELLED" \/ shutdown

LEMMA AbortedStep == IInv /\ AbortedIsAsked /\ [Next]_vars => AbortedIsAsked'
<1> SUFFICES ASSUME IInv, AbortedIsAsked, [Next]_vars PROVE AbortedIsAsked'
  OBVIOUS
<1>1. wrapper # "none" => current \in Tasks
  BY DEF IInv, TypeOK, WrapperOfProcessor
<1>2. CASE EnterWrapper
  <2>1. Active(current) /\ current \in Tasks
    BY <1>1, <1>2 DEF EnterWrapper, Active
  <2>2. cancelling => status[current] = "CANCELLED" \/ shutdown
    BY <2>1 DEF IInv, CancelledIsAsked
  <2>3. QED
    BY <1>2, <2>2 DEF EnterWrapper, AbortedIsAsked
<1>3. CASE Succeed \/ Unwind \/ Fail \/ Resume \/ Die \/ \E t \in Tasks : Dispatch(t)
  BY <1>3 DEF Succeed, Unwind, Fail, Resume, Die, Dispatch, AbortedIsAsked
<1>4. ASSUME NEW t \in Tasks, Submit(t) \/ Cancel(t) PROVE AbortedIsAsked'
  BY <1>1, <1>4 DEF Submit, Cancel, AbortedIsAsked, runVars, IInv, TypeOK
<1>5. CASE \/ StartManager \/ StopManager \/ EnterLoop \/ PollTimeout
           \/ \E t \in Tasks : Discard(t) \/ Wake(t)
  BY <1>5 DEF StartManager, StopManager, EnterLoop, PollTimeout, Discard, Wake,
              AbortedIsAsked, runVars
<1>6. CASE UNCHANGED vars
  BY <1>6 DEF vars, AbortedIsAsked
<1>7. QED
  BY <1>2, <1>3, <1>4, <1>5, <1>6 DEF Next, Interface, Processor, Wrapper

ProcessorEndsForCause ==
  [][processor # "ended" /\ processor' = "ended" =>
       \/ shutdown
       \/ Die /\ current \in Tasks /\ status[current] = "CANCELLED"]_vars

\* The processor ends when the manager is stopped, or with a task that
\* cancel_task() hit before its wrapper had taken its first step: that is the
\* only other way, whatever tasks do, fail or answer (_execute_task,
\* _process_tasks).
THEOREM EndsForCause == Spec => ProcessorEndsForCause
<1>1. Init => AbortedIsAsked
  BY DEF Init, AbortedIsAsked
<1>2. IInv /\ AbortedIsAsked /\ [Next]_vars =>
        [processor # "ended" /\ processor' = "ended" =>
           \/ shutdown
           \/ Die /\ current \in Tasks /\ status[current] = "CANCELLED"]_vars
  <2> SUFFICES ASSUME IInv, AbortedIsAsked, Next,
                      processor # "ended", processor' = "ended", ~ shutdown
               PROVE  Die /\ current \in Tasks /\ status[current] = "CANCELLED"
    OBVIOUS
  <2>1. CASE Die
    BY <2>1 DEF Die, AbortedIsAsked, IInv, TypeOK, WrapperOfProcessor
  <2>2. CASE ~ Die
    BY <2>2 DEF Next, Interface, Processor, Wrapper, StartManager, StopManager,
                Submit, Cancel, EnterLoop, PollTimeout, Resume, Dispatch, Discard,
                EnterWrapper, Succeed, Unwind, Fail, Wake, runVars, LoopTop
  <2>3. QED
    BY <2>1, <2>2
<1>3. QED
  BY Invariance, AbortedStep, <1>1, <1>2, PTL DEF Spec, ProcessorEndsForCause

\* Stopped, and the processor has ended or has never reached its loop
Stopped == shutdown /\ processor \in {"none", "starting", "ended"}

\* stop() is for good: start() does not reset _shutdown, so the processor it
\* creates leaves its loop before it takes a task, and whatever is PENDING or
\* submitted later stays where it is.
THEOREM StopIsForGood == Spec => [](Stopped => []Stopped)
<1>1. IInv /\ Stopped /\ [Next]_vars => Stopped'
  <2> SUFFICES ASSUME IInv, Stopped, [Next]_vars PROVE Stopped'
    OBVIOUS
  <2>1. processor # "executing" /\ wrapper = "none"
    BY DEF Stopped, IInv, TypeOK, WrapperOfProcessor
  <2>2. CASE Interface
    BY <2>2 DEF Interface, StartManager, StopManager, Submit, Cancel, Stopped, runVars
  <2>3. CASE Processor
    BY <2>1, <2>3 DEF Processor, EnterLoop, PollTimeout, Resume, Die, Dispatch, Discard,
                      LoopTop, Stopped
  <2>4. CASE Wrapper
    BY <2>1, <2>4 DEF Wrapper, EnterWrapper, Succeed, Unwind, Fail
  <2>5. CASE (\E t \in Tasks : Wake(t)) \/ UNCHANGED vars
    BY <2>5 DEF Wake, vars, runVars, Stopped
  <2>6. QED
    BY <2>2, <2>3, <2>4, <2>5 DEF Next
<1>2. QED
  BY Invariance, <1>1, PTL DEF Spec

-----------------------------------------------------------------------------
(* The way to a task's end. *)

\* A queue with an entry has one of highest priority.
LEMMA HeadsExist ==
  ASSUME NEW t \in Tasks, queue \in [Tasks -> Nat], queue[t] > 0
  PROVE  Heads # {}
<1> DEFINE Best(p) == \E u \in Tasks : queue[u] > 0 /\ Priority[u] = p
<1>1. \A u \in Tasks : Priority[u] \in 1..4
  BY TaskAssumption
<1>2. PICK p \in 1..4 : Best(p) /\ \A o \in 1..4 : Best(o) => o <= p
  <2>1. Best(1) \/ Best(2) \/ Best(3) \/ Best(4)
    BY <1>1
  <2> HIDE DEF Best
  <2>2. QED
    BY <2>1
<1>3. PICK u \in Tasks : queue[u] > 0 /\ Priority[u] = p
  BY <1>2
<1>4. \A o \in Tasks : queue[o] > 0 => Priority[o] <= Priority[u]
  BY <1>1, <1>2, <1>3
<1>5. u \in Heads
  BY <1>3, <1>4 DEF Heads
<1>6. QED
  BY <1>5

\* What carries a PENDING task on, in each state of the processor
WayOn(t) ==
  \/ asleep[t] > 0
  \/ processor = "starting"
  \/ processor = "waiting" /\ Heads # {}
  \/ processor = "executing" /\ wrapper \in {"created", "running", "done", "aborted"}

PendingHasWayOn ==
  \A t \in Tasks : status[t] = "PENDING" => WayOn(t) \/ processor \in {"none", "ended"}

\* The safety half of TasksEnd: while there is a processor, a PENDING task is
\* asleep before a retry, or the processor has something to do, a step of its
\* own or of the wrapper it awaits; it never waits in get() with the task
\* somewhere else.
THEOREM PendingIsServed == Spec => []PendingHasWayOn
<1>1. IInv => PendingHasWayOn
  <2> SUFFICES ASSUME IInv, NEW t \in Tasks, status[t] = "PENDING",
                      processor \notin {"none", "ended"}
               PROVE  WayOn(t)
    BY DEF PendingHasWayOn
  <2>1. /\ queue \in [Tasks -> Nat] /\ queue[t] \in 0..1 /\ asleep[t] \in 0..1
        /\ queue[t] + asleep[t] = 1
    BY DEF IInv, TypeOK, StatusOfPlace
  <2>2. queue[t] > 0 => Heads # {}
    BY <2>1, HeadsExist
  <2>3. processor = "executing" => wrapper \in {"created", "running", "done", "aborted"}
    BY DEF IInv, TypeOK, WrapperOfProcessor
  <2>4. processor \in {"starting", "waiting", "executing"}
    BY DEF IInv, TypeOK
  <2>5. QED
    BY <2>1, <2>2, <2>3, <2>4 DEF WayOn
<1>2. QED
  BY Invariance, <1>1, PTL
=============================================================================
