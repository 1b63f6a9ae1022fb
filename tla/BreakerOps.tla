----------------------------- MODULE BreakerOps -----------------------------
(***************************************************************************)
(* The state of one CircuitBreaker of resync/core/resilience.py and what   *)
(* its methods do to it, as functions from a breaker to a breaker.  The    *)
(* modules that use breakers (CircuitBreaker, LLMFallback) build their     *)
(* actions from these.                                                     *)
(*                                                                         *)
(* Two fields are kept up to what the code can tell apart:                 *)
(*   - consecutive_failures is only ever compared with the threshold, so   *)
(*     it saturates there;                                                 *)
(*   - last_failure_time is only ever read as "elapsed since", compared    *)
(*     with recovery_timeout, so the age of the last failure is kept, and  *)
(*     it saturates at RecoveryTimeout.                                    *)
(* The counters that only get_metrics reports (total_calls,                *)
(* successful_calls, failed_calls, state_changes, last_success_time) are   *)
(* left out: no branch of the code reads them.                             *)
(***************************************************************************)
EXTENDS Integers

CONSTANTS
  FailureThreshold,  (* CircuitBreakerConfig.failure_threshold              *)
  RecoveryTimeout    (* CircuitBreakerConfig.recovery_timeout, in ticks     *)

ASSUME BreakerAssumption ==
  /\ FailureThreshold \in Nat \ {0}
  /\ RecoveryTimeout \in Nat

-----------------------------------------------------------------------------
BreakerState == {"CLOSED", "OPEN", "HALF_OPEN"}

\* last_failure_time is None
Never == -1

Breaker == [ state                : BreakerState,
             consecutive_failures : 0..FailureThreshold,
             since_failure        : {Never} \cup 0..RecoveryTimeout ]

\* CircuitBreaker.__init__
NewBreaker == [ state                |-> "CLOSED",
                consecutive_failures |-> 0,
                since_failure        |-> Never ]

\* x + 1, saturating at cap
IncTo(x, cap) == IF x < cap THEN x + 1 ELSE cap

-----------------------------------------------------------------------------
\* Faulty variants of the methods, each with one plausible slip
AgedBackwards(b) == [b EXCEPT !.since_failure = @ - 2]  \* the wall clock is set back

OnSuccessWithoutReset(b) ==
  [b EXCEPT !.state = IF @ = "HALF_OPEN" THEN "CLOSED" ELSE @]

OnSuccessClosesAlways(b) ==
  [b EXCEPT !.consecutive_failures = 0, !.state = "CLOSED"]

OnSuccessKeepsState(b) == [b EXCEPT !.consecutive_failures = 0]

AdmittedResetting(b) ==
  IF b.state = "OPEN"
  THEN [b EXCEPT !.state = "HALF_OPEN", !.consecutive_failures = 0]
  ELSE b

AdmittedStaysOpen(b) == b

-----------------------------------------------------------------------------
\* _should_attempt_reset: no failure on record, or the last one is old enough
ShouldAttemptReset(b) ==
  \/ b.since_failure = Never
  \/ b.since_failure >= RecoveryTimeout

\* The first critical section of call(): whether it raises CircuitBreakerError
Blocks(b) == b.state = "OPEN" /\ ~ ShouldAttemptReset(b)

\* ... and, when it does not, what it leaves behind
Admitted(b) ==
  [b EXCEPT !.state = IF @ = "OPEN" THEN "HALF_OPEN" ELSE @]

\* _on_success
OnSuccess(b) ==
  [ state                |-> IF b.state = "HALF_OPEN" THEN "CLOSED" ELSE b.state,
    consecutive_failures |-> 0,
    since_failure        |-> b.since_failure ]

\* _on_failure
OnFailure(b) ==
  LET n == IncTo(b.consecutive_failures, FailureThreshold)
  IN  [ state                |-> IF n >= FailureThreshold THEN "OPEN" ELSE b.state,
        consecutive_failures |-> n,
        since_failure        |-> 0 ]

\* One unit of time passes
CanAge(b) == b.since_failure # Never /\ b.since_failure < RecoveryTimeout

Aged(b) == [b EXCEPT !.since_failure = IncTo(@, RecoveryTimeout)]
=============================================================================
