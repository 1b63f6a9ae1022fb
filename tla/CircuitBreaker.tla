--------------------------- MODULE CircuitBreaker ---------------------------
(***************************************************************************)
(* CircuitBreaker.call (resync/core/resilience.py) with several tasks of   *)
(* one event loop inside it at once.                                       *)
(*                                                                         *)
(* call() takes the breaker's lock twice, before and after it awaits the   *)
(* protected function, and holds it over neither a suspension nor the      *)
(* function itself: each critical section is one atomic step, and any      *)
(* number of calls may be between the two.  What a call found when it was  *)
(* admitted can be long out of date when it reports its outcome, and that  *)
(* is what the properties are about.                                       *)
(***************************************************************************)
EXTENDS BreakerOps

CONSTANT Callers  (* tasks that use the breaker *)

VARIABLES
  breaker,       (* the shared CircuitBreaker object                        *)
  pc,            (* pc[c]: where task c is in call()                        *)
  reply,         (* reply[c]: what c's last finished call gave it           *)
  lateSuccess    (* history: since the breaker last opened, some call that  *)
                 (* was admitted before it opened has succeeded             *)

vars == <<breaker, pc, reply, lateSuccess>>

Reply == {"none", "result", "error", "CircuitBreakerError", "cancelled"}

TypeOK ==
  /\ breaker \in Breaker
  /\ pc \in [Callers -> {"idle", "running"}]
  /\ reply \in [Callers -> Reply]
  /\ lateSuccess \in BOOLEAN

Init ==
  /\ breaker = NewBreaker
  /\ pc = [c \in Callers |-> "idle"]
  /\ reply = [c \in Callers |-> "none"]
  /\ lateSuccess = FALSE

-----------------------------------------------------------------------------
\* call(), first critical section: admitted, and func is awaited
Admit(c) ==
  /\ pc[c] = "idle"
  /\ ~ Blocks(breaker)
  /\ breaker' = Admitted(breaker)
  /\ pc' = [pc EXCEPT ![c] = "running"]
  /\ UNCHANGED <<reply, lateSuccess>>

\* call(), first critical section: CircuitBreakerError
Block(c) ==
  /\ pc[c] = "idle"
  /\ Blocks(breaker)
  /\ reply' = [reply EXCEPT ![c] = "CircuitBreakerError"]
  /\ UNCHANGED <<breaker, pc, lateSuccess>>

Finish(c, r) ==
  /\ pc[c] = "running"
  /\ pc' = [pc EXCEPT ![c] = "idle"]
  /\ reply' = [reply EXCEPT ![c] = r]

\* func returned: second critical section, _on_success
Succeed(c) ==
  /\ Finish(c, "result")
  /\ breaker' = OnSuccess(breaker)
  /\ lateSuccess' = (lateSuccess \/ breaker.state = "OPEN")

\* func raised an expected_exception: second critical section, _on_failure
Fail(c) ==
  /\ Finish(c, "error")
  /\ breaker' = OnFailure(breaker)
  /\ lateSuccess' = IF breaker.state # "OPEN" /\ breaker'.state = "OPEN"
                    THEN FALSE
                    ELSE lateSuccess

\* The task is cancelled while func runs, or func raises something that is not
\* an expected_exception: no handler of call() runs
Abort(c) ==
  /\ Finish(c, "cancelled")
  /\ UNCHANGED <<breaker, lateSuccess>>

Tick ==
  /\ CanAge(breaker)
  /\ breaker' = Aged(breaker)
  /\ UNCHANGED <<pc, reply, lateSuccess>>

Next ==
  \/ \E c \in Callers :
       Admit(c) \/ Block(c) \/ Succeed(c) \/ Fail(c) \/ Abort(c)
  \/ Tick

Spec == Init /\ [][Next]_vars

(***************************************************************************)
(* Fairness: time passes; callers keep calling; and of a caller's calls    *)
(* not every one is cancelled: again and again one runs to its end.        *)
(***************************************************************************)
Fairness ==
  /\ WF_vars(Tick)
  /\ \A c \in Callers :
       /\ WF_vars(Admit(c) \/ Block(c))
       /\ SF_vars(Succeed(c) \/ Fail(c))

LiveSpec == Spec /\ Fairness
-----------------------------------------------------------------------------
(* Properties *)

\* A closed breaker has seen fewer failures in a row than its threshold: the
\* counter is reset on the way back to CLOSED, so the first failure after a
\* recovery cannot trip the breaker again (_on_success, _on_failure).
ClosedBelowThreshold ==
  breaker.state = "CLOSED" => breaker.consecutive_failures < FailureThreshold

\* A breaker that has opened, and that no straggler has vouched for since, is
\* one failure away from opening again.
ProbesAreGuarded ==
  breaker.state # "CLOSED" /\ ~ lateSuccess
    => breaker.consecutive_failures = FailureThreshold

\* Whenever the breaker has opened there is a failure to time the recovery
\* from: _should_attempt_reset never takes its "no failure yet" branch then.
TrippedHasFailure ==
  breaker.state # "CLOSED" => breaker.since_failure # Never

Cooling == breaker.state = "OPEN" /\ breaker.since_failure < RecoveryTimeout

\* Until recovery_timeout has passed since the LAST failure, an open breaker
\* stays open and starts no call, whatever calls admitted earlier still report.
OpenShedsLoad ==
  [][Cooling => /\ breaker'.state = "OPEN"
                /\ \A c \in Callers : pc[c] = "idle" => pc'[c] = "idle"]_vars

\* A call that fails while the breaker is HALF_OPEN opens it again, unless a
\* call admitted before it opened has succeeded meanwhile: that success sets
\* consecutive_failures to 0 without closing the breaker.
FailedProbeReopens ==
  [][ (/\ breaker.state = "HALF_OPEN"
       /\ ~ lateSuccess
       /\ \E c \in Callers : Fail(c))
      => breaker'.state = "OPEN" ]_vars

\* Callers that keep calling get an open breaker to leave OPEN: late failures
\* postpone the recovery, but only calls admitted before can report them.
OpenIsLeft == (breaker.state = "OPEN") ~> (breaker.state # "OPEN")

\* HALF_OPEN is transient: enough probes run to their end to close the breaker
\* or to open it again.
HalfOpenResolves == (breaker.state = "HALF_OPEN") ~> (breaker.state # "HALF_OPEN")
=============================================================================
