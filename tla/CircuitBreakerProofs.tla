------------------------- MODULE CircuitBreakerProofs -------------------------
(***************************************************************************)
(* What CircuitBreaker promises, for any number of callers, any threshold  *)
(* and any recovery time.                                                  *)
(*                                                                         *)
(* The promises are about single steps (OpenShedsLoad, FailedProbeReopens) *)
(* and rest on the inductive invariant IInv: the trip leaves the failure   *)
(* counter at the threshold, and only a success can take it away from      *)
(* there, which lateSuccess remembers as long as the breaker is not        *)
(* CLOSED.                                                                 *)
(***************************************************************************)
EXTENDS CircuitBreaker, TLAPS

IInv ==
  /\ TypeOK
  /\ ClosedBelowThreshold
  /\ ProbesAreGuarded
  /\ TrippedHasFailure

-----------------------------------------------------------------------------
(* What the methods of one breaker do, whoever calls them. *)

\* Every method maps a breaker to a breaker.
LEMMA MethodsKeepType ==
  ASSUME NEW b \in Breaker
  PROVE  /\ Admitted(b) \in Breaker
         /\ OnSuccess(b) \in Breaker
         /\ OnFailure(b) \in Breaker
         /\ CanAge(b) => Aged(b) \in Breaker
<1> USE BreakerAssumption DEF Breaker, BreakerState, Never, IncTo
<1>1. Admitted(b) \in Breaker
  BY DEF Admitted
<1>2. OnSuccess(b) \in Breaker
  BY DEF OnSuccess
<1>3. OnFailure(b) \in Breaker
  <2>1. IncTo(b.consecutive_failures, FailureThreshold) \in 0..FailureThreshold
    OBVIOUS
  <2>2. QED
    BY <2>1 DEF OnFailure
<1>4. CanAge(b) => Aged(b) \in Breaker
  BY DEF CanAge, Aged
<1>5. QED
  BY <1>1, <1>2, <1>3, <1>4

\* A failure leaves the counter at the threshold and the breaker open, or
\* below the threshold and the state alone (_on_failure).
LEMMA FailureOutcome ==
  ASSUME NEW b \in Breaker
  PROVE  /\ OnFailure(b).since_failure = 0
         /\ \/ /\ OnFailure(b).consecutive_failures = FailureThreshold
               /\ OnFailure(b).state = "OPEN"
            \/ /\ OnFailure(b).consecutive_failures < FailureThreshold
               /\ b.consecutive_failures < FailureThreshold
               /\ OnFailure(b).state = b.state
<1> DEFINE n == IncTo(b.consecutive_failures, FailureThreshold)
<1>1. /\ n \in 0..FailureThreshold
      /\ n < FailureThreshold => b.consecutive_failures < FailureThreshold
  BY BreakerAssumption DEF IncTo, Breaker
<1>2. /\ OnFailure(b).since_failure = 0
      /\ OnFailure(b).consecutive_failures = n
      /\ OnFailure(b).state = IF n >= FailureThreshold THEN "OPEN" ELSE b.state
  BY DEF OnFailure
<1> HIDE DEF n
<1>3. QED
  BY <1>1, <1>2, BreakerAssumption

-----------------------------------------------------------------------------
(* The inductive invariant. *)

LEMMA InitIInv == Init => IInv
<1> SUFFICES ASSUME Init PROVE IInv
  OBVIOUS
<1>1. NewBreaker \in Breaker
  BY BreakerAssumption DEF NewBreaker, Breaker, BreakerState
<1>2. TypeOK
  BY <1>1 DEF Init, TypeOK, Reply
<1>3. ClosedBelowThreshold /\ ProbesAreGuarded /\ TrippedHasFailure
  BY BreakerAssumption
  DEF Init, NewBreaker, ClosedBelowThreshold, ProbesAreGuarded, TrippedHasFailure
<1>4. QED
  BY <1>2, <1>3 DEF IInv

LEMMA NextIInv == IInv /\ [Next]_vars => IInv'
<1> SUFFICES ASSUME IInv, [Next]_vars PROVE IInv'
  OBVIOUS
<1> USE DEF IInv
<1>b. breaker \in Breaker /\ lateSuccess \in BOOLEAN
  BY DEF TypeOK
<1>1. ASSUME NEW c \in Callers, Admit(c) PROVE IInv'
  <2>1. TypeOK'
    BY <1>1, MethodsKeepType DEF Admit, TypeOK
  <2>2. breaker' = [breaker EXCEPT !.state = IF @ = "OPEN" THEN "HALF_OPEN" ELSE @]
    BY <1>1 DEF Admit, Admitted
  <2>3. (ClosedBelowThreshold /\ ProbesAreGuarded /\ TrippedHasFailure)'
    BY <1>1, <1>b, <2>2
    DEF Admit, ClosedBelowThreshold, ProbesAreGuarded, TrippedHasFailure, Breaker
  <2>4. QED
    BY <2>1, <2>3
<1>2. ASSUME NEW c \in Callers, Block(c) PROVE IInv'
  BY <1>2
  DEF Block, TypeOK, Reply, ClosedBelowThreshold, ProbesAreGuarded, TrippedHasFailure
<1>3. ASSUME NEW c \in Callers, Succeed(c) PROVE IInv'
  <2>1. TypeOK'
    BY <1>3, MethodsKeepType DEF Succeed, Finish, TypeOK, Reply
  <2>2. /\ breaker'.consecutive_failures = 0
        /\ breaker'.since_failure = breaker.since_failure
        /\ breaker'.state = IF breaker.state = "HALF_OPEN" THEN "CLOSED" ELSE breaker.state
    BY <1>3 DEF Succeed, OnSuccess
  <2>3. ClosedBelowThreshold'
    BY <1>b, <2>2, BreakerAssumption DEF ClosedBelowThreshold, Breaker
  <2>4. ProbesAreGuarded' /\ TrippedHasFailure'
    <3>1. breaker'.state # "CLOSED" => breaker.state = "OPEN"
      BY <1>b, <2>2 DEF Breaker, BreakerState
    <3>2. lateSuccess' = (lateSuccess \/ breaker.state = "OPEN")
      BY <1>3 DEF Succeed
    <3>3. QED
      BY <2>2, <3>1, <3>2 DEF ProbesAreGuarded, TrippedHasFailure
  <2>5. QED
    BY <2>1, <2>3, <2>4
<1>4. ASSUME NEW c \in Callers, Fail(c) PROVE IInv'
  <2>1. breaker' = OnFailure(breaker) /\ breaker' \in Breaker
    BY <1>4, <1>b, MethodsKeepType DEF Fail
  <2>2. lateSuccess' \in BOOLEAN /\ lateSuccess' \in {FALSE, lateSuccess}
    BY <1>4, <1>b DEF Fail
  <2>3. TypeOK'
    BY <1>4, <2>1, <2>2 DEF Fail, Finish, TypeOK, Reply
  <2>4. TrippedHasFailure'
    BY <2>1, <1>b, FailureOutcome DEF TrippedHasFailure, Never
  <2>5. ClosedBelowThreshold'
    BY <2>1, <1>b, FailureOutcome DEF ClosedBelowThreshold
  <2>6. ProbesAreGuarded'
    <3>1. CASE breaker'.consecutive_failures = FailureThreshold
      BY <3>1 DEF ProbesAreGuarded
    <3>2. CASE breaker'.consecutive_failures # FailureThreshold
      <4>1. /\ breaker.consecutive_failures < FailureThreshold
            /\ breaker'.state = breaker.state
        BY <2>1, <1>b, <3>2, FailureOutcome
      <4>2. breaker.state = "CLOSED" \/ lateSuccess
        BY <4>1, BreakerAssumption DEF ProbesAreGuarded
      <4>3. lateSuccess' = lateSuccess
        BY <1>4, <4>1 DEF Fail
      <4>4. QED
        BY <4>1, <4>2, <4>3 DEF ProbesAreGuarded
    <3>3. QED
      BY <3>1, <3>2
  <2>7. QED
    BY <2>3, <2>4, <2>5, <2>6
<1>5. ASSUME NEW c \in Callers, Abort(c) PROVE IInv'
  BY <1>5
  DEF Abort, Finish, TypeOK, Reply, ClosedBelowThreshold, ProbesAreGuarded, TrippedHasFailure
<1>6. CASE Tick
  <2>1. breaker' = Aged(breaker) /\ CanAge(breaker) /\ breaker' \in Breaker
    BY <1>6, <1>b, MethodsKeepType DEF Tick
  <2>2. TypeOK'
    BY <1>6, <2>1 DEF Tick, TypeOK
  <2>3. /\ breaker'.state = breaker.state
        /\ breaker'.consecutive_failures = breaker.consecutive_failures
    BY <2>1, <1>b DEF Aged, Breaker
  <2>4. breaker'.since_failure # Never
    BY <2>1, <1>b, BreakerAssumption DEF Aged, CanAge, IncTo, Never, Breaker
  <2>5. QED
    BY <1>6, <2>2, <2>3, <2>4
    DEF Tick, ClosedBelowThreshold, ProbesAreGuarded, TrippedHasFailure
<1>7. CASE UNCHANGED vars
  BY <1>7 DEF vars, TypeOK, ClosedBelowThreshold, ProbesAreGuarded, TrippedHasFailure
<1>8. QED
  BY <1>1, <1>2, <1>3, <1>4, <1>5, <1>6, <1>7 DEF Next

\* Every reachable state satisfies the inductive invariant.
THEOREM Invariance == Spec => []IInv
BY InitIInv, NextIInv, PTL DEF Spec

-----------------------------------------------------------------------------
(* The promises. *)

\* The variables stay in their ranges.
THEOREM TypeCorrect == Spec => []TypeOK
<1>1. IInv => TypeOK
  BY DEF IInv
<1>2. QED
  BY Invariance, <1>1, PTL

\* A closed breaker never has its threshold of failures in a row on record:
\* recovery wipes the slate (call, _on_success, _on_failure).
THEOREM RecoveryWipesFailures == Spec => []ClosedBelowThreshold
<1>1. IInv => ClosedBelowThreshold
  BY DEF IInv
<1>2. QED
  BY Invariance, <1>1, PTL

\* While it cools down an open breaker stays open and starts no call.
THEOREM ShedsLoad == Spec => OpenShedsLoad
<1> DEFINE Step == Cooling => /\ breaker'.state = "OPEN"
                              /\ \A c \in Callers : pc[c] = "idle" => pc'[c] = "idle"
<1>1. IInv /\ [Next]_vars => [Step]_vars
  <2> SUFFICES ASSUME IInv, Next, Cooling
               PROVE  /\ breaker'.state = "OPEN"
                      /\ \A c \in Callers : pc[c] = "idle" => pc'[c] = "idle"
    OBVIOUS
  <2>b. /\ breaker \in Breaker
        /\ pc \in [Callers -> {"idle", "running"}]
        /\ breaker.state = "OPEN"
        /\ breaker.since_failure # Never
        /\ breaker.since_failure < RecoveryTimeout
    BY DEF IInv, TypeOK, Cooling, TrippedHasFailure
  <2>1. Blocks(breaker)
    BY <2>b, BreakerAssumption DEF Blocks, ShouldAttemptReset, Breaker, Never
  <2>2. ASSUME NEW c \in Callers, Admit(c) PROVE FALSE
    BY <2>2, <2>1 DEF Admit
  <2>3. ASSUME NEW c \in Callers, Block(c) PROVE Step
    BY <2>3, <2>b DEF Block
  <2>4. ASSUME NEW c \in Callers, Succeed(c) PROVE Step
    BY <2>4, <2>b DEF Succeed, Finish, OnSuccess, Breaker
  <2>5. ASSUME NEW c \in Callers, Fail(c) PROVE Step
    <3>1. breaker'.state = "OPEN"
      BY <2>5, <2>b, FailureOutcome DEF Fail
    <3>2. QED
      BY <2>5, <2>b, <3>1 DEF Fail, Finish
  <2>6. ASSUME NEW c \in Callers, Abort(c) PROVE Step
    BY <2>6, <2>b DEF Abort, Finish
  <2>7. CASE Tick
    BY <2>7, <2>b DEF Tick, Aged, Breaker
  <2>8. QED
    BY <2>2, <2>3, <2>4, <2>5, <2>6, <2>7 DEF Next
<1>2. QED
  BY Invariance, <1>1, PTL DEF Spec, OpenShedsLoad

\* A failed probe opens the breaker again, unless a straggler vouched for it.
THEOREM ProbeFailureReopens == Spec => FailedProbeReopens
<1> DEFINE Step == (/\ breaker.state = "HALF_OPEN"
                    /\ ~ lateSuccess
                    /\ \E c \in Callers : Fail(c))
                   => breaker'.state = "OPEN"
<1>1. IInv => [Step]_vars
  <2> SUFFICES ASSUME IInv, breaker.state = "HALF_OPEN", ~ lateSuccess,
                      NEW c \in Callers, Fail(c)
               PROVE  breaker'.state = "OPEN"
    OBVIOUS
  <2>1. /\ breaker \in Breaker
        /\ breaker.consecutive_failures = FailureThreshold
    BY DEF IInv, TypeOK, ProbesAreGuarded
  <2>2. QED
    BY <2>1, FailureOutcome, BreakerAssumption DEF Fail
<1>2. QED
  BY Invariance, <1>1, PTL DEF Spec, FailedProbeReopens
-----------------------------------------------------------------------------
(* The life cycle of the breaker. *)

\* Which call may move the breaker, from where to where, and what it must have
\* found: the failure that completes a full row, a caller that comes once the
\* recovery time is over, or the outcome of a call while the breaker probes.
Transition(c) ==
  \/ /\ breaker.state = "CLOSED" /\ breaker'.state = "OPEN"
     /\ Fail(c)
     /\ breaker.consecutive_failures = FailureThreshold - 1
     /\ breaker'.since_failure = 0
  \/ /\ breaker.state = "OPEN" /\ breaker'.state = "HALF_OPEN"
     /\ Admit(c)
     /\ breaker.since_failure = RecoveryTimeout
  \/ /\ breaker.state = "HALF_OPEN" /\ breaker'.state = "CLOSED"
     /\ Succeed(c)
     /\ breaker'.consecutive_failures = 0
  \/ /\ breaker.state = "HALF_OPEN" /\ breaker'.state = "OPEN"
     /\ Fail(c)
     /\ breaker'.consecutive_failures = FailureThreshold
     /\ \/ breaker.consecutive_failures = FailureThreshold
        \/ lateSuccess /\ breaker.consecutive_failures = FailureThreshold - 1

LegalTransitions ==
  [][breaker'.state # breaker.state => \E c \in Callers : Transition(c)]_vars

\* The breaker moves along the four arrows of its state diagram and no other: a
\* straggler's success never closes an open breaker, nothing trips it before
\* the row of failures is full, and it leaves OPEN only for a caller that comes
\* after recovery_timeout (call, _on_success, _on_failure).
THEOREM OnlyLegalTransitions == Spec => LegalTransitions
<1> DEFINE Step == breaker'.state # breaker.state => \E c \in Callers : Transition(c)
<1>1. IInv /\ [Next]_vars => [Step]_vars
  <2> SUFFICES ASSUME IInv, Next, breaker'.state # breaker.state
               PROVE  \E c \in Callers : Transition(c)
    OBVIOUS
  <2>b. /\ breaker \in Breaker
        /\ breaker.state \in BreakerState
        /\ breaker.since_failure \in {Never} \cup 0..RecoveryTimeout
        /\ breaker.consecutive_failures \in 0..FailureThreshold
        /\ breaker.state # "CLOSED" => breaker.since_failure # Never
    BY DEF IInv, TypeOK, TrippedHasFailure, Breaker
  <2>1. ASSUME NEW c \in Callers, Admit(c) PROVE Transition(c)
    <3>1. /\ breaker.state = "OPEN"
          /\ breaker'.state = "HALF_OPEN"
      BY <2>1, <2>b DEF Admit, Admitted, Breaker
    <3>2. breaker.since_failure = RecoveryTimeout
      BY <2>1, <2>b, <3>1, BreakerAssumption DEF Admit, Blocks, ShouldAttemptReset
    <3>3. QED
      BY <2>1, <3>1, <3>2 DEF Transition
  <2>2. ASSUME NEW c \in Callers, Succeed(c) PROVE Transition(c)
    <3>1. /\ breaker.state = "HALF_OPEN"
          /\ breaker'.state = "CLOSED"
          /\ breaker'.consecutive_failures = 0
      BY <2>2 DEF Succeed, OnSuccess
    <3>2. QED
      BY <2>2, <3>1 DEF Transition
  <2>3. ASSUME NEW c \in Callers, Fail(c) PROVE Transition(c)
    <3>1. /\ breaker'.state = "OPEN"
          /\ breaker.state \in {"CLOSED", "HALF_OPEN"}
          /\ breaker'.since_failure = 0
          /\ breaker'.consecutive_failures = FailureThreshold
      BY <2>3, <2>b, FailureOutcome DEF Fail, BreakerState
    <3>2. breaker.consecutive_failures >= FailureThreshold - 1
      BY <2>3, <2>b, <3>1, BreakerAssumption DEF Fail, OnFailure, IncTo
    <3>3. breaker.consecutive_failures \in {FailureThreshold - 1, FailureThreshold}
      BY <2>b, <3>2, BreakerAssumption
    <3>4. CASE breaker.state = "CLOSED"
      <4>1. breaker.consecutive_failures = FailureThreshold - 1
        BY <3>3, <3>4, BreakerAssumption DEF IInv, ClosedBelowThreshold
      <4>2. QED
        BY <2>3, <3>1, <3>4, <4>1 DEF Transition
    <3>5. CASE breaker.state = "HALF_OPEN"
      <4>1. ~ lateSuccess => breaker.consecutive_failures = FailureThreshold
        BY <3>5 DEF IInv, ProbesAreGuarded
      <4>2. QED
        BY <2>3, <3>1, <3>3, <3>5, <4>1 DEF Transition
    <3>6. QED
      BY <3>1, <3>4, <3>5
  <2>4. ASSUME NEW c \in Callers, Block(c) \/ Abort(c) PROVE FALSE
    BY <2>4 DEF Block, Abort
  <2>5. CASE Tick
    BY <2>5, <2>b DEF Tick, Aged, Breaker
  <2>6. QED
    BY <2>1, <2>2, <2>3, <2>4, <2>5 DEF Next
<1>2. QED
  BY Invariance, <1>1, PTL DEF Spec, LegalTransitions
=============================================================================
