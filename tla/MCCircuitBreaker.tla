-------------------------- MODULE MCCircuitBreaker --------------------------
(***************************************************************************)
(* Three tasks share a breaker that opens at two failures and tests its    *)
(* recovery after two ticks: one call can straggle from before the trip    *)
(* while two probe.                                                        *)
(***************************************************************************)
EXTENDS CircuitBreaker

MCFailureThreshold == 2
MCRecoveryTimeout  == 2
=============================================================================
