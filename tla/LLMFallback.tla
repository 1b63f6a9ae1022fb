----------------------------- MODULE LLMFallback -----------------------------
(***************************************************************************)
(* LLMService (resync/services/llm_fallback.py): requests that walk a      *)
(* chain of models, each behind its provider's circuit breaker, with       *)
(* retries inside the breaker.                                             *)
(*                                                                         *)
(* Everything complete() does between two suspensions is one step: from    *)
(* its entry, or from the failure of one model, it runs on without         *)
(* yielding until the next provider call is in flight or until it raises.  *)
(* complete_stream() walks the chain in the same way, but calls the        *)
(* providers itself: no breaker, no retry, no timeout.  complete_json() is *)
(* complete() and a parse of its answer.                                   *)
(*                                                                         *)
(* Requests share two things: the breakers, and config.fallback_chain,     *)
(* which complete_with_fallback() overrides for as long as its request     *)
(* lasts.                                                                  *)
(***************************************************************************)
EXTENDS BreakerOps, Sequences

CONSTANTS
  Requests,      (* tasks that use the service                              *)
  Providers,     (* LLMProvider                                             *)
  Models,
  ProviderOf,    (* _get_model_config(m).provider                           *)
  DefaultChain,  (* LLMFallbackConfig.fallback_chain as configured          *)
  Primaries,     (* models that complete() is asked for                     *)
  Overrides,     (* <<primary, fallback>> pairs given to                    *)
                 (* complete_with_fallback()                                *)
  MaxRetries     (* LLMFallbackConfig.max_retries                           *)

ASSUME LLMAssumption ==
  /\ ProviderOf \in [Models -> Providers]
  /\ DefaultChain \in Seq(Models)
  /\ Primaries \subseteq Models
  /\ Overrides \subseteq Models \X Models
  /\ MaxRetries \in Nat

VARIABLES
  breakers,         (* _circuit_breakers                                    *)
  fallback_chain,   (* config.fallback_chain                                *)
  req,              (* req[r]: the local state of r's complete()            *)
  failures,         (* history: failures[p], models of p that have failed   *)
                    (* for some request, saturating at FailureThreshold     *)
  overlapped        (* history: two overrides have been in force at once    *)

vars == <<breakers, fallback_chain, req, failures, overlapped>>

-----------------------------------------------------------------------------
None == <<>>

\* The chains an override can put in place, and the one that is configured
Chain == {DefaultChain} \cup {<<o[2]>> : o \in Overrides}

\* saved is a one-element sequence holding original_chain, or None
Idle == [ pc |-> "idle", chain |-> <<>>, i |-> 0, attempt |-> 0,
          saved |-> None, failed |-> {} ]

Request ==
  [ pc : {"idle", "calling", "backoff", "streaming", "served", "failed"},
    chain : Seq(Models), i : Nat, attempt : 0..MaxRetries,
    saved : {None} \cup {<<c>> : c \in Chain}, failed : SUBSET Models ]

Busy(r) == req[r].pc \in {"calling", "backoff", "streaming"}

CurrentModel(r) == req[r].chain[req[r].i]

CurrentProvider(r) == ProviderOf[CurrentModel(r)]

\* The model asked for and the configured ones.  Where it is among these, the
\* code leaves it out, and here it is not usable a second time (Usable)
ChainFor(m, chain) == <<m>> \o chain

IsOverride(r) == Busy(r) /\ req[r].saved # None

TypeOK ==
  /\ breakers \in [Providers -> Breaker]
  /\ fallback_chain \in Chain
  /\ req \in [Requests -> Request]
  /\ \A r \in Requests : Busy(r) => req[r].i \in DOMAIN req[r].chain
  /\ failures \in [Providers -> 0..FailureThreshold]
  /\ overlapped \in BOOLEAN

Init ==
  /\ breakers = [p \in Providers |-> NewBreaker]
  /\ fallback_chain = DefaultChain
  /\ req = [r \in Requests |-> Idle]
  /\ failures = [p \in Providers |-> 0]
  /\ overlapped = FALSE

-----------------------------------------------------------------------------
\* Faulty variants of the definitions below, each with one plausible slip
UsableIgnoringBreaker(chain, i, brks) == i..Len(chain)

UsableSkippingOne(chain, i, brks) ==
  {j \in (IF i = 1 THEN 1 ELSE i + 1)..Len(chain) :
      /\ j = 1 \/ chain[j] # chain[1]
      /\ brks[ProviderOf[chain[j]]].state # "OPEN"}

\* The positions of the chain, from i on, whose breaker is not OPEN
Usable(chain, i, brks) ==
  {j \in i..Len(chain) :
      /\ j = 1 \/ chain[j] # chain[1]
      /\ brks[ProviderOf[chain[j]]].state # "OPEN"}

First(positions) == {j \in positions : \A k \in positions : j <= k}

\* finally: self.config.fallback_chain = original_chain
Restored(q, cfg) == IF q.saved = None THEN cfg ELSE q.saved[1]

(***************************************************************************)
(* The loop of complete() from position i on: models whose breaker is OPEN *)
(* are passed over, the first other one is called through its breaker, and *)
(* when there is none the request fails.  q is the request's local state,  *)
(* brks and cfg the shared state at that point of the step.                *)
(***************************************************************************)
CallNext(r, q, i, brks, cfg) ==
  \E j \in First(Usable(q.chain, i, brks)) :
    /\ req' = [req EXCEPT ![r] = [q EXCEPT !.pc = "calling", !.i = j, !.attempt = 0]]
    /\ breakers' = [brks EXCEPT ![ProviderOf[q.chain[j]]] = Admitted(@)]
    /\ fallback_chain' = cfg

Raised(q) == [Idle EXCEPT !.pc = "failed", !.chain = q.chain, !.failed = q.failed]

GiveUp(r, q, i, brks, cfg) ==
  /\ Usable(q.chain, i, brks) = {}
  /\ req' = [req EXCEPT ![r] = Raised(q)]
  /\ breakers' = brks
  /\ fallback_chain' = Restored(q, cfg)

Proceed(r, q, i, brks, cfg) ==
  CallNext(r, q, i, brks, cfg) \/ GiveUp(r, q, i, brks, cfg)

-----------------------------------------------------------------------------
\* complete(model = m)
Complete(r, m) ==
  /\ ~ Busy(r)
  /\ Proceed(r, [Idle EXCEPT !.chain = ChainFor(m, fallback_chain)],
             1, breakers, fallback_chain)
  /\ UNCHANGED <<failures, overlapped>>

\* complete_with_fallback(primary_model, fallback_model)
CompleteWithFallback(r, primary, fallback) ==
  /\ ~ Busy(r)
  /\ Proceed(r, [Idle EXCEPT !.chain = ChainFor(primary, <<fallback>>),
                             !.saved = <<fallback_chain>>],
             1, breakers, <<fallback>>)
  /\ overlapped' = (overlapped \/ \E s \in Requests : IsOverride(s))
  /\ UNCHANGED failures

\* The provider answers: breaker success, and the response is returned
Answer(r) ==
  /\ req[r].pc = "calling"
  /\ breakers' = [breakers EXCEPT ![CurrentProvider(r)] = OnSuccess(@)]
  /\ req' = [req EXCEPT ![r] = [Idle EXCEPT !.pc = "served"]]
  /\ fallback_chain' = Restored(req[r], fallback_chain)
  /\ UNCHANGED <<failures, overlapped>>

\* Faulty variants
RetryCountedByBreaker(r) ==
  /\ req[r].pc = "calling"
  /\ req[r].attempt < MaxRetries
  /\ req' = [req EXCEPT ![r].pc = "backoff", ![r].attempt = @ + 1]
  /\ breakers' = [breakers EXCEPT ![CurrentProvider(r)] = OnFailure(@)]
  /\ UNCHANGED <<fallback_chain, failures, overlapped>>

RetryOnceMore(r) ==
  /\ req[r].pc = "calling"
  /\ req[r].attempt <= MaxRetries
  /\ req' = [req EXCEPT ![r].pc = "backoff", ![r].attempt = @ + 1]
  /\ UNCHANGED <<breakers, fallback_chain, failures, overlapped>>

RetryWithoutCount(r) ==
  /\ req[r].pc = "calling"
  /\ req' = [req EXCEPT ![r].pc = "backoff"]
  /\ UNCHANGED <<breakers, fallback_chain, failures, overlapped>>

\* RetryWithBackoff.execute: LLMError or LLMTimeoutError with retries left.
\* The breaker is outside the retry and does not hear of it
Retry(r) ==
  /\ req[r].pc = "calling"
  /\ req[r].attempt < MaxRetries
  /\ req' = [req EXCEPT ![r].pc = "backoff", ![r].attempt = @ + 1]
  /\ UNCHANGED <<breakers, fallback_chain, failures, overlapped>>

\* ... and its sleep is over
BackoffOver(r) ==
  /\ req[r].pc = "backoff"
  /\ req' = [req EXCEPT ![r].pc = "calling"]
  /\ UNCHANGED <<breakers, fallback_chain, failures, overlapped>>

\* The model is given up: an error the retry does not expect (authentication,
\* rate limit), or an expected one on the last attempt
ModelFails(r, retriable) ==
  LET p == CurrentProvider(r)
      b == [breakers EXCEPT ![p] = OnFailure(@)]
  IN  /\ req[r].pc = "calling"
      /\ retriable => req[r].attempt = MaxRetries
      /\ failures' = [failures EXCEPT ![p] = IncTo(@, FailureThreshold)]
      /\ Proceed(r, [req[r] EXCEPT !.failed = @ \cup {CurrentModel(r)}],
                 req[r].i + 1, b, fallback_chain)
      /\ UNCHANGED overlapped

\* Faulty variant: no finally
CancelWithoutRestore(r) ==
  /\ Busy(r)
  /\ req' = [req EXCEPT ![r] = Idle]
  /\ UNCHANGED <<breakers, fallback_chain, failures, overlapped>>

\* The request's task is cancelled at its await: no except clause applies, the
\* finally of complete_with_fallback does
Cancel(r) ==
  /\ Busy(r)
  /\ req' = [req EXCEPT ![r] = Idle]
  /\ fallback_chain' = Restored(req[r], fallback_chain)
  /\ UNCHANGED <<breakers, failures, overlapped>>

-----------------------------------------------------------------------------
(* complete_stream() *)

\* Its loop from position i on.  A breaker is looked at, and hears of nothing
StreamNext(r, q, i) ==
  LET usable == Usable(q.chain, i, breakers)
  IN  /\ \/ \E j \in First(usable) :
              req' = [req EXCEPT ![r] = [q EXCEPT !.pc = "streaming", !.i = j]]
         \/ usable = {} /\ req' = [req EXCEPT ![r] = Raised(q)]
      /\ UNCHANGED <<breakers, fallback_chain, failures, overlapped>>

\* complete_stream(model = m): the first chunk is asked for
Stream(r, m) ==
  /\ ~ Busy(r)
  /\ StreamNext(r, [Idle EXCEPT !.chain = ChainFor(m, fallback_chain)], 1)

StreamEnds(r) ==
  /\ req[r].pc = "streaming"
  /\ req' = [req EXCEPT ![r] = [Idle EXCEPT !.pc = "served"]]
  /\ UNCHANGED <<breakers, fallback_chain, failures, overlapped>>

\* An error, before the first chunk or after: the next model starts from the
\* beginning, behind what has been given out
StreamFails(r) ==
  /\ req[r].pc = "streaming"
  /\ StreamNext(r, [req[r] EXCEPT !.failed = @ \cup {CurrentModel(r)}], req[r].i + 1)

-----------------------------------------------------------------------------
Tick ==
  /\ \E p \in Providers : CanAge(breakers[p])
  /\ breakers' = [p \in Providers |->
                    IF CanAge(breakers[p]) THEN Aged(breakers[p]) ELSE breakers[p]]
  /\ UNCHANGED <<fallback_chain, req, failures, overlapped>>

Start(r) ==
  \/ \E m \in Primaries : Complete(r, m) \/ Stream(r, m)
  \/ \E o \in Overrides : CompleteWithFallback(r, o[1], o[2])

Advance(r) ==
  \/ Answer(r)
  \/ Retry(r)
  \/ BackoffOver(r)
  \/ \E retriable \in BOOLEAN : ModelFails(r, retriable)
  \/ StreamEnds(r)
  \/ StreamFails(r)

Next ==
  \/ \E r \in Requests : Start(r) \/ Advance(r) \/ Cancel(r)
  \/ Tick

Spec == Init /\ [][Next]_vars

(***************************************************************************)
(* Fairness: time passes, requests keep coming, and what is awaited ends   *)
(* one way or another, the provider call under its timeout and the sleep   *)
(* by itself.  A stream is read to its end, under the LLM library's own    *)
(* timeout; the service sets none.                                         *)
(***************************************************************************)
LiveSpec ==
  /\ Spec
  /\ WF_vars(Tick)
  /\ \A r \in Requests : WF_vars(Start(r)) /\ WF_vars(Advance(r))

-----------------------------------------------------------------------------
(* Properties *)

\* A model is only ever called, first attempt or stream, while its provider's breaker is
\* not OPEN: also when the failure that moved the request on has just opened
\* it for a later model of the same provider.
OpenProvidersAreSkipped ==
  [][ \A r \in Requests :
        (/\ req'[r] # req[r]
         /\ req'[r].pc \in {"calling", "streaming"}
         /\ req[r].pc # "backoff")
        => LET p == ProviderOf[req'[r].chain[req'[r].i]]
           IN  breakers[p].state # "OPEN" /\ breakers'[p].state # "OPEN" ]_vars

\* "All LLM models failed" is true: each model of the chain has failed for this
\* request, or its provider's breaker is OPEN.
FailsOnlyWhenExhausted ==
  \A r \in Requests :
    req[r].pc = "failed" =>
      \A j \in DOMAIN req[r].chain :
        \/ req[r].chain[j] \in req[r].failed
        \/ breakers[ProviderOf[req[r].chain[j]]].state = "OPEN"

\* A breaker opens on FailureThreshold models given up, not on as many failed
\* attempts: a request that retries counts once.
TripsAreEarned ==
  \A p \in Providers :
    breakers[p].state = "OPEN" => failures[p] = FailureThreshold

\* As long as no two overrides have overlapped, the configured chain is back
\* once no override is in force, however the overriding request ended.
SoloOverrideIsUndone ==
  (~ overlapped /\ ~ \E r \in Requests : IsOverride(r))
    => fallback_chain = DefaultChain

\* The comment on complete_with_fallback, "Temporarily override fallback
\* chain": once no override is in force the configured chain is back.
OverrideIsTemporary ==
  (~ \E r \in Requests : IsOverride(r)) => fallback_chain = DefaultChain

\* Every request ends, with a response, an error or its cancellation.
RequestsEnd == \A r \in Requests : Busy(r) ~> ~ Busy(r)

\* The comment on circuit_recovery_timeout, "1 minute before retry": a provider
\* whose breaker has opened is tried again.
OpenProviderIsRetried ==
  \A p \in Providers :
    (breakers[p].state = "OPEN") ~> (breakers[p].state # "OPEN")
=============================================================================
