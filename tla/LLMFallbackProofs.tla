-------------------------- MODULE LLMFallbackProofs --------------------------
(***************************************************************************)
(* What LLMService promises, for any number of requests, providers and     *)
(* models, any chain, any overrides, any number of retries and any         *)
(* breaker configuration.                                                  *)
(*                                                                         *)
(* All of it rests on what a request does to the breakers: it only admits  *)
(* calls where the breaker is not OPEN, so that for this service OPEN is   *)
(* final, and what has been skipped once stays skipped.                    *)
(***************************************************************************)
EXTENDS LLMFallback, SequenceTheorems, TLAPS

UnderWay(q) == q.pc \in {"calling", "backoff", "streaming"}

Overriding(q) == UnderWay(q) /\ q.saved # None

\* Position j of the request is behind it: its model has failed, its breaker
\* is OPEN, or it repeats the model the request asked for
Overcome(q, j, brks) ==
  \/ q.chain[j] \in q.failed
  \/ brks[ProviderOf[q.chain[j]]].state = "OPEN"
  \/ j # 1 /\ q.chain[j] = q.chain[1]

\* The local state of a request, given the breakers
RequestOK(q, brks) ==
  /\ q \in Request
  /\ UnderWay(q) => /\ q.i \in DOMAIN q.chain
                    /\ \A j \in 1..(q.i - 1) : Overcome(q, j, brks)
  /\ q.pc \notin {"calling", "backoff"} => q.saved = None
  /\ q.pc = "failed" => \A j \in DOMAIN q.chain : Overcome(q, j, brks)

\* What a breaker counts, models of its provider have failed
BreakersOK(brks, failed) ==
  /\ brks \in [Providers -> Breaker]
  /\ failed \in [Providers -> 0..FailureThreshold]
  /\ \A p \in Providers :
       /\ brks[p].consecutive_failures <= failed[p]
       /\ brks[p].state = "OPEN" => failed[p] = FailureThreshold

\* Without overlap there is at most one override, and it remembers the
\* configuration
OverrideOK(rq, cfg, over) ==
  /\ cfg \in Chain
  /\ over \in BOOLEAN
  /\ ~ over =>
       /\ \A r, s \in Requests : Overriding(rq[r]) /\ Overriding(rq[s]) => r = s
       /\ \A r \in Requests : Overriding(rq[r]) => rq[r].saved = <<DefaultChain>>
       /\ (\A r \in Requests : ~ Overriding(rq[r])) => cfg = DefaultChain

IInv ==
  /\ req \in [Requests -> Request]
  /\ \A r \in Requests : RequestOK(req[r], breakers)
  /\ BreakersOK(breakers, failures)
  /\ OverrideOK(req, fallback_chain, overlapped)

-----------------------------------------------------------------------------
(* The breakers. *)

\* An OPEN breaker stays OPEN
OpenStays(before, after) ==
  \A p \in Providers : before[p].state = "OPEN" => after[p].state = "OPEN"

\* Admitting a call where the breaker is not OPEN opens none and counts nothing.
LEMMA AdmittedKeeps ==
  ASSUME NEW brks, NEW failed, BreakersOK(brks, failed),
         NEW p \in Providers, brks[p].state # "OPEN",
         NEW after, after = [brks EXCEPT ![p] = Admitted(@)]
  PROVE  after = brks
<1>1. brks[p] \in Breaker
  BY DEF BreakersOK
<1>2. Admitted(brks[p]) = brks[p]
  BY <1>1 DEF Admitted, Breaker
<1>3. QED
  BY <1>2 DEF BreakersOK

LEMMA SuccessKeeps ==
  ASSUME NEW brks, NEW failed, BreakersOK(brks, failed), NEW p \in Providers
  PROVE  LET after == [brks EXCEPT ![p] = OnSuccess(@)]
         IN  BreakersOK(after, failed) /\ OpenStays(brks, after)
<1> DEFINE after == [brks EXCEPT ![p] = OnSuccess(@)]
<1>1. brks[p] \in Breaker /\ failed[p] \in 0..FailureThreshold
  BY DEF BreakersOK
<1>2. /\ OnSuccess(brks[p]) \in Breaker
      /\ OnSuccess(brks[p]).consecutive_failures = 0
      /\ OnSuccess(brks[p]).state = "OPEN" <=> brks[p].state = "OPEN"
  BY <1>1, BreakerAssumption DEF OnSuccess, Breaker, BreakerState
<1>3. BreakersOK(after, failed)
  BY <1>1, <1>2, BreakerAssumption DEF BreakersOK
<1>4. OpenStays(brks, after)
  BY <1>2 DEF OpenStays, BreakersOK
<1>5. QED
  BY <1>3, <1>4

LEMMA FailureKeeps ==
  ASSUME NEW brks, NEW failed, BreakersOK(brks, failed), NEW p \in Providers
  PROVE  LET after == [brks EXCEPT ![p] = OnFailure(@)]
             count == [failed EXCEPT ![p] = IncTo(@, FailureThreshold)]
         IN  BreakersOK(after, count) /\ OpenStays(brks, after)
<1> DEFINE after == [brks EXCEPT ![p] = OnFailure(@)]
           count == [failed EXCEPT ![p] = IncTo(@, FailureThreshold)]
           b == brks[p]
           n == IncTo(b.consecutive_failures, FailureThreshold)
<1>1. /\ b \in Breaker /\ failed[p] \in 0..FailureThreshold
      /\ b.consecutive_failures <= failed[p]
      /\ b.state = "OPEN" => failed[p] = FailureThreshold
  BY DEF BreakersOK
<1>2. /\ n \in 0..FailureThreshold
      /\ count[p] \in 0..FailureThreshold
      /\ n <= count[p]
      /\ n >= FailureThreshold \/ b.state = "OPEN" => count[p] = FailureThreshold
  <2>1. b.consecutive_failures \in 0..FailureThreshold
    BY <1>1 DEF Breaker
  <2>2. count[p] = IncTo(failed[p], FailureThreshold)
    BY DEF BreakersOK
  <2>3. QED
    BY <1>1, <2>1, <2>2, BreakerAssumption DEF IncTo
<1>3. /\ OnFailure(b).consecutive_failures = n
      /\ OnFailure(b).state = IF n >= FailureThreshold THEN "OPEN" ELSE b.state
      /\ OnFailure(b) \in Breaker
  BY <1>1, <1>2, BreakerAssumption DEF OnFailure, Breaker, BreakerState, Never
<1> HIDE DEF n
<1>4. after[p] = OnFailure(b) /\ \A x \in Providers : x # p => after[x] = brks[x]
  BY DEF BreakersOK
<1>5. BreakersOK(after, count)
  BY <1>2, <1>3, <1>4 DEF BreakersOK
<1>6. OpenStays(brks, after)
  BY <1>3, <1>4 DEF OpenStays
<1>7. QED
  BY <1>5, <1>6

-----------------------------------------------------------------------------
(* One request. *)

\* What is behind a request stays behind it as long as no breaker leaves OPEN.
LEMMA RequestKeeps ==
  ASSUME NEW q, NEW before, NEW after, RequestOK(q, before), OpenStays(before, after)
  PROVE  RequestOK(q, after)
<1>1. q \in Request /\ q.chain \in Seq(Models)
  BY DEF RequestOK, Request
<1>2. \A j \in DOMAIN q.chain : ProviderOf[q.chain[j]] \in Providers
  BY <1>1, LLMAssumption
<1>3. \A j \in DOMAIN q.chain : Overcome(q, j, before) => Overcome(q, j, after)
  BY <1>2 DEF Overcome, OpenStays
<1>4. UnderWay(q) => \A j \in 1..(q.i - 1) : j \in DOMAIN q.chain
  BY <1>1 DEF RequestOK, Request
<1>5. QED
  BY <1>3, <1>4 DEF RequestOK

\* The loop passes over positions that are behind the request.
LEMMA FirstUsable ==
  ASSUME NEW q \in Request, NEW brks, NEW i \in Nat \ {0},
         \A k \in DOMAIN q.chain : k < i => Overcome(q, k, brks)
  PROVE  /\ \A j \in First(Usable(q.chain, i, brks)) :
              /\ j \in DOMAIN q.chain
              /\ brks[ProviderOf[q.chain[j]]].state # "OPEN"
              /\ \A k \in 1..(j - 1) : Overcome(q, k, brks)
         /\ Usable(q.chain, i, brks) = {} =>
              \A k \in DOMAIN q.chain : Overcome(q, k, brks)
<1> DEFINE usable == Usable(q.chain, i, brks)
<1>1. q.chain \in Seq(Models) /\ Len(q.chain) \in Nat /\ DOMAIN q.chain = 1..Len(q.chain)
  BY DEF Request
<1>2. \A k \in DOMAIN q.chain : Overcome(q, k, brks) \/ k \in usable
  BY <1>1 DEF Usable, Overcome
<1>3. usable \subseteq DOMAIN q.chain
  BY <1>1 DEF Usable
<1>4. ASSUME NEW j \in First(usable)
      PROVE  /\ j \in DOMAIN q.chain
             /\ brks[ProviderOf[q.chain[j]]].state # "OPEN"
             /\ \A k \in 1..(j - 1) : Overcome(q, k, brks)
  <2>1. j \in usable /\ \A k \in usable : j <= k
    BY <1>4 DEF First
  <2>2. brks[ProviderOf[q.chain[j]]].state # "OPEN"
    BY <2>1 DEF Usable
  <2>3. ASSUME NEW k \in 1..(j - 1) PROVE Overcome(q, k, brks)
    BY <1>1, <1>2, <1>3, <2>1
  <2>4. QED
    BY <1>3, <2>1, <2>2, <2>3
<1>5. QED
  BY <1>2, <1>4
\* A request raises when the whole chain is behind it.
LEMMA RaisedOK ==
  ASSUME NEW q \in Request, NEW brks, \A k \in DOMAIN q.chain : Overcome(q, k, brks)
  PROVE  RequestOK(Raised(q), brks) /\ ~ UnderWay(Raised(q))
<1>1. Idle \in Request
  BY LLMAssumption DEF Idle, Request, None
<1>2. q.chain \in Seq(Models) /\ q.failed \in SUBSET Models
  BY DEF Request
<1>3. Raised(q) \in Request
  BY <1>1, <1>2 DEF Raised, Request
<1>4. /\ Raised(q).pc = "failed" /\ Raised(q).saved = None
      /\ Raised(q).chain = q.chain /\ Raised(q).failed = q.failed
  BY DEF Raised, Idle
<1>5. QED
  BY <1>3, <1>4 DEF RequestOK, UnderWay, Overcome

\* A request that goes on is called or fails, and is sound either way.
LEMMA ProceedKeeps ==
  ASSUME NEW r \in Requests, req \in [Requests -> Request],
         NEW brks, NEW failed, BreakersOK(brks, failed), NEW cfg,
         NEW q \in Request, NEW i \in Nat \ {0},
         \A k \in DOMAIN q.chain : k < i => Overcome(q, k, brks),
         Proceed(r, q, i, brks, cfg)
  PROVE  \E new :
           /\ req' = [req EXCEPT ![r] = new]
           /\ RequestOK(new, brks)
           /\ breakers' = brks
           /\ \/ /\ new.pc = "calling"
                 /\ new.saved = q.saved
                 /\ fallback_chain' = cfg
                 /\ brks[ProviderOf[new.chain[new.i]]].state # "OPEN"
              \/ /\ ~ UnderWay(new)
                 /\ fallback_chain' = Restored(q, cfg)
<1> DEFINE Goal(new) ==
      /\ req' = [req EXCEPT ![r] = new]
      /\ RequestOK(new, brks)
      /\ breakers' = brks
      /\ \/ /\ new.pc = "calling"
            /\ new.saved = q.saved
            /\ fallback_chain' = cfg
            /\ brks[ProviderOf[new.chain[new.i]]].state # "OPEN"
         \/ /\ ~ UnderWay(new)
            /\ fallback_chain' = Restored(q, cfg)
<1>1. CASE CallNext(r, q, i, brks, cfg)
  <2>1. PICK j \in First(Usable(q.chain, i, brks)) :
          /\ req' = [req EXCEPT ![r] = [q EXCEPT !.pc = "calling", !.i = j, !.attempt = 0]]
          /\ breakers' = [brks EXCEPT ![ProviderOf[q.chain[j]]] = Admitted(@)]
          /\ fallback_chain' = cfg
    BY <1>1 DEF CallNext
  <2>2. /\ j \in DOMAIN q.chain
        /\ brks[ProviderOf[q.chain[j]]].state # "OPEN"
        /\ \A k \in 1..(j - 1) : Overcome(q, k, brks)
    BY FirstUsable
  <2>3. j \in Nat /\ ProviderOf[q.chain[j]] \in Providers
    BY <2>2, LLMAssumption DEF Request
  <2>4. breakers' = brks
    BY <2>1, <2>2, <2>3, AdmittedKeeps
  <2> DEFINE new == [q EXCEPT !.pc = "calling", !.i = j, !.attempt = 0]
  <2>5. /\ new \in Request /\ new.pc = "calling" /\ new.i = j
        /\ new.chain = q.chain /\ new.saved = q.saved /\ new.failed = q.failed
    <3>1. 0 \in 0..MaxRetries
      BY LLMAssumption
    <3>2. QED
      BY <2>3, <3>1 DEF Request
  <2>6. req' = [req EXCEPT ![r] = new]
    BY <2>1
  <2> HIDE DEF new
  <2>7. RequestOK(new, brks)
    BY <2>2, <2>5 DEF RequestOK, UnderWay, Overcome
  <2>8. Goal(new)
    BY <2>1, <2>2, <2>4, <2>5, <2>6, <2>7
  <2>9. QED
    BY <2>8
<1>2. CASE GiveUp(r, q, i, brks, cfg)
  <2>1. /\ Usable(q.chain, i, brks) = {}
        /\ req' = [req EXCEPT ![r] = Raised(q)]
        /\ breakers' = brks
        /\ fallback_chain' = Restored(q, cfg)
    BY <1>2 DEF GiveUp
  <2>2. RequestOK(Raised(q), brks) /\ ~ UnderWay(Raised(q))
    BY <2>1, FirstUsable, RaisedOK
  <2>3. Goal(Raised(q))
    BY <2>1, <2>2
  <2>4. QED
    BY <2>3
<1>3. QED
  BY <1>1, <1>2 DEF Proceed

\* A stream that goes on is behind no OPEN breaker either.
LEMMA StreamKeeps ==
  ASSUME NEW r \in Requests, req \in [Requests -> Request],
         BreakersOK(breakers, failures),
         NEW q \in Request, q.saved = None, NEW i \in Nat \ {0},
         \A k \in DOMAIN q.chain : k < i => Overcome(q, k, breakers),
         StreamNext(r, q, i)
  PROVE  \E new :
           /\ req' = [req EXCEPT ![r] = new]
           /\ RequestOK(new, breakers)
           /\ \/ /\ new.pc = "streaming"
                 /\ new.saved = q.saved
                 /\ breakers[ProviderOf[new.chain[new.i]]].state # "OPEN"
              \/ ~ UnderWay(new)
<1> DEFINE Goal(new) ==
      /\ req' = [req EXCEPT ![r] = new]
      /\ RequestOK(new, breakers)
      /\ \/ /\ new.pc = "streaming"
            /\ new.saved = q.saved
            /\ breakers[ProviderOf[new.chain[new.i]]].state # "OPEN"
         \/ ~ UnderWay(new)
<1>1. ASSUME NEW j \in First(Usable(q.chain, i, breakers)),
             req' = [req EXCEPT ![r] = [q EXCEPT !.pc = "streaming", !.i = j]]
      PROVE  \E new : Goal(new)
  <2>1. /\ j \in DOMAIN q.chain
        /\ breakers[ProviderOf[q.chain[j]]].state # "OPEN"
        /\ \A k \in 1..(j - 1) : Overcome(q, k, breakers)
    BY FirstUsable
  <2> DEFINE new == [q EXCEPT !.pc = "streaming", !.i = j]
  <2>2. j \in Nat
    BY <2>1 DEF Request
  <2>3. /\ new \in Request /\ new.pc = "streaming" /\ new.i = j
        /\ new.chain = q.chain /\ new.saved = q.saved /\ new.failed = q.failed
    BY <2>2 DEF Request
  <2>4. req' = [req EXCEPT ![r] = new]
    BY <1>1
  <2> HIDE DEF new
  <2>5. RequestOK(new, breakers)
    BY <2>1, <2>3 DEF RequestOK, UnderWay, Overcome
  <2>6. Goal(new)
    BY <2>1, <2>3, <2>4, <2>5
  <2>7. QED
    BY <2>6
<1>2. ASSUME Usable(q.chain, i, breakers) = {}, req' = [req EXCEPT ![r] = Raised(q)]
      PROVE  \E new : Goal(new)
  <2>1. RequestOK(Raised(q), breakers) /\ ~ UnderWay(Raised(q))
    BY <1>2, FirstUsable, RaisedOK
  <2>2. Goal(Raised(q))
    BY <1>2, <2>1
  <2>3. QED
    BY <2>2
<1>3. QED
  BY <1>1, <1>2 DEF StreamNext

-----------------------------------------------------------------------------
(* The overrides. *)

\* A request that ends, or never gets under way, undoes its override.
LEMMA OverrideEnds ==
  ASSUME NEW r \in Requests, req \in [Requests -> Request],
         RequestOK(req[r], breakers),
         OverrideOK(req, fallback_chain, overlapped),
         NEW new, ~ UnderWay(new),
         NEW over \in BOOLEAN, overlapped => over
  PROVE  OverrideOK([req EXCEPT ![r] = new], Restored(req[r], fallback_chain), over)
<1> DEFINE rq == [req EXCEPT ![r] = new]
           cfg == Restored(req[r], fallback_chain)
<1>1. req[r].saved = None \/ \E c \in Chain : req[r].saved = <<c>>
  BY DEF Request
<1>2. cfg \in Chain
  BY <1>1 DEF Restored, OverrideOK, None
<1>3. \A s \in Requests : Overriding(rq[s]) => s # r /\ rq[s] = req[s]
  BY DEF Overriding
<1>4. ASSUME ~ over, \A s \in Requests : ~ Overriding(rq[s]) PROVE cfg = DefaultChain
  <2>1. CASE req[r].saved = None
    BY <1>3, <1>4, <2>1 DEF Restored, Overriding, OverrideOK
  <2>2. CASE req[r].saved # None
    <3>1. Overriding(req[r])
      BY <2>2 DEF Overriding, RequestOK, UnderWay
    <3>2. req[r].saved = <<DefaultChain>>
      BY <1>4, <3>1 DEF OverrideOK
    <3>3. QED
      BY <2>2, <3>2 DEF Restored
  <2>3. QED
    BY <2>1, <2>2
<1> HIDE DEF cfg
<1>5. OverrideOK(rq, cfg, over)
  BY <1>2, <1>3, <1>4 DEF OverrideOK
<1>6. QED
  BY <1>5 DEF cfg

\* A request under way carries on with what it has to restore.
LEMMA OverrideGoesOn ==
  ASSUME NEW r \in Requests, req \in [Requests -> Request],
         OverrideOK(req, fallback_chain, overlapped),
         NEW new, UnderWay(new), new.saved = req[r].saved,
         UnderWay(req[r]) \/ req[r].saved = None
  PROVE  OverrideOK([req EXCEPT ![r] = new], fallback_chain, overlapped)
<1> DEFINE rq == [req EXCEPT ![r] = new]
<1>1. \A s \in Requests : /\ Overriding(rq[s]) <=> Overriding(req[s])
                         /\ rq[s].saved = req[s].saved
  BY DEF Overriding
<1> HIDE DEF rq
<1>2. OverrideOK(rq, fallback_chain, overlapped)
  BY <1>1 DEF OverrideOK
<1>3. QED
  BY <1>2 DEF rq

\* An override that begins alone saves the configured chain.
LEMMA OverrideBegins ==
  ASSUME NEW r \in Requests, req \in [Requests -> Request], ~ UnderWay(req[r]),
         OverrideOK(req, fallback_chain, overlapped),
         NEW new, UnderWay(new), new.saved = <<fallback_chain>>,
         NEW cfg \in Chain,
         NEW over, over = (overlapped \/ \E s \in Requests : IsOverride(s))
  PROVE  OverrideOK([req EXCEPT ![r] = new], cfg, over)
<1> DEFINE rq == [req EXCEPT ![r] = new]
<1>0. <<fallback_chain>> # None
  BY DEF None
<1>1. Overriding(rq[r]) /\ rq[r].saved = <<fallback_chain>>
  BY <1>0 DEF Overriding
<1>2. \A s \in Requests : s # r => rq[s] = req[s]
  OBVIOUS
<1>3. ASSUME ~ over
      PROVE  /\ fallback_chain = DefaultChain
             /\ \A s \in Requests : s # r => ~ Overriding(rq[s])
  <2>1. \A s \in Requests : ~ Overriding(req[s])
    BY <1>3 DEF IsOverride, Busy, Overriding, UnderWay
  <2>2. QED
    BY <1>2, <1>3, <2>1 DEF OverrideOK
<1> HIDE DEF rq
<1>4. OverrideOK(rq, cfg, over)
  BY <1>1, <1>3 DEF OverrideOK
<1>5. QED
  BY <1>4 DEF rq

-----------------------------------------------------------------------------
(* The inductive invariant. *)

\* What each step of a request has to show.
LEMMA StepKeeps ==
  ASSUME IInv, NEW r \in Requests, NEW new, req' = [req EXCEPT ![r] = new],
         RequestOK(new, breakers'), OpenStays(breakers, breakers'),
         BreakersOK(breakers', failures'),
         OverrideOK(req', fallback_chain', overlapped')
  PROVE  IInv'
<1>1. new \in Request
  BY DEF RequestOK
<1>2. req' \in [Requests -> Request]
  BY <1>1 DEF IInv
<1>3. \A s \in Requests : RequestOK(req'[s], breakers')
  BY RequestKeeps DEF IInv
<1>4. QED
  BY <1>2, <1>3 DEF IInv

\* A request without an override starts with nothing to restore
Fresh(m, chain) == [Idle EXCEPT !.chain = ChainFor(m, chain)]

LEMMA FreshTypes ==
  ASSUME NEW m \in Models, NEW chain \in Chain
  PROVE  /\ Fresh(m, chain) \in Request
         /\ Fresh(m, chain).saved = None
         /\ Fresh(m, chain).failed = {}
<1>1. Idle \in Request
  BY LLMAssumption DEF Idle, Request, None
<1>2. <<m>> \in Seq(Models) /\ \A o \in Overrides : <<o[2]>> \in Seq(Models)
  BY LLMAssumption
<1>3. chain \in Seq(Models)
  BY <1>2, LLMAssumption DEF Chain
<1>4. ChainFor(m, chain) \in Seq(Models)
  BY <1>2, <1>3, ConcatProperties DEF ChainFor
<1>5. QED
  BY <1>1, <1>4 DEF Fresh, Request, Idle

LEMMA InitIInv == Init => IInv
<1> SUFFICES ASSUME Init PROVE IInv
  OBVIOUS
<1>1. Idle \in Request /\ Idle.saved = None /\ Idle.pc = "idle"
  BY LLMAssumption DEF Idle, Request, None
<1>2. req \in [Requests -> Request] /\ \A r \in Requests : RequestOK(req[r], breakers)
  BY <1>1 DEF Init, RequestOK, UnderWay
<1>3. NewBreaker \in Breaker
  BY BreakerAssumption DEF NewBreaker, Breaker, BreakerState
<1>4. BreakersOK(breakers, failures)
  BY <1>3, BreakerAssumption DEF Init, BreakersOK, NewBreaker
<1>5. OverrideOK(req, fallback_chain, overlapped)
  BY <1>1 DEF Init, OverrideOK, Overriding, UnderWay, Chain
<1>6. QED
  BY <1>2, <1>4, <1>5 DEF IInv

\* What a step by which r calls or streams shows besides
Prudent(r) ==
  /\ OpenStays(breakers, breakers')
  /\ \A s \in Requests : s # r => req'[s] = req[s]
  /\ req'[r] \in Request
  /\ UnderWay(req'[r]) =>
       /\ req'[r].i \in DOMAIN req'[r].chain
       /\ breakers'[ProviderOf[req'[r].chain[req'[r].i]]].state # "OPEN"

LEMMA CompleteKeeps ==
  ASSUME IInv, NEW r \in Requests, NEW m \in Primaries, Complete(r, m)
  PROVE  IInv' /\ Prudent(r)
<1> DEFINE q == Fresh(m, fallback_chain)
<1>1. /\ req \in [Requests -> Request] /\ RequestOK(req[r], breakers)
      /\ BreakersOK(breakers, failures)
      /\ OverrideOK(req, fallback_chain, overlapped)
      /\ fallback_chain \in Chain /\ m \in Models
  BY LLMAssumption DEF IInv, OverrideOK
<1>2. q \in Request /\ q.saved = None
  BY <1>1, FreshTypes
<1>3. /\ ~ UnderWay(req[r]) /\ req[r].saved = None
      /\ Proceed(r, q, 1, breakers, fallback_chain)
      /\ failures' = failures /\ overlapped' = overlapped
  BY <1>1 DEF Complete, Busy, UnderWay, RequestOK, Fresh
<1>4. \A k \in DOMAIN q.chain : k < 1 => Overcome(q, k, breakers)
  BY <1>2 DEF Request
<1> HIDE DEF q
<1>5. PICK new :
        /\ req' = [req EXCEPT ![r] = new]
        /\ RequestOK(new, breakers)
        /\ breakers' = breakers
        /\ \/ /\ new.pc = "calling"
              /\ new.saved = q.saved
              /\ fallback_chain' = fallback_chain
              /\ breakers[ProviderOf[new.chain[new.i]]].state # "OPEN"
           \/ /\ ~ UnderWay(new)
              /\ fallback_chain' = Restored(q, fallback_chain)
  BY <1>1, <1>2, <1>3, <1>4, ProceedKeeps
<1>6. OverrideOK(req', fallback_chain', overlapped')
  <2>1. CASE UnderWay(new)
    BY <1>1, <1>2, <1>3, <1>5, <2>1, OverrideGoesOn
  <2>2. CASE ~ UnderWay(new)
    <3>1. fallback_chain' = Restored(req[r], fallback_chain)
      BY <1>2, <1>3, <1>5, <2>2 DEF Restored, UnderWay
    <3>2. QED
      BY <1>1, <1>3, <1>5, <2>2, <3>1, OverrideEnds DEF OverrideOK
  <2>3. QED
    BY <2>1, <2>2
<1>7. OpenStays(breakers, breakers')
  BY <1>5 DEF OpenStays
<1>8. IInv'
  BY <1>1, <1>3, <1>5, <1>6, <1>7, StepKeeps
<1>9. Prudent(r)
  BY <1>1, <1>5, <1>7 DEF Prudent, RequestOK
<1>10. QED
  BY <1>8, <1>9

LEMMA CompleteWithFallbackKeeps ==
  ASSUME IInv, NEW r \in Requests, NEW o \in Overrides,
         CompleteWithFallback(r, o[1], o[2])
  PROVE  IInv' /\ Prudent(r)
<1> DEFINE f == Fresh(o[1], <<o[2]>>)
           q == [f EXCEPT !.saved = <<fallback_chain>>]
<1>1. /\ req \in [Requests -> Request] /\ RequestOK(req[r], breakers)
      /\ BreakersOK(breakers, failures)
      /\ OverrideOK(req, fallback_chain, overlapped)
      /\ fallback_chain \in Chain
      /\ o[1] \in Models /\ <<o[2]>> \in Chain
  BY LLMAssumption DEF IInv, OverrideOK, Chain
<1>2. f \in Request
  BY <1>1, FreshTypes
<1>3. q \in Request /\ q.saved = <<fallback_chain>>
  BY <1>1, <1>2 DEF Request
<1>4. /\ ~ UnderWay(req[r]) /\ req[r].saved = None
      /\ Proceed(r, q, 1, breakers, <<o[2]>>)
      /\ failures' = failures
      /\ overlapped' = (overlapped \/ \E s \in Requests : IsOverride(s))
  <2>1. q = [Idle EXCEPT !.chain = ChainFor(o[1], <<o[2]>>), !.saved = <<fallback_chain>>]
    BY DEF Fresh, Idle
  <2>2. QED
    BY <1>1, <2>1 DEF CompleteWithFallback, Busy, UnderWay, RequestOK
<1>5. \A k \in DOMAIN q.chain : k < 1 => Overcome(q, k, breakers)
  BY <1>3 DEF Request
<1> HIDE DEF q
<1>6. PICK new :
        /\ req' = [req EXCEPT ![r] = new]
        /\ RequestOK(new, breakers)
        /\ breakers' = breakers
        /\ \/ /\ new.pc = "calling"
              /\ new.saved = q.saved
              /\ fallback_chain' = <<o[2]>>
              /\ breakers[ProviderOf[new.chain[new.i]]].state # "OPEN"
           \/ /\ ~ UnderWay(new)
              /\ fallback_chain' = Restored(q, <<o[2]>>)
  BY <1>1, <1>3, <1>4, <1>5, ProceedKeeps
<1>7. overlapped' \in BOOLEAN /\ (overlapped => overlapped')
  BY <1>4
<1>8. OverrideOK(req', fallback_chain', overlapped')
  <2>1. CASE UnderWay(new)
    BY <1>1, <1>3, <1>4, <1>6, <2>1, OverrideBegins
  <2>2. CASE ~ UnderWay(new)
    <3>1. <<fallback_chain>> # None
      BY DEF None
    <3>2. fallback_chain' = Restored(req[r], fallback_chain)
      BY <1>3, <1>4, <1>6, <2>2, <3>1 DEF Restored, UnderWay
    <3>3. QED
      BY <1>1, <1>6, <1>7, <2>2, <3>2, OverrideEnds
  <2>3. QED
    BY <2>1, <2>2
<1>9. OpenStays(breakers, breakers')
  BY <1>6 DEF OpenStays
<1>10. IInv'
  BY <1>1, <1>4, <1>6, <1>8, <1>9, StepKeeps
<1>11. Prudent(r)
  BY <1>1, <1>6, <1>9 DEF Prudent, RequestOK
<1>12. QED
  BY <1>10, <1>11

\* When a model fails, the positions up to its own are behind the request.
LEMMA FailedPosition ==
  ASSUME NEW q, NEW brks, RequestOK(q, brks), UnderWay(q),
         NEW failing, failing = [q EXCEPT !.failed = @ \cup {q.chain[q.i]}]
  PROVE  /\ failing \in Request
         /\ failing.saved = q.saved
         /\ q.i + 1 \in Nat \ {0}
         /\ \A k \in DOMAIN failing.chain : k < q.i + 1 => Overcome(failing, k, brks)
<1>1. q \in Request /\ q.chain \in Seq(Models) /\ q.i \in DOMAIN q.chain
  BY DEF RequestOK, Request
<1>2. q.chain[q.i] \in Models /\ q.i \in Nat
  BY <1>1 DEF Request
<1>3. /\ failing \in Request /\ failing.saved = q.saved /\ failing.chain = q.chain
      /\ failing.failed = q.failed \cup {q.chain[q.i]}
  BY <1>1, <1>2 DEF Request
<1>4. ASSUME NEW k \in DOMAIN q.chain, k < q.i + 1 PROVE Overcome(failing, k, brks)
  <2>1. CASE k = q.i
    BY <1>3, <2>1 DEF Overcome
  <2>2. CASE k # q.i
    <3>1. k \in 1..(q.i - 1)
      BY <1>1, <1>2, <1>4, <2>2
    <3>2. QED
      BY <1>3, <3>1 DEF RequestOK, Overcome
  <2>3. QED
    BY <2>1, <2>2
<1>5. q.i + 1 \in Nat \ {0}
  BY <1>2
<1>6. QED
  BY <1>3, <1>4, <1>5

LEMMA ModelFailsKeeps ==
  ASSUME IInv, NEW r \in Requests, NEW retriable \in BOOLEAN, ModelFails(r, retriable)
  PROVE  IInv' /\ Prudent(r)
<1> DEFINE q == [req[r] EXCEPT !.failed = @ \cup {CurrentModel(r)}]
           b == [breakers EXCEPT ![CurrentProvider(r)] = OnFailure(@)]
           i == req[r].i + 1
<1>1. /\ req \in [Requests -> Request] /\ RequestOK(req[r], breakers)
      /\ BreakersOK(breakers, failures)
      /\ OverrideOK(req, fallback_chain, overlapped)
  BY DEF IInv
<1>2. /\ UnderWay(req[r])
      /\ failures' = [failures EXCEPT ![CurrentProvider(r)] = IncTo(@, FailureThreshold)]
      /\ Proceed(r, q, i, b, fallback_chain)
      /\ overlapped' = overlapped
  BY DEF ModelFails, UnderWay
<1>3. CurrentProvider(r) \in Providers
  BY <1>1, <1>2, LLMAssumption
  DEF CurrentProvider, CurrentModel, RequestOK, Request
<1>4. BreakersOK(b, failures') /\ OpenStays(breakers, b)
  BY <1>1, <1>2, <1>3, FailureKeeps
<1>5. RequestOK(req[r], b)
  BY <1>1, <1>4, RequestKeeps
<1>6. /\ q \in Request /\ q.saved = req[r].saved /\ i \in Nat \ {0}
      /\ \A k \in DOMAIN q.chain : k < i => Overcome(q, k, b)
  BY <1>2, <1>5, FailedPosition DEF CurrentModel
<1> HIDE DEF q, b, i
<1>7. PICK new :
        /\ req' = [req EXCEPT ![r] = new]
        /\ RequestOK(new, b)
        /\ breakers' = b
        /\ \/ /\ new.pc = "calling"
              /\ new.saved = q.saved
              /\ fallback_chain' = fallback_chain
              /\ b[ProviderOf[new.chain[new.i]]].state # "OPEN"
           \/ /\ ~ UnderWay(new)
              /\ fallback_chain' = Restored(q, fallback_chain)
  BY <1>1, <1>2, <1>4, <1>6, ProceedKeeps
<1>8. OverrideOK(req', fallback_chain', overlapped')
  <2>1. CASE UnderWay(new)
    BY <1>1, <1>2, <1>6, <1>7, <2>1, OverrideGoesOn
  <2>2. CASE ~ UnderWay(new)
    <3>1. fallback_chain' = Restored(req[r], fallback_chain)
      BY <1>6, <1>7, <2>2 DEF Restored, UnderWay
    <3>2. QED
      BY <1>1, <1>2, <1>7, <2>2, <3>1, OverrideEnds DEF OverrideOK
  <2>3. QED
    BY <2>1, <2>2
<1>9. IInv'
  BY <1>4, <1>7, <1>8, StepKeeps
<1>10. Prudent(r)
  BY <1>1, <1>4, <1>7 DEF Prudent, RequestOK
<1>11. QED
  BY <1>9, <1>10

\* complete_stream(), from its start or after a model has failed.
LEMMA StreamNextKeeps ==
  ASSUME IInv, NEW r \in Requests, NEW q \in Request, NEW i \in Nat \ {0},
         \A k \in DOMAIN q.chain : k < i => Overcome(q, k, breakers),
         q.saved = None, req[r].saved = None,
         StreamNext(r, q, i)
  PROVE  IInv' /\ Prudent(r)
<1>1. /\ req \in [Requests -> Request] /\ RequestOK(req[r], breakers)
      /\ BreakersOK(breakers, failures)
      /\ OverrideOK(req, fallback_chain, overlapped)
  BY DEF IInv
<1>2. PICK new :
        /\ req' = [req EXCEPT ![r] = new]
        /\ RequestOK(new, breakers)
        /\ \/ /\ new.pc = "streaming"
              /\ new.saved = q.saved
              /\ breakers[ProviderOf[new.chain[new.i]]].state # "OPEN"
           \/ ~ UnderWay(new)
  BY <1>1, StreamKeeps
<1>3. UNCHANGED <<breakers, fallback_chain, failures, overlapped>>
  BY DEF StreamNext
<1>4. OverrideOK(req', fallback_chain', overlapped')
  <2>1. CASE UnderWay(new)
    BY <1>1, <1>2, <1>3, <2>1, OverrideGoesOn
  <2>2. CASE ~ UnderWay(new)
    <3>1. Restored(req[r], fallback_chain) = fallback_chain
      BY DEF Restored
    <3>2. QED
      BY <1>1, <1>2, <1>3, <2>2, <3>1, OverrideEnds DEF OverrideOK
  <2>3. QED
    BY <2>1, <2>2
<1>5. OpenStays(breakers, breakers')
  BY <1>3 DEF OpenStays
<1>6. IInv'
  BY <1>1, <1>2, <1>3, <1>4, <1>5, StepKeeps
<1>7. Prudent(r)
  BY <1>1, <1>2, <1>3, <1>5 DEF Prudent, RequestOK
<1>8. QED
  BY <1>6, <1>7

LEMMA StreamsKeep ==
  ASSUME IInv, NEW r \in Requests,
         (\E m \in Primaries : Stream(r, m)) \/ StreamFails(r)
  PROVE  IInv' /\ Prudent(r)
<1>1. RequestOK(req[r], breakers) /\ fallback_chain \in Chain
  BY DEF IInv, OverrideOK
<1>2. ASSUME NEW m \in Primaries, Stream(r, m) PROVE IInv' /\ Prudent(r)
  <2> DEFINE q == Fresh(m, fallback_chain)
  <2>1. m \in Models
    BY LLMAssumption
  <2>2. q \in Request /\ q.saved = None
    BY <1>1, <2>1, FreshTypes
  <2>3. req[r].saved = None /\ StreamNext(r, q, 1)
    BY <1>1, <1>2 DEF Stream, Busy, RequestOK, Fresh
  <2>4. \A k \in DOMAIN q.chain : k < 1 => Overcome(q, k, breakers)
    BY <2>2 DEF Request
  <2> HIDE DEF q
  <2>5. QED
    BY <2>2, <2>3, <2>4, StreamNextKeeps
<1>3. CASE StreamFails(r)
  <2> DEFINE q == [req[r] EXCEPT !.failed = @ \cup {CurrentModel(r)}]
  <2>1. /\ UnderWay(req[r]) /\ req[r].saved = None
        /\ StreamNext(r, q, req[r].i + 1)
    BY <1>1, <1>3 DEF StreamFails, UnderWay, RequestOK
  <2>2. /\ q \in Request /\ q.saved = None /\ req[r].i + 1 \in Nat \ {0}
        /\ \A k \in DOMAIN q.chain : k < req[r].i + 1 => Overcome(q, k, breakers)
    BY <1>1, <2>1, FailedPosition DEF CurrentModel
  <2> HIDE DEF q
  <2>3. QED
    BY <2>1, <2>2, StreamNextKeeps
<1>4. QED
  BY <1>2, <1>3

\* The request's response, its retries and its cancellation.
LEMMA AnswerKeeps ==
  ASSUME IInv, NEW r \in Requests, Answer(r)
  PROVE  IInv'
<1> DEFINE new == [Idle EXCEPT !.pc = "served"]
<1>1. /\ req \in [Requests -> Request] /\ RequestOK(req[r], breakers)
      /\ BreakersOK(breakers, failures)
      /\ OverrideOK(req, fallback_chain, overlapped)
  BY DEF IInv
<1>2. CurrentProvider(r) \in Providers
  BY <1>1, LLMAssumption
  DEF Answer, UnderWay, CurrentProvider, CurrentModel, RequestOK, Request
<1>3. BreakersOK(breakers', failures') /\ OpenStays(breakers, breakers')
  BY <1>1, <1>2, SuccessKeeps DEF Answer
<1>4. Idle \in Request
  BY LLMAssumption DEF Idle, Request, None
<1>5. new \in Request /\ new.pc = "served" /\ new.saved = None
  BY <1>4 DEF Request, Idle
<1>6. req' = [req EXCEPT ![r] = new]
  BY DEF Answer
<1> HIDE DEF new
<1>7. RequestOK(new, breakers') /\ ~ UnderWay(new)
  BY <1>5 DEF RequestOK, UnderWay
<1>8. OverrideOK(req', fallback_chain', overlapped')
  BY <1>1, <1>6, <1>7, OverrideEnds DEF Answer, OverrideOK
<1>9. QED
  BY <1>3, <1>6, <1>7, <1>8, StepKeeps

LEMMA RetryKeeps ==
  ASSUME IInv, NEW r \in Requests, Retry(r) \/ BackoffOver(r)
  PROVE  IInv' /\ req'[r].pc \in {"calling", "backoff"}
<1> DEFINE new == req'[r]
<1>1. /\ req \in [Requests -> Request] /\ RequestOK(req[r], breakers)
      /\ BreakersOK(breakers, failures)
      /\ OverrideOK(req, fallback_chain, overlapped)
  BY DEF IInv
<1>2. /\ UNCHANGED <<breakers, fallback_chain, failures, overlapped>>
      /\ UnderWay(req[r])
  BY DEF Retry, BackoffOver, UnderWay
<1>3. /\ req' = [req EXCEPT ![r] = new]
      /\ new \in Request /\ new.pc \in {"calling", "backoff"}
      /\ new.chain = req[r].chain /\ new.i = req[r].i
      /\ new.saved = req[r].saved /\ new.failed = req[r].failed
  <2>1. CASE Retry(r)
    <3>1. req[r].attempt + 1 \in 0..MaxRetries
      BY <1>1, <2>1, LLMAssumption DEF Retry, Request
    <3>2. QED
      BY <1>1, <2>1, <3>1 DEF Retry, Request
  <2>2. CASE BackoffOver(r)
    BY <1>1, <2>2 DEF BackoffOver, Request
  <2>3. QED
    BY <2>1, <2>2
<1> HIDE DEF new
<1>4. UnderWay(new)
  BY <1>3 DEF UnderWay
<1>5. RequestOK(new, breakers')
  BY <1>1, <1>2, <1>3, <1>4 DEF RequestOK, Overcome, UnderWay
<1>6. OverrideOK(req', fallback_chain', overlapped')
  BY <1>1, <1>2, <1>3, <1>4, OverrideGoesOn
<1>7. OpenStays(breakers, breakers')
  BY <1>2 DEF OpenStays
<1>8. IInv'
  BY <1>1, <1>2, <1>3, <1>5, <1>6, <1>7, StepKeeps
<1>9. QED
  BY <1>3, <1>8 DEF new

LEMMA EndKeeps ==
  ASSUME IInv, NEW r \in Requests, Cancel(r) \/ StreamEnds(r)
  PROVE  IInv'
<1>1. /\ req \in [Requests -> Request] /\ RequestOK(req[r], breakers)
      /\ BreakersOK(breakers, failures)
      /\ OverrideOK(req, fallback_chain, overlapped)
  BY DEF IInv
<1>2. Idle \in Request /\ Idle.saved = None /\ Idle.pc = "idle"
  BY LLMAssumption DEF Idle, Request, None
<1>3. PICK new \in {Idle, [Idle EXCEPT !.pc = "served"]} : req' = [req EXCEPT ![r] = new]
  BY DEF Cancel, StreamEnds
<1>4. new \in Request /\ new.pc \in {"idle", "served"} /\ new.saved = None
  BY <1>2, <1>3 DEF Request, Idle
<1>5. RequestOK(new, breakers) /\ ~ UnderWay(new)
  BY <1>4 DEF RequestOK, UnderWay
<1>6. /\ UNCHANGED <<breakers, failures, overlapped>>
      /\ fallback_chain' = Restored(req[r], fallback_chain)
  BY <1>1 DEF Cancel, StreamEnds, RequestOK, Restored
<1>7. OverrideOK(req', fallback_chain', overlapped')
  BY <1>1, <1>3, <1>5, <1>6, OverrideEnds DEF OverrideOK
<1>8. OpenStays(breakers, breakers')
  BY <1>6 DEF OpenStays
<1>9. QED
  BY <1>1, <1>3, <1>5, <1>6, <1>7, <1>8, StepKeeps

LEMMA TickKeeps ==
  ASSUME IInv, Tick
  PROVE  IInv'
<1>1. BreakersOK(breakers, failures)
  BY DEF IInv
<1>2. ASSUME NEW p \in Providers
      PROVE  /\ breakers'[p] \in Breaker
             /\ breakers'[p].state = breakers[p].state
             /\ breakers'[p].consecutive_failures = breakers[p].consecutive_failures
  <2>1. breakers[p] \in Breaker
    BY <1>1 DEF BreakersOK
  <2>2. CanAge(breakers[p]) => Aged(breakers[p]) \in Breaker
    BY <2>1, BreakerAssumption DEF CanAge, Aged, IncTo, Breaker, Never
  <2>3. /\ Aged(breakers[p]).state = breakers[p].state
        /\ Aged(breakers[p]).consecutive_failures = breakers[p].consecutive_failures
    BY <2>1 DEF Aged, Breaker
  <2>4. breakers'[p] = IF CanAge(breakers[p]) THEN Aged(breakers[p]) ELSE breakers[p]
    BY DEF Tick
  <2>5. QED
    BY <2>1, <2>2, <2>3, <2>4
<1>3. BreakersOK(breakers', failures')
  BY <1>1, <1>2 DEF Tick, BreakersOK
<1>4. OpenStays(breakers, breakers')
  BY <1>2 DEF OpenStays
<1>5. \A r \in Requests : RequestOK(req[r], breakers')
  BY <1>4, RequestKeeps DEF IInv
<1>6. QED
  BY <1>3, <1>5 DEF Tick, IInv

LEMMA NextIInv == IInv /\ [Next]_vars => IInv'
<1> SUFFICES ASSUME IInv, [Next]_vars PROVE IInv'
  OBVIOUS
<1>1. ASSUME NEW r \in Requests, Start(r) PROVE IInv'
  BY <1>1, CompleteKeeps, CompleteWithFallbackKeeps, StreamsKeep DEF Start
<1>2. ASSUME NEW r \in Requests, Advance(r) PROVE IInv'
  BY <1>2, AnswerKeeps, RetryKeeps, ModelFailsKeeps, EndKeeps, StreamsKeep DEF Advance
<1>3. ASSUME NEW r \in Requests, Cancel(r) PROVE IInv'
  BY <1>3, EndKeeps
<1>4. CASE Tick
  BY <1>4, TickKeeps
<1>5. CASE UNCHANGED vars
  BY <1>5 DEF vars, IInv
<1>6. QED
  BY <1>1, <1>2, <1>3, <1>4, <1>5 DEF Next

\* Every reachable state satisfies the inductive invariant.
THEOREM Invariance == Spec => []IInv
BY InitIInv, NextIInv, PTL DEF Spec

-----------------------------------------------------------------------------
(* The promises. *)

\* The service's state stays within its types.
THEOREM TypeCorrect == Spec => []TypeOK
<1>1. IInv => TypeOK
  BY DEF IInv, TypeOK, BreakersOK, OverrideOK, RequestOK, Busy, UnderWay
<1>2. QED
  BY Invariance, <1>1, PTL

\* A request fails only when each model of its chain has failed or is behind an
\* OPEN breaker (complete()).
THEOREM Exhaustion == Spec => []FailsOnlyWhenExhausted
<1>1. IInv => FailsOnlyWhenExhausted
  <2> SUFFICES ASSUME IInv, NEW r \in Requests, req[r].pc = "failed",
                      NEW j \in DOMAIN req[r].chain
               PROVE  \/ req[r].chain[j] \in req[r].failed
                      \/ breakers[ProviderOf[req[r].chain[j]]].state = "OPEN"
    BY DEF FailsOnlyWhenExhausted
  <2>1. /\ req[r].chain \in Seq(Models)
        /\ \A k \in DOMAIN req[r].chain : Overcome(req[r], k, breakers)
    BY DEF IInv, RequestOK, Request
  <2>2. 1 \in DOMAIN req[r].chain
    BY <2>1
  <2>3. QED
    BY <2>1, <2>2 DEF Overcome
<1>2. QED
  BY Invariance, <1>1, PTL

\* A breaker opens on as many models given up as its threshold says, retries
\* not counted (_on_failure, RetryWithBackoff).
THEOREM Earned == Spec => []TripsAreEarned
<1>1. IInv => TripsAreEarned
  BY DEF IInv, BreakersOK, TripsAreEarned
<1>2. QED
  BY Invariance, <1>1, PTL

\* Overrides that never overlap leave the configured chain behind
\* (complete_with_fallback()).
THEOREM Undone == Spec => []SoloOverrideIsUndone
<1>1. IInv => SoloOverrideIsUndone
  BY DEF IInv, OverrideOK, SoloOverrideIsUndone, IsOverride, Busy, Overriding, UnderWay
<1>2. QED
  BY Invariance, <1>1, PTL

\* No model is called or streamed from while its provider's breaker is OPEN
\* (complete(), complete_stream()).
THEOREM Skipped == Spec => OpenProvidersAreSkipped
<1> DEFINE Step ==
      \A r \in Requests :
        (/\ req'[r] # req[r]
         /\ req'[r].pc \in {"calling", "streaming"}
         /\ req[r].pc # "backoff")
        => LET p == ProviderOf[req'[r].chain[req'[r].i]]
           IN  breakers[p].state # "OPEN" /\ breakers'[p].state # "OPEN"
<1>1. ASSUME IInv, NEW r \in Requests, Prudent(r) PROVE Step
  <2>1. UnderWay(req'[r]) =>
          ProviderOf[req'[r].chain[req'[r].i]] \in Providers
    BY <1>1, LLMAssumption DEF Prudent, Request
  <2>2. QED
    BY <1>1, <2>1 DEF Prudent, OpenStays, UnderWay
<1>2. IInv /\ [Next]_vars => [Step]_vars
  <2> SUFFICES ASSUME IInv, Next PROVE Step
    OBVIOUS
  <2>1. req \in [Requests -> Request]
    BY DEF IInv
  <2>2. ASSUME NEW r \in Requests, Start(r) PROVE Step
    BY <1>1, <2>2, CompleteKeeps, CompleteWithFallbackKeeps, StreamsKeep DEF Start
  <2>3. ASSUME NEW r \in Requests, ModelFails(r, TRUE) \/ ModelFails(r, FALSE) PROVE Step
    BY <1>1, <2>3, ModelFailsKeeps
  <2>4. ASSUME NEW r \in Requests, StreamFails(r) PROVE Step
    BY <1>1, <2>4, StreamsKeep
  <2>5. ASSUME NEW r \in Requests, Answer(r) \/ StreamEnds(r) \/ Cancel(r) PROVE Step
    BY <2>1, <2>5 DEF Answer, StreamEnds, Cancel, Idle
  <2>6. ASSUME NEW r \in Requests, Retry(r) PROVE Step
    BY <2>1, <2>6 DEF Retry, Request
  <2>7. ASSUME NEW r \in Requests, BackoffOver(r) PROVE Step
    BY <2>1, <2>7 DEF BackoffOver
  <2>8. CASE Tick
    BY <2>8 DEF Tick
  <2>9. QED
    BY <2>2, <2>3, <2>4, <2>5, <2>6, <2>7, <2>8 DEF Next, Advance
<1>3. QED
  BY Invariance, <1>2, PTL DEF Spec, OpenProvidersAreSkipped

-----------------------------------------------------------------------------
(* What becomes of the breakers and of a request, over any number of steps. *)

\* The loop finds a position from i on whose breaker is not OPEN, or raises.
LEMMA FirstFromHere ==
  ASSUME NEW q \in Request, NEW brks, NEW i \in Nat \ {0}
  PROVE  \A j \in First(Usable(q.chain, i, brks)) :
           /\ j \in DOMAIN q.chain /\ j \in Nat /\ j >= i
           /\ ProviderOf[q.chain[j]] \in Providers
           /\ brks[ProviderOf[q.chain[j]]].state # "OPEN"
<1>1. q.chain \in Seq(Models) /\ Len(q.chain) \in Nat /\ DOMAIN q.chain = 1..Len(q.chain)
  BY DEF Request
<1>2. ASSUME NEW j \in First(Usable(q.chain, i, brks))
      PROVE  /\ j \in DOMAIN q.chain /\ j \in Nat /\ j >= i
             /\ brks[ProviderOf[q.chain[j]]].state # "OPEN"
  BY <1>1, <1>2 DEF First, Usable
<1>3. \A j \in DOMAIN q.chain : ProviderOf[q.chain[j]] \in Providers
  BY <1>1, LLMAssumption
<1>4. QED
  BY <1>2, <1>3

\* Where the loop takes request r that stood at q: to a call further on in the
\* same chain, or to its end.
Onward(r, q, i, pc, brks) ==
  /\ \A s \in Requests : s # r => req'[s] = req[s]
  /\ \/ req'[r].pc = "failed"
     \/ /\ req'[r].pc = pc
        /\ req'[r].chain = q.chain /\ req'[r].saved = q.saved
        /\ req'[r].i \in Nat /\ req'[r].i >= i
        /\ brks[ProviderOf[req'[r].chain[req'[r].i]]].state # "OPEN"
        /\ ProviderOf[req'[r].chain[req'[r].i]] \in Providers

LEMMA ProceedMoves ==
  ASSUME NEW r \in Requests, req \in [Requests -> Request],
         NEW brks, NEW failed, BreakersOK(brks, failed), NEW cfg,
         NEW q \in Request, NEW i \in Nat \ {0},
         Proceed(r, q, i, brks, cfg)
  PROVE  breakers' = brks /\ Onward(r, q, i, "calling", brks)
<1>1. CASE CallNext(r, q, i, brks, cfg)
  <2>1. PICK j \in First(Usable(q.chain, i, brks)) :
          /\ req' = [req EXCEPT ![r] = [q EXCEPT !.pc = "calling", !.i = j, !.attempt = 0]]
          /\ breakers' = [brks EXCEPT ![ProviderOf[q.chain[j]]] = Admitted(@)]
    BY <1>1 DEF CallNext
  <2>2. /\ j \in DOMAIN q.chain /\ j \in Nat /\ j >= i
        /\ ProviderOf[q.chain[j]] \in Providers
        /\ brks[ProviderOf[q.chain[j]]].state # "OPEN"
    BY FirstFromHere
  <2>3. breakers' = brks
    BY <2>1, <2>2, AdmittedKeeps
  <2>4. /\ req'[r].pc = "calling" /\ req'[r].chain = q.chain
        /\ req'[r].saved = q.saved /\ req'[r].i = j
        /\ \A s \in Requests : s # r => req'[s] = req[s]
    BY <2>1 DEF Request
  <2>5. QED
    BY <2>2, <2>3, <2>4 DEF Onward
<1>2. CASE GiveUp(r, q, i, brks, cfg)
  BY <1>2 DEF GiveUp, Onward, Raised, Idle
<1>3. QED
  BY <1>1, <1>2 DEF Proceed

LEMMA StreamMoves ==
  ASSUME NEW r \in Requests, req \in [Requests -> Request],
         NEW q \in Request, NEW i \in Nat \ {0},
         StreamNext(r, q, i)
  PROVE  breakers' = breakers /\ Onward(r, q, i, "streaming", breakers)
<1>1. ASSUME NEW j \in First(Usable(q.chain, i, breakers)),
             req' = [req EXCEPT ![r] = [q EXCEPT !.pc = "streaming", !.i = j]]
      PROVE  Onward(r, q, i, "streaming", breakers)
  <2>1. /\ j \in DOMAIN q.chain /\ j \in Nat /\ j >= i
        /\ ProviderOf[q.chain[j]] \in Providers
        /\ breakers[ProviderOf[q.chain[j]]].state # "OPEN"
    BY FirstFromHere
  <2>2. /\ req'[r].pc = "streaming" /\ req'[r].chain = q.chain
        /\ req'[r].saved = q.saved /\ req'[r].i = j
        /\ \A s \in Requests : s # r => req'[s] = req[s]
    BY <1>1 DEF Request
  <2>3. QED
    BY <2>1, <2>2 DEF Onward
<1>2. ASSUME req' = [req EXCEPT ![r] = Raised(q)]
      PROVE  Onward(r, q, i, "streaming", breakers)
  BY <1>2 DEF Onward, Raised, Idle
<1>3. QED
  BY <1>1, <1>2 DEF StreamNext

\* A request that starts is one that was not under way; it is called, streams
\* or fails, and moves no breaker.
LEMMA StartMoves ==
  ASSUME IInv, NEW r \in Requests, Start(r)
  PROVE  /\ ~ Busy(r)
         /\ breakers' = breakers
         /\ \E q \in Request, pc \in {"calling", "streaming"} :
              Onward(r, q, 1, pc, breakers)
<1>1. /\ req \in [Requests -> Request] /\ BreakersOK(breakers, failures)
      /\ fallback_chain \in Chain
  BY DEF IInv, OverrideOK
<1>2. ASSUME NEW m \in Primaries, Complete(r, m) \/ Stream(r, m)
      PROVE  /\ breakers' = breakers
             /\ \E q \in Request, pc \in {"calling", "streaming"} :
                  Onward(r, q, 1, pc, breakers)
  <2> DEFINE q == Fresh(m, fallback_chain)
  <2>1. q \in Request
    BY <1>1, FreshTypes, LLMAssumption
  <2>2. \/ Proceed(r, q, 1, breakers, fallback_chain)
        \/ StreamNext(r, q, 1)
    BY <1>2 DEF Complete, Stream, Fresh
  <2> HIDE DEF q
  <2>3. CASE Proceed(r, q, 1, breakers, fallback_chain)
    BY <1>1, <2>1, <2>3, ProceedMoves
  <2>4. CASE StreamNext(r, q, 1)
    BY <1>1, <2>1, <2>4, StreamMoves
  <2>5. QED
    BY <2>2, <2>3, <2>4
<1>3. ASSUME NEW o \in Overrides, CompleteWithFallback(r, o[1], o[2])
      PROVE  /\ breakers' = breakers
             /\ \E q \in Request, pc \in {"calling", "streaming"} :
                  Onward(r, q, 1, pc, breakers)
  <2> DEFINE f == Fresh(o[1], <<o[2]>>)
             q == [f EXCEPT !.saved = <<fallback_chain>>]
  <2>1. o[1] \in Models /\ <<o[2]>> \in Chain
    BY LLMAssumption DEF Chain
  <2>2. f \in Request
    BY <2>1, FreshTypes
  <2>3. q \in Request
    BY <1>1, <2>2 DEF Request
  <2>4. q = [Idle EXCEPT !.chain = ChainFor(o[1], <<o[2]>>), !.saved = <<fallback_chain>>]
    BY DEF Fresh, Idle
  <2>5. Proceed(r, q, 1, breakers, <<o[2]>>)
    BY <1>3, <2>4 DEF CompleteWithFallback
  <2> HIDE DEF q
  <2>6. QED
    BY <1>1, <2>3, <2>5, ProceedMoves
<1>4. ~ Busy(r)
  BY DEF Start, Complete, CompleteWithFallback, Stream
<1>5. QED
  BY <1>2, <1>3, <1>4 DEF Start

\* A model given up: its breaker hears of the failure, and the request goes on
\* behind the failed position.
LEMMA ModelFailsMoves ==
  ASSUME IInv, NEW r \in Requests, NEW retriable \in BOOLEAN, ModelFails(r, retriable)
  PROVE  LET p == CurrentProvider(r)
             b == [breakers EXCEPT ![p] = OnFailure(@)]
         IN  /\ p \in Providers
             /\ breakers' = b
             /\ req[r].i + 1 \in Nat \ {0}
             /\ OpenStays(breakers, b)
             /\ Onward(r, req[r], req[r].i + 1, "calling", b)
<1> DEFINE p == CurrentProvider(r)
           b == [breakers EXCEPT ![p] = OnFailure(@)]
           q == [req[r] EXCEPT !.failed = @ \cup {CurrentModel(r)}]
           i == req[r].i + 1
<1>1. /\ req \in [Requests -> Request] /\ RequestOK(req[r], breakers)
      /\ BreakersOK(breakers, failures)
  BY DEF IInv
<1>2. /\ UnderWay(req[r])
      /\ Proceed(r, q, i, b, fallback_chain)
  BY DEF ModelFails, UnderWay
<1>3. p \in Providers
  BY <1>1, <1>2, LLMAssumption
  DEF CurrentProvider, CurrentModel, RequestOK, Request
<1>4. /\ BreakersOK(b, [failures EXCEPT ![p] = IncTo(@, FailureThreshold)])
      /\ OpenStays(breakers, b)
  BY <1>1, <1>3, FailureKeeps
<1>5. q \in Request /\ i \in Nat \ {0} /\ q.saved = req[r].saved
  BY <1>1, <1>2, FailedPosition DEF CurrentModel
<1>6. q.chain = req[r].chain
  BY <1>1 DEF Request
<1> HIDE DEF q, b, i
<1>7. breakers' = b /\ Onward(r, q, i, "calling", b)
  BY <1>1, <1>2, <1>4, <1>5, ProceedMoves
<1>8. Onward(r, req[r], i, "calling", b)
  BY <1>5, <1>6, <1>7 DEF Onward
<1>9. QED
  BY <1>3, <1>4, <1>5, <1>7, <1>8 DEF b, i

\* A stream that fails goes on behind the failed position, and tells no breaker.
LEMMA StreamFailsMoves ==
  ASSUME IInv, NEW r \in Requests, StreamFails(r)
  PROVE  /\ breakers' = breakers
         /\ req[r].i + 1 \in Nat \ {0}
         /\ Onward(r, req[r], req[r].i + 1, "streaming", breakers)
<1> DEFINE q == [req[r] EXCEPT !.failed = @ \cup {CurrentModel(r)}]
           i == req[r].i + 1
<1>1. /\ req \in [Requests -> Request] /\ RequestOK(req[r], breakers)
      /\ UnderWay(req[r]) /\ StreamNext(r, q, i)
  BY DEF IInv, StreamFails, UnderWay
<1>2. q \in Request /\ i \in Nat \ {0} /\ q.saved = req[r].saved
  BY <1>1, FailedPosition DEF CurrentModel
<1>3. q.chain = req[r].chain
  BY <1>1 DEF Request
<1> HIDE DEF q, i
<1>4. breakers' = breakers /\ Onward(r, q, i, "streaming", breakers)
  BY <1>1, <1>2, StreamMoves
<1>5. QED
  BY <1>2, <1>3, <1>4 DEF Onward, i

\* A move onward is no move at all for a chain all of whose breakers are OPEN.
LEMMA NoWayOnward ==
  ASSUME NEW r \in Requests, NEW q, NEW i, NEW pc, NEW brks,
         \A p \in Providers : brks[p].state = "OPEN",
         Onward(r, q, i, pc, brks)
  PROVE  req'[r].pc = "failed" /\ \A s \in Requests : s # r => req'[s] = req[s]
BY DEF Onward

-----------------------------------------------------------------------------

\* The only move a breaker of this service makes, and the request that makes it
Trip(p) ==
  /\ breakers[p].state = "CLOSED" /\ breakers'[p].state = "OPEN"
  /\ \E r \in Requests, retriable \in BOOLEAN :
       ModelFails(r, retriable) /\ CurrentProvider(r) = p

BreakersOnlyTrip ==
  [][\A p \in Providers : breakers'[p].state # breakers[p].state => Trip(p)]_vars

\* No breaker of the service is ever HALF_OPEN
NeverProbes(brks) == \A p \in Providers : brks[p].state # "HALF_OPEN"

LEMMA BreakerSteps ==
  ASSUME IInv, NeverProbes(breakers), [Next]_vars
  PROVE  \A p \in Providers : breakers'[p].state # breakers[p].state => Trip(p)
<1>1. BreakersOK(breakers, failures) /\ req \in [Requests -> Request]
  BY DEF IInv
<1>2. \A p \in Providers : breakers[p] \in Breaker /\ breakers[p].state \in {"CLOSED", "OPEN"}
  BY <1>1 DEF BreakersOK, NeverProbes, Breaker, BreakerState
<1>3. ASSUME NEW r \in Requests, Start(r) \/ StreamFails(r) \/ Retry(r)
                                 \/ BackoffOver(r) \/ StreamEnds(r) \/ Cancel(r)
      PROVE  breakers' = breakers
  <2>1. CASE Start(r)
    BY <2>1, StartMoves
  <2>2. CASE StreamFails(r)
    BY <2>2, StreamFailsMoves
  <2>3. QED
    BY <1>3, <2>1, <2>2 DEF Retry, BackoffOver, StreamEnds, Cancel
<1>4. ASSUME NEW r \in Requests, Answer(r), NEW p \in Providers
      PROVE  breakers'[p].state = breakers[p].state
  <2>1. OnSuccess(breakers[p]).state = breakers[p].state
    BY <1>2 DEF OnSuccess
  <2>2. breakers'[p] \in {breakers[p], OnSuccess(breakers[p])}
    BY <1>1, <1>4 DEF Answer, BreakersOK
  <2>3. QED
    BY <2>1, <2>2
<1>5. ASSUME NEW r \in Requests, NEW retriable \in BOOLEAN, ModelFails(r, retriable),
             NEW p \in Providers, breakers'[p].state # breakers[p].state
      PROVE  Trip(p)
  <2>1. /\ breakers' = [breakers EXCEPT ![CurrentProvider(r)] = OnFailure(@)]
        /\ CurrentProvider(r) \in Providers
    BY <1>5, ModelFailsMoves
  <2>2. p = CurrentProvider(r) /\ breakers'[p] = OnFailure(breakers[p])
    BY <1>1, <1>5, <2>1 DEF BreakersOK
  <2>3. OnFailure(breakers[p]).state \in {"OPEN", breakers[p].state}
    BY DEF OnFailure
  <2>4. QED
    BY <1>2, <1>5, <2>2, <2>3 DEF Trip
<1>6. ASSUME Tick, NEW p \in Providers
      PROVE  breakers'[p].state = breakers[p].state
  <2>1. Aged(breakers[p]).state = breakers[p].state
    BY <1>2 DEF Aged, Breaker
  <2>2. QED
    BY <1>6, <2>1 DEF Tick
<1>7. CASE UNCHANGED vars
  BY <1>7 DEF vars
<1>8. QED
  BY <1>3, <1>4, <1>5, <1>6, <1>7 DEF Next, Advance

\* A breaker that the service keeps is never HALF_OPEN (_is_circuit_open stands
\* in front of CircuitBreaker.call).
THEOREM NoProbes == Spec => []NeverProbes(breakers)
<1>1. Init => NeverProbes(breakers)
  BY DEF Init, NeverProbes, NewBreaker
<1>2. IInv /\ NeverProbes(breakers) /\ [Next]_vars => NeverProbes(breakers)'
  BY BreakerSteps DEF NeverProbes, Trip
<1>3. QED
  BY Invariance, <1>1, <1>2, PTL DEF Spec

\* The service's breakers move in one direction, from CLOSED to OPEN, when a
\* request gives a model of that provider up (complete()).
THEOREM OnlyTrips == Spec => BreakersOnlyTrip
<1>1. IInv /\ NeverProbes(breakers) /\ [Next]_vars
        => [\A p \in Providers : breakers'[p].state # breakers[p].state => Trip(p)]_vars
  BY BreakerSteps
<1>2. QED
  BY Invariance, NoProbes, <1>1, PTL DEF Spec, BreakersOnlyTrip

\* A provider whose breaker has opened is not tried again, at any later time:
\* circuit_recovery_timeout has no effect on the service, because what would
\* test it, CircuitBreaker.call, is never reached (complete()).
THEOREM OpenForGood ==
  ASSUME NEW p \in Providers
  PROVE  Spec => []((breakers[p].state = "OPEN") => [](breakers[p].state = "OPEN"))
<1>1. IInv /\ NeverProbes(breakers) /\ breakers[p].state = "OPEN" /\ [Next]_vars
        => (breakers[p].state = "OPEN")'
  BY BreakerSteps DEF Trip
<1>2. QED
  BY Invariance, NoProbes, <1>1, PTL DEF Spec

-----------------------------------------------------------------------------

Outage == \A p \in Providers : breakers[p].state = "OPEN"

\* Only what was in flight when the outage became complete still runs: a
\* request that starts, or moves on from its model, fails in that same step
OutageStartsNothing ==
  [][Outage =>
       \A r \in Requests :
         \/ req'[r] = req[r]
         \/ req'[r].pc \in {"failed", "served", "idle"}
         \/ /\ req[r].pc \in {"calling", "backoff"}
            /\ req'[r].pc \in {"calling", "backoff"} \ {req[r].pc}
            /\ req'[r].chain = req[r].chain /\ req'[r].i = req[r].i]_vars

\* Once every breaker is OPEN no provider is called for a new request or for a
\* further model, whatever the chain (complete(), complete_stream()).
THEOREM NothingInOutage == Spec => OutageStartsNothing
<1> DEFINE Quiet(r) ==
      \/ req'[r] = req[r]
      \/ req'[r].pc \in {"failed", "served", "idle"}
      \/ /\ req[r].pc \in {"calling", "backoff"}
         /\ req'[r].pc \in {"calling", "backoff"} \ {req[r].pc}
         /\ req'[r].chain = req[r].chain /\ req'[r].i = req[r].i
<1>1. IInv /\ [Next]_vars => [Outage => \A r \in Requests : Quiet(r)]_vars
  <2> SUFFICES ASSUME IInv, Next, Outage PROVE \A r \in Requests : Quiet(r)
    OBVIOUS
  <2>1. req \in [Requests -> Request]
    BY DEF IInv
  <2>2. ASSUME NEW s \in Requests, Start(s) \/ StreamFails(s)
        PROVE  req'[s].pc = "failed" /\ \A r \in Requests : r # s => req'[r] = req[r]
    BY <2>2, StartMoves, StreamFailsMoves, NoWayOnward DEF Outage
  <2>3. ASSUME NEW s \in Requests, NEW retriable \in BOOLEAN, ModelFails(s, retriable)
        PROVE  req'[s].pc = "failed" /\ \A r \in Requests : r # s => req'[r] = req[r]
    <3> DEFINE b == [breakers EXCEPT ![CurrentProvider(s)] = OnFailure(@)]
    <3>1. OpenStays(breakers, b) /\ Onward(s, req[s], req[s].i + 1, "calling", b)
      BY <2>3, ModelFailsMoves
    <3> HIDE DEF b
    <3>2. \A p \in Providers : b[p].state = "OPEN"
      BY <3>1 DEF OpenStays, Outage
    <3>3. QED
      BY <3>1, <3>2, NoWayOnward
  <2>4. ASSUME NEW s \in Requests, Answer(s) \/ StreamEnds(s) \/ Cancel(s)
        PROVE  /\ req'[s].pc \in {"served", "idle"}
               /\ \A r \in Requests : r # s => req'[r] = req[r]
    BY <2>1, <2>4 DEF Answer, StreamEnds, Cancel, Idle
  <2>5. ASSUME NEW s \in Requests, Retry(s) \/ BackoffOver(s)
        PROVE  Quiet(s) /\ \A r \in Requests : r # s => req'[r] = req[r]
    BY <2>1, <2>5 DEF Retry, BackoffOver, Request
  <2>6. CASE Tick
    BY <2>6 DEF Tick
  <2>7. QED
    BY <2>2, <2>3, <2>4, <2>5, <2>6 DEF Next, Advance
<1>2. QED
  BY Invariance, <1>1, PTL DEF Spec, OutageStartsNothing

-----------------------------------------------------------------------------

\* n is behind q on the way through the same chain, with the same override to
\* undo: at a later model, or in a further attempt at the same one
Further(q, n) ==
  /\ n.chain = q.chain /\ n.saved = q.saved
  /\ \/ n.i > q.i
     \/ /\ n.i = q.i
        /\ \/ q.pc = "calling" /\ n.pc = "backoff" /\ n.attempt = q.attempt + 1
           \/ q.pc = "backoff" /\ n.pc = "calling" /\ n.attempt = q.attempt

WalksForward ==
  [][\A r \in Requests :
       UnderWay(req[r]) /\ UnderWay(req'[r]) /\ req'[r] # req[r]
         => Further(req[r], req'[r])]_vars

\* No step takes a request back: with i within the chain and attempt within
\* MaxRetries (TypeOK), every request is in flight for a bounded number of
\* provider calls, whatever the others do to chain and breakers meanwhile.
THEOREM Forward == Spec => WalksForward
<1> DEFINE Step(r) == UnderWay(req[r]) /\ UnderWay(req'[r]) /\ req'[r] # req[r]
                        => Further(req[r], req'[r])
<1>1. IInv /\ [Next]_vars => [\A r \in Requests : Step(r)]_vars
  <2> SUFFICES ASSUME IInv, Next PROVE \A r \in Requests : Step(r)
    OBVIOUS
  <2>1. /\ req \in [Requests -> Request]
        /\ \A r \in Requests : req[r].i \in Nat
    BY DEF IInv, Request
  <2>2. ASSUME NEW s \in Requests, Start(s)
        PROVE  Step(s) /\ \A r \in Requests : r # s => req'[r] = req[r]
    BY <2>2, StartMoves DEF Busy, UnderWay, Onward
  <2>3. ASSUME NEW s \in Requests, NEW retriable \in BOOLEAN, ModelFails(s, retriable)
        PROVE  Step(s) /\ \A r \in Requests : r # s => req'[r] = req[r]
    <3> DEFINE b == [breakers EXCEPT ![CurrentProvider(s)] = OnFailure(@)]
    <3>1. Onward(s, req[s], req[s].i + 1, "calling", b)
      BY <2>3, ModelFailsMoves
    <3> HIDE DEF b
    <3>2. QED
      BY <2>1, <3>1 DEF Onward, UnderWay, Further
  <2>4. ASSUME NEW s \in Requests, StreamFails(s)
        PROVE  Step(s) /\ \A r \in Requests : r # s => req'[r] = req[r]
    BY <2>1, <2>4, StreamFailsMoves DEF Onward, UnderWay, Further
  <2>5. ASSUME NEW s \in Requests, Retry(s) \/ BackoffOver(s)
        PROVE  Step(s) /\ \A r \in Requests : r # s => req'[r] = req[r]
    BY <2>1, <2>5 DEF Retry, BackoffOver, Request, Further
  <2>6. ASSUME NEW s \in Requests, Answer(s) \/ StreamEnds(s) \/ Cancel(s)
        PROVE  Step(s) /\ \A r \in Requests : r # s => req'[r] = req[r]
    BY <2>1, <2>6 DEF Answer, StreamEnds, Cancel, Idle, UnderWay
  <2>7. CASE Tick
    BY <2>7 DEF Tick
  <2>8. QED
    BY <2>2, <2>3, <2>4, <2>5, <2>6, <2>7 DEF Next, Advance
<1>2. QED
  BY Invariance, <1>1, PTL DEF Spec, WalksForward
=============================================================================
