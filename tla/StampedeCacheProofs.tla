------------------------- MODULE StampedeCacheProofs -------------------------
(***************************************************************************)
(* What the cache with stampede protection promises, for any number of     *)
(* callers and keys: it implements SingleFlight, and no wake-up is lost.   *)
(*                                                                         *)
(* Two facts carry the proof.  _loading names exactly the callers that     *)
(* load outside the lock, each under the key it asks for (Registered); and *)
(* a caller that has been woken, or loads under the lock, finds its key    *)
(* registered to no one, since registering takes the lock (Unregistered).  *)
(* So the calls that load a key exclude each other, whichever way they     *)
(* began.  Loaders that cancelled calls have left in threads exclude       *)
(* nobody: they are strays of SingleFlight.                                *)
(***************************************************************************)
EXTENDS StampedeCache, SequenceTheorems, TLAPS

Registered ==
  /\ \A c \in Callers : status[c] = "loading" => loading[key[c]] = c
  /\ \A k \in Keys : loading[k] # None =>
       status[loading[k]] = "loading" /\ key[loading[k]] = k

Unregistered ==
  \A c \in Callers : status[c] \in {"woken", "reloading"} => loading[key[c]] = None

Awaited == \A c \in Callers : status[c] = "waiting" => loading[key[c]] # None

IInv ==
  /\ TypeOK
  /\ Registered
  /\ Unregistered
  /\ Awaited

-----------------------------------------------------------------------------
(* The inductive invariant. *)

LEMMA InitIInv == Init => IInv
<1> SUFFICES ASSUME Init PROVE IInv
  OBVIOUS
<1>1. entry \in [Keys -> {"none", "value", "error"}] /\ late \in BOOLEAN
  BY DEF Init
<1>2. QED
  BY <1>1, CacheAssumption DEF Init, IInv, TypeOK, Registered, Unregistered, Awaited

\* The queue keeps its type when its head or one in the middle leaves it.
LEMMA QueueTypes ==
  ASSUME TypeOK
  PROVE  /\ \A c \in Callers : Append(queue, c) \in Seq(Callers)
         /\ queue # <<>> => Tail(queue) \in Seq(Callers)
         /\ \A i \in 1..Len(queue) :
              SubSeq(queue, 1, i - 1) \o SubSeq(queue, i + 1, Len(queue)) \in Seq(Callers)
BY DEF TypeOK

\* Asking for the lock, and giving up, keep it.
LEMMA QueueIInv ==
  ASSUME IInv, NEW c \in Callers,
         CancelQueued(c) \/ FindEntry(c) \/ \E k \in Keys : Miss(c, k)
  PROVE  IInv'
<1> USE DEF IInv, Become
<1>1. CASE \E k \in Keys : Miss(c, k)
  <2>1. TypeOK'
    BY <1>1, QueueTypes, CacheAssumption DEF Miss, TypeOK
  <2>2. \A d \in Callers : d # c => status'[d] = status[d] /\ key'[d] = key[d]
    BY <1>1 DEF Miss, TypeOK
  <2>3. status[c] = "idle" /\ status'[c] = "queued" /\ UNCHANGED loading
    BY <1>1 DEF Miss, TypeOK
  <2>4. Registered'
    BY <2>2, <2>3 DEF TypeOK, Registered
  <2>5. Unregistered' /\ Awaited'
    BY <2>2, <2>3 DEF TypeOK, Unregistered, Awaited
  <2>6. QED
    BY <2>1, <2>4, <2>5
<1>2. CASE CancelQueued(c) \/ FindEntry(c)
  <2>1. status[c] = "queued" /\ status'[c] = "idle" /\ UNCHANGED <<entry, late, loading, lock, key>>
    BY <1>2 DEF CancelQueued, FindEntry, Granted, TypeOK
  <2>2. \A d \in Callers : d # c => status'[d] = status[d]
    BY <1>2 DEF CancelQueued, FindEntry, TypeOK
  <2>3. queue' \in Seq(Callers)
    BY <1>2, QueueTypes DEF CancelQueued, FindEntry, Granted
  <2>4. status' \in [Callers ->
          {"idle", "queued", "waiting", "woken", "loading", "reloading", "abandoned"}]
    BY <1>2 DEF CancelQueued, FindEntry, TypeOK
  <2>5. TypeOK'
    BY <2>1, <2>2, <2>3, <2>4 DEF TypeOK
  <2>6. Registered' /\ Unregistered' /\ Awaited'
    BY <2>1, <2>2 DEF TypeOK, Registered, Unregistered, Awaited
  <2>7. QED
    BY <2>5, <2>6
<1>3. QED
  BY <1>1, <1>2

\* Using the lock keeps it, and so does the end of an abandoned load.
LEMMA LockIInv ==
  ASSUME IInv, NEW c \in Callers,
         \/ AwaitLoader(c) \/ StartLoad(c)
         \/ WakeToEntry(c) \/ WakeToLoad(c) \/ CancelWaiting(c) \/ ThreadEnds(c)
  PROVE  IInv'
<1> USE CacheAssumption DEF IInv, Become
<1>1. CASE AwaitLoader(c)
  <2>1. TypeOK'
    BY <1>1, QueueTypes DEF AwaitLoader, Granted, TypeOK
  <2>2. Registered' /\ Unregistered' /\ Awaited'
    BY <1>1 DEF AwaitLoader, Granted, TypeOK, Registered, Unregistered, Awaited
  <2>3. QED
    BY <2>1, <2>2
<1>2. CASE StartLoad(c)
  <2>1. TypeOK'
    BY <1>2, QueueTypes DEF StartLoad, Granted, TypeOK
  <2>2. \A d \in Callers : status[d] \notin {"woken", "reloading"}
    BY <1>2 DEF StartLoad, Granted, TypeOK
  <2>3. Unregistered' /\ Awaited'
    BY <1>2, <2>2 DEF StartLoad, TypeOK, Unregistered, Awaited
  <2>4. Registered'
    BY <1>2 DEF StartLoad, Granted, TypeOK, Registered
  <2>5. QED
    BY <2>1, <2>3, <2>4
<1>3. CASE WakeToEntry(c) \/ WakeToLoad(c) \/ CancelWaiting(c)
  <2>1. TypeOK'
    BY <1>3 DEF WakeToEntry, WakeToLoad, CancelWaiting, TypeOK
  <2>2. Registered' /\ Unregistered' /\ Awaited'
    BY <1>3 DEF WakeToEntry, WakeToLoad, CancelWaiting, TypeOK, Registered, Unregistered, Awaited
  <2>3. QED
    BY <2>1, <2>2
<1>4. CASE ThreadEnds(c)
  <2>1. TypeOK'
    BY <1>4 DEF ThreadEnds, TypeOK
  <2>2. Registered' /\ Unregistered' /\ Awaited'
    BY <1>4 DEF ThreadEnds, TypeOK, Registered, Unregistered, Awaited
  <2>3. QED
    BY <2>1, <2>2
<1>5. QED
  BY <1>1, <1>2, <1>3, <1>4

\* The end of a load keeps it.
LEMMA LoadIInv ==
  ASSUME IInv, NEW c \in Callers, Loaded(c) \/ CancelLoad(c)
  PROVE  IInv'
<1> USE CacheAssumption DEF IInv
<1>1. /\ UNCHANGED <<queue, key>>
      /\ entry' \in [Keys -> {"none", "value", "error"}]
      /\ late' \in BOOLEAN
  BY DEF Loaded, CancelLoad, TypeOK
<1>2. PICK where \in {"idle", "abandoned"} : Leave(c, where)
  BY DEF Loaded, CancelLoad
<1>3. CASE status[c] = "reloading"
  <2>1. /\ lock' = None /\ lock = c /\ UNCHANGED loading
        /\ status' = [status EXCEPT ![c] = where]
    BY <1>2, <1>3 DEF Leave, Become, TypeOK
  <2>2. TypeOK'
    BY <1>1, <2>1 DEF TypeOK
  <2>3. Registered' /\ Unregistered' /\ Awaited'
    BY <1>1, <1>3, <2>1 DEF TypeOK, Registered, Unregistered, Awaited
  <2>4. QED
    BY <2>2, <2>3
<1>4. CASE status[c] = "loading"
  <2>1. /\ UNCHANGED lock
        /\ loading' = [loading EXCEPT ![key[c]] = None]
        /\ status' = [d \in Callers |->
             IF d = c THEN where
             ELSE IF status[d] = "waiting" /\ key[d] = key[c] THEN "woken"
             ELSE status[d]]
    BY <1>2, <1>4 DEF Leave, Signal
  <2>2. key[c] \in Keys /\ loading[key[c]] = c
    BY <1>4 DEF TypeOK, Registered
  <2>3. /\ loading' \in [Keys -> Callers \cup {None}]
        /\ status' \in [Callers ->
             {"idle", "queued", "waiting", "woken", "loading", "reloading", "abandoned"}]
    BY <2>1 DEF TypeOK
  <2>4. \A d \in Callers :
          lock' = d <=> status'[d] \in {"waiting", "woken", "reloading"}
    BY <1>4, <2>1 DEF TypeOK
  <2>5. TypeOK'
    BY <1>1, <2>1, <2>3, <2>4 DEF TypeOK
  <2>6. Registered'
    BY <1>1, <1>4, <2>1, <2>2 DEF TypeOK, Registered
  <2>7. Unregistered' /\ Awaited'
    BY <1>1, <1>4, <2>1, <2>2 DEF TypeOK, Unregistered, Awaited
  <2>8. QED
    BY <2>5, <2>6, <2>7
<1>5. QED
  BY <1>2, <1>3, <1>4 DEF Leave

LEMMA NextIInv == IInv /\ [Next]_vars => IInv'
<1> SUFFICES ASSUME IInv, [Next]_vars PROVE IInv'
  OBVIOUS
<1>1. ASSUME NEW k \in Keys, Expire(k) PROVE IInv'
  BY <1>1 DEF Expire, IInv, TypeOK, Registered, Unregistered, Awaited
<1>2. CASE UNCHANGED vars
  BY <1>2 DEF vars, IInv, TypeOK, Registered, Unregistered, Awaited
<1>3. QED
  BY <1>1, <1>2, QueueIInv, LockIInv, LoadIInv DEF Next, Call, Proceed

LEMMA Invariance == Spec => []IInv
BY InitIInv, NextIInv, PTL DEF Spec

-----------------------------------------------------------------------------
(* The refinement. *)

\* Of the calls that load a key, inside or outside the lock, there is one.
LEMMA LoadsAlone ==
  ASSUME IInv, NEW c \in Callers, NEW d \in Callers,
         status[c] \in Fetching, status[d] \in Fetching, key[c] = key[d]
  PROVE  c = d
BY CacheAssumption DEF IInv, TypeOK, Registered, Unregistered, Fetching

\* A caller that may start a load finds no other call that loads its key.
LEMMA StartsAlone ==
  ASSUME IInv, NEW c \in Callers, StartLoad(c) \/ WakeToLoad(c)
  PROVE  \A d \in Callers : ~ (status[d] \in Fetching /\ key[d] = key[c])
<1>1. \A d \in Callers : status[d] # "reloading"
  BY CacheAssumption DEF IInv, TypeOK, StartLoad, WakeToLoad, Granted
<1>2. loading[key[c]] = None
  BY DEF IInv, Unregistered, StartLoad, WakeToLoad
<1>3. \A d \in Callers : status[d] = "loading" => key[d] # key[c]
  BY <1>2, CacheAssumption DEF IInv, Registered
<1>4. QED
  BY <1>1, <1>3 DEF Fetching

\* The start of a load is one of the single flight.
LEMMA StartSimulation ==
  ASSUME IInv, NEW c \in Callers, StartLoad(c) \/ WakeToLoad(c)
  PROVE  Flight!Begin(c, key[c])
<1>1. key[c] \in Keys /\ entry[key[c]] = "none" /\ UNCHANGED <<entry, key>>
  BY DEF IInv, TypeOK, StartLoad, WakeToLoad
<1>2. Flights[key[c]] = {}
  BY <1>1, StartsAlone DEF Flights
<1>3. /\ status'[c] \in Fetching
      /\ status[c] # "abandoned" /\ status'[c] # "abandoned"
      /\ \A d \in Callers : d # c => status'[d] = status[d]
  BY DEF IInv, TypeOK, StartLoad, WakeToLoad, Granted, Become, Fetching
<1>4. \A k \in Keys : Flights'[k] = IF k = key[c] THEN {c} ELSE Flights[k]
  BY <1>1, <1>2, <1>3 DEF Flights
<1>5. Flights' = [Flights EXCEPT ![key[c]] = {c}]
  BY <1>1, <1>4 DEF Flights
<1>6. UNCHANGED Strays
  BY <1>1, <1>3 DEF Strays
<1>7. QED
  BY <1>1, <1>2, <1>5, <1>6 DEF Flight!Begin

\* What the end of a call that loads does to the loads and to the strays.
LEMMA LeaveSteps ==
  ASSUME IInv, NEW c \in Callers, UNCHANGED key,
         NEW where \in {"idle", "abandoned"}, Leave(c, where)
  PROVE  /\ key[c] \in Keys
         /\ Flights[key[c]] = {c}
         /\ Flights' = [Flights EXCEPT ![key[c]] = {}]
         /\ where = "idle" => UNCHANGED Strays
         /\ where = "abandoned" =>
              Strays' = [Strays EXCEPT ![key[c]] = @ \cup {c}]
<1>1. key[c] \in Keys /\ status[c] \in Fetching
  BY DEF IInv, TypeOK, Leave, Fetching
<1>2. Flights[key[c]] = {c}
  BY <1>1, LoadsAlone DEF Flights
<1>3. /\ status'[c] = where
      /\ \A d \in Callers : d # c =>
           /\ status'[d] \in Fetching <=> status[d] \in Fetching
           /\ status'[d] = "abandoned" <=> status[d] = "abandoned"
  BY DEF IInv, TypeOK, Leave, Signal, Become, Fetching
<1>4. \A k \in Keys : Flights'[k] = IF k = key[c] THEN {} ELSE Flights[k]
  BY <1>1, <1>2, <1>3 DEF Flights, Fetching
<1>5. Flights' = [Flights EXCEPT ![key[c]] = {}]
  BY <1>1, <1>4 DEF Flights
<1>6. status[c] # "abandoned"
  BY <1>1 DEF Fetching
<1>7. where = "idle" => UNCHANGED Strays
  BY <1>3, <1>6 DEF Strays
<1>8. ASSUME where = "abandoned"
      PROVE  Strays' = [Strays EXCEPT ![key[c]] = @ \cup {c}]
  <2>1. \A k \in Keys :
          Strays'[k] = IF k = key[c] THEN Strays[k] \cup {c} ELSE Strays[k]
    BY <1>1, <1>3, <1>8 DEF Strays
  <2>2. QED
    BY <1>1, <2>1 DEF Strays
<1>9. QED
  BY <1>1, <1>2, <1>5, <1>7, <1>8

\* The end of a load is one of the single flight.
LEMMA EndSimulation ==
  ASSUME IInv, NEW c \in Callers, Loaded(c) \/ CancelLoad(c)
  PROVE  Flight!End(c, key[c]) \/ Flight!Abandon(c, key[c])
<1>1. UNCHANGED key
  BY DEF Loaded, CancelLoad
<1>2. CASE Leave(c, "idle")
  <2>1. \E e \in Flight!Content : entry' = [entry EXCEPT ![key[c]] = e]
    <3>1. key[c] \in Keys
      BY DEF IInv, TypeOK
    <3>2. \/ /\ entry' = [entry EXCEPT ![key[c]] = entry[key[c]]]
             /\ entry[key[c]] \in Flight!Content
          \/ \E e \in Flight!Content : entry' = [entry EXCEPT ![key[c]] = e]
      BY <3>1 DEF IInv, TypeOK, Loaded, CancelLoad, Flight!Content
    <3>3. QED
      BY <3>2
  <2>2. Flight!End(c, key[c])
    BY <1>1, <1>2, <2>1, LeaveSteps DEF Flight!End
  <2>3. QED
    BY <2>2
<1>3. CASE c \in Sync /\ Leave(c, "abandoned") /\ UNCHANGED entry
  <2>1. Flight!Abandon(c, key[c])
    BY <1>1, <1>3, LeaveSteps DEF Flight!Abandon
  <2>2. QED
    BY <2>1
<1>4. QED
  BY <1>2, <1>3 DEF Loaded, CancelLoad

\* The end of an abandoned load is that of a stray.
LEMMA StraySimulation ==
  ASSUME IInv, NEW c \in Callers, ThreadEnds(c)
  PROVE  Flight!StrayEnds(c, key[c])
<1>1. key[c] \in Keys /\ UNCHANGED <<entry, key>>
  BY DEF IInv, TypeOK, ThreadEnds
<1>2. /\ status[c] = "abandoned" /\ status'[c] = "idle"
      /\ \A d \in Callers : d # c => status'[d] = status[d]
  BY DEF IInv, TypeOK, ThreadEnds, Become
<1>3. UNCHANGED Flights
  BY <1>1, <1>2 DEF Flights, Fetching
<1>4. \A k \in Keys :
        Strays'[k] = IF k = key[c] THEN Strays[k] \ {c} ELSE Strays[k]
  BY <1>1, <1>2 DEF Strays
<1>5. Strays' = [Strays EXCEPT ![key[c]] = @ \ {c}]
  BY <1>1, <1>4 DEF Strays
<1>6. c \in Strays[key[c]]
  BY <1>1, <1>2 DEF Strays
<1>7. QED
  BY <1>1, <1>3, <1>5, <1>6 DEF Flight!StrayEnds

\* Every other step of a caller is none of the single flight.
LEMMA OtherSimulation ==
  ASSUME IInv, NEW c \in Callers,
         \/ CancelQueued(c) \/ FindEntry(c) \/ (\E k \in Keys : Miss(c, k))
         \/ AwaitLoader(c) \/ WakeToEntry(c) \/ CancelWaiting(c)
  PROVE  UNCHANGED <<Flights, Strays, entry>>
<1>1. UNCHANGED entry
  BY DEF CancelQueued, FindEntry, Miss, AwaitLoader, WakeToEntry, CancelWaiting
<1>2. /\ status[c] \notin Fetching \cup {"abandoned"}
      /\ status'[c] \notin Fetching \cup {"abandoned"}
  BY DEF IInv, TypeOK, CancelQueued, FindEntry, Granted, Miss, AwaitLoader, WakeToEntry,
         CancelWaiting, Become, Fetching
<1>3. \A d \in Callers : d # c => status'[d] = status[d] /\ key'[d] = key[d]
  BY DEF IInv, TypeOK, CancelQueued, FindEntry, Miss, AwaitLoader, WakeToEntry,
         CancelWaiting, Become
<1>4. UNCHANGED Flights
  BY <1>2, <1>3 DEF Flights
<1>5. UNCHANGED Strays
  BY <1>2, <1>3 DEF Strays
<1>6. QED
  BY <1>1, <1>4, <1>5

LEMMA StepSimulation ==
  IInv /\ [Next]_vars => [Flight!FlightNext]_<<Flights, Strays, entry>>
<1> SUFFICES ASSUME IInv, [Next]_vars
             PROVE  Flight!FlightNext \/ UNCHANGED <<Flights, Strays, entry>>
  OBVIOUS
<1>1. ASSUME NEW k \in Keys, Expire(k) PROVE Flight!Expire(k)
  BY <1>1 DEF Expire, Flights, Strays, Flight!Expire
<1>2. ASSUME NEW c \in Callers,
             StartLoad(c) \/ WakeToLoad(c) \/ Loaded(c) \/ CancelLoad(c) \/ ThreadEnds(c)
      PROVE  Flight!FlightNext
  <2>1. key[c] \in Keys
    BY DEF IInv, TypeOK
  <2>2. QED
    BY <1>2, <2>1, StartSimulation, EndSimulation, StraySimulation DEF Flight!FlightNext
<1>3. CASE UNCHANGED vars
  BY <1>3 DEF vars, Flights, Strays
<1>4. QED
  BY <1>1, <1>2, <1>3, OtherSimulation DEF Next, Call, Proceed, Flight!FlightNext

-----------------------------------------------------------------------------
(* The properties. *)

\* The state keeps its type, and the lock's holder is who waits or loads under it.
THEOREM TypeCorrect == Spec => []TypeOK
<1>1. IInv => TypeOK
  BY DEF IInv
<1>2. QED
  BY <1>1, Invariance, PTL

\* Who waits under the lock waits for a loader that does not need it.
THEOREM NoLostWakeUp == Spec => []WaitersHaveLoaders
<1>1. IInv => WaitersHaveLoaders
  BY DEF IInv, TypeOK, Registered, Awaited, WaitersHaveLoaders
<1>2. QED
  BY <1>1, Invariance, PTL

\* The cache implements the single flight per key, with the loaders that go on
\* in their threads after a cancellation as its strays (get(), _load_value()).
THEOREM Refinement == Spec => ImplementsSingleFlight
<1>1. Init => Flight!FlightInit
  BY DEF Init, Flights, Strays, Fetching, Flight!FlightInit
<1>2. IInv /\ [Next]_vars => [Flight!FlightNext]_<<Flights, Strays, entry>>
  BY StepSimulation
<1>3. QED
  BY <1>1, <1>2, Invariance, PTL DEF Spec, ImplementsSingleFlight, Flight!FlightSpec

\* Where a loader is executed for c, be it for nobody any more
Runs(c) == status[c] \in Fetching \cup {"abandoned"}

TwoLoadsOnlyByAbandon ==
  \A c, d \in Callers :
    c # d /\ Runs(c) /\ Runs(d) /\ key[c] = key[d]
      => \E x \in {c, d} : x \in Sync /\ status[x] = "abandoned"

\* What SingleFlight promises itself, carried over by the refinement: two loaders
\* of one key run at a time only if one of them is a plain function that a
\* cancelled call has left in its thread; where all loaders are coroutines there
\* is never more than one, across waits, failures, expiry and cancellation
\* (get(), _load_value()).
THEOREM OneLoadAtATime == Spec => []TwoLoadsOnlyByAbandon
<1> DEFINE Alone ==
      \A k \in Keys : (\A c, d \in Flights[k] : c = d) /\ Strays[k] \subseteq Sync
<1>1. Flight!FlightInit => Alone
  BY DEF Flight!FlightInit
<1>2. Alone /\ [Flight!FlightNext]_<<Flights, Strays, entry>> => Alone'
  <2> SUFFICES ASSUME Alone, Flight!FlightNext, NEW k \in Keys
               PROVE  (\A c, d \in Flights'[k] : c = d) /\ Strays'[k] \subseteq Sync
    OBVIOUS
  <2>1. Flights \in [Keys -> SUBSET Callers] /\ Strays \in [Keys -> SUBSET Callers]
    BY DEF Flights, Strays
  <2> DEFINE f == Flights
             g == Strays
  <2>2. ASSUME NEW c \in Callers, NEW x \in Keys, Flight!Begin(c, x)
        PROVE  f'[k] \in {f[k], {c}} /\ g'[k] = g[k]
    BY <2>1, <2>2 DEF Flight!Begin
  <2>3. ASSUME NEW c \in Callers, NEW x \in Keys, Flight!End(c, x)
        PROVE  f'[k] \in {f[k], {}} /\ g'[k] = g[k]
    BY <2>1, <2>3 DEF Flight!End
  <2>4. ASSUME NEW c \in Callers, NEW x \in Keys, Flight!Abandon(c, x)
        PROVE  f'[k] \in {f[k], {}} /\ c \in Sync /\ g'[k] \in {g[k], g[k] \cup {c}}
    BY <2>1, <2>4 DEF Flight!Abandon
  <2>5. ASSUME NEW c \in Callers, NEW x \in Keys, Flight!StrayEnds(c, x)
        PROVE  f'[k] = f[k] /\ g'[k] \in {g[k], g[k] \ {c}}
    BY <2>1, <2>5 DEF Flight!StrayEnds
  <2>6. ASSUME NEW x \in Keys, Flight!Expire(x) PROVE f'[k] = f[k] /\ g'[k] = g[k]
    BY <2>6 DEF Flight!Expire
  <2> HIDE DEF f, g
  <2>7. f'[k] = f[k] \/ f'[k] = {} \/ \E c \in Callers : f'[k] = {c}
    BY <2>2, <2>3, <2>4, <2>5, <2>6 DEF Flight!FlightNext
  <2>8. g'[k] \subseteq g[k] \cup Sync
    BY <2>2, <2>3, <2>4, <2>5, <2>6 DEF Flight!FlightNext
  <2>9. QED
    BY <2>7, <2>8 DEF f, g
<1>3. TypeOK /\ Alone => TwoLoadsOnlyByAbandon
  <2> SUFFICES ASSUME TypeOK, Alone, NEW c \in Callers, NEW d \in Callers,
                      c # d, Runs(c), Runs(d), key[c] = key[d]
               PROVE  \E x \in {c, d} : x \in Sync /\ status[x] = "abandoned"
    BY DEF TwoLoadsOnlyByAbandon
  <2>1. key[c] \in Keys
    BY DEF TypeOK
  <2>2. \A x \in {c, d} : status[x] = "abandoned" => x \in Strays[key[c]]
    BY <2>1 DEF Strays
  <2>3. \A x \in {c, d} : status[x] \in Fetching => x \in Flights[key[c]]
    BY <2>1 DEF Flights
  <2>4. status[c] = "abandoned" \/ status[d] = "abandoned"
    BY <2>1, <2>3 DEF Runs
  <2>5. QED
    BY <2>1, <2>2, <2>4
<1>4. QED
  BY <1>1, <1>2, <1>3, TypeCorrect, Refinement, PTL
     DEF ImplementsSingleFlight, Flight!FlightSpec

-----------------------------------------------------------------------------
(* The queue of the lock. *)

\* The queue holds those who wait for the lock, each once
QueueOK ==
  /\ \A i \in DOMAIN queue : status[queue[i]] = "queued"
  /\ \A i, j \in DOMAIN queue : queue[i] = queue[j] => i = j
  /\ \A c \in Callers : status[c] = "queued" => \E i \in DOMAIN queue : queue[i] = c

\* Position i leaves the queue and the others close up
Closes(q, i, r) ==
  /\ DOMAIN r = 1..(Len(q) - 1)
  /\ \A j \in 1..(Len(q) - 1) : r[j] = IF j < i THEN q[j] ELSE q[j + 1]

\* The head that leaves, and one that leaves from the middle, both do that.
LEMMA QueueCloses ==
  ASSUME NEW q \in Seq(Callers)
  PROVE  /\ q # <<>> => Closes(q, 1, Tail(q))
         /\ \A i \in 1..Len(q) :
              Closes(q, i, SubSeq(q, 1, i - 1) \o SubSeq(q, i + 1, Len(q)))
<1>1. q # <<>> => Closes(q, 1, Tail(q))
  BY DEF Closes
<1>2. ASSUME NEW i \in 1..Len(q)
      PROVE  Closes(q, i, SubSeq(q, 1, i - 1) \o SubSeq(q, i + 1, Len(q)))
  <2> DEFINE a == SubSeq(q, 1, i - 1)
             b == SubSeq(q, i + 1, Len(q))
  <2>1. /\ a \in Seq(Callers) /\ Len(a) = i - 1
        /\ \A j \in 1..(i - 1) : a[j] = q[j]
    OBVIOUS
  <2>2. /\ b \in Seq(Callers) /\ Len(b) = Len(q) - i
        /\ \A j \in 1..(Len(q) - i) : b[j] = q[j + i]
    OBVIOUS
  <2> HIDE DEF a, b
  <2>3. /\ a \o b \in Seq(Callers) /\ Len(a \o b) = Len(q) - 1
        /\ \A j \in 1..(Len(q) - 1) :
             (a \o b)[j] = IF j < i THEN a[j] ELSE b[j - (i - 1)]
    <3>1. /\ a \o b \in Seq(Callers) /\ Len(a \o b) = Len(a) + Len(b)
          /\ \A j \in 1..(Len(a) + Len(b)) :
               (a \o b)[j] = IF j <= Len(a) THEN a[j] ELSE b[j - Len(a)]
      BY <2>1, <2>2, ConcatProperties
    <3>2. Len(a) = i - 1 /\ Len(a) + Len(b) = Len(q) - 1 /\ i \in Int
      BY <2>1, <2>2
    <3>3. \A j \in 1..(Len(q) - 1) : j <= i - 1 <=> j < i
      BY <3>2
    <3>4. QED
      BY <3>1, <3>2, <3>3
  <2>4. \A j \in 1..(Len(q) - 1) : ~ (j < i) => b[j - (i - 1)] = q[j + 1]
    BY <2>2
  <2>5. \A j \in 1..(Len(q) - 1) : j < i => a[j] = q[j]
    BY <2>1
  <2>6. \A j \in 1..(Len(q) - 1) : (a \o b)[j] = IF j < i THEN q[j] ELSE q[j + 1]
    BY <2>3, <2>4, <2>5
  <2>7. DOMAIN (a \o b) = 1..(Len(q) - 1)
    BY <2>3
  <2>8. Closes(q, i, a \o b)
    BY <2>6, <2>7 DEF Closes
  <2>9. QED
    BY <2>8 DEF a, b
<1>3. QED
  BY <1>1, <1>2

\* Where c stands in the queue, it leaves it: granted the lock, or cancelled.
LeavesQueue(c) ==
  /\ \E i \in DOMAIN queue : queue[i] = c /\ Closes(queue, i, queue')
  /\ status'[c] # "queued"
  /\ \A d \in Callers : d # c => (status'[d] = "queued" <=> status[d] = "queued")

\* What a step does to the queue: c joins at its end, c leaves it, or nothing.
LEMMA QueueSteps ==
  ASSUME IInv, QueueOK, Next
  PROVE  \/ \E c \in Callers :
              /\ status[c] = "idle" /\ status' = [status EXCEPT ![c] = "queued"]
              /\ queue' = Append(queue, c)
         \/ \E c \in Callers : LeavesQueue(c)
         \/ /\ UNCHANGED queue
            /\ \A d \in Callers : status'[d] = "queued" <=> status[d] = "queued"
<1>1. queue \in Seq(Callers)
  BY DEF IInv, TypeOK
<1>2. ASSUME NEW c \in Callers, NEW k \in Keys, Miss(c, k)
      PROVE  /\ status[c] = "idle" /\ status' = [status EXCEPT ![c] = "queued"]
             /\ queue' = Append(queue, c)
  BY <1>2 DEF Miss, Become
<1>3. ASSUME NEW c \in Callers, FindEntry(c) \/ AwaitLoader(c) \/ StartLoad(c)
      PROVE  LeavesQueue(c)
  <2>1. Granted(c) /\ \E w \in {"idle", "waiting", "loading"} : Become(c, w)
    BY <1>3 DEF FindEntry, AwaitLoader, StartLoad
  <2>2. 1 \in DOMAIN queue /\ queue[1] = c /\ Closes(queue, 1, queue')
    BY <1>1, <2>1, QueueCloses DEF Granted
  <2>3. QED
    BY <2>1, <2>2 DEF LeavesQueue, Become, IInv, TypeOK
<1>4. ASSUME NEW c \in Callers, CancelQueued(c) PROVE LeavesQueue(c)
  <2>1. PICK i \in 1..Len(queue) :
          /\ queue[i] = c
          /\ queue' = SubSeq(queue, 1, i - 1) \o SubSeq(queue, i + 1, Len(queue))
    BY <1>4 DEF CancelQueued
  <2>2. i \in DOMAIN queue /\ Closes(queue, i, queue')
    BY <1>1, <2>1, QueueCloses
  <2>3. QED
    BY <1>4, <2>1, <2>2 DEF CancelQueued, LeavesQueue, Become, IInv, TypeOK
<1>5. ASSUME NEW c \in Callers,
             \/ WakeToEntry(c) \/ WakeToLoad(c) \/ CancelWaiting(c)
             \/ Loaded(c) \/ CancelLoad(c) \/ ThreadEnds(c)
      PROVE  /\ UNCHANGED queue
             /\ \A d \in Callers : status'[d] = "queued" <=> status[d] = "queued"
  BY <1>5 DEF WakeToEntry, WakeToLoad, CancelWaiting, Loaded, CancelLoad, ThreadEnds,
              Leave, Signal, Become, Fetching, IInv, TypeOK
<1>6. ASSUME NEW k \in Keys, Expire(k) PROVE UNCHANGED <<queue, status>>
  BY <1>6 DEF Expire
<1>7. QED
  BY <1>2, <1>3, <1>4, <1>5, <1>6 DEF Next, Call, Proceed

LEMMA QueueStep == IInv /\ QueueOK /\ [Next]_vars => QueueOK'
<1> SUFFICES ASSUME IInv, QueueOK, [Next]_vars PROVE QueueOK'
  OBVIOUS
<1>1. queue \in Seq(Callers) /\ DOMAIN queue = 1..Len(queue) /\ Len(queue) \in Nat
      /\ \A i \in DOMAIN queue : queue[i] \in Callers
  BY DEF IInv, TypeOK
<1>2. ASSUME NEW c \in Callers, status[c] = "idle",
             status' = [status EXCEPT ![c] = "queued"], queue' = Append(queue, c)
      PROVE  QueueOK'
  <2>1. /\ DOMAIN queue' = 1..(Len(queue) + 1)
        /\ queue'[Len(queue) + 1] = c
        /\ \A i \in DOMAIN queue : i \in DOMAIN queue' /\ queue'[i] = queue[i]
        /\ \A i \in DOMAIN queue' : i = Len(queue) + 1 \/ i \in DOMAIN queue
    BY <1>1, <1>2
  <2>2. \A i \in DOMAIN queue : queue[i] # c
    BY <1>2 DEF QueueOK
  <2>3. status'[c] = "queued" /\ \A d \in Callers : d # c => status'[d] = status[d]
    BY <1>2 DEF IInv, TypeOK
  <2>4. \A i \in DOMAIN queue' : status'[queue'[i]] = "queued"
    BY <1>1, <2>1, <2>2, <2>3 DEF QueueOK
  <2>5. \A i, j \in DOMAIN queue' : queue'[i] = queue'[j] => i = j
    BY <2>1, <2>2 DEF QueueOK
  <2>6. \A d \in Callers : status'[d] = "queued" => \E i \in DOMAIN queue' : queue'[i] = d
    <3> SUFFICES ASSUME NEW d \in Callers, status'[d] = "queued"
                 PROVE  \E i \in DOMAIN queue' : queue'[i] = d
      OBVIOUS
    <3>1. CASE d = c
      <4>1. Len(queue) + 1 \in DOMAIN queue'
        BY <1>1, <2>1
      <4>2. QED
        BY <2>1, <3>1, <4>1
    <3>2. CASE d # c
      <4>1. PICK i \in DOMAIN queue : queue[i] = d
        BY <2>3, <3>2 DEF QueueOK
      <4>2. QED
        BY <2>1, <4>1
    <3>3. QED
      BY <3>1, <3>2
  <2>7. QED
    BY <2>4, <2>5, <2>6 DEF QueueOK
<1>3. ASSUME NEW c \in Callers, LeavesQueue(c) PROVE QueueOK'
  <2>1. PICK i \in DOMAIN queue : queue[i] = c /\ Closes(queue, i, queue')
    BY <1>3 DEF LeavesQueue
  <2> DEFINE from(j) == IF j < i THEN j ELSE j + 1
  <2>2. \A j \in DOMAIN queue' :
          /\ from(j) \in DOMAIN queue /\ from(j) # i
          /\ queue'[j] = queue[from(j)]
          /\ queue'[j] # c
    BY <1>1, <2>1 DEF Closes, QueueOK
  <2>3. \A j \in DOMAIN queue' : status'[queue'[j]] = "queued"
    BY <1>1, <1>3, <2>2 DEF LeavesQueue, QueueOK
  <2>4. \A j, k \in DOMAIN queue' : from(j) = from(k) => j = k
    BY <1>1, <2>1 DEF Closes
  <2>5. \A j, k \in DOMAIN queue' : queue'[j] = queue'[k] => j = k
    BY <2>2, <2>4 DEF QueueOK
  <2>6. \A d \in Callers : status'[d] = "queued" => \E j \in DOMAIN queue' : queue'[j] = d
    <3> SUFFICES ASSUME NEW d \in Callers, status'[d] = "queued"
                 PROVE  \E j \in DOMAIN queue' : queue'[j] = d
      OBVIOUS
    <3>1. d # c /\ status[d] = "queued"
      BY <1>3 DEF LeavesQueue
    <3>2. PICK k \in DOMAIN queue : queue[k] = d
      BY <3>1 DEF QueueOK
    <3>3. k # i
      BY <2>1, <3>1, <3>2
    <3>4. \E j \in DOMAIN queue' : from(j) = k
      <4>1. CASE k < i
        BY <1>1, <2>1, <4>1 DEF Closes
      <4>2. CASE k > i
        <5>1. k - 1 \in DOMAIN queue' /\ from(k - 1) = k
          BY <1>1, <2>1, <4>2 DEF Closes
        <5>2. QED
          BY <5>1
      <4>3. QED
        BY <1>1, <3>3, <4>1, <4>2
    <3>5. QED
      BY <2>2, <3>2, <3>4
  <2>7. QED
    BY <2>3, <2>5, <2>6 DEF QueueOK
<1>4. CASE UNCHANGED queue /\ \A d \in Callers : status'[d] = "queued" <=> status[d] = "queued"
  BY <1>1, <1>4 DEF QueueOK
<1>5. CASE UNCHANGED vars
  BY <1>5 DEF vars, QueueOK
<1>6. QED
  BY <1>2, <1>3, <1>4, <1>5, QueueSteps

\* The queue of the lock holds exactly the callers that wait for it, each once,
\* through cancellations anywhere in it (get(), asyncio.Lock).
THEOREM QueueIsExact == Spec => []QueueOK
<1>1. Init => QueueOK
  BY DEF Init, QueueOK
<1>2. QED
  BY <1>1, Invariance, QueueStep, PTL DEF Spec

-----------------------------------------------------------------------------

\* The guards under which c goes on or its load ends, whatever the others do
CanGoOn(c) ==
  \/ status[c] \in Fetching \cup {"woken"}
  \/ status[c] = "queued" /\ lock = None /\ queue # <<>> /\ Head(queue) = c

NoStandstill ==
  (\E c \in Callers : status[c] \notin {"idle", "abandoned"}) => \E c \in Callers : CanGoOn(c)

\* The safety half of CallsEnd: as long as any call of get() is under way, one
\* of them loads or can go on; the lock that waiters keep for all keys never
\* leaves everybody waiting for everybody, nor for a thread that has been
\* left behind.
THEOREM SomeoneGoesOn == Spec => []NoStandstill
<1>1. IInv /\ QueueOK => NoStandstill
  <2> SUFFICES ASSUME IInv, QueueOK, NEW c \in Callers, status[c] \notin {"idle", "abandoned"}
               PROVE  \E d \in Callers : CanGoOn(d)
    BY DEF NoStandstill
  <2>1. CASE lock # None
    <3>1. PICK d \in Callers : lock = d /\ status[d] \in {"waiting", "woken", "reloading"}
      BY <2>1 DEF IInv, TypeOK
    <3>2. CASE status[d] = "waiting"
      <4>1. loading[key[d]] \in Callers /\ status[loading[key[d]]] = "loading"
        BY <3>2 DEF IInv, TypeOK, Awaited, Registered
      <4>2. QED
        BY <4>1 DEF CanGoOn, Fetching
    <3>3. QED
      BY <3>1, <3>2 DEF CanGoOn, Fetching
  <2>2. CASE lock = None
    <3>1. status[c] \in {"queued", "loading"}
      BY <2>2, CacheAssumption DEF IInv, TypeOK
    <3>2. CASE status[c] = "queued"
      <4>1. 1 \in DOMAIN queue /\ queue # <<>>
        BY <3>2 DEF IInv, TypeOK, QueueOK
      <4>2. Head(queue) \in Callers /\ status[Head(queue)] = "queued"
        BY <4>1 DEF IInv, TypeOK, QueueOK
      <4>3. QED
        BY <2>2, <4>1, <4>2 DEF CanGoOn
    <3>3. QED
      BY <3>1, <3>2 DEF CanGoOn, Fetching
  <2>3. QED
    BY <2>1, <2>2
<1>2. QED
  BY <1>1, Invariance, QueueIsExact, PTL

NoOvertaking ==
  [][\A i \in DOMAIN queue :
       status'[queue[i]] = "queued"
         => \E j \in DOMAIN queue' : j <= i /\ queue'[j] = queue[i]]_vars

\* Nobody comes between a caller and the lock who was not before it in the
\* queue: its place only gets better until it is its turn (asyncio.Lock).
THEOREM NobodyOvertakes == Spec => NoOvertaking
<1>1. IInv /\ QueueOK /\ [Next]_vars =>
        [\A i \in DOMAIN queue :
           status'[queue[i]] = "queued"
             => \E j \in DOMAIN queue' : j <= i /\ queue'[j] = queue[i]]_vars
  <2> SUFFICES ASSUME IInv, QueueOK, Next,
                      NEW i \in DOMAIN queue, status'[queue[i]] = "queued"
               PROVE  \E j \in DOMAIN queue' : j <= i /\ queue'[j] = queue[i]
    OBVIOUS
  <2>1. queue \in Seq(Callers) /\ DOMAIN queue = 1..Len(queue) /\ Len(queue) \in Nat
        /\ queue[i] \in Callers /\ i \in Nat
    BY DEF IInv, TypeOK
  <2>2. ASSUME NEW c \in Callers, queue' = Append(queue, c)
        PROVE  i \in DOMAIN queue' /\ queue'[i] = queue[i]
    BY <2>1, <2>2
  <2>3. ASSUME NEW c \in Callers, LeavesQueue(c)
        PROVE  \E j \in DOMAIN queue' : j <= i /\ queue'[j] = queue[i]
    <3>1. PICK k \in DOMAIN queue : queue[k] = c /\ Closes(queue, k, queue')
      BY <2>3 DEF LeavesQueue
    <3>2. k # i
      BY <2>3, <3>1 DEF LeavesQueue
    <3>3. CASE i < k
      BY <2>1, <3>1, <3>3 DEF Closes
    <3>4. CASE i > k
      <4>1. i - 1 \in DOMAIN queue' /\ i - 1 <= i /\ queue'[i - 1] = queue[i]
        BY <2>1, <3>1, <3>4 DEF Closes
      <4>2. QED
        BY <4>1
    <3>5. QED
      BY <2>1, <3>2, <3>3, <3>4
  <2>4. CASE UNCHANGED queue
    BY <2>1, <2>4
  <2>5. QED
    BY <2>1, <2>2, <2>3, <2>4, QueueSteps
<1>2. QED
  BY Invariance, QueueIsExact, <1>1, PTL DEF Spec, NoOvertaking
=============================================================================
