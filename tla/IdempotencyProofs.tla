-------------------------- MODULE IdempotencyProofs --------------------------
(***************************************************************************)
(* What the idempotency middleware promises, for any number of requests    *)
(* with one key and any life of the mark.                                  *)
(*                                                                         *)
(* Everything rests on MarkIsKept: a request inside that was not exposed   *)
(* is the one the mark names.  It is inductive because each step that      *)
(* changes the mark exposes the request that counted on it (Expose), but   *)
(* for clear_processing() of the request itself, which is then inside no   *)
(* more.  As a mark names one request, two of them are not inside together.*)
(***************************************************************************)
EXTENDS Idempotency, TLAPS

MarkIsKept == \A r \in Requests : Inside(r) /\ exposed[r] = "no" => mark = r

IInv ==
  /\ TypeOK
  /\ MarkIsKept
  /\ OnlyRacersOverwrite

-----------------------------------------------------------------------------
(* Steps that take the mark away. *)

\* Expose() marks exactly the request that counts on the mark.
LEMMA ExposeMarks ==
  ASSUME TypeOK, NEW how \in {"unmarked", "expired", "overwritten", "cleared"}, Expose(how)
  PROVE  /\ exposed' \in [Requests -> {"no", "unmarked", "expired", "overwritten", "cleared"}]
         /\ \A r \in Requests :
              exposed'[r] = "no" => exposed[r] = "no" /\ ~ (mark = r /\ Inside(r))
<1>1. \A r \in Requests :
        exposed'[r] = IF mark = r /\ Inside(r) THEN how ELSE exposed[r]
  BY DEF Expose
<1>2. \A r \in Requests :
        exposed[r] \in {"no", "unmarked", "expired", "overwritten", "cleared"}
  BY DEF TypeOK
<1>3. exposed' \in [Requests -> {"no", "unmarked", "expired", "overwritten", "cleared"}]
  BY <1>2 DEF Expose
<1>4. QED
  BY <1>1, <1>3

\* A key without its mark is one that the types allow.
LEMMA UnmarkTypes ==
  Unmark =>
    /\ mark' \in Requests \cup {Nobody}
    /\ ttl' \in 0..MarkTTL
    /\ (mark' = Nobody) <=> (ttl' = 0)
<1>1. 0 \in 0..MarkTTL
  BY IdempotencyAssumption
<1>2. QED
  BY <1>1 DEF Unmark

\* After such a step nobody inside is without exposure, but for requests that
\* have come inside with it.
LEMMA ExposedAll ==
  ASSUME TypeOK, MarkIsKept,
         NEW how \in {"unmarked", "expired", "overwritten", "cleared"}, Expose(how)
  PROVE  \A r \in Requests : Inside(r) => exposed'[r] # "no"
BY ExposeMarks DEF MarkIsKept

\* A request that goes from one phase inside to another, or leaves, keeps it.
LEMMA MovesKeepMark ==
  ASSUME TypeOK, MarkIsKept, UNCHANGED <<mark, exposed>>, NEW r \in Requests,
         NEW where, Become(r, where),
         Inside(r) \/ where \notin {"executing", "storing", "stored", "failed"}
  PROVE  MarkIsKept'
<1>1. \A s \in Requests : Inside(s)' => Inside(s)
  BY DEF TypeOK, Become, Inside
<1>2. QED
  BY <1>1 DEF MarkIsKept

-----------------------------------------------------------------------------
(* The inductive invariant. *)

LEMMA InitIInv == Init => IInv
<1> SUFFICES ASSUME Init PROVE IInv
  OBVIOUS
<1>1. TypeOK
  <2>1. 0 \in 0..MarkTTL
    BY IdempotencyAssumption
  <2>2. mark \in Requests \cup {Nobody} /\ ttl \in 0..MarkTTL /\ ((mark = Nobody) <=> (ttl = 0))
    BY <2>1 DEF Init
  <2>3. QED
    BY <2>2 DEF Init, TypeOK
<1>2. \A r \in Requests : phase[r] = "arrived"
  BY DEF Init
<1>3. MarkIsKept /\ OnlyRacersOverwrite
  BY <1>2 DEF Init, MarkIsKept, OnlyRacersOverwrite, Inside
<1>4. QED
  BY <1>1, <1>3 DEF IInv

\* The clock keeps it.
LEMMA TimeIInv == IInv /\ (Tick \/ RecordExpires) => IInv'
<1> SUFFICES ASSUME IInv, Tick \/ RecordExpires PROVE IInv'
  OBVIOUS
<1>1. CASE RecordExpires
  BY <1>1 DEF RecordExpires, IInv, TypeOK, MarkIsKept, OnlyRacersOverwrite,
              Inside, markVars, history
<1>2. CASE Tick /\ ttl = 1
  <2>1. Expose("expired") /\ Unmark
    BY <1>2 DEF Tick
  <2>2. TypeOK'
    BY <1>2, <2>1, ExposeMarks, UnmarkTypes DEF Tick, IInv, TypeOK
  <2>3. MarkIsKept'
    BY <1>2, <2>1, ExposedAll DEF Tick, IInv, MarkIsKept, Inside
  <2>4. OnlyRacersOverwrite'
    BY <1>2, <2>1 DEF Tick, Unmark, IInv, OnlyRacersOverwrite
  <2>5. QED
    BY <2>2, <2>3, <2>4 DEF IInv
<1>3. CASE Tick /\ ttl # 1
  <2>1. ttl' \in 0..MarkTTL /\ ttl' # 0
    BY <1>3, IdempotencyAssumption DEF Tick, IInv, TypeOK
  <2>2. UNCHANGED <<mark, record, phase, deleting, exposed, racers>>
    BY <1>3 DEF Tick
  <2>3. mark # Nobody
    BY <1>3 DEF Tick, IInv, TypeOK
  <2>4. QED
    BY <2>1, <2>2, <2>3
       DEF IInv, TypeOK, MarkIsKept, OnlyRacersOverwrite, Inside
<1>4. QED
  BY <1>1, <1>2, <1>3

\* The check and the mark keep it.
LEMMA EntryIInv ==
  ASSUME IInv, NEW r \in Requests,
         LookUp(r) \/ Conflict(r) \/ Pass(r) \/ PassUnchecked(r) \/ Mark(r) \/ MarkFails(r)
  PROVE  IInv'
<1> USE DEF IInv, Become
<1>1. CASE LookUp(r) \/ Conflict(r) \/ Pass(r) \/ PassUnchecked(r)
  <2>1. MarkIsKept'
    BY <1>1, MovesKeepMark DEF LookUp, Conflict, Pass, PassUnchecked, history, markVars
  <2>2. TypeOK'
    BY <1>1 DEF LookUp, Conflict, Pass, PassUnchecked, history, markVars, TypeOK
  <2>3. OnlyRacersOverwrite'
    BY <1>1 DEF LookUp, Conflict, Pass, PassUnchecked, history, markVars, TypeOK,
                OnlyRacersOverwrite
  <2>4. QED
    BY <2>1, <2>2, <2>3
<1>2. CASE Mark(r)
  <2>1. TypeOK'
    BY <1>2, ExposeMarks, IdempotencyAssumption DEF Mark, RaceOf, TypeOK
  <2>2. MarkIsKept'
    <3> SUFFICES ASSUME NEW s \in Requests, Inside(s)', exposed'[s] = "no", s # r
                 PROVE  FALSE
      BY <1>2 DEF Mark, MarkIsKept
    <3>1. Inside(s)
      BY <1>2 DEF Mark, TypeOK, Inside
    <3>2. QED
      BY <1>2, <3>1, ExposedAll DEF Mark
  <2>3. OnlyRacersOverwrite'
    BY <1>2 DEF Mark, RaceOf, TypeOK, OnlyRacersOverwrite
  <2>4. QED
    BY <2>1, <2>2, <2>3
<1>3. CASE MarkFails(r)
  BY <1>3 DEF MarkFails, markVars, TypeOK, MarkIsKept, OnlyRacersOverwrite, Inside
<1>4. QED
  BY <1>1, <1>2, <1>3

\* The operation, the storing of its response and the removal of the mark keep it.
LEMMA ExitIInv ==
  ASSUME IInv, NEW r \in Requests,
         \/ Respond(r) \/ Store(r) \/ StoreFails(r)
         \/ Clear(r) \/ ClearFails(r) \/ Crash(r)
  PROVE  IInv'
<1> USE DEF IInv, Become
<1>1. CASE Respond(r) \/ Store(r) \/ StoreFails(r) \/ ClearFails(r) \/ Crash(r)
  <2>1. UNCHANGED <<mark, ttl, deleting, exposed, racers>>
    BY <1>1 DEF Respond, Store, StoreFails, ClearFails, Crash, history, markVars
  <2>2. PICK where \in {"storing", "stored", "failed", "answered", "ended"} :
          Become(r, where)
    BY <1>1 DEF Respond, Store, StoreFails, ClearFails, Crash, Finish
  <2>3. Inside(r) \/ where = "ended"
    BY <1>1, <2>2 DEF Respond, Store, StoreFails, ClearFails, Crash, Finish, Inside, TypeOK
  <2>4. MarkIsKept'
    BY <2>1, <2>2, <2>3, MovesKeepMark
  <2>5. TypeOK'
    BY <1>1, <2>1, <2>2
       DEF Respond, Store, StoreFails, ClearFails, Crash, history, markVars, TypeOK
  <2>6. OnlyRacersOverwrite'
    BY <2>1, <2>2 DEF TypeOK, OnlyRacersOverwrite
  <2>7. QED
    BY <2>4, <2>5, <2>6
<1>2. CASE Clear(r)
  <2>1. PICK where \in {"answered", "ended"} :
          Become(r, where) /\ (where = "answered" => phase[r] = "stored")
    BY <1>2 DEF Clear, Finish
  <2>2. Inside(r) /\ Unmark
    BY <1>2 DEF Clear, Finish, Inside
  <2>3. TypeOK'
    BY <1>2, <2>1, <2>2, ExposeMarks, UnmarkTypes DEF Clear, TypeOK
  <2>4. \A s \in Requests : Inside(s)' => Inside(s) /\ s # r
    BY <2>1 DEF TypeOK, Inside
  <2>5. MarkIsKept'
    <3>1. CASE mark = r
      BY <1>2, <2>4, <3>1 DEF Clear, MarkIsKept
    <3>2. CASE mark # r
      BY <1>2, <2>4, <3>2, ExposedAll DEF Clear, MarkIsKept
    <3>3. QED
      BY <3>1, <3>2
  <2>6. OnlyRacersOverwrite'
    BY <1>2, <2>1, <2>2 DEF Clear, Unmark, TypeOK, OnlyRacersOverwrite
  <2>7. QED
    BY <2>3, <2>5, <2>6
<1>3. QED
  BY <1>1, <1>2

\* invalidate_key() keeps it.
LEMMA InvalidationIInv ==
  IInv /\ (InvalidateRecord \/ InvalidateMark \/ InvalidateFails) => IInv'
<1> SUFFICES ASSUME IInv, InvalidateRecord \/ InvalidateMark \/ InvalidateFails PROVE IInv'
  OBVIOUS
<1> USE DEF IInv
<1>1. CASE InvalidateRecord \/ InvalidateFails
  BY <1>1 DEF InvalidateRecord, InvalidateFails, markVars, history, TypeOK, MarkIsKept,
              OnlyRacersOverwrite, Inside
<1>2. CASE InvalidateMark
  <2>1. Unmark /\ Expose("cleared")
    BY <1>2 DEF InvalidateMark
  <2>2. TypeOK'
    BY <1>2, <2>1, ExposeMarks, UnmarkTypes DEF InvalidateMark, TypeOK
  <2>3. MarkIsKept'
    BY <1>2, <2>1, ExposedAll DEF InvalidateMark, MarkIsKept, Inside
  <2>4. OnlyRacersOverwrite'
    BY <1>2, <2>1 DEF InvalidateMark, Unmark, OnlyRacersOverwrite
  <2>5. QED
    BY <2>2, <2>3, <2>4
<1>3. QED
  BY <1>1, <1>2

LEMMA NextIInv == IInv /\ [Next]_vars => IInv'
<1> SUFFICES ASSUME IInv, [Next]_vars PROVE IInv'
  OBVIOUS
<1>1. CASE Next
  BY <1>1, TimeIInv, EntryIInv, ExitIInv, InvalidationIInv DEF Next, Request
<1>2. CASE UNCHANGED vars
  BY <1>2 DEF vars, markVars, history, IInv, TypeOK, MarkIsKept,
              OnlyRacersOverwrite, Inside
<1>3. QED
  BY <1>1, <1>2

LEMMA Invariance == Spec => []IInv
BY InitIInv, NextIInv, PTL DEF Spec

-----------------------------------------------------------------------------
(* The properties. *)

\* The middleware's state keeps its type, and the mark its time to live.
THEOREM TypeCorrect == Spec => []TypeOK
<1>1. IInv => TypeOK
  BY DEF IInv
<1>2. QED
  BY <1>1, Invariance, PTL

\* Two requests execute side by side only if one of them is without its mark.
THEOREM OneAtATime == Spec => []OneAtATimeUnlessExposed
<1>1. IInv => OneAtATimeUnlessExposed
  BY DEF IInv, MarkIsKept, OneAtATimeUnlessExposed
<1>2. QED
  BY <1>1, Invariance, PTL

\* A mark is overwritten only by a request that had passed its check when the
\* mark was set, or whose check has failed since (is_processing(),
\* mark_processing()).
THEOREM RacersOverwrite == Spec => []OnlyRacersOverwrite
<1>1. IInv => OnlyRacersOverwrite
  BY DEF IInv
<1>2. QED
  BY <1>1, Invariance, PTL

\* Who keeps its mark has the retries refused while it executes, stores its
\* response and clears the mark, but for those whose check fails (dispatch(),
\* is_processing()).
THEOREM MarkRefusesRetries == Spec => RetriesAreRefused
<1>1. IInv /\ [Next]_vars =>
        [\A r, s \in Requests :
           /\ Inside(r)
           /\ exposed[r] = "no"
           /\ phase[s] = "checking"
           /\ phase'[s] = "marking"
           => s \in racers']_vars
  <2> SUFFICES ASSUME IInv, Next, NEW r \in Requests, NEW s \in Requests,
                      Inside(r), exposed[r] = "no",
                      phase[s] = "checking", phase'[s] = "marking"
               PROVE  s \in racers'
    OBVIOUS
  <2>1. mark # Nobody
    BY IdempotencyAssumption DEF IInv, MarkIsKept
  <2>2. \A q \in Requests : \A where : Become(q, where) => q = s /\ where = "marking"
    BY DEF Become, IInv, TypeOK
  <2>3. ASSUME NEW q \in Requests, Request(q) PROVE PassUnchecked(s)
    BY <2>1, <2>2, <2>3 DEF Request, LookUp, Conflict, Pass, PassUnchecked, Mark, MarkFails,
         Respond, Store, StoreFails, Finish, Clear, ClearFails, Crash
  <2>4. ~ UNCHANGED phase
    OBVIOUS
  <2>5. PassUnchecked(s)
    BY <2>3, <2>4 DEF Next, Tick, RecordExpires, InvalidateRecord, InvalidateMark, InvalidateFails
  <2>6. QED
    BY <2>5 DEF PassUnchecked
<1>2. QED
  BY Invariance, <1>1, PTL DEF Spec, RetriesAreRefused

-----------------------------------------------------------------------------
(* How exposure comes about. *)

\* What takes the mark of r away, or keeps it from being set
Cause(r) ==
  \/ MarkFails(r)
  \/ Tick /\ ttl = 1
  \/ \E s \in racers \ {r} : Mark(s)
  \/ \E s \in Requests \ {r} : Clear(s) /\ exposed[s] # "no"
  \/ InvalidateMark

ExposureHasCause ==
  [][\A r \in Requests : exposed'[r] # exposed[r] => Cause(r)]_vars

\* Expose() concerns a request that the mark names and that is inside.
LEMMA ExposeConcerns ==
  ASSUME NEW how, Expose(how), NEW r \in Requests, exposed'[r] # exposed[r]
  PROVE  mark = r /\ Inside(r)
BY DEF Expose

\* A request that runs without its mark has lost it to Redis (an error or the
\* expiry), to a request that raced it or was not checked, to an invalidation,
\* or to the clear_processing() of a request that was without its own: one that
\* still has its mark never clears another's, so the damage spreads but does not
\* start there (mark_processing(), clear_processing()).
THEOREM ExposedForCause == Spec => ExposureHasCause
<1>1. IInv /\ [Next]_vars => [\A r \in Requests : exposed'[r] # exposed[r] => Cause(r)]_vars
  <2> SUFFICES ASSUME IInv, Next, NEW r \in Requests, exposed'[r] # exposed[r]
               PROVE  Cause(r)
    OBVIOUS
  <2>1. CASE Tick
    <3>1. ttl = 1
      BY <2>1 DEF Tick
    <3>2. QED
      BY <2>1, <3>1 DEF Cause
  <2>2. ASSUME NEW s \in Requests, Mark(s) PROVE Cause(r)
    <3>1. mark = r /\ Inside(r)
      BY <2>2, ExposeConcerns DEF Mark
    <3>2. s # r /\ mark # Nobody
      BY <2>2, <3>1, IdempotencyAssumption DEF Mark, Inside
    <3>3. s \in racers
      BY <2>2, <3>2 DEF IInv, OnlyRacersOverwrite, Mark
    <3>4. QED
      BY <2>2, <3>2, <3>3 DEF Cause
  <2>3. ASSUME NEW s \in Requests, MarkFails(s) PROVE Cause(r)
    <3>1. s = r
      BY <2>3 DEF MarkFails, IInv, TypeOK
    <3>2. QED
      BY <2>3, <3>1 DEF Cause
  <2>4. ASSUME NEW s \in Requests, Clear(s) PROVE Cause(r)
    <3>1. mark # s /\ Expose("cleared") /\ Inside(s)
      BY <2>4 DEF Clear, Finish, Inside
    <3>2. mark = r
      BY <3>1, ExposeConcerns
    <3>3. exposed[s] # "no"
      BY <3>1 DEF IInv, MarkIsKept
    <3>4. QED
      BY <2>4, <3>1, <3>2, <3>3 DEF Cause
  <2>5. CASE InvalidateMark
    BY <2>5 DEF Cause
  <2>6. CASE RecordExpires \/ InvalidateRecord \/ InvalidateFails
    BY <2>6 DEF RecordExpires, InvalidateRecord, InvalidateFails, history
  <2>7. ASSUME NEW s \in Requests,
               \/ LookUp(s) \/ Conflict(s) \/ Pass(s) \/ PassUnchecked(s)
               \/ Respond(s) \/ Store(s) \/ StoreFails(s) \/ ClearFails(s) \/ Crash(s)
        PROVE  FALSE
    BY <2>7 DEF LookUp, Conflict, Pass, PassUnchecked, Respond, Store, StoreFails,
                ClearFails, Crash, history
  <2>8. QED
    BY <2>1, <2>2, <2>3, <2>4, <2>5, <2>6, <2>7 DEF Next, Request
<1>2. QED
  BY Invariance, <1>1, PTL DEF Spec, ExposureHasCause
=============================================================================
