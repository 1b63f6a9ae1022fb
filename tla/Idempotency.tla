----------------------------- MODULE Idempotency -----------------------------
(***************************************************************************)
(* IdempotencyMiddleware (resync/api/middleware/idempotency.py) over the   *)
(* IdempotencyManager (resync/core/idempotency/manager.py) and its storage *)
(* in Redis (resync/core/idempotency/storage.py), for the requests of any  *)
(* processes that carry one idempotency key: a client's first attempt and  *)
(* its retries.  Every Redis command is a step.  The key has a processing  *)
(* mark, which expires, and a record of the response.                      *)
(*                                                                         *)
(* storage.set() writes str(record.to_dict()), and storage.get() passes    *)
(* that text to from_dict(), which raises: a record that exists is never   *)
(* found, and the lookup changes nothing.  So `record' is written and no   *)
(* step depends on it: what a retry meets is the mark alone.               *)
(***************************************************************************)
EXTENDS Integers

CONSTANTS
  Requests,  (* requests with the key                                       *)
  MarkTTL,   (* ttl_seconds of mark_processing(), in ticks of the clock     *)
  Nobody

ASSUME IdempotencyAssumption ==
  /\ MarkTTL \in Nat \ {0}
  /\ Nobody \notin Requests

VARIABLES
  mark,       (* the request that last set the processing mark, or Nobody   *)
  ttl,        (* ticks until the mark expires                               *)
  record,     (* whether the record of a response is in Redis, undecodable  *)
  phase,      (* phase[r]: where the middleware is with r                   *)
  deleting,   (* invalidate_key() has deleted the record, not yet the mark  *)
  exposed,    (* history: how r came to execute without its mark            *)
  racers      (* history: requests that were about to mark when the mark    *)
              (* was set, or whose check has failed since                   *)

markVars == <<mark, ttl>>
history == <<exposed, racers>>
vars == <<markVars, record, phase, deleting, history>>

TypeOK ==
  /\ mark \in Requests \cup {Nobody}
  /\ ttl \in 0..MarkTTL
  /\ (mark = Nobody) <=> (ttl = 0)
  /\ record \in BOOLEAN
  /\ phase \in [Requests ->
       {"arrived", "checking", "marking", "executing", "storing", "stored",
        "failed", "answered", "ended"}]
  /\ deleting \in BOOLEAN
  /\ exposed \in [Requests ->
       {"no", "unmarked", "expired", "overwritten", "cleared"}]
  /\ racers \in SUBSET Requests

Init ==
  /\ mark = Nobody
  /\ ttl = 0
  /\ record = FALSE
  /\ phase = [r \in Requests |-> "arrived"]
  /\ deleting = FALSE
  /\ exposed = [r \in Requests |-> "no"]
  /\ racers = {}

Become(r, where) == phase' = [phase EXCEPT ![r] = where]

\* From the mark to its removal
Inside(r) == phase[r] \in {"executing", "storing", "stored", "failed"}

-----------------------------------------------------------------------------
(* The keys *)

\* The request that counts on the mark will have it no longer
Expose(how) ==
  exposed' = [r \in Requests |-> IF mark = r /\ Inside(r) THEN how ELSE exposed[r]]

Unmark == mark' = Nobody /\ ttl' = 0

\* Faulty variant: the time to live goes down past the mark it belongs to
TickUnmarkedLate ==
  /\ ttl > 0
  /\ ttl' = ttl - 1
  /\ UNCHANGED <<mark, record, phase, deleting, history>>

\* Time passes, and Redis removes a mark that expires
Tick ==
  /\ ttl > 0
  /\ IF ttl = 1
     THEN Unmark /\ Expose("expired")
     ELSE ttl' = ttl - 1 /\ UNCHANGED <<mark, exposed>>
  /\ UNCHANGED <<record, phase, deleting, racers>>

\* The record's day is over
RecordExpires ==
  /\ record
  /\ record' = FALSE
  /\ UNCHANGED <<markVars, phase, deleting, history>>

-----------------------------------------------------------------------------
(* A request *)

\* get_cached_response() finds nothing, whether there is a record or not: a
\* request that comes when the response of another has been stored goes on
LookUp(r) ==
  /\ phase[r] = "arrived"
  /\ Become(r, "checking")
  /\ UNCHANGED <<markVars, record, deleting, history>>

\* Faulty variant: the finally that clears the mark is also around the check
ConflictCleared(r) ==
  /\ phase[r] = "checking"
  /\ mark # Nobody
  /\ Become(r, "ended")
  /\ Unmark
  /\ UNCHANGED <<record, deleting, history>>

\* is_processing() finds the mark of another request: HTTP 409, and the mark
\* is left alone
Conflict(r) ==
  /\ phase[r] = "checking"
  /\ mark # Nobody
  /\ Become(r, "ended")
  /\ UNCHANGED <<markVars, record, deleting, history>>

\* Faulty variant: what is_processing() answers is not looked at
PassAnyway(r) ==
  /\ phase[r] = "checking"
  /\ Become(r, "marking")
  /\ UNCHANGED <<markVars, record, deleting, history>>

\* is_processing() finds no mark
Pass(r) ==
  /\ phase[r] = "checking"
  /\ mark = Nobody
  /\ Become(r, "marking")
  /\ UNCHANGED <<markVars, record, deleting, history>>

\* is_processing() fails: an error of Redis, and a key that the validator
\* rejects, count as no mark
PassUnchecked(r) ==
  /\ phase[r] = "checking"
  /\ Become(r, "marking")
  /\ racers' = racers \cup {r}
  /\ UNCHANGED <<markVars, record, deleting, exposed>>

\* r sets the mark: who else may set it now?
RaceOf(r) == racers' = {s \in Requests \ {r} : phase[s] = "marking"}

\* mark_processing(): SETEX, over whatever mark there is.  An answer that gets
\* lost makes no difference, since the request goes on.
Mark(r) ==
  /\ phase[r] = "marking"
  /\ mark' = r
  /\ ttl' = MarkTTL
  /\ Expose("overwritten")
  /\ RaceOf(r)
  /\ Become(r, "executing")
  /\ UNCHANGED <<record, deleting>>

\* SETEX is not executed, and the request goes on
MarkFails(r) ==
  /\ phase[r] = "marking"
  /\ exposed' = [exposed EXCEPT ![r] = "unmarked"]
  /\ Become(r, "executing")
  /\ UNCHANGED <<markVars, record, deleting, racers>>

\* Faulty variant: the mark is cleared before the response is stored
RespondCleared(r) ==
  /\ phase[r] = "executing"
  /\ \E next \in {"storing", "failed"} : Become(r, next)
  /\ Unmark
  /\ UNCHANGED <<record, deleting, history>>

\* The operation answers: with 2xx, with another status, or with an exception
Respond(r) ==
  /\ phase[r] = "executing"
  /\ \E next \in {"storing", "failed"} : Become(r, next)
  /\ UNCHANGED <<markVars, record, deleting, history>>

\* cache_response(): SETEX of the record
Store(r) ==
  /\ phase[r] = "storing"
  /\ record' = TRUE
  /\ Become(r, "stored")
  /\ UNCHANGED <<markVars, deleting, history>>

\* The response is too large, or SETEX fails: no record
StoreFails(r) ==
  /\ phase[r] = "storing"
  /\ Become(r, "failed")
  /\ UNCHANGED <<markVars, record, deleting, history>>

Finish(r) ==
  \/ phase[r] = "stored" /\ Become(r, "answered")
  \/ phase[r] = "failed" /\ Become(r, "ended")

\* clear_processing(): DEL of the mark, whoever has set it
Clear(r) ==
  /\ Finish(r)
  /\ Unmark
  /\ IF mark = r THEN UNCHANGED exposed ELSE Expose("cleared")
  /\ UNCHANGED <<record, deleting, racers>>

\* DEL fails, which is logged
ClearFails(r) ==
  /\ Finish(r)
  /\ UNCHANGED <<markVars, record, deleting, history>>

\* The process of r dies, or its task is cancelled where it awaits Redis
Crash(r) ==
  /\ phase[r] \notin {"answered", "ended"}
  /\ Become(r, "ended")
  /\ UNCHANGED <<markVars, record, deleting, history>>

-----------------------------------------------------------------------------
(* invalidate_key() *)

InvalidateRecord ==
  /\ ~deleting
  /\ deleting' = TRUE
  /\ record' = FALSE
  /\ UNCHANGED <<markVars, phase, history>>

InvalidateMark ==
  /\ deleting
  /\ deleting' = FALSE
  /\ Unmark
  /\ Expose("cleared")
  /\ UNCHANGED <<record, phase, racers>>

\* An error of Redis between the two
InvalidateFails ==
  /\ deleting
  /\ deleting' = FALSE
  /\ UNCHANGED <<markVars, record, phase, history>>

-----------------------------------------------------------------------------

Request(r) ==
  \/ LookUp(r) \/ Conflict(r) \/ Pass(r) \/ PassUnchecked(r) \/ Mark(r) \/ MarkFails(r)
  \/ Respond(r) \/ Store(r) \/ StoreFails(r) \/ Clear(r) \/ ClearFails(r) \/ Crash(r)

Next ==
  \/ Tick \/ RecordExpires
  \/ \E r \in Requests : Request(r)
  \/ InvalidateRecord \/ InvalidateMark \/ InvalidateFails

Spec == Init /\ [][Next]_vars

-----------------------------------------------------------------------------
(* Properties *)

\* "Bloqueio de processamento concorrente": two requests execute the operation
\* side by side only if one of them is without its mark, because it was not
\* set, has expired, was overwritten by a request that had checked before, or
\* was cleared with another request's or by an invalidation.
OneAtATimeUnlessExposed ==
  \A r, s \in Requests :
    r # s /\ Inside(r) /\ Inside(s) => exposed[r] # "no" \/ exposed[s] # "no"

\* While there is a mark, only a request that had passed its check when that
\* mark was set, or whose check has failed, is about to overwrite it.
OnlyRacersOverwrite ==
  mark # Nobody => \A r \in Requests : phase[r] = "marking" => r \in racers

\* From its mark until its response has been stored and the mark cleared, a
\* request that keeps its mark has every retry refused that is checked: none
\* passes but one whose check fails.  Beyond that nothing refuses a retry.
RetriesAreRefused ==
  [][\A r, s \in Requests :
       /\ Inside(r)
       /\ exposed[r] = "no"
       /\ phase[s] = "checking"
       /\ phase'[s] = "marking"
       => s \in racers']_vars
=============================================================================
