------------------------------ MODULE AuditLock ------------------------------
(***************************************************************************)
(* DistributedAuditLock (resync/core/audit_lock.py) as the IA auditor uses *)
(* it (resync/core/ia_auditor.py).  Every chat message starts an audit     *)
(* run, in any worker process: the run first sweeps the "expired" locks,   *)
(* then audits the recent memories concurrently, each inside a lock on its *)
(* id.  The locks are keys of a Redis that all the processes share.        *)
(***************************************************************************)
EXTENDS Integers

CONSTANTS
  Runs,      (* runs of analyze_and_flag_memories that may be under way     *)
  Memories,  (* memory ids                                                  *)
  Timeout,   (* the timeout of acquire(), in ticks of the clock             *)
  MaxAge,    (* max_age of cleanup_expired_locks(), in ticks                *)
  Nobody, NoMemory

ASSUME LockAssumption ==
  /\ Timeout \in Nat \ {0}
  /\ MaxAge \in Nat
  /\ Nobody \notin Runs
  /\ NoMemory \notin Memories

VARIABLES
  owner,    (* owner[m]: whose lock_value the key of m holds                *)
  ttl,      (* ttl[m]: ticks until the key expires; 0: no key, or a key     *)
            (* that does not expire                                         *)
  phase,    (* phase[r]: where the run is                                   *)
  pending,  (* pending[r]: keys the sweep has listed and not looked at      *)
  doomed,   (* doomed[r]: the key the sweep is about to delete              *)
  ctx,      (* ctx[r][m]: r's AuditLockContext of m                         *)
  lost      (* history: how r lost the lock of m while it was inside        *)

vars == <<owner, ttl, phase, pending, doomed, ctx, lost>>

keyVars   == <<owner, ttl>>
sweepVars == <<phase, pending, doomed>>

TypeOK ==
  /\ owner \in [Memories -> Runs \cup {Nobody}]
  /\ ttl \in [Memories -> 0..Timeout]
  /\ phase \in [Runs -> {"idle", "sweeping", "auditing"}]
  /\ pending \in [Runs -> SUBSET Memories]
  /\ doomed \in [Runs -> Memories \cup {NoMemory}]
  /\ ctx \in [Runs -> [Memories -> {"out", "entering", "inside"}]]
  /\ lost \in [Runs -> [Memories -> {"none", "expired", "swept", "forced"}]]

Init ==
  /\ owner = [m \in Memories |-> Nobody]
  /\ ttl = [m \in Memories |-> 0]
  /\ phase = [r \in Runs |-> "idle"]
  /\ pending = [r \in Runs |-> {}]
  /\ doomed = [r \in Runs |-> NoMemory]
  /\ ctx = [r \in Runs |-> [m \in Memories |-> "out"]]
  /\ lost = [r \in Runs |-> [m \in Memories |-> "none"]]

-----------------------------------------------------------------------------
(* The keys *)

\* Faulty variant: ex= for px=
PutMillisecondsAsSeconds(m, r) ==
  /\ owner' = [owner EXCEPT ![m] = r]
  /\ ttl' = [ttl EXCEPT ![m] = 1000 * Timeout]

Put(m, r) ==
  /\ owner' = [owner EXCEPT ![m] = r]
  /\ ttl' = [ttl EXCEPT ![m] = Timeout]

Remove(m) ==
  /\ owner' = [owner EXCEPT ![m] = Nobody]
  /\ ttl' = [ttl EXCEPT ![m] = 0]

Expiring == {m \in Memories : ttl[m] = 1}

\* r is inside and counts on a key in S
Uses(r, m, S) == m \in S /\ ctx[r][m] = "inside" /\ owner[m] = r

Lose(S, how) ==
  lost' = [r \in Runs |-> [m \in Memories |-> IF Uses(r, m, S) THEN how ELSE lost[r][m]]]

\* Faulty variant: the keys whose users died are never removed
TickForUsersOnly ==
  LET Used == {m \in Expiring : \E r \in Runs : Uses(r, m, {m})} IN
  /\ \E m \in Memories : ttl[m] > 0
  /\ ttl' = [m \in Memories |-> IF ttl[m] > 0 THEN ttl[m] - 1 ELSE 0]
  /\ owner' = [m \in Memories |-> IF m \in Used THEN Nobody ELSE owner[m]]
  /\ Lose(Used, "expired")
  /\ UNCHANGED <<sweepVars, ctx>>

\* Time passes, and Redis removes the keys that expire
Tick ==
  /\ \E m \in Memories : ttl[m] > 0
  /\ ttl' = [m \in Memories |-> IF ttl[m] > 0 THEN ttl[m] - 1 ELSE 0]
  /\ owner' = [m \in Memories |-> IF m \in Expiring THEN Nobody ELSE owner[m]]
  /\ Lose(Expiring, "expired")
  /\ UNCHANGED <<sweepVars, ctx>>

-----------------------------------------------------------------------------
(* A run: the sweep *)

\* analyze_and_flag_memories() begins; the KEYS of cleanup_expired_locks()
Start(r) ==
  /\ phase[r] = "idle"
  /\ phase' = [phase EXCEPT ![r] = "sweeping"]
  /\ pending' = [pending EXCEPT ![r] = {m \in Memories : owner[m] # Nobody}]
  /\ UNCHANGED <<keyVars, doomed, ctx, lost>>

\* TTL of one key: what is left of its life, taken for its age.  A key that is
\* gone has a TTL of -2 and is deleted too.
ReadTTL(r, m) ==
  /\ phase[r] = "sweeping"
  /\ doomed[r] = NoMemory
  /\ m \in pending[r]
  /\ pending' = [pending EXCEPT ![r] = @ \ {m}]
  /\ doomed' = [doomed EXCEPT ![r] = IF ttl[m] <= MaxAge THEN m ELSE NoMemory]
  /\ UNCHANGED <<keyVars, phase, ctx, lost>>

\* DEL of that key, whoever holds it by now
Delete(r) ==
  /\ phase[r] = "sweeping"
  /\ doomed[r] # NoMemory
  /\ Remove(doomed[r])
  /\ Lose({doomed[r]}, "swept")
  /\ doomed' = [doomed EXCEPT ![r] = NoMemory]
  /\ UNCHANGED <<phase, pending, ctx>>

\* The sweep ends (an error of Redis may end it anywhere) and the recent
\* memories S are fetched; without any, or if that fails, the run is over
Fetch(r) ==
  /\ phase[r] = "sweeping"
  /\ \E S \in SUBSET Memories :
       /\ ctx' = [ctx EXCEPT ![r] =
                    [m \in Memories |-> IF m \in S THEN "entering" ELSE "out"]]
       /\ phase' = [phase EXCEPT ![r] = IF S = {} THEN "idle" ELSE "auditing"]
  /\ pending' = [pending EXCEPT ![r] = {}]
  /\ doomed' = [doomed EXCEPT ![r] = NoMemory]
  /\ UNCHANGED <<keyVars, lost>>

-----------------------------------------------------------------------------
(* A run: analyze_memory(m), one coroutine for each memory *)

SetCtx(r, m, where) == ctx' = [ctx EXCEPT ![r][m] = where]

\* Faulty variant: SET without NX
EnterOverwriting(r, m) ==
  /\ ctx[r][m] = "entering"
  /\ Put(m, r)
  /\ SetCtx(r, m, "inside")
  /\ lost' = [lost EXCEPT ![r][m] = "none"]
  /\ UNCHANGED sweepVars

\* SET NX PX succeeds
Enter(r, m) ==
  /\ ctx[r][m] = "entering"
  /\ owner[m] = Nobody
  /\ Put(m, r)
  /\ SetCtx(r, m, "inside")
  /\ lost' = [lost EXCEPT ![r][m] = "none"]
  /\ UNCHANGED sweepVars

\* SET NX does not set (AuditError), or is answered with a RedisError before
\* it is executed
Refused(r, m) ==
  /\ ctx[r][m] = "entering"
  /\ SetCtx(r, m, "out")
  /\ UNCHANGED <<keyVars, sweepVars, lost>>

\* SET NX sets the key and the answer is lost: RedisError
EnterUnanswered(r, m) ==
  /\ ctx[r][m] = "entering"
  /\ owner[m] = Nobody
  /\ Put(m, r)
  /\ SetCtx(r, m, "out")
  /\ UNCHANGED <<sweepVars, lost>>

\* Faulty variant: DEL instead of the check-and-delete script
LeaveUnchecked(r, m) ==
  /\ ctx[r][m] = "inside"
  /\ Remove(m)
  /\ SetCtx(r, m, "out")
  /\ UNCHANGED <<sweepVars, lost>>

\* The body ends, in whatever way, and the release script is executed
Leave(r, m) ==
  /\ ctx[r][m] = "inside"
  /\ IF owner[m] = r THEN Remove(m) ELSE UNCHANGED keyVars
  /\ SetCtx(r, m, "out")
  /\ UNCHANGED <<sweepVars, lost>>

\* The body ends and the release script is not executed: DatabaseError
LeaveLocked(r, m) ==
  /\ ctx[r][m] = "inside"
  /\ SetCtx(r, m, "out")
  /\ UNCHANGED <<keyVars, sweepVars, lost>>

\* gather() returns when all the coroutines have
Finish(r) ==
  /\ phase[r] = "auditing"
  /\ \A m \in Memories : ctx[r][m] = "out"
  /\ phase' = [phase EXCEPT ![r] = "idle"]
  /\ UNCHANGED <<keyVars, pending, doomed, ctx, lost>>

-----------------------------------------------------------------------------
(* The surroundings *)

\* The process of r dies, and its locks stay
Crash(r) ==
  /\ phase[r] # "idle"
  /\ phase' = [phase EXCEPT ![r] = "idle"]
  /\ pending' = [pending EXCEPT ![r] = {}]
  /\ doomed' = [doomed EXCEPT ![r] = NoMemory]
  /\ ctx' = [ctx EXCEPT ![r] = [m \in Memories |-> "out"]]
  /\ UNCHANGED <<keyVars, lost>>

\* force_release(m), an administrator's
ForceRelease(m) ==
  /\ owner[m] # Nobody
  /\ Remove(m)
  /\ Lose({m}, "forced")
  /\ UNCHANGED <<sweepVars, ctx>>

Analyze(r, m) ==
  Enter(r, m) \/ Refused(r, m) \/ EnterUnanswered(r, m) \/ Leave(r, m) \/ LeaveLocked(r, m)

Run(r) ==
  \/ Start(r) \/ Delete(r) \/ Fetch(r) \/ Finish(r) \/ Crash(r)
  \/ \E m \in Memories : ReadTTL(r, m) \/ Analyze(r, m)

Next ==
  \/ Tick
  \/ \E r \in Runs : Run(r)
  \/ \E m \in Memories : ForceRelease(m)

Spec == Init /\ [][Next]_vars

\* Time passes; nothing is asked of the runs
LiveSpec == Spec /\ WF_vars(Tick)

-----------------------------------------------------------------------------
(* Properties *)

\* A run inside the lock of m that has not lost it is the one whose value the
\* key holds.
HoldersOwnTheirKey ==
  \A r \in Runs, m \in Memories :
    ctx[r][m] = "inside" /\ lost[r][m] = "none" => owner[m] = r

\* Of two runs inside the lock of one memory, one has seen its lock expire,
\* swept or forced open: no late release of a third run, no failed call and no
\* crash lets two of them in.
ExclusiveUnlessLost ==
  \A r, s \in Runs, m \in Memories :
    (r # s /\ ctx[r][m] = "inside" /\ ctx[s][m] = "inside")
      => (lost[r][m] # "none" \/ lost[s][m] # "none")

\* No key stays for ever with one value, not even the key of a process that
\* died or of a call whose answer was lost.
LocksAreFreed ==
  \A r \in Runs, m \in Memories : (owner[m] = r) ~> (owner[m] # r)

\* The class docstring, "provides atomic locking to prevent race conditions
\* when multiple IA Auditor processes attempt to process the same memory
\* simultaneously": within their timeout, and unless an administrator
\* interferes, two runs are never inside the lock of one memory.
ExclusiveWithinTimeout ==
  \A r, s \in Runs, m \in Memories :
    (r # s /\ ctx[r][m] = "inside" /\ ctx[s][m] = "inside")
      => \E q \in {r, s} : lost[q][m] \in {"expired", "forced"}
=============================================================================
