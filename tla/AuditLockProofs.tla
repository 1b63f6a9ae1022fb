--------------------------- MODULE AuditLockProofs ---------------------------
(***************************************************************************)
(* What the audit lock promises, for any number of runs and memories and   *)
(* any timeouts.                                                           *)
(*                                                                         *)
(* ExclusiveUnlessLost follows from HoldersOwnTheirKey, as a key holds one *)
(* value; and HoldersOwnTheirKey is inductive because SET NX writes no key *)
(* that exists, the release script deletes its own value only, and every   *)
(* other deletion is one the user of the key has seen (Lose).              *)
(***************************************************************************)
EXTENDS AuditLock, TLAPS

\* Every key has an expiry: what LocksAreFreed rests on.
KeysExpire == \A m \in Memories : owner[m] # Nobody <=> ttl[m] > 0

IInv ==
  /\ TypeOK
  /\ HoldersOwnTheirKey
  /\ KeysExpire

-----------------------------------------------------------------------------
(* What removing keys does to those who use them. *)

\* Lose() marks exactly the users of the keys in S.
LEMMA LoseMarksUsers ==
  ASSUME TypeOK, NEW S, NEW how \in {"expired", "swept", "forced"}, Lose(S, how)
  PROVE  /\ lost' \in [Runs -> [Memories -> {"none", "expired", "swept", "forced"}]]
         /\ \A r \in Runs, m \in Memories :
              lost'[r][m] = "none" => lost[r][m] = "none" /\ ~ Uses(r, m, S)
<1>1. \A r \in Runs, m \in Memories :
        lost'[r][m] = IF Uses(r, m, S) THEN how ELSE lost[r][m]
  BY DEF Lose
<1>2. \A r \in Runs, m \in Memories :
        lost[r][m] \in {"none", "expired", "swept", "forced"}
  BY DEF TypeOK
<1>3. lost' = [r \in Runs |-> [m \in Memories |-> IF Uses(r, m, S) THEN how ELSE lost[r][m]]]
  BY DEF Lose
<1>4. \A r \in Runs, m \in Memories :
        (IF Uses(r, m, S) THEN how ELSE lost[r][m]) \in {"none", "expired", "swept", "forced"}
  BY <1>2
<1>5. lost' \in [Runs -> [Memories -> {"none", "expired", "swept", "forced"}]]
  BY <1>3, <1>4
<1>6. QED
  BY <1>1, <1>5

\* If the keys in S are removed, no others, and their users marked, holders
\* still own their keys.
LEMMA RemovalKeepsHolders ==
  ASSUME TypeOK, HoldersOwnTheirKey,
         NEW S, NEW how \in {"expired", "swept", "forced"}, Lose(S, how),
         UNCHANGED ctx,
         \A m \in Memories : m \notin S => owner'[m] = owner[m]
  PROVE  HoldersOwnTheirKey'
<1> SUFFICES ASSUME NEW r \in Runs, NEW m \in Memories,
                    ctx'[r][m] = "inside", lost'[r][m] = "none"
             PROVE  owner'[m] = r
  BY DEF HoldersOwnTheirKey
<1>1. lost[r][m] = "none" /\ ~ Uses(r, m, S)
  BY LoseMarksUsers
<1>2. owner[m] = r
  BY <1>1 DEF HoldersOwnTheirKey
<1>3. m \notin S
  BY <1>1, <1>2 DEF Uses
<1>4. QED
  BY <1>2, <1>3

-----------------------------------------------------------------------------
(* The inductive invariant. *)

LEMMA InitIInv == Init => IInv
BY LockAssumption DEF Init, IInv, TypeOK, HoldersOwnTheirKey, KeysExpire

\* The clock keeps it.
LEMMA TickIInv == IInv /\ Tick => IInv'
<1> SUFFICES ASSUME IInv, Tick PROVE IInv'
  OBVIOUS
<1> USE LockAssumption
<1>1. /\ owner' \in [Memories -> Runs \cup {Nobody}]
      /\ ttl' \in [Memories -> 0..Timeout]
  BY DEF IInv, TypeOK, Tick, Expiring
<1>2. TypeOK'
  BY <1>1, LoseMarksUsers DEF IInv, TypeOK, Tick, sweepVars
<1>3. \A m \in Memories : m \notin Expiring => owner'[m] = owner[m]
  BY DEF Tick
<1>4. HoldersOwnTheirKey'
  BY <1>3, RemovalKeepsHolders DEF IInv, Tick
<1>5. KeysExpire'
  BY DEF IInv, TypeOK, KeysExpire, Tick, Expiring
<1>6. QED
  BY <1>2, <1>4, <1>5 DEF IInv

\* A deletion that asks for no owner keeps it.
LEMMA RemoveIInv ==
  ASSUME IInv, NEW k \in Memories, Remove(k), UNCHANGED ctx,
         NEW how \in {"swept", "forced"}, Lose({k}, how)
  PROVE  HoldersOwnTheirKey' /\ KeysExpire'
<1>1. \A m \in Memories : m \notin {k} => owner'[m] = owner[m]
  BY DEF IInv, TypeOK, Remove
<1>2. HoldersOwnTheirKey'
  BY <1>1, RemovalKeepsHolders DEF IInv
<1>3. KeysExpire'
  BY DEF IInv, TypeOK, KeysExpire, Remove
<1>4. QED
  BY <1>2, <1>3

\* The sweep and the end of a run, and the crash of its process, keep it.
LEMMA RunIInv ==
  ASSUME IInv, NEW r \in Runs,
         \/ Start(r) \/ Delete(r) \/ Fetch(r) \/ Finish(r) \/ Crash(r)
         \/ \E m \in Memories : ReadTTL(r, m)
  PROVE  IInv'
<1> USE DEF IInv, sweepVars, keyVars
<1>1. CASE Start(r)
  BY <1>1 DEF Start, TypeOK, HoldersOwnTheirKey, KeysExpire
<1>2. CASE Delete(r)
  <2>1. doomed[r] \in Memories
    BY <1>2 DEF Delete, TypeOK
  <2>2. HoldersOwnTheirKey' /\ KeysExpire'
    BY <1>2, <2>1, RemoveIInv DEF Delete
  <2>3. TypeOK'
    BY <1>2, <2>1, LoseMarksUsers, LockAssumption DEF Delete, Remove, TypeOK
  <2>4. QED
    BY <2>2, <2>3
<1>3. CASE Fetch(r)
  <2>1. TypeOK'
    BY <1>3 DEF Fetch, TypeOK
  <2>2. \A q \in Runs, m \in Memories : ctx'[q][m] = "inside" => ctx[q][m] = "inside"
    BY <1>3 DEF Fetch, TypeOK
  <2>3. HoldersOwnTheirKey' /\ KeysExpire'
    BY <1>3, <2>2 DEF Fetch, HoldersOwnTheirKey, KeysExpire
  <2>4. QED
    BY <2>1, <2>3
<1>4. CASE Finish(r)
  BY <1>4 DEF Finish, TypeOK, HoldersOwnTheirKey, KeysExpire
<1>5. CASE Crash(r)
  <2>1. TypeOK'
    BY <1>5 DEF Crash, TypeOK
  <2>2. \A q \in Runs, m \in Memories : ctx'[q][m] = "inside" => ctx[q][m] = "inside"
    BY <1>5 DEF Crash, TypeOK
  <2>3. HoldersOwnTheirKey' /\ KeysExpire'
    BY <1>5, <2>2 DEF Crash, HoldersOwnTheirKey, KeysExpire
  <2>4. QED
    BY <2>1, <2>3
<1>6. ASSUME NEW m \in Memories, ReadTTL(r, m) PROVE IInv'
  <2>1. TypeOK'
    BY <1>6 DEF ReadTTL, TypeOK
  <2>2. HoldersOwnTheirKey' /\ KeysExpire'
    BY <1>6 DEF ReadTTL, HoldersOwnTheirKey, KeysExpire
  <2>3. QED
    BY <2>1, <2>2
<1>7. QED
  BY <1>1, <1>2, <1>3, <1>4, <1>5, <1>6

\* analyze_memory(m) keeps it.
LEMMA AnalyzeIInv ==
  ASSUME IInv, NEW r \in Runs, NEW m \in Memories, Analyze(r, m)
  PROVE  IInv'
<1> USE LockAssumption DEF IInv, sweepVars, keyVars, SetCtx
<1>1. CASE Enter(r, m)
  <2>1. TypeOK'
    BY <1>1 DEF Enter, Put, TypeOK
  <2>2. HoldersOwnTheirKey'
    BY <1>1 DEF Enter, Put, TypeOK, HoldersOwnTheirKey
  <2>3. KeysExpire'
    BY <1>1 DEF Enter, Put, TypeOK, KeysExpire
  <2>4. QED
    BY <2>1, <2>2, <2>3
<1>2. CASE Refused(r, m)
  BY <1>2 DEF Refused, TypeOK, HoldersOwnTheirKey, KeysExpire
<1>3. CASE EnterUnanswered(r, m)
  <2>1. TypeOK'
    BY <1>3 DEF EnterUnanswered, Put, TypeOK
  <2>2. HoldersOwnTheirKey'
    BY <1>3 DEF EnterUnanswered, Put, TypeOK, HoldersOwnTheirKey
  <2>3. KeysExpire'
    BY <1>3 DEF EnterUnanswered, Put, TypeOK, KeysExpire
  <2>4. QED
    BY <2>1, <2>2, <2>3
<1>4. CASE Leave(r, m)
  <2>1. TypeOK'
    BY <1>4 DEF Leave, Remove, TypeOK
  <2>2. HoldersOwnTheirKey'
    BY <1>4 DEF Leave, Remove, TypeOK, HoldersOwnTheirKey
  <2>3. KeysExpire'
    BY <1>4 DEF Leave, Remove, TypeOK, KeysExpire
  <2>4. QED
    BY <2>1, <2>2, <2>3
<1>5. CASE LeaveLocked(r, m)
  BY <1>5 DEF LeaveLocked, TypeOK, HoldersOwnTheirKey, KeysExpire
<1>6. QED
  BY <1>1, <1>2, <1>3, <1>4, <1>5 DEF Analyze

LEMMA NextIInv == IInv /\ [Next]_vars => IInv'
<1> SUFFICES ASSUME IInv, [Next]_vars PROVE IInv'
  OBVIOUS
<1>1. CASE Tick
  BY <1>1, TickIInv
<1>2. ASSUME NEW r \in Runs, Run(r) PROVE IInv'
  BY <1>2, RunIInv, AnalyzeIInv DEF Run
<1>3. ASSUME NEW m \in Memories, ForceRelease(m) PROVE IInv'
  <2>1. HoldersOwnTheirKey' /\ KeysExpire'
    BY <1>3, RemoveIInv DEF ForceRelease
  <2>2. TypeOK'
    BY <1>3, LoseMarksUsers, LockAssumption
    DEF ForceRelease, Remove, IInv, TypeOK, sweepVars
  <2>3. QED
    BY <2>1, <2>2 DEF IInv
<1>4. CASE UNCHANGED vars
  BY <1>4 DEF vars, IInv, TypeOK, HoldersOwnTheirKey, KeysExpire
<1>5. QED
  BY <1>1, <1>2, <1>3, <1>4 DEF Next

-----------------------------------------------------------------------------
(* The theorems. *)

\* Every reachable state satisfies the inductive invariant.
THEOREM Invariance == Spec => []IInv
BY InitIInv, NextIInv, PTL DEF Spec

\* The variables keep their types, and every key in Redis has an expiry.
THEOREM TypeCorrect == Spec => [](TypeOK /\ KeysExpire)
<1>1. IInv => TypeOK /\ KeysExpire
  BY DEF IInv
<1>2. QED
  BY Invariance, <1>1, PTL

\* Whoever has not lost the lock of a memory to the clock, a sweep or an
\* administrator owns its key.
THEOREM HoldersOwn == Spec => []HoldersOwnTheirKey
<1>1. IInv => HoldersOwnTheirKey
  BY DEF IInv
<1>2. QED
  BY Invariance, <1>1, PTL

\* Mutual exclusion, of those who have not lost their lock.
THEOREM Exclusion == Spec => []ExclusiveUnlessLost
<1>1. HoldersOwnTheirKey => ExclusiveUnlessLost
  BY DEF HoldersOwnTheirKey, ExclusiveUnlessLost
<1>2. QED
  BY <1>1, HoldersOwn, PTL

\* What the class docstring says holds up to the sweep: as long as no sweep has
\* deleted a lock in use, two runs are inside the lock of one memory only after
\* a timeout or an administrator's force_release().
THEOREM OnlyTheSweepBreaksIt ==
  Spec => []((\A r \in Runs, m \in Memories : lost[r][m] # "swept")
               => ExclusiveWithinTimeout)
<1>1. TypeOK /\ ExclusiveUnlessLost
        => ((\A r \in Runs, m \in Memories : lost[r][m] # "swept")
              => ExclusiveWithinTimeout)
  <2> SUFFICES ASSUME TypeOK, ExclusiveUnlessLost,
                      \A r \in Runs, m \in Memories : lost[r][m] # "swept",
                      NEW r \in Runs, NEW s \in Runs, NEW m \in Memories,
                      r # s, ctx[r][m] = "inside", ctx[s][m] = "inside"
               PROVE  \E q \in {r, s} : lost[q][m] \in {"expired", "forced"}
    BY DEF ExclusiveWithinTimeout
  <2>1. lost[r][m] # "none" \/ lost[s][m] # "none"
    BY DEF ExclusiveUnlessLost
  <2>2. /\ lost[r][m] \in {"none", "expired", "forced"}
        /\ lost[s][m] \in {"none", "expired", "forced"}
    BY DEF TypeOK
  <2>3. QED
    BY <2>1, <2>2
<1>2. TypeOK /\ KeysExpire => TypeOK
  OBVIOUS
<1>3. QED
  BY TypeCorrect, Exclusion, <1>1, <1>2, PTL

-----------------------------------------------------------------------------
(* The life of a key. *)

\* The value of m's key is taken away in this step, and by whom
Freed(m) ==
  /\ owner'[m] = Nobody
  /\ \/ Tick /\ ttl[m] = 1
     \/ Leave(owner[m], m)
     \/ \E r \in Runs : Delete(r) /\ doomed[r] = m
     \/ ForceRelease(m)

KeyIsKept ==
  [][\A m \in Memories :
       owner[m] # Nobody => \/ owner'[m] = owner[m] /\ ttl'[m] <= ttl[m]
                            \/ Freed(m)]_vars

LeaseRunsOut ==
  [][\A m \in Memories :
       Tick /\ owner[m] # Nobody => \/ owner'[m] = owner[m] /\ ttl'[m] = ttl[m] - 1
                                    \/ Freed(m)]_vars

\* A run's own steps on memory k leave every other key alone, and the key of k
\* too where another run's value is in it.
LEMMA AnalyzeFrees ==
  ASSUME IInv, NEW r \in Runs, NEW k \in Memories, Analyze(r, k),
         NEW m \in Memories, owner[m] # Nobody
  PROVE  (owner'[m] = owner[m] /\ ttl'[m] = ttl[m]) \/ Freed(m)
<1>1. /\ owner \in [Memories -> Runs \cup {Nobody}]
      /\ ttl \in [Memories -> 0..Timeout]
  BY DEF IInv, TypeOK
<1>2. CASE Enter(r, k) \/ EnterUnanswered(r, k)
  BY <1>1, <1>2 DEF Enter, EnterUnanswered, Put
<1>3. CASE Refused(r, k) \/ LeaveLocked(r, k)
  BY <1>3 DEF Refused, LeaveLocked, keyVars
<1>4. CASE Leave(r, k) /\ owner[k] = r
  <2>1. CASE m = k
    BY <1>1, <1>4, <2>1 DEF Leave, Remove, Freed
  <2>2. CASE m # k
    BY <1>1, <1>4, <2>2 DEF Leave, Remove
  <2>3. QED
    BY <2>1, <2>2
<1>5. CASE Leave(r, k) /\ owner[k] # r
  BY <1>5 DEF Leave, keyVars
<1>6. QED
  BY <1>2, <1>3, <1>4, <1>5 DEF Analyze

\* What one step does to a key that exists.
LEMMA KeyStep ==
  ASSUME IInv, Next, NEW m \in Memories, owner[m] # Nobody
  PROVE  /\ (owner'[m] = owner[m] /\ ttl'[m] <= ttl[m]) \/ Freed(m)
         /\ Tick => (owner'[m] = owner[m] /\ ttl'[m] = ttl[m] - 1) \/ Freed(m)
<1>1. /\ owner \in [Memories -> Runs \cup {Nobody}]
      /\ ttl \in [Memories -> 0..Timeout]
      /\ ttl[m] \in Nat /\ ttl[m] > 0
  BY LockAssumption DEF IInv, TypeOK, KeysExpire
<1>2. Tick => (owner'[m] = owner[m] /\ ttl'[m] = ttl[m] - 1) \/ Freed(m)
  <2>1. CASE Tick /\ ttl[m] = 1
    BY <2>1 DEF Tick, Expiring, Freed
  <2>2. CASE Tick /\ ttl[m] # 1
    BY <1>1, <2>2 DEF Tick, Expiring
  <2>3. QED
    BY <2>1, <2>2
<1>3. ASSUME NEW r \in Runs,
             \/ Start(r) \/ Fetch(r) \/ Finish(r) \/ Crash(r)
             \/ \E k \in Memories : ReadTTL(r, k)
      PROVE  owner'[m] = owner[m] /\ ttl'[m] = ttl[m]
  BY <1>3 DEF Start, Fetch, Finish, Crash, ReadTTL, keyVars
<1>4. ASSUME NEW r \in Runs, Delete(r)
      PROVE  (owner'[m] = owner[m] /\ ttl'[m] = ttl[m]) \/ Freed(m)
  BY <1>1, <1>4 DEF Delete, Remove, Freed
<1>5. ASSUME NEW k \in Memories, ForceRelease(k)
      PROVE  (owner'[m] = owner[m] /\ ttl'[m] = ttl[m]) \/ Freed(m)
  BY <1>1, <1>5 DEF ForceRelease, Remove, Freed
<1>6. (owner'[m] = owner[m] /\ ttl'[m] <= ttl[m]) \/ Freed(m)
  <2>1. CASE Tick
    BY <1>1, <1>2, <2>1
  <2>2. CASE ~ Tick
    <3>1. (owner'[m] = owner[m] /\ ttl'[m] = ttl[m]) \/ Freed(m)
      BY <1>3, <1>4, <1>5, <2>2, AnalyzeFrees DEF Next, Run
    <3>2. QED
      BY <1>1, <3>1
  <2>3. QED
    BY <2>1, <2>2
<1>7. QED
  BY <1>2, <1>6

\* A key keeps its value until its expiry, its owner's own release, a sweep that
\* has doomed it or an administrator takes it away: no entry, release or crash
\* of another run does, and nobody prolongs it (SET NX PX, the release script).
THEOREM Kept == Spec => KeyIsKept
<1>1. IInv /\ [Next]_vars =>
        [\A m \in Memories :
           owner[m] # Nobody => \/ owner'[m] = owner[m] /\ ttl'[m] <= ttl[m]
                                \/ Freed(m)]_vars
  BY KeyStep
<1>2. QED
  BY Invariance, <1>1, PTL DEF Spec, KeyIsKept

\* Each tick takes one off the life of every key: with KeysExpire and Kept, no
\* value is in a key for more than Timeout ticks, whoever has died.
THEOREM LeasesRunOut == Spec => LeaseRunsOut
<1>1. IInv /\ [Next]_vars =>
        [\A m \in Memories :
           Tick /\ owner[m] # Nobody => \/ owner'[m] = owner[m] /\ ttl'[m] = ttl[m] - 1
                                        \/ Freed(m)]_vars
  BY KeyStep
<1>2. QED
  BY Invariance, <1>1, PTL DEF Spec, LeaseRunsOut

-----------------------------------------------------------------------------
(* The sweep. *)

SweepSparesNone ==
  [][\A r \in Runs, m \in Memories : ReadTTL(r, m) => doomed'[r] = m]_vars

\* When a lock's timeout is no longer than max_age, as it is with the values
\* the auditor uses (30 s and 60 s), the sweep dooms every key it looks at,
\* however fresh: what it compares with max_age is the rest of the key's life
\* (cleanup_expired_locks()).
THEOREM FreshLocksAreSwept ==
  ASSUME Timeout <= MaxAge
  PROVE  Spec => SweepSparesNone
<1>1. IInv => [\A r \in Runs, m \in Memories : ReadTTL(r, m) => doomed'[r] = m]_vars
  <2> SUFFICES ASSUME IInv, NEW r \in Runs, NEW m \in Memories, ReadTTL(r, m)
               PROVE  doomed'[r] = m
    OBVIOUS
  <2>1. ttl[m] \in 0..Timeout /\ doomed \in [Runs -> Memories \cup {NoMemory}]
    BY DEF IInv, TypeOK
  <2>2. ttl[m] <= MaxAge
    BY <2>1, LockAssumption
  <2>3. QED
    BY <2>1, <2>2 DEF ReadTTL
<1>2. QED
  BY Invariance, <1>1, PTL DEF Spec, SweepSparesNone
=============================================================================
