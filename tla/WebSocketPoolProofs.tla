------------------------- MODULE WebSocketPoolProofs -------------------------
(***************************************************************************)
(* What the WebSocket pool promises, for any sessions, client ids, senders *)
(* and capacity.                                                           *)
(*                                                                         *)
(* The capacity (Room) is inductive once the accept()s that are pending    *)
(* count with the connections: each was begun below the capacity, beside   *)
(* at most `overlap' others.  That removals by client id hit no session of *)
(* another id follows from what makes an id's entry disappear: a send that *)
(* failed (Kept) or a disconnect that has ended (Recorded), of that        *)
(* session or of another with the same id.                                 *)
(***************************************************************************)
EXTENDS WebSocketPool, FiniteSetTheorems, TLAPS

\* Another session of the same client id has ended.
OtherGone(s) ==
  \E t \in Sessions \ {s} : IdOf[t] = IdOf[s] /\ status[t] = "gone"

\* A send to another session of the same client id has failed.
OtherFailed(s) == \E t \in Sessions \ {s} : IdOf[t] = IdOf[s] /\ t \in failed

Kept ==
  \A s \in Sessions : status[s] = "open" =>
    pool[IdOf[s]] # None \/ s \in failed \/ OtherFailed(s) \/ OtherGone(s)

Recorded ==
  \A s \in Sessions : Receiving(s) => active[IdOf[s]] # None \/ OtherGone(s)

ActiveIds == \A c \in Ids : active[c] # None => IdOf[active[c]] = c

RemovalsHaveFailed == \A k \in removing : target[k] \in failed

Stragglers ==
  shutdown =>
    /\ Accepting \subseteq stragglers
    /\ lock = "free" => \A c \in Ids : pool[c] # None => pool[c] \in stragglers

Room == Cardinality(Pooled) + Cardinality(Accepting) <= MaxSize + overlap

IInv ==
  /\ TypeOK
  /\ Kept
  /\ Recorded
  /\ ActiveIds
  /\ RemovalsHaveFailed
  /\ Stragglers
  /\ Room
  /\ CountersAddUp

-----------------------------------------------------------------------------
(* Counting. *)

LEMMA FiniteCounts ==
  /\ IsFiniteSet(Pooled) /\ Cardinality(Pooled) \in Nat
  /\ IsFiniteSet(Accepting) /\ Cardinality(Accepting) \in Nat
<1>1. Pooled \subseteq Ids /\ Accepting \subseteq Sessions
  BY DEF Pooled, Accepting
<1>2. QED
  BY <1>1, PoolAssumption, FS_Subset, FS_CardinalityType

\* A removal takes away one entry at most, and counts it once.
LEMMA RemoveCounts ==
  ASSUME TypeOK, CountersAddUp, NEW c \in Ids, NEW marks, Remove(c, marks), UNCHANGED replaced
  PROVE  /\ pool' \in [Ids -> Sessions \cup {None}]
         /\ healthy' \in Int /\ unhealthy' \in Int
         /\ \A d \in Ids : pool'[d] = IF d = c THEN None ELSE pool[d]
         /\ Cardinality(Pooled)' <= Cardinality(Pooled)
         /\ CountersAddUp'
<1>1. CASE pool[c] = None
  <2>1. UNCHANGED poolVars
    BY <1>1 DEF Remove
  <2>2. UNCHANGED Pooled
    BY <2>1 DEF poolVars, Pooled
  <2>3. QED
    BY <1>1, <2>1, <2>2, FiniteCounts DEF TypeOK, CountersAddUp, poolVars
<1>2. CASE pool[c] # None
  <2>1. pool' = [pool EXCEPT ![c] = None]
    BY <1>2 DEF Remove
  <2>2. /\ healthy' \in Int /\ unhealthy' \in Int
        /\ healthy' + unhealthy' = (healthy + unhealthy) - 1
    BY <1>2 DEF Remove, TypeOK
  <2>3. Pooled' = Pooled \ {c} /\ c \in Pooled
    BY <1>2, <2>1 DEF Pooled, TypeOK
  <2>4. Cardinality(Pooled)' = Cardinality(Pooled) - 1
    BY <2>3, FiniteCounts, FS_RemoveElement
  <2>5. CountersAddUp'
    <3>1. replaced \in Int /\ healthy \in Int /\ unhealthy \in Int /\ Cardinality(Pooled) \in Int
      BY FiniteCounts DEF TypeOK
    <3>2. healthy + unhealthy = Cardinality(Pooled) + replaced
      BY DEF CountersAddUp
    <3>3. healthy' + unhealthy' = (Cardinality(Pooled) + replaced) - 1
      BY <2>2, <3>2
    <3>4. (Cardinality(Pooled) + replaced) - 1 = (Cardinality(Pooled) - 1) + replaced
      BY <3>1
    <3>5. healthy' + unhealthy' = Cardinality(Pooled)' + replaced'
      BY <2>4, <3>3, <3>4
    <3>6. QED
      BY <3>5 DEF CountersAddUp
  <2>6. QED
    BY <2>1, <2>2, <2>4, <2>5, FiniteCounts DEF TypeOK
<1>3. QED
  BY <1>1, <1>2

\* An insertion adds one entry at most, and counts it once.
LEMMA InsertCounts ==
  ASSUME TypeOK, CountersAddUp, NEW s \in Sessions, Insert(s)
  PROVE  /\ pool' \in [Ids -> Sessions \cup {None}]
         /\ healthy' \in Int /\ unhealthy' \in Int /\ replaced' \in Nat
         /\ \A d \in Ids : pool'[d] = IF d = IdOf[s] THEN s ELSE pool[d]
         /\ Cardinality(Pooled)' <= Cardinality(Pooled) + 1
         /\ CountersAddUp'
<1>1. IdOf[s] \in Ids /\ s # None
  BY PoolAssumption
<1>2. pool' = [pool EXCEPT ![IdOf[s]] = s]
  BY DEF Insert
<1>3. Pooled' = Pooled \cup {IdOf[s]}
  BY <1>1, <1>2 DEF Pooled, TypeOK
<1>4. IdOf[s] \in Pooled <=> pool[IdOf[s]] # None
  BY <1>1 DEF Pooled
<1>5. Cardinality(Pooled)' = Cardinality(Pooled) + (IF pool[IdOf[s]] = None THEN 1 ELSE 0)
  <2>1. CASE pool[IdOf[s]] = None
    <3>1. Cardinality(Pooled \cup {IdOf[s]}) = Cardinality(Pooled) + 1
      BY <1>4, <2>1, FiniteCounts, FS_AddElement
    <3>2. QED
      BY <1>3, <2>1, <3>1
  <2>2. CASE pool[IdOf[s]] # None
    <3>1. Pooled' = Pooled
      BY <1>3, <1>4, <2>2
    <3>2. QED
      BY <2>2, <3>1, FiniteCounts
  <2>3. QED
    BY <2>1, <2>2
<1>6. /\ healthy' = healthy + 1 /\ unhealthy' = unhealthy
      /\ replaced' = replaced + (IF pool[IdOf[s]] = None THEN 0 ELSE 1)
  BY DEF Insert
<1>7. CountersAddUp'
  BY <1>5, <1>6, FiniteCounts DEF CountersAddUp, TypeOK
<1>8. QED
  BY <1>1, <1>2, <1>5, <1>6, <1>7, FiniteCounts DEF TypeOK

-----------------------------------------------------------------------------
(* The inductive invariant. *)

LEMMA InitIInv == Init => IInv
<1> SUFFICES ASSUME Init PROVE IInv
  OBVIOUS
<1>1. TypeOK
  <2>1. 0 \in 0..(MaxErrors + 1)
    BY PoolAssumption
  <2>2. errors \in [Sessions -> 0..(MaxErrors + 1)]
    BY <2>1 DEF Init
  <2>3. /\ pool \in [Ids -> Sessions \cup {None}]
        /\ active \in [Ids -> Sessions \cup {None}]
        /\ target \in [Senders -> Sessions \cup {None}]
        /\ \A c \in Ids : pool[c] # None => IdOf[pool[c]] = c
    BY DEF Init
  <2>4. status \in [Sessions ->
          {"new", "refused", "accepting", "rejecting", "open", "unpooled",
           "leaving", "gone"}]
    BY DEF Init
  <2>5. removing \subseteq {k \in Senders : target[k] # None}
    BY DEF Init
  <2>6. shutdown \in BOOLEAN
    BY DEF Init
  <2>7. /\ healthy \in Int /\ unhealthy \in Int
        /\ lock \in {"free", "shutdown", "stuck"}
        /\ replaced \in Nat /\ overlap \in Nat
        /\ failed \in SUBSET Sessions
        /\ stragglers \in SUBSET Sessions
    BY DEF Init
  <2>8. QED
    BY <2>2, <2>3, <2>4, <2>5, <2>6, <2>7 DEF TypeOK
<1>2. Pooled = {} /\ Accepting = {}
  BY DEF Init, Pooled, Accepting
<1>3. Room /\ CountersAddUp
  BY <1>2, FS_EmptySet, PoolAssumption DEF Init, Room, CountersAddUp
<1>4. Kept /\ Recorded /\ ActiveIds /\ RemovalsHaveFailed /\ Stragglers
  BY PoolAssumption DEF Init, Kept, Recorded, Receiving, ActiveIds, RemovalsHaveFailed, Stragglers
<1>5. QED
  BY <1>1, <1>3, <1>4 DEF IInv

\* A handler that begins, or gives up, keeps it.
LEMMA EntryIInv ==
  ASSUME IInv, NEW s \in Sessions,
         \/ Refuse(s) \/ Reject(s) \/ RecordRejected(s) \/ ConnectFails(s)
         \/ LeaveUnrecorded(s) \/ AwaitLeave(s)
  PROVE  IInv'
<1> USE PoolAssumption DEF IInv, poolVars, sendVars, lockVars, historyOfPool
<1>1. UNCHANGED <<poolVars, sendVars, lockVars, historyOfPool>>
  BY DEF Refuse, Reject, RecordRejected, ConnectFails, LeaveUnrecorded, AwaitLeave
<1>2. PICK where \in {"refused", "rejecting", "unpooled", "leaving", "gone"} :
        Become(s, where) /\ (where = "unpooled" => active' = [active EXCEPT ![IdOf[s]] = s])
                         /\ (where # "unpooled" => UNCHANGED active)
  BY DEF Refuse, Reject, RecordRejected, ConnectFails, LeaveUnrecorded, AwaitLeave
<1>3. TypeOK'
  BY <1>1, <1>2 DEF Become, TypeOK
<1>4. status[s] # "gone"
  BY DEF Refuse, Reject, RecordRejected, ConnectFails, LeaveUnrecorded, AwaitLeave, Receiving
<1>5. \A t \in Sessions :
        /\ OtherGone(t) => OtherGone(t)'
        /\ OtherFailed(t) => OtherFailed(t)'
  BY <1>1, <1>2, <1>4 DEF Become, TypeOK, OtherGone, OtherFailed
<1>6. Kept'
  BY <1>1, <1>2, <1>5 DEF Become, TypeOK, Kept
<1>7. Recorded' /\ ActiveIds'
  BY <1>1, <1>2, <1>5 DEF Become, TypeOK, Recorded, ActiveIds, Receiving
<1>8. Accepting' \subseteq Accepting
  BY <1>2 DEF Become, TypeOK, Accepting
<1>9. Cardinality(Accepting)' <= Cardinality(Accepting) /\ UNCHANGED Pooled
  BY <1>1, <1>8, FiniteCounts, FS_Subset DEF Pooled
<1>10. Room' /\ CountersAddUp'
  <2>1. Cardinality(Accepting)' \in Nat
    BY <1>8, FiniteCounts, FS_Subset, FS_CardinalityType
  <2>2. QED
    BY <1>1, <1>9, <2>1, FiniteCounts DEF Room, CountersAddUp, TypeOK
<1>11. RemovalsHaveFailed' /\ Stragglers'
  BY <1>1, <1>8 DEF RemovalsHaveFailed, Stragglers
<1>12. QED
  BY <1>3, <1>6, <1>7, <1>10, <1>11

\* The accept() keeps it: it begins below the capacity.
LEMMA AcceptIInv ==
  ASSUME IInv, NEW s \in Sessions, Accept(s)
  PROVE  IInv'
<1> USE PoolAssumption DEF IInv, poolVars, sendVars, lockVars
<1>1. /\ UNCHANGED <<poolVars, active, sendVars, lockVars, replaced>>
      /\ status' = [status EXCEPT ![s] = "accepting"]
      /\ status[s] = "new" /\ ~shutdown /\ Cardinality(Pooled) < MaxSize
  BY DEF Accept, BeginAccept, Become
<1>2. overlap' \in Nat /\ overlap' >= Cardinality(Accepting)
  BY FiniteCounts DEF Accept, BeginAccept, TypeOK
<1>3. Accepting' = Accepting \cup {s} /\ s \notin Accepting /\ UNCHANGED Pooled
  BY <1>1 DEF Accepting, Pooled, TypeOK
<1>4. Cardinality(Accepting)' = Cardinality(Accepting) + 1
  BY <1>3, FiniteCounts, FS_AddElement
<1>5. Room' /\ CountersAddUp'
  BY <1>1, <1>2, <1>3, <1>4, FiniteCounts DEF Room, CountersAddUp
<1>6. TypeOK' /\ RemovalsHaveFailed' /\ Stragglers' /\ ActiveIds'
  BY <1>1, <1>2 DEF TypeOK, RemovalsHaveFailed, Stragglers, ActiveIds
<1>7. \A t \in Sessions :
        /\ OtherGone(t) => OtherGone(t)'
        /\ OtherFailed(t) => OtherFailed(t)'
  BY <1>1 DEF TypeOK, OtherGone, OtherFailed
<1>8. Kept' /\ Recorded'
  BY <1>1, <1>7 DEF TypeOK, Kept, Recorded, Receiving
<1>9. QED
  BY <1>5, <1>6, <1>8

\* The insertion keeps it: a pending accept() becomes a connection.
LEMMA JoinIInv ==
  ASSUME IInv, NEW s \in Sessions, Join(s)
  PROVE  IInv'
<1> USE PoolAssumption DEF IInv, sendVars, lockVars
<1>1. /\ UNCHANGED <<sendVars, lockVars, overlap>>
      /\ status' = [status EXCEPT ![s] = "open"]
      /\ active' = [active EXCEPT ![IdOf[s]] = s]
      /\ status[s] = "accepting" /\ lock = "free" /\ Insert(s)
  BY DEF Join, Become
<1>2. /\ pool' \in [Ids -> Sessions \cup {None}]
      /\ healthy' \in Int /\ unhealthy' \in Int /\ replaced' \in Nat
      /\ \A d \in Ids : pool'[d] = IF d = IdOf[s] THEN s ELSE pool[d]
      /\ Cardinality(Pooled)' <= Cardinality(Pooled) + 1
      /\ CountersAddUp'
  BY <1>1, InsertCounts
<1>3. Accepting' = Accepting \ {s} /\ s \in Accepting
  BY <1>1 DEF Accepting, TypeOK
<1>4. Cardinality(Accepting)' = Cardinality(Accepting) - 1
  BY <1>3, FiniteCounts, FS_RemoveElement
<1>5. Cardinality(Pooled)' \in Nat
  <2>1. Pooled' \subseteq Ids
    BY DEF Pooled
  <2>2. QED
    BY <2>1, FS_Subset, FS_CardinalityType
<1>6. Room'
  BY <1>1, <1>2, <1>4, <1>5, FiniteCounts DEF Room, TypeOK
<1>7. TypeOK'
  BY <1>1, <1>2 DEF TypeOK
<1>8. RemovalsHaveFailed' /\ Stragglers' /\ ActiveIds'
  BY <1>1, <1>2, <1>3 DEF TypeOK, RemovalsHaveFailed, Stragglers, ActiveIds
<1>9. \A t \in Sessions :
        /\ OtherGone(t) => OtherGone(t)'
        /\ OtherFailed(t) => OtherFailed(t)'
  BY <1>1 DEF TypeOK, OtherGone, OtherFailed
<1>10. Kept' /\ Recorded'
  BY <1>1, <1>2, <1>9 DEF TypeOK, Kept, Recorded, Receiving
<1>11. QED
  BY <1>2, <1>6, <1>7, <1>8, <1>10

\* The end of a session keeps it: what it removes is of its own client id.
LEMMA DepartIInv ==
  ASSUME IInv, NEW s \in Sessions, Leave(s) \/ FinishLeave(s)
  PROVE  IInv'
<1> USE PoolAssumption DEF IInv, sendVars, lockVars, historyOfPool
<1>1. /\ UNCHANGED <<sendVars, lockVars, historyOfPool>>
      /\ status' = [status EXCEPT ![s] = "gone"]
      /\ active' = [active EXCEPT ![IdOf[s]] = None]
      /\ status[s] \in {"open", "unpooled", "leaving"}
      /\ Remove(IdOf[s], errors)
  BY DEF Leave, FinishLeave, Depart, Become, Receiving
<1>2. /\ pool' \in [Ids -> Sessions \cup {None}]
      /\ healthy' \in Int /\ unhealthy' \in Int
      /\ \A d \in Ids : pool'[d] = IF d = IdOf[s] THEN None ELSE pool[d]
      /\ Cardinality(Pooled)' <= Cardinality(Pooled)
      /\ CountersAddUp'
  BY <1>1, RemoveCounts
<1>3. TypeOK'
  BY <1>1, <1>2 DEF TypeOK
<1>4. UNCHANGED Accepting
  BY <1>1 DEF Accepting, TypeOK
<1>5. Room'
  <2>1. Pooled' \subseteq Ids
    BY DEF Pooled
  <2>2. Cardinality(Pooled)' \in Nat
    BY <2>1, FS_Subset, FS_CardinalityType
  <2>3. QED
    BY <1>1, <1>2, <1>4, <2>2, FiniteCounts DEF Room, TypeOK
<1>6. RemovalsHaveFailed' /\ Stragglers' /\ ActiveIds'
  BY <1>1, <1>2, <1>4 DEF TypeOK, RemovalsHaveFailed, Stragglers, ActiveIds
<1>7. \A t \in Sessions :
        /\ OtherGone(t) => OtherGone(t)'
        /\ OtherFailed(t) => OtherFailed(t)'
        /\ t # s /\ IdOf[t] = IdOf[s] => OtherGone(t)'
  BY <1>1 DEF TypeOK, OtherGone, OtherFailed
<1>8. Kept' /\ Recorded'
  BY <1>1, <1>2, <1>7 DEF TypeOK, Kept, Recorded, Receiving
<1>9. QED
  BY <1>2, <1>3, <1>5, <1>6, <1>8

\* A removal after a send that has failed keeps it: the session of that send
\* has the client id that is removed.
LEMMA DropIInv ==
  ASSUME IInv, NEW k \in Senders, Drop(k) \/ FinishDrop(k)
  PROVE  IInv'
<1> USE PoolAssumption DEF IInv, lockVars, historyOfPool
<1>1. target[k] \in Sessions
  BY DEF Drop, FinishDrop, TypeOK
<1>2. /\ UNCHANGED <<active, status, lockVars, historyOfPool>>
      /\ target' = [target EXCEPT ![k] = None]
      /\ errors' \in [Sessions -> 0..(MaxErrors + 1)]
      /\ failed' \in SUBSET Sessions
      /\ failed \subseteq failed' /\ target[k] \in failed'
      /\ removing' = removing \ {k}
      /\ \E marks : Remove(IdOf[target[k]], marks)
  <2>1. CASE Drop(k)
    <3>1. errors' \in [Sessions -> 0..(MaxErrors + 1)]
      BY <2>1 DEF Drop, Marked, TypeOK
    <3>2. QED
      BY <1>1, <2>1, <3>1 DEF Drop, TypeOK
  <2>2. CASE FinishDrop(k)
    BY <1>1, <2>2 DEF FinishDrop, TypeOK, RemovalsHaveFailed
  <2>3. QED
    BY <2>1, <2>2
<1>3. PICK marks : Remove(IdOf[target[k]], marks)
  BY <1>2
<1>4. /\ pool' \in [Ids -> Sessions \cup {None}]
      /\ healthy' \in Int /\ unhealthy' \in Int
      /\ \A d \in Ids : pool'[d] = IF d = IdOf[target[k]] THEN None ELSE pool[d]
      /\ Cardinality(Pooled)' <= Cardinality(Pooled)
      /\ CountersAddUp'
  BY <1>1, <1>2, <1>3, RemoveCounts
<1>5. TypeOK'
  BY <1>2, <1>4 DEF TypeOK
<1>6. UNCHANGED Accepting
  BY <1>2 DEF Accepting
<1>7. Room'
  <2>1. Pooled' \subseteq Ids
    BY DEF Pooled
  <2>2. Cardinality(Pooled)' \in Nat
    BY <2>1, FS_Subset, FS_CardinalityType
  <2>3. QED
    BY <1>2, <1>4, <1>6, <2>2, FiniteCounts DEF Room, TypeOK
<1>8. RemovalsHaveFailed'
  BY <1>2 DEF TypeOK, RemovalsHaveFailed
<1>9. Stragglers' /\ ActiveIds'
  BY <1>2, <1>4, <1>6 DEF TypeOK, Stragglers, ActiveIds
<1>10. \A t \in Sessions :
         /\ OtherGone(t) => OtherGone(t)'
         /\ OtherFailed(t) => OtherFailed(t)'
         /\ IdOf[t] = IdOf[target[k]] => t \in failed' \/ OtherFailed(t)'
  BY <1>1, <1>2 DEF OtherGone, OtherFailed
<1>11. Kept' /\ Recorded'
  BY <1>2, <1>4, <1>10 DEF TypeOK, Kept, Recorded, Receiving
<1>12. QED
  BY <1>4, <1>5, <1>7, <1>8, <1>9, <1>11

\* A send that begins, ends without a removal, or waits to remove, keeps it.
LEMMA SendIInv ==
  ASSUME IInv, NEW k \in Senders,
         SendOk(k) \/ SendError(k) \/ AwaitDrop(k) \/ \E c \in Ids : StartSend(k, c)
  PROVE  IInv'
<1> USE PoolAssumption DEF IInv, poolVars, lockVars, historyOfPool
<1>1. /\ UNCHANGED <<poolVars, active, status, lockVars, historyOfPool>>
      /\ failed \subseteq failed' /\ failed' \in SUBSET Sessions
  BY DEF SendOk, SendError, AwaitDrop, StartSend, TypeOK
<1>2. errors' \in [Sessions -> 0..(MaxErrors + 1)]
  BY DEF SendOk, SendError, AwaitDrop, StartSend, Marked, TypeOK
<1>3. /\ target' \in [Senders -> Sessions \cup {None}]
      /\ removing' \in SUBSET {j \in Senders : target'[j] # None}
      /\ RemovalsHaveFailed'
  BY <1>1 DEF SendOk, SendError, AwaitDrop, StartSend, TypeOK, RemovalsHaveFailed
<1>4. TypeOK'
  BY <1>1, <1>2, <1>3 DEF TypeOK
<1>5. UNCHANGED <<Pooled, Accepting>>
  BY <1>1 DEF Pooled, Accepting
<1>6. Room' /\ CountersAddUp' /\ Stragglers' /\ ActiveIds'
  BY <1>1, <1>5 DEF Room, CountersAddUp, Stragglers, ActiveIds
<1>7. \A t \in Sessions :
        /\ OtherGone(t) => OtherGone(t)'
        /\ OtherFailed(t) => OtherFailed(t)'
  BY <1>1 DEF OtherGone, OtherFailed
<1>8. Kept' /\ Recorded'
  BY <1>1, <1>7 DEF Kept, Recorded, Receiving
<1>9. QED
  BY <1>3, <1>4, <1>6, <1>8

\* Cleanup and shutdown keep it: stragglers are known when shutdown() begins,
\* and it ends only if it has found nothing to close.
LEMMA LockIInv == IInv /\ (Cleanup \/ BeginShutdown \/ FinishShutdown) => IInv'
<1> SUFFICES ASSUME IInv, Cleanup \/ BeginShutdown \/ FinishShutdown PROVE IInv'
  OBVIOUS
<1> USE DEF IInv, poolVars, sendVars, historyOfPool
<1>1. UNCHANGED <<poolVars, active, status, sendVars, historyOfPool>>
  BY DEF Cleanup, BeginShutdown, FinishShutdown
<1>2. UNCHANGED <<Pooled, Accepting>>
  BY <1>1 DEF Pooled, Accepting
<1>3. TypeOK'
  <2>1. /\ lock' \in {"free", "shutdown", "stuck"}
        /\ shutdown' \in BOOLEAN /\ stragglers' \in SUBSET Sessions
    BY DEF Cleanup, BeginShutdown, FinishShutdown, Accepting, TypeOK
  <2>2. QED
    BY <1>1, <2>1 DEF TypeOK
<1>4. Room' /\ CountersAddUp' /\ RemovalsHaveFailed' /\ ActiveIds'
  BY <1>1, <1>2 DEF Room, CountersAddUp, RemovalsHaveFailed, ActiveIds
<1>5. Kept' /\ Recorded'
  BY <1>1 DEF Kept, Recorded, Receiving, OtherGone, OtherFailed
<1>6. Stragglers'
  <2>1. CASE Cleanup
    BY <1>1, <1>2, <2>1 DEF Cleanup, Stragglers
  <2>2. CASE BeginShutdown
    BY <1>1, <1>2, <2>2 DEF BeginShutdown, Stragglers
  <2>3. CASE FinishShutdown
    BY <1>1, <1>2, <2>3 DEF FinishShutdown, Stragglers, Pooled
  <2>4. QED
    BY <2>1, <2>2, <2>3
<1>7. QED
  BY <1>3, <1>4, <1>5, <1>6

LEMMA NextIInv == IInv /\ [Next]_vars => IInv'
<1> SUFFICES ASSUME IInv, [Next]_vars PROVE IInv'
  OBVIOUS
<1>1. CASE UNCHANGED vars
  BY <1>1 DEF vars, poolVars, sendVars, lockVars, historyOfPool, IInv, TypeOK, Kept, Recorded,
              ActiveIds, RemovalsHaveFailed, Stragglers, Room, CountersAddUp, Receiving,
              OtherGone, OtherFailed, Pooled, Accepting
<1>2. ASSUME NEW s \in Sessions, Handler(s) PROVE IInv'
  BY <1>2, EntryIInv, AcceptIInv, JoinIInv, DepartIInv DEF Handler
<1>3. ASSUME NEW k \in Senders, Send(k) PROVE IInv'
  BY <1>3, DropIInv, SendIInv DEF Send
<1>4. QED
  BY <1>1, <1>2, <1>3, LockIInv DEF Next

LEMMA Invariance == Spec => []IInv
BY InitIInv, NextIInv, PTL DEF Spec

-----------------------------------------------------------------------------
(* The properties. *)

\* The variables keep their types; the pool holds sessions under their own id.
THEOREM TypeCorrect == Spec => []TypeOK
<1>1. IInv => TypeOK
  BY DEF IInv
<1>2. QED
  BY <1>1, Invariance, PTL

\* The pool goes over its capacity by no more than the connects that overlap.
THEOREM Capacity == Spec => []OverfullOnlyByOverlap
<1>1. IInv => OverfullOnlyByOverlap
  BY FiniteCounts, PoolAssumption DEF IInv, TypeOK, Room, OverfullOnlyByOverlap
<1>2. QED
  BY <1>1, Invariance, PTL

\* The counters count every connection of the pool, and none twice.
THEOREM Counted == Spec => []CountersAddUp
<1>1. IInv => CountersAddUp
  BY DEF IInv
<1>2. QED
  BY <1>1, Invariance, PTL

\* A receiving session keeps its entries unless it or another session of its
\* client id has ended or failed, or has taken its place.
THEOREM SessionsAreKept == Spec => []KeptUnlessShared
<1>1. IInv => KeptUnlessShared
  <2> SUFFICES ASSUME IInv, NEW s \in Sessions
               PROVE  LET c == IdOf[s]
                          Disturbed == \E t \in Sessions \ {s} :
                            /\ IdOf[t] = c
                            /\ t \in {pool[c], active[c]} \cup failed \/ status[t] = "gone"
                      IN  /\ status[s] = "open" => pool[c] = s \/ s \in failed \/ Disturbed
                          /\ Receiving(s) => active[c] = s \/ Disturbed
    BY DEF KeptUnlessShared
  <2>1. IdOf[s] \in Ids
    BY PoolAssumption
  <2>2. pool[IdOf[s]] # None => pool[IdOf[s]] \in Sessions /\ IdOf[pool[IdOf[s]]] = IdOf[s]
    BY <2>1 DEF IInv, TypeOK
  <2>3. active[IdOf[s]] # None => active[IdOf[s]] \in Sessions /\ IdOf[active[IdOf[s]]] = IdOf[s]
    BY <2>1 DEF IInv, TypeOK, ActiveIds
  <2>4. QED
    BY <2>2, <2>3 DEF IInv, Kept, Recorded, OtherGone, OtherFailed
<1>2. QED
  BY <1>1, Invariance, PTL

\* After shutdown() has ended, the pool holds only what was in accept() then.
THEOREM ShutdownStragglers == Spec => []OnlyStragglersOutliveShutdown
<1>1. IInv => OnlyStragglersOutliveShutdown
  BY DEF IInv, Stragglers, OnlyStragglersOutliveShutdown
<1>2. QED
  BY <1>1, Invariance, PTL

-----------------------------------------------------------------------------
(* What never comes back: the lock that waits for itself, and the counter  *)
(* that only goes down.                                                    *)

\* A cleanup or a shutdown that waits for the lock it holds waits for ever, and
\* the pool stays as it is: whatever happens, no connect, disconnect or removal
\* gets the lock again (_cleanup_connections(), _close_all_connections(),
\* _remove_connection()).
THEOREM StuckForGood ==
  ASSUME NEW entries
  PROVE  Spec => [](lock = "stuck" /\ pool = entries => [](lock = "stuck" /\ pool = entries))
<1> DEFINE Stuck == lock = "stuck" /\ pool = entries
<1>1. Stuck /\ [Next]_vars => Stuck'
  <2> SUFFICES ASSUME Stuck, [Next]_vars PROVE Stuck'
    OBVIOUS
  <2> USE DEF poolVars, lockVars
  <2>1. ASSUME NEW s \in Sessions, Handler(s) PROVE Stuck'
    BY <2>1 DEF Handler, Refuse, Reject, RecordRejected, Accept, BeginAccept, ConnectFails,
                Join, Leave, LeaveUnrecorded, AwaitLeave, FinishLeave
  <2>2. ASSUME NEW k \in Senders, Send(k) PROVE Stuck'
    BY <2>2 DEF Send, SendOk, SendError, Drop, AwaitDrop, FinishDrop, StartSend
  <2>3. CASE Cleanup \/ BeginShutdown \/ FinishShutdown
    BY <2>3 DEF Cleanup, BeginShutdown, FinishShutdown
  <2>4. CASE UNCHANGED vars
    BY <2>4 DEF vars
  <2>5. QED
    BY <2>1, <2>2, <2>3, <2>4 DEF Next
<1>2. QED
  BY <1>1, PTL DEF Spec

\* ... and so do those who wait for it: a disconnect() or a removal never ends
\* (disconnect(), _remove_connection()).
THEOREM WaitersOfAStuckLock ==
  ASSUME NEW s \in Sessions, NEW k \in Senders
  PROVE  Spec =>
           /\ [](lock = "stuck" /\ status[s] = "leaving" => [](status[s] = "leaving"))
           /\ [](lock = "stuck" /\ k \in removing => [](k \in removing))
<1> DEFINE Leaving == lock = "stuck" /\ status[s] = "leaving"
           Removing == lock = "stuck" /\ k \in removing
<1>1. IInv /\ [Next]_vars => (Leaving => Leaving') /\ (Removing => Removing')
  <2> SUFFICES ASSUME TypeOK, lock = "stuck", [Next]_vars
               PROVE  (Leaving => Leaving') /\ (Removing => Removing')
    BY DEF IInv
  <2> USE DEF lockVars
  <2>1. ASSUME NEW t \in Sessions, Handler(t) PROVE (Leaving => Leaving') /\ (Removing => Removing')
    BY <2>1 DEF Handler, Refuse, Reject, RecordRejected, Accept, BeginAccept, ConnectFails, Join,
                Leave, LeaveUnrecorded, AwaitLeave, FinishLeave, Become, Receiving, sendVars, TypeOK
  <2>2. ASSUME NEW j \in Senders, Send(j) PROVE (Leaving => Leaving') /\ (Removing => Removing')
    BY <2>2 DEF Send, SendOk, SendError, Drop, AwaitDrop, FinishDrop, StartSend
  <2>3. CASE Cleanup \/ BeginShutdown \/ FinishShutdown
    BY <2>3 DEF Cleanup, BeginShutdown, FinishShutdown, sendVars
  <2>4. CASE UNCHANGED vars
    BY <2>4 DEF vars, sendVars
  <2>5. QED
    BY <2>1, <2>2, <2>3, <2>4 DEF Next
<1>2. /\ Leaving <=> lock = "stuck" /\ status[s] = "leaving"
      /\ Removing <=> lock = "stuck" /\ k \in removing
  OBVIOUS
<1>3. QED
  BY <1>1, <1>2, Invariance, PTL DEF Spec

\* stats.unhealthy_connections is never above 0, however many connections of the
\* pool are unhealthy: _remove_connection() takes from it what nothing has added.
\* The test of health_check() (unhealthy_ratio > 0.5) never finds the pool
\* unhealthy, and healthy_connections counts every connection.
UnhealthyIsNotCounted == unhealthy <= 0 /\ healthy >= Cardinality(Pooled)

LEMMA UnhealthyOnlyFalls == TypeOK /\ unhealthy <= 0 /\ [Next]_vars => unhealthy' <= 0
<1> SUFFICES ASSUME TypeOK, unhealthy <= 0, [Next]_vars PROVE unhealthy' <= 0
  OBVIOUS
<1> USE DEF poolVars
<1>1. unhealthy \in Int
  BY DEF TypeOK
<1>2. ASSUME NEW c, NEW marks, Remove(c, marks) PROVE unhealthy' <= 0
  BY <1>1, <1>2 DEF Remove
<1>3. ASSUME NEW s \in Sessions, Handler(s) PROVE unhealthy' <= 0
  BY <1>2, <1>3 DEF Handler, Refuse, Reject, RecordRejected, Accept, BeginAccept, ConnectFails,
                    Join, Insert, Leave, LeaveUnrecorded, AwaitLeave, FinishLeave, Depart
<1>4. ASSUME NEW k \in Senders, Send(k) PROVE unhealthy' <= 0
  BY <1>2, <1>4 DEF Send, SendOk, SendError, Drop, AwaitDrop, FinishDrop, StartSend
<1>5. CASE Cleanup \/ BeginShutdown \/ FinishShutdown \/ UNCHANGED vars
  BY <1>5 DEF Cleanup, BeginShutdown, FinishShutdown, vars
<1>6. QED
  BY <1>3, <1>4, <1>5 DEF Next

\* No connection counts as unhealthy, in any reachable state (health_check()).
THEOREM NeverFoundUnhealthy == Spec => []UnhealthyIsNotCounted
<1> DEFINE NoneAdded == unhealthy <= 0
<1>1. Init => NoneAdded
  BY DEF Init
<1>2. IInv /\ NoneAdded /\ [Next]_vars => NoneAdded'
  BY UnhealthyOnlyFalls DEF IInv
<1>3. IInv /\ NoneAdded => UnhealthyIsNotCounted
  BY FiniteCounts DEF IInv, TypeOK, CountersAddUp, UnhealthyIsNotCounted
<1> HIDE DEF NoneAdded
<1>4. QED
  BY <1>1, <1>2, <1>3, Invariance, PTL DEF Spec

-----------------------------------------------------------------------------
(* Why an entry leaves the pool. *)

\* The handler of a session of client id c ends.
Ends(c) ==
  \E s \in Sessions : IdOf[s] = c /\ status[s] # "gone" /\ status'[s] = "gone"

\* A send to a session of client id c has failed, and is over.
FailsFor(c) ==
  \E k \in Senders :
    /\ target[k] # None
    /\ IdOf[target[k]] = c
    /\ target[k] \in failed'
    /\ target'[k] = None

\* Another connect() with client id c has come to its end.
Overwritten(c) ==
  /\ pool'[c] # None
  /\ status[pool'[c]] = "accepting" /\ status'[pool'[c]] = "open"

\* An entry disappears while the lock is free, alone, and with a cause: one and
\* the same client id has disconnected, has failed, or has been connected anew
\* (disconnect(), _send_message_with_error_handling(), connect()).  Cleanup and
\* shutdown, which are there to remove entries, never do.
RemovalHasCause ==
  \A c \in Ids : pool[c] # None /\ pool'[c] # pool[c] =>
    /\ lock = "free"
    /\ \A d \in Ids \ {c} : pool'[d] = pool[d]
    /\ Ends(c) \/ FailsFor(c) \/ Overwritten(c)

\* Only what concerns a client id removes its entry, and never the cleanup.
THEOREM RemovedForCause == Spec => [][RemovalHasCause]_pool
<1>1. IInv /\ [Next]_vars => [RemovalHasCause]_pool
  <2> SUFFICES ASSUME IInv, [Next]_vars, pool' # pool PROVE RemovalHasCause
    OBVIOUS
  <2> USE PoolAssumption DEF IInv, poolVars
  <2>1. ASSUME NEW s \in Sessions, Join(s) PROVE RemovalHasCause
    <3>1. /\ lock = "free" /\ pool' = [pool EXCEPT ![IdOf[s]] = s]
          /\ status[s] = "accepting" /\ status' = [status EXCEPT ![s] = "open"]
      BY <2>1 DEF Join, Insert, Become
    <3>2. QED
      BY <3>1 DEF TypeOK, RemovalHasCause, Overwritten
  <2>2. ASSUME NEW s \in Sessions, Leave(s) \/ FinishLeave(s) PROVE RemovalHasCause
    <3>1. /\ lock = "free" /\ pool' = [pool EXCEPT ![IdOf[s]] = None]
          /\ status[s] # "gone" /\ status' = [status EXCEPT ![s] = "gone"]
      BY <2>2 DEF Leave, FinishLeave, Receiving, Depart, Remove, Become
    <3>2. QED
      BY <3>1 DEF TypeOK, RemovalHasCause, Ends
  <2>3. ASSUME NEW k \in Senders, Drop(k) \/ FinishDrop(k) PROVE RemovalHasCause
    <3>1. /\ lock = "free" /\ target[k] # None /\ target[k] \in Sessions
          /\ pool' = [pool EXCEPT ![IdOf[target[k]]] = None]
          /\ target' = [target EXCEPT ![k] = None]
          /\ target[k] \in failed'
      BY <2>3 DEF Drop, FinishDrop, Remove, TypeOK, RemovalsHaveFailed
    <3>2. QED
      BY <3>1 DEF TypeOK, RemovalHasCause, FailsFor
  <2>4. QED
    BY <2>1, <2>2, <2>3
    DEF Next, Handler, Refuse, Reject, RecordRejected, Accept, BeginAccept, ConnectFails,
        LeaveUnrecorded, AwaitLeave, Send, SendOk, SendError, AwaitDrop, StartSend,
        Cleanup, BeginShutdown, FinishShutdown, vars
<1>2. QED
  BY <1>1, Invariance, PTL DEF Spec
=============================================================================
