---------------------------- MODULE WebSocketPool ----------------------------
(***************************************************************************)
(* WebSocketPoolManager (resync/core/websocket_pool_manager.py) behind the *)
(* ConnectionManager (resync/core/connection_manager.py).  A session is    *)
(* one WebSocket: its handler connects it, receives, and disconnects it by *)
(* client id, while broadcasts and personal messages are sent to it.       *)
(*                                                                         *)
(* The pool's asyncio.Lock is not reentrant.  _remove_connection() takes   *)
(* it, and _cleanup_connections() and shutdown() call _remove_connection() *)
(* while they hold it: with something to remove, they wait for themselves  *)
(* and the lock is "stuck".  A critical section without an await is one    *)
(* step; `not websocket.client_state.DISCONNECTED' is never true, so that  *)
(* a removal awaits nothing but the lock.                                  *)
(***************************************************************************)
EXTENDS Integers, FiniteSets

CONSTANTS
  Sessions,   (* WebSockets, each connected once                            *)
  Ids,        (* client ids                                                 *)
  IdOf,       (* IdOf[s]: the client id of s; sessions may share one        *)
  Senders,    (* sends under way: tasks of broadcasts, personal messages    *)
  MaxSize,    (* WS_POOL_MAX_SIZE                                           *)
  MaxErrors,  (* errors a connection may have and still be healthy          *)
  None

ASSUME PoolAssumption ==
  /\ IsFiniteSet(Sessions)
  /\ IsFiniteSet(Ids)
  /\ IdOf \in [Sessions -> Ids]
  /\ MaxSize \in Nat \ {0}
  /\ MaxErrors \in Nat
  /\ None \notin Sessions

VARIABLES
  pool,        (* pool[c]: connections[c] of the pool manager, or None      *)
  active,      (* active[c]: active_connections[c] of the manager, or None  *)
  status,      (* status[s]: where the handler of s is                      *)
  errors,      (* errors[s]: connection_errors, up to MaxErrors + 1         *)
  target,      (* target[k]: the session that sender k writes to, or None   *)
  removing,    (* senders that wait for the lock to remove their session    *)
  healthy,     (* stats.healthy_connections                                 *)
  unhealthy,   (* stats.unhealthy_connections                               *)
  lock,        (* who holds the lock across an await                        *)
  shutdown,    (* _shutdown                                                 *)
  replaced,    (* history: entries of the pool that were overwritten        *)
  overlap,     (* history: most other accept()s pending beside one          *)
  failed,      (* history: sessions to which a send found no connection     *)
  stragglers   (* history: sessions in accept() when shutdown() was called  *)

poolVars   == <<pool, healthy, unhealthy>>
sendVars   == <<target, removing, errors, failed>>
lockVars   == <<lock, shutdown, stragglers>>
historyOfPool == <<replaced, overlap>>
vars == <<poolVars, active, status, sendVars, lockVars, historyOfPool>>

Pooled    == {c \in Ids : pool[c] # None}
Accepting == {s \in Sessions : status[s] = "accepting"}

TypeOK ==
  /\ pool \in [Ids -> Sessions \cup {None}]
  /\ active \in [Ids -> Sessions \cup {None}]
  /\ status \in [Sessions ->
       {"new", "refused", "accepting", "rejecting", "open", "unpooled",
        "leaving", "gone"}]
  /\ errors \in [Sessions -> 0..(MaxErrors + 1)]
  /\ target \in [Senders -> Sessions \cup {None}]
  /\ removing \in SUBSET {k \in Senders : target[k] # None}
  /\ healthy \in Int /\ unhealthy \in Int
  /\ lock \in {"free", "shutdown", "stuck"}
  /\ shutdown \in BOOLEAN
  /\ replaced \in Nat /\ overlap \in Nat
  /\ failed \in SUBSET Sessions
  /\ stragglers \in SUBSET Sessions
  /\ \A c \in Ids : pool[c] # None => IdOf[pool[c]] = c

Init ==
  /\ pool = [c \in Ids |-> None]
  /\ active = [c \in Ids |-> None]
  /\ status = [s \in Sessions |-> "new"]
  /\ errors = [s \in Sessions |-> 0]
  /\ target = [k \in Senders |-> None]
  /\ removing = {}
  /\ healthy = 0 /\ unhealthy = 0
  /\ lock = "free"
  /\ shutdown = FALSE
  /\ replaced = 0 /\ overlap = 0
  /\ failed = {} /\ stragglers = {}

Become(s, where) == status' = [status EXCEPT ![s] = where]

-----------------------------------------------------------------------------
(* The pool *)

\* Faulty variant: the counters change even if the id is not in the pool
RemoveUncounted(c, marks) ==
  /\ pool' = [pool EXCEPT ![c] = None]
  /\ healthy' = healthy - 1
  /\ UNCHANGED unhealthy

\* The critical section of _remove_connection(c); marks: the sessions' errors
Remove(c, marks) ==
  IF pool[c] = None
  THEN UNCHANGED poolVars
  ELSE /\ pool' = [pool EXCEPT ![c] = None]
       /\ IF marks[pool[c]] <= MaxErrors
          THEN healthy' = healthy - 1 /\ UNCHANGED unhealthy
          ELSE unhealthy' = unhealthy - 1 /\ UNCHANGED healthy

\* mark_error() of the session's connection info
Marked(s) ==
  [errors EXCEPT ![s] = IF @ > MaxErrors THEN @ ELSE @ + 1]

\* The critical section of connect()
Insert(s) ==
  /\ pool' = [pool EXCEPT ![IdOf[s]] = s]
  /\ healthy' = healthy + 1
  /\ replaced' = replaced + (IF pool[IdOf[s]] = None THEN 0 ELSE 1)
  /\ UNCHANGED unhealthy

-----------------------------------------------------------------------------
(* The handler of a session *)

\* connect() of a pool that has been shut down: RuntimeError
Refuse(s) ==
  /\ status[s] = "new"
  /\ shutdown
  /\ Become(s, "refused")
  /\ UNCHANGED <<poolVars, active, sendVars, lockVars, historyOfPool>>

\* connect() at capacity awaits websocket.close(1013)
Reject(s) ==
  /\ status[s] = "new"
  /\ ~shutdown
  /\ Cardinality(Pooled) >= MaxSize
  /\ Become(s, "rejecting")
  /\ UNCHANGED <<poolVars, active, sendVars, lockVars, historyOfPool>>

\* ... and returns as if it had connected: ConnectionManager records s
RecordRejected(s) ==
  /\ status[s] = "rejecting"
  /\ active' = [active EXCEPT ![IdOf[s]] = s]
  /\ Become(s, "unpooled")
  /\ UNCHANGED <<poolVars, sendVars, lockVars, historyOfPool>>

BeginAccept(s) ==
  /\ Become(s, "accepting")
  /\ overlap' = IF Cardinality(Accepting) > overlap
                THEN Cardinality(Accepting) ELSE overlap
  /\ UNCHANGED <<poolVars, active, sendVars, lockVars, replaced>>

\* Faulty variant: > for >=
AcceptOneMore(s) ==
  /\ status[s] = "new"
  /\ ~shutdown
  /\ Cardinality(Pooled) <= MaxSize
  /\ BeginAccept(s)

\* Faulty variant: connect() does not look at _shutdown
AcceptAfterShutdown(s) ==
  /\ status[s] = "new"
  /\ Cardinality(Pooled) < MaxSize
  /\ BeginAccept(s)

\* connect() below capacity awaits websocket.accept()
Accept(s) ==
  /\ status[s] = "new"
  /\ ~shutdown
  /\ Cardinality(Pooled) < MaxSize
  /\ BeginAccept(s)

\* accept(), or the close() of a rejection, raises
ConnectFails(s) ==
  /\ status[s] \in {"accepting", "rejecting"}
  /\ Become(s, "refused")
  /\ UNCHANGED <<poolVars, active, sendVars, lockVars, historyOfPool>>

\* accept() returns and the lock is free, at once or after a wait
Join(s) ==
  /\ status[s] = "accepting"
  /\ lock = "free"
  /\ Insert(s)
  /\ active' = [active EXCEPT ![IdOf[s]] = s]
  /\ Become(s, "open")
  /\ UNCHANGED <<sendVars, lockVars, overlap>>

Receiving(s) == status[s] \in {"open", "unpooled"}

Depart(s) ==
  /\ Remove(IdOf[s], errors)
  /\ active' = [active EXCEPT ![IdOf[s]] = None]
  /\ Become(s, "gone")
  /\ UNCHANGED <<sendVars, lockVars, historyOfPool>>

\* ConnectionManager.disconnect() of the handler's client id, whichever session
\* that id belongs to by now
Leave(s) ==
  /\ Receiving(s)
  /\ active[IdOf[s]] # None
  /\ lock = "free"
  /\ Depart(s)

\* disconnect() of an id that is no longer recorded
LeaveUnrecorded(s) ==
  /\ Receiving(s)
  /\ active[IdOf[s]] = None
  /\ Become(s, "gone")
  /\ UNCHANGED <<poolVars, active, sendVars, lockVars, historyOfPool>>

\* disconnect() while the lock is taken
AwaitLeave(s) ==
  /\ Receiving(s)
  /\ active[IdOf[s]] # None
  /\ lock # "free"
  /\ Become(s, "leaving")
  /\ UNCHANGED <<poolVars, active, sendVars, lockVars, historyOfPool>>

\* The wait is over; a KeyError if another disconnect() was faster
FinishLeave(s) ==
  /\ status[s] = "leaving"
  /\ lock = "free"
  /\ Depart(s)

-----------------------------------------------------------------------------
(* Sends *)

\* connections.get(c), and the await of send_text() or send_json()
StartSend(k, c) ==
  /\ target[k] = None
  /\ pool[c] # None
  /\ target' = [target EXCEPT ![k] = pool[c]]
  /\ UNCHANGED <<poolVars, active, status, removing, errors, failed, lockVars, historyOfPool>>

SendOk(k) ==
  /\ target[k] # None
  /\ k \notin removing
  /\ target' = [target EXCEPT ![k] = None]
  /\ UNCHANGED <<poolVars, active, status, removing, errors, failed, lockVars, historyOfPool>>

\* An error that leaves the connection in the pool, and marks it
SendError(k) ==
  /\ target[k] # None
  /\ k \notin removing
  /\ errors' = Marked(target[k])
  /\ target' = [target EXCEPT ![k] = None]
  /\ UNCHANGED <<poolVars, active, status, removing, failed, lockVars, historyOfPool>>

\* Faulty variant: the removal uses the loop's variable, not the task's
DropLoopVariable(k) ==
  /\ target[k] # None
  /\ k \notin removing
  /\ lock = "free"
  /\ errors' = Marked(target[k])
  /\ failed' = failed \cup {target[k]}
  /\ \E c \in Ids : Remove(c, errors')
  /\ target' = [target EXCEPT ![k] = None]
  /\ UNCHANGED <<active, status, removing, lockVars, historyOfPool>>

\* WebSocketDisconnect or ConnectionError: mark_error(), and the removal of the
\* client id, whichever session it belongs to by now
Drop(k) ==
  /\ target[k] # None
  /\ k \notin removing
  /\ lock = "free"
  /\ errors' = Marked(target[k])
  /\ failed' = failed \cup {target[k]}
  /\ Remove(IdOf[target[k]], errors')
  /\ target' = [target EXCEPT ![k] = None]
  /\ UNCHANGED <<active, status, removing, lockVars, historyOfPool>>

\* The same while the lock is taken
AwaitDrop(k) ==
  /\ target[k] # None
  /\ k \notin removing
  /\ lock # "free"
  /\ errors' = Marked(target[k])
  /\ failed' = failed \cup {target[k]}
  /\ removing' = removing \cup {k}
  /\ UNCHANGED <<poolVars, active, status, target, lockVars, historyOfPool>>

\* Faulty variant: the removal is not taken off the list of those that wait
FinishDropAgain(k) ==
  /\ k \in removing
  /\ lock = "free"
  /\ Remove(IdOf[target[k]], errors)
  /\ target' = [target EXCEPT ![k] = None]
  /\ UNCHANGED <<active, status, removing, errors, failed, lockVars, historyOfPool>>

\* The wait is over
FinishDrop(k) ==
  /\ k \in removing
  /\ lock = "free"
  /\ Remove(IdOf[target[k]], errors)
  /\ removing' = removing \ {k}
  /\ target' = [target EXCEPT ![k] = None]
  /\ UNCHANGED <<active, status, errors, failed, lockVars, historyOfPool>>

-----------------------------------------------------------------------------
(* Cleanup and shutdown *)

\* _cleanup_connections() finds a connection that is unhealthy, idle too long
\* or older than an hour: its removal waits for the lock the cleanup holds.
\* When it finds none, nothing changes.
Cleanup ==
  /\ ~shutdown
  /\ lock = "free"
  /\ Pooled # {}
  /\ lock' = "stuck"
  /\ UNCHANGED <<poolVars, active, status, sendVars, shutdown, stragglers, historyOfPool>>

\* shutdown() takes the lock, or waits for a stuck one, and awaits the
\* cleanup task, which it has cancelled
BeginShutdown ==
  /\ ~shutdown
  /\ shutdown' = TRUE
  /\ lock' = IF lock = "free" THEN "shutdown" ELSE lock
  /\ stragglers' = Accepting
  /\ UNCHANGED <<poolVars, active, status, sendVars, historyOfPool>>

\* Faulty variant: lock.acquire() without a release
FinishShutdownLocked ==
  /\ lock = "shutdown"
  /\ Pooled # {}
  /\ lock' = "stuck"
  /\ UNCHANGED <<poolVars, active, status, sendVars, shutdown, stragglers, historyOfPool>>

\* _close_all_connections(): with a connection in the pool, its removal waits
\* for the lock that shutdown() holds
FinishShutdown ==
  /\ lock = "shutdown"
  /\ lock' = IF Pooled = {} THEN "free" ELSE "stuck"
  /\ UNCHANGED <<poolVars, active, status, sendVars, shutdown, stragglers, historyOfPool>>

-----------------------------------------------------------------------------

Handler(s) ==
  \/ Refuse(s) \/ Reject(s) \/ RecordRejected(s) \/ Accept(s) \/ ConnectFails(s)
  \/ Join(s) \/ Leave(s) \/ LeaveUnrecorded(s) \/ AwaitLeave(s) \/ FinishLeave(s)

Send(k) ==
  \/ SendOk(k) \/ SendError(k) \/ Drop(k) \/ AwaitDrop(k) \/ FinishDrop(k)
  \/ \E c \in Ids : StartSend(k, c)

Next ==
  \/ \E s \in Sessions : Handler(s)
  \/ \E k \in Senders : Send(k)
  \/ Cleanup \/ BeginShutdown \/ FinishShutdown

Spec == Init /\ [][Next]_vars

\* Nothing is asked of clients and the network; asyncio resumes who can go on
LiveSpec ==
  /\ Spec
  /\ WF_vars(FinishShutdown)
  /\ \A s \in Sessions : WF_vars(FinishLeave(s))
  /\ \A k \in Senders : WF_vars(FinishDrop(k))

-----------------------------------------------------------------------------
(* Properties *)

\* The capacity is checked before the await of accept(), and is exceeded by no
\* more than the connects that were in their accept() side by side.
OverfullOnlyByOverlap == Cardinality(Pooled) <= MaxSize + overlap

\* However sends, disconnects and removals of one client id interleave, the
\* two counters together count the connections of the pool, each overwritten
\* one still included: no connection is discounted twice.
CountersAddUp == healthy + unhealthy = Cardinality(Pooled) + replaced

\* Removals go by client id.  Still, a session that is receiving stays in the
\* dictionaries it was put into, until a send finds it disconnected, or unless
\* another session of the same client id has its place, has left or has failed.
KeptUnlessShared ==
  \A s \in Sessions :
    LET c == IdOf[s]
        Disturbed == \E t \in Sessions \ {s} :
          /\ IdOf[t] = c
          /\ t \in {pool[c], active[c]} \cup failed \/ status[t] = "gone"
    IN  /\ status[s] = "open" => pool[c] = s \/ s \in failed \/ Disturbed
        /\ Receiving(s) => active[c] = s \/ Disturbed

\* What is in the pool after a shutdown() that has ended was in its accept()
\* when shutdown() was called: no later connect gets in.
OnlyStragglersOutliveShutdown ==
  shutdown /\ lock = "free" =>
    \A c \in Ids : pool[c] # None => pool[c] \in stragglers

\* A disconnect or a removal that waits for the lock ends, unless cleanup or
\* shutdown has come to wait for itself.
WaitersGoOn ==
  /\ \A s \in Sessions :
       (status[s] = "leaving") ~> (status[s] = "gone" \/ lock = "stuck")
  /\ \A k \in Senders : (k \in removing) ~> (k \notin removing \/ lock = "stuck")
=============================================================================
