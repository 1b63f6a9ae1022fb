---------------------------- MODULE StampedeCache ----------------------------
(***************************************************************************)
(* CacheWithStampedeProtection                                             *)
(* (resync/core/cache/cache_with_stampede_protection.py) at the protection *)
(* levels BASIC and AGGRESSIVE, which do the same.  One lock serves all    *)
(* keys: a caller that finds its key being loaded waits for the loader     *)
(* under the lock, and loads under the lock itself if that has not left a  *)
(* valid entry.                                                            *)
(*                                                                         *)
(* A loader that is a plain function runs in a thread, which goes on when  *)
(* the task that called get() is cancelled: the next caller may load the   *)
(* key beside it, and its result is dropped.                               *)
(*                                                                         *)
(* invalidate() and clear() use `with' on an asyncio.Lock, raise, and      *)
(* change nothing.  load_timeout and max_concurrent_loads are never read.  *)
(***************************************************************************)
EXTENDS Naturals, Sequences

CONSTANTS
  Callers,  (* tasks that call get()                                        *)
  Sync,     (* those whose loader is a plain function, not a coroutine      *)
  Keys,
  None

ASSUME CacheAssumption ==
  /\ None \notin Callers
  /\ Sync \subseteq Callers

VARIABLES
  entry,    (* entry[k]: the valid entry of k, an exception as well as a    *)
            (* value; an entry that has expired is as good as none, except  *)
  late,     (* whether the entry that the lock's holder waited for has      *)
            (* expired only after the holder looked at the clock            *)
  loading,  (* loading[k]: the caller whose event _loading[k] is, or None   *)
  lock,     (* the caller that holds the lock across an await, or None      *)
  queue,    (* callers waiting for the lock, first come first served        *)
  status,   (* status[c]: where the caller is in get()                      *)
  key       (* key[c]: the key it asks for                                  *)

vars == <<entry, late, loading, lock, queue, status, key>>

Fetching == {"loading", "reloading"}

Init ==
  /\ entry = [k \in Keys |-> "none"]
  /\ late = FALSE
  /\ loading = [k \in Keys |-> None]
  /\ lock = None
  /\ queue = <<>>
  /\ status = [c \in Callers |-> "idle"]
  /\ key \in [Callers -> Keys]

Become(c, where) == status' = [status EXCEPT ![c] = where]

\* A caller holds the lock and waits for k, or has just been woken
Awaits(k) == \E c \in Callers : status[c] \in {"waiting", "woken"} /\ key[c] = k

\* Time passes, and the entry of k expires
Expire(k) ==
  /\ entry[k] # "none"
  /\ entry' = [entry EXCEPT ![k] = "none"]
  /\ late' = (late \/ Awaits(k))
  /\ UNCHANGED <<loading, lock, queue, status, key>>

-----------------------------------------------------------------------------
(* get() *)

\* get(k) without a valid entry asks for the lock.  (With one it returns at
\* once, even an exception as if it were the value, and changes nothing.)  A
\* lock that is free and asked for by nobody is granted in a step of its own,
\* which adds interleavings and takes none away.
Miss(c, k) ==
  /\ status[c] = "idle"
  /\ entry[k] = "none"
  /\ key' = [key EXCEPT ![c] = k]
  /\ queue' = Append(queue, c)
  /\ Become(c, "queued")
  /\ UNCHANGED <<entry, late, loading, lock>>

\* The lock is granted to the caller that has waited longest
Granted(c) ==
  /\ status[c] = "queued"
  /\ lock = None
  /\ queue # <<>>
  /\ Head(queue) = c
  /\ queue' = Tail(queue)

\* Meanwhile there is a valid entry
FindEntry(c) ==
  /\ Granted(c)
  /\ entry[key[c]] # "none"
  /\ Become(c, "idle")
  /\ UNCHANGED <<entry, late, loading, lock, key>>

\* The key is being loaded: the caller, which has looked at the clock, awaits
\* the event and keeps the lock
AwaitLoader(c) ==
  /\ Granted(c)
  /\ entry[key[c]] = "none"
  /\ loading[key[c]] # None
  /\ lock' = c
  /\ late' = FALSE
  /\ Become(c, "waiting")
  /\ UNCHANGED <<entry, loading, key>>

\* Faulty variant: the entry is not looked at again under the lock
StartLoadUnchecked(c) ==
  /\ Granted(c)
  /\ loading[key[c]] = None
  /\ loading' = [loading EXCEPT ![key[c]] = c]
  /\ Become(c, "loading")
  /\ UNCHANGED <<entry, late, lock, key>>

\* The caller registers an event, releases the lock and calls the loader
StartLoad(c) ==
  /\ Granted(c)
  /\ entry[key[c]] = "none"
  /\ loading[key[c]] = None
  /\ loading' = [loading EXCEPT ![key[c]] = c]
  /\ Become(c, "loading")
  /\ UNCHANGED <<entry, late, lock, key>>

\* The waiter resumes, finds an entry that is valid at the time it looked at the
\* clock, before its wait, and releases the lock
WakeToEntry(c) ==
  /\ status[c] = "woken"
  /\ entry[key[c]] # "none" \/ late
  /\ Become(c, "idle")
  /\ lock' = None
  /\ late' = FALSE
  /\ UNCHANGED <<entry, loading, queue, key>>

\* The waiter finds none: it calls the loader itself, under the lock
WakeToLoad(c) ==
  /\ status[c] = "woken"
  /\ entry[key[c]] = "none"
  /\ ~late
  /\ Become(c, "reloading")
  /\ UNCHANGED <<entry, late, loading, lock, queue, key>>

\* Faulty variant: _loading[k] is deleted and the event is not set
LeaveUnsignalled(c, where) ==
  \/ /\ status[c] = "loading"
     /\ loading' = [loading EXCEPT ![key[c]] = None]
     /\ Become(c, where)
     /\ UNCHANGED lock
  \/ /\ status[c] = "reloading"
     /\ lock' = None
     /\ Become(c, where)
     /\ UNCHANGED loading

\* The registered loader c is through, and whoever waits for its event is woken
Signal(c, where) ==
  status' = [d \in Callers |->
    IF d = c THEN where
    ELSE IF status[d] = "waiting" /\ key[d] = key[c] THEN "woken"
    ELSE status[d]]

\* Faulty variant: every load releases the lock
LeaveUnlocked(c, where) ==
  /\ status[c] \in Fetching
  /\ loading' = [loading EXCEPT ![key[c]] = None]
  /\ Signal(c, where)
  /\ lock' = None

\* The call of c is over: a registered loader sets its event and deletes it, one
\* under the lock releases the lock
Leave(c, where) ==
  \/ /\ status[c] = "loading"
     /\ loading' = [loading EXCEPT ![key[c]] = None]
     /\ Signal(c, where)
     /\ UNCHANGED lock
  \/ /\ status[c] = "reloading"
     /\ lock' = None
     /\ Become(c, where)
     /\ UNCHANGED loading

\* The loader returns: the entry's time runs since the call of get(), and may
\* be over, be it before a waiter looked at the clock or after.  It raises: the
\* exception is cached for 30 seconds.
Loaded(c) ==
  /\ Leave(c, "idle")
  /\ \E e \in {"none", "value", "error"} :
       /\ entry' = [entry EXCEPT ![key[c]] = e]
       /\ late' \in IF e = "none" /\ Awaits(key[c]) THEN BOOLEAN ELSE {late}
  /\ UNCHANGED <<queue, key>>

\* The task of c is cancelled in its load: nothing is cached.  The loader ends
\* with it, if it is a coroutine or a plain function that no thread has begun,
\* or it is left behind in its thread.
CancelLoad(c) ==
  /\ \/ Leave(c, "idle")
     \/ c \in Sync /\ Leave(c, "abandoned")
  /\ UNCHANGED <<entry, late, queue, key>>

\* A thread comes to the end of a loader whose caller has gone: its result, or
\* its exception, is dropped.  Until then no other call is taken for c's.
ThreadEnds(c) ==
  /\ status[c] = "abandoned"
  /\ Become(c, "idle")
  /\ UNCHANGED <<entry, late, loading, lock, queue, key>>

\* The task of c is cancelled while it waits for the lock
CancelQueued(c) ==
  /\ status[c] = "queued"
  /\ \E i \in 1..Len(queue) :
       /\ queue[i] = c
       /\ queue' = SubSeq(queue, 1, i - 1) \o SubSeq(queue, i + 1, Len(queue))
  /\ Become(c, "idle")
  /\ UNCHANGED <<entry, late, loading, lock, key>>

\* Faulty variant: acquire() and release() without try and finally
CancelWaitingLocked(c) ==
  /\ status[c] \in {"waiting", "woken"}
  /\ Become(c, "idle")
  /\ UNCHANGED <<entry, late, loading, lock, queue, key>>

\* The task of c is cancelled while it waits for the loader
CancelWaiting(c) ==
  /\ status[c] \in {"waiting", "woken"}
  /\ lock' = None
  /\ late' = FALSE
  /\ Become(c, "idle")
  /\ UNCHANGED <<entry, loading, queue, key>>

-----------------------------------------------------------------------------

Proceed(c) ==
  FindEntry(c) \/ AwaitLoader(c) \/ StartLoad(c) \/ WakeToEntry(c) \/ WakeToLoad(c)

Call(c) ==
  \/ \E k \in Keys : Miss(c, k)
  \/ Proceed(c) \/ Loaded(c) \/ CancelLoad(c) \/ ThreadEnds(c)
  \/ CancelQueued(c) \/ CancelWaiting(c)

Next ==
  \/ \E c \in Callers : Call(c)
  \/ \E k \in Keys : Expire(k)

Spec == Init /\ [][Next]_vars

\* asyncio resumes who can go on, and loaders end, those left in threads included
LiveSpec ==
  /\ Spec
  /\ \A c \in Callers :
       /\ WF_vars(Proceed(c))
       /\ WF_vars(Loaded(c) \/ CancelLoad(c) \/ ThreadEnds(c))

-----------------------------------------------------------------------------
(* Properties *)

TypeOK ==
  /\ entry \in [Keys -> {"none", "value", "error"}]
  /\ late \in BOOLEAN
  /\ loading \in [Keys -> Callers \cup {None}]
  /\ lock \in Callers \cup {None}
  /\ queue \in Seq(Callers)
  /\ status \in [Callers ->
       {"idle", "queued", "waiting", "woken", "loading", "reloading", "abandoned"}]
  /\ key \in [Callers -> Keys]
  /\ \A c \in Callers :
       lock = c <=> status[c] \in {"waiting", "woken", "reloading"}

\* No wake-up is lost: who holds the lock and waits, waits for a loader of its
\* key that is in flight, has registered, and does not need the lock.
WaitersHaveLoaders ==
  \A c \in Callers : status[c] = "waiting" =>
    /\ loading[key[c]] # None
    /\ status[loading[key[c]]] = "loading"
    /\ key[loading[key[c]]] = key[c]

Flights == [k \in Keys |-> {c \in Callers : status[c] \in Fetching /\ key[c] = k}]
Strays == [k \in Keys |-> {c \in Callers : status[c] = "abandoned" /\ key[c] = k}]

Flight == INSTANCE SingleFlight
  WITH Callers <- Callers, Sync <- Sync, Keys <- Keys,
       flight <- Flights, stray <- Strays, cached <- entry

\* The stampede protection: whatever waits, fails, expires or is cancelled, a
\* load begins only while there is no valid entry and no other call loads the
\* key.  Beside it there may only run loaders that are plain functions and were
\* left in their threads when their calls were cancelled, and those no longer
\* touch the entry.
ImplementsSingleFlight == Flight!FlightSpec

\* Every call of get() ends, and so does what it has left in a thread, though
\* waiters keep the lock of all keys: the loader that a waiter needs never waits
\* for that lock.
CallsEnd == \A c \in Callers : (status[c] # "idle") ~> (status[c] = "idle")
=============================================================================
