----------------------------- MODULE TWSPoller ------------------------------
(***************************************************************************)
(* TWSBackgroundPoller (resync/core/tws_background_poller.py): a loop that *)
(* collects the jobs' status, compares it with its cache, publishes an     *)
(* event for each change, and then updates the cache.  start() and stop()  *)
(* are called by the monitoring manager and by two HTTP endpoints; since   *)
(* stop() awaits the loop it cancels, they may overlap.                    *)
(*                                                                         *)
(* Workstations and the system's health are compared in the same way as    *)
(* jobs are.  The events that do not come from a change (job stuck, high   *)
(* failure rate), which every poll repeats, are left out.                  *)
(***************************************************************************)
EXTENDS EventBus

CONSTANTS
  Jobs,
  Solved,      (* jobs for whose failure the store has a solution           *)
  Ends,        (* what TWS may change a job to, besides "EXEC"              *)
  Loops,       (* tasks that run _polling_loop()                            *)
  Stoppers,    (* callers of stop()                                         *)
  MaxChanges,  (* bound: what TWS may change, empty answers included        *)
  MaxStarts,   (* bound: calls of start() that start a loop                 *)
  NoLoop

ASSUME PollerAssumption ==
  /\ Solved \subseteq Jobs
  /\ Ends \subseteq {"SUCC", "ABEND"}
  /\ Loops # {}
  /\ NoLoop \notin Loops
  /\ MaxChanges \in Nat
  /\ MaxStarts \in Nat

Statuses == {"absent", "EXEC", "SUCC", "ABEND"}

VARIABLES
  tws,        (* tws[j]: the status of j in TWS                             *)
  cache,      (* cache[j]: its status in _previous_jobs                     *)
  loop,       (* loop[l]: where a loop is                                   *)
  snapshot,   (* snapshot[l]: what it has collected                         *)
  pending,    (* pending[l]: events it has detected and not published yet   *)
  cancelled,  (* loops whose cancellation is under way                      *)
  running,    (* _is_running                                                *)
  task,       (* _polling_task                                              *)
  awaiting,   (* awaiting[h]: the loop whose end a stop() awaits            *)
  changes,    (* what TWS has changed so far                                *)
  starts,     (* calls of start() that started a loop so far                *)
  hasty,      (* history: start() was called during a stop()                *)
  told        (* history: jobs whose ABEND has been published since they    *)
              (* were last cached with another status                       *)

boundVars  == <<changes, starts>>
loopVars   == <<loop, snapshot, pending>>
switchVars == <<cancelled, running, task, awaiting, hasty>>
pollerVars == <<tws, cache, loopVars, switchVars, boundVars, told>>

Nothing == [j \in Jobs |-> "absent"]

\* How monitoring starts: the first loop has been created
PollerInit ==
  /\ tws = [j \in Jobs |-> "EXEC"]
  /\ cache = Nothing
  /\ task = CHOOSE l \in Loops : TRUE
  /\ loop = [l \in Loops |-> IF l = task THEN "sleeping" ELSE "off"]
  /\ snapshot = [l \in Loops |-> Nothing]
  /\ pending = [l \in Loops |-> {}]
  /\ cancelled = {}
  /\ running = TRUE
  /\ awaiting = [h \in Stoppers |-> NoLoop]
  /\ changes = 0 /\ starts = 0
  /\ hasty = FALSE
  /\ told = {}

Event(k, j) == [kind |-> k, job |-> j]

\* _detect_job_changes(): a new job is an event if it is running, a known job
\* if it has ended
Detect(was, now) ==
  {Event("started", j) : j \in {i \in Jobs : was[i] = "absent" /\ now[i] = "EXEC"}}
  \cup
  {Event(IF now[j] = "SUCC" THEN "completed" ELSE "abend", j) :
     j \in {i \in Jobs : was[i] # "absent" /\ was[i] # now[i] /\ now[i] \in {"SUCC", "ABEND"}}}

-----------------------------------------------------------------------------
(* A loop *)

Active(l, where) == loop[l] = where /\ l \notin cancelled

Go(l, where) == loop' = [loop EXCEPT ![l] = where]

CollectAs(l, now) ==
  /\ Active(l, "collecting")
  /\ snapshot' = [snapshot EXCEPT ![l] = now]
  /\ pending' = [pending EXCEPT ![l] = Detect(cache, now)]
  /\ Go(l, "emitting")

\* TWS answers, the changes are detected, and the await of the store begins
Collect(l) ==
  /\ CollectAs(l, tws)
  /\ UNCHANGED <<busVars, tws, cache, switchVars, boundVars, told>>

\* An answer without jobs, which is taken as it is
CollectNothing(l) ==
  /\ changes < MaxChanges
  /\ changes' = changes + 1
  /\ CollectAs(l, Nothing)
  /\ UNCHANGED <<busVars, tws, cache, switchVars, starts, told>>

\* A request fails, or a date cannot be subtracted: no snapshot
CollectFails(l) ==
  /\ Active(l, "collecting")
  /\ Go(l, "sleeping")
  /\ UNCHANGED <<busVars, tws, cache, snapshot, pending, switchVars, boundVars, told>>

\* _update_cache(); an ABEND that has been told counts until the job is cached
\* with another status
UpdateCache(l, announced) ==
  /\ cache' = snapshot[l]
  /\ snapshot' = [snapshot EXCEPT ![l] = Nothing]
  /\ told' = {j \in announced : snapshot[l][j] = "ABEND"}
  /\ Go(l, "sleeping")

\* Faulty variant: the cache is updated before the events are published
EmitAfterUpdate(l, e) ==
  LET announced == IF e.kind = "abend" THEN told \cup {e.job} ELSE told IN
  /\ Active(l, "emitting")
  /\ e \in pending[l]
  /\ Publish(IF e.kind = "abend" /\ e.job \in Solved THEN 2 ELSE 1)
  /\ pending' = [pending EXCEPT ![l] = @ \ {e}]
  /\ cache' = snapshot[l]
  /\ told' = announced
  /\ Go(l, IF pending[l] = {e} THEN "sleeping" ELSE "emitting")
  /\ UNCHANGED <<procVars, subs, clientVars, tws, snapshot, switchVars, boundVars>>

\* One event: the handlers save it and, for an ABEND, may publish a solution first;
\* then it is published.  The cache is updated with the last one.
Emit(l, e) ==
  LET announced == IF e.kind = "abend" THEN told \cup {e.job} ELSE told IN
  /\ Active(l, "emitting")
  /\ e \in pending[l]
  /\ Publish(IF e.kind = "abend" /\ e.job \in Solved THEN 2 ELSE 1)
  /\ pending' = [pending EXCEPT ![l] = @ \ {e}]
  /\ IF pending[l] = {e}
     THEN UpdateCache(l, announced)
     ELSE told' = announced /\ UNCHANGED <<cache, loop, snapshot>>
  /\ UNCHANGED <<procVars, subs, clientVars, tws, switchVars, boundVars>>

\* Nothing to publish
Skip(l) ==
  /\ Active(l, "emitting")
  /\ pending[l] = {}
  /\ UpdateCache(l, told)
  /\ UNCHANGED <<busVars, tws, pending, switchVars, boundVars>>

\* The loop has been created, or the interval is over: the next poll, or the end
\* of a loop that was not cancelled and finds _is_running false
Wake(l) ==
  /\ Active(l, "sleeping")
  /\ Go(l, IF running THEN "collecting" ELSE "off")
  /\ UNCHANGED <<busVars, tws, cache, snapshot, pending, switchVars, boundVars, told>>

\* CancelledError at whatever the loop awaits
EndLoop(l) ==
  /\ l \in cancelled
  /\ cancelled' = cancelled \ {l}
  /\ Go(l, "off")
  /\ snapshot' = [snapshot EXCEPT ![l] = Nothing]
  /\ pending' = [pending EXCEPT ![l] = {}]
  /\ UNCHANGED <<busVars, tws, cache, running, task, awaiting, hasty, boundVars, told>>

PollStep(l) ==
  \/ Collect(l) \/ CollectNothing(l) \/ CollectFails(l) \/ Skip(l) \/ Wake(l) \/ EndLoop(l)
  \/ \E e \in pending[l] : Emit(l, e)

-----------------------------------------------------------------------------
(* start() and stop() *)

\* Loops that stand for no task
Free == {l \in Loops : loop[l] = "off" /\ \A h \in Stoppers : awaiting[h] # l}

\* Faulty variant: start() does not look at _is_running
StartAgain ==
  /\ starts < MaxStarts
  /\ starts' = starts + 1
  /\ running' = TRUE
  /\ Free # {}
  /\ task' = CHOOSE l \in Free : TRUE
  /\ Go(task', "sleeping")
  /\ hasty' = (hasty \/ \E h \in Stoppers : awaiting[h] # NoLoop)
  /\ UNCHANGED <<busVars, tws, cache, snapshot, pending, cancelled, awaiting, changes, told>>

StartPoller ==
  /\ ~running
  /\ starts < MaxStarts
  /\ starts' = starts + 1
  /\ running' = TRUE
  /\ Free # {}
  /\ task' = CHOOSE l \in Free : TRUE
  /\ Go(task', "sleeping")
  /\ hasty' = (hasty \/ \E h \in Stoppers : awaiting[h] # NoLoop)
  /\ UNCHANGED <<busVars, tws, cache, snapshot, pending, cancelled, awaiting, changes, told>>

\* stop() cancels _polling_task and awaits it; it awaits nothing that has ended
StopPoller(h) ==
  /\ awaiting[h] = NoLoop
  /\ running' = FALSE
  /\ IF task # NoLoop /\ loop[task] # "off"
     THEN /\ cancelled' = cancelled \cup {task}
          /\ awaiting' = [awaiting EXCEPT ![h] = task]
          /\ UNCHANGED task
     ELSE task' = NoLoop /\ UNCHANGED <<cancelled, awaiting>>
  /\ UNCHANGED <<busVars, tws, cache, loopVars, hasty, boundVars, told>>

\* The loop has ended: _polling_task is forgotten, whichever task it is by now
FinishStop(h) ==
  /\ awaiting[h] # NoLoop
  /\ loop[awaiting[h]] = "off"
  /\ task' = NoLoop
  /\ awaiting' = [awaiting EXCEPT ![h] = NoLoop]
  /\ UNCHANGED <<busVars, tws, cache, loopVars, cancelled, running, hasty, boundVars, told>>

\* Jobs change in TWS between two polls, any number of them
Change ==
  /\ changes < MaxChanges
  /\ changes' = changes + 1
  /\ \E now \in [Jobs -> Ends \cup {"EXEC"}] : tws' = now /\ tws # now
  /\ UNCHANGED <<busVars, cache, loopVars, switchVars, starts, told>>

-----------------------------------------------------------------------------
(* Properties *)

PollerTypeOK ==
  /\ tws \in [Jobs -> Statuses] /\ cache \in [Jobs -> Statuses]
  /\ loop \in [Loops -> {"off", "collecting", "emitting", "sleeping"}]
  /\ snapshot \in [Loops -> [Jobs -> Statuses]]
  /\ pending \in [Loops ->
       SUBSET [kind : {"started", "completed", "abend"}, job : Jobs]]
  /\ cancelled \in SUBSET {l \in Loops : loop[l] # "off"}
  /\ running \in BOOLEAN
  /\ task \in Loops \cup {NoLoop}
  /\ awaiting \in [Stoppers -> Loops \cup {NoLoop}]
  /\ changes \in 0..MaxChanges /\ starts \in 0..MaxStarts
  /\ hasty \in BOOLEAN
  /\ told \in SUBSET Jobs

\* Two loops poll side by side only if start() was called while a stop() was
\* awaiting the loop before it.
OneLoopUnlessHasty ==
  hasty \/ \A l, k \in Loops : loop[l] # "off" /\ loop[k] # "off" => l = k

\* A job that the cache knew with another status is not cached as failed before
\* its failure has been published, whatever polls failed or were cut off by a
\* stop() in between; unless two loops have disturbed each other.
AbendsAreAnnounced ==
  [][\A j \in Jobs :
       cache[j] \notin {"absent", "ABEND"} /\ cache'[j] = "ABEND" => j \in told' \/ hasty
    ]_cache
=============================================================================
