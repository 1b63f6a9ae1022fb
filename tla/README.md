# A TLA+ development of Resync

Resync is an asyncio service (FastAPI, one event loop per worker process,
several worker processes, Redis and PostgreSQL behind them) that puts a chat
interface in front of a workload scheduler (HCL Workload Automation / TWS).
Its own core logic is not in the LLM prompts or the HTTP routes: it is in the
components that coordinate coroutines and processes. This directory models
those components in TLA+, checks them with TLC on small instances, and proves
the most important of their safety properties with TLAPS for every instance.

Sources are named relative to `src/`.

## 1. Inventory

### Modelled

| Component | Source | State | Operations |
|---|---|---|---|
| Circuit breaker | `resync/core/resilience.py` | `state`, `consecutive_failures`, `last_failure_time` | `call` = admit, run, report |
| Retry | `resync/core/resilience.py` | attempt number of one execution | `execute` |
| LLM service | `resync/services/llm_fallback.py` | one breaker per provider, the configured fallback chain | `complete`, `complete_with_fallback`, `complete_stream`; `complete_json` is `complete` and a parse |
| Task manager | `resync/core/task_manager.py` | tasks and their status, priority queue, running tasks, processor, sleeping retries | `start`, `stop`, `submit`, `cancel_task`, `_process_tasks`, `task_wrapper`, `_schedule_retry` |
| Audit lock and IA auditor | `resync/core/audit_lock.py`, `resync/core/ia_auditor.py` | keys in Redis with an owner and an expiry; the auditor's runs | `acquire`, release, `force_release`, `cleanup_expired_locks`, `analyze_and_flag_memories` |
| WebSocket pool and connection manager | `resync/core/websocket_pool_manager.py`, `resync/core/connection_manager.py` | connections by client id, error counts, counters of healthy and unhealthy ones, an `asyncio.Lock`, the manager's own dictionary | `connect`, `disconnect`, `broadcast` and personal messages, `_remove_connection`, `_cleanup_connections`, `shutdown` |
| Idempotency | `resync/core/idempotency/`, `resync/api/middleware/idempotency.py` | per key a processing mark with an expiry and a record, in Redis | the middleware's `dispatch`; `is_processing`, `mark_processing`, `clear_processing`, `cache_response`, `invalidate_key` |
| Stampede-protected cache | `resync/core/cache/cache_with_stampede_protection.py` | entries, events of loads in flight, one lock | `get` with its loader, expiry |
| Event bus | `resync/core/event_bus.py` | subscribers, WebSocket clients, queue, history | `publish`, `subscribe`, `unsubscribe`, `register_websocket`, `unregister_websocket`, `_process_events`, `stop` |
| TWS background poller | `resync/core/tws_background_poller.py` | the last known jobs, the polling task, `_is_running` | `start`, `stop`, `_polling_loop`, `_collect_snapshot`, `_detect_changes`, `_update_cache` |
| Proactive monitoring | `resync/core/proactive_monitoring_manager.py`, `resync/api/monitoring_routes.py` | whether it runs | `stop`, the WebSocket endpoint, `/poller/start`, `/poller/stop` |

How they interact: every LLM request of `LLMService` goes through the breaker
of its model's provider, and *inside* it through the retry handler; a stream
looks at the breakers and bypasses both. The IA auditor is started by every chat
message, in whatever worker process handles it, and calls an LLM while it holds
an audit lock. Proactive monitoring puts the poller in front of the event bus,
and the dashboard's WebSockets behind it; the manager stops them in order, while
two HTTP endpoints switch the poller on their own. The connection manager, the
task manager, the cache and the idempotency middleware are used by the rest of
the service as libraries.

What makes them hard, and what makes each correct:

* **Circuit breaker.** The lock is released while the protected call runs, so
  outcomes are reported by calls admitted in another state. Correct means: an
  open breaker sheds load until its timeout has passed since the last failure;
  recovery starts from a clean count; a failed probe opens it again; it does
  not stay OPEN or HALF_OPEN while callers keep calling.
* **LLM service.** Requests interleave at every provider call and every retry
  sleep, and share the breakers and `config.fallback_chain`. Correct means: no
  model is skipped without reason or called through an OPEN breaker; a request
  fails only when its chain is exhausted; a retried request counts as one
  failure; an override of the chain is temporary; requests end; a provider
  that failed is tried again some day.
* **Task manager.** `cancel_task`, `stop` and retries race with the processor
  and the running function. Correct means: a pending task is in exactly one
  place, statuses tell the truth and follow the lifecycle, cancelled tasks do
  not run (again), pending tasks end.
* **Audit lock.** Several processes, expiry, crashes, lost answers, and a sweep
  that deletes keys. Correct means mutual exclusion per memory as far as the
  expiry allows it, no release of another run's lock, no lock left for ever.
* **WebSocket pool.** Connections are known by client id, and an id may come back
  before its old handler has ended; the capacity is checked before `accept()` is
  awaited; the lock is not reentrant, and the cleanup and the shutdown await a
  method that takes it while they hold it. Correct means: the capacity is
  exceeded only by what was being accepted at once, the counters account for
  every connection, a session loses its place only to another of its own id or
  to a failed send, a shutdown leaves no connection but stragglers, and whoever
  waits for the lock gets it.
* **Idempotency.** Check and mark are separate commands, the mark is written
  without NX, expires under a slow request, and is cleared by whoever ends.
  Correct means: two requests of a key execute side by side only after one of
  these races, and while a request keeps its mark, retries that are checked are
  refused. Answering a retry from the stored response is promised too, and does
  not happen (section 4).
* **Stampede-protected cache.** Waiters await a loader while they hold the one
  lock of all keys; a loader that is a plain function runs in a thread, which
  cannot be cancelled. Correct means: one call loads a key at a time, beside it run
  at most loaders left in threads by cancelled calls, no wake-up is lost, and every
  `get()` ends, whatever fails or is cancelled.
* **Event bus, poller, monitoring.** Clients and subscribers come and go while an
  event is being delivered; a poll fails, or is cut off by a `stop()`, between
  detection and the update of the cache; `start()` and `stop()` overlap. Correct
  means: a connected client misses nothing between its first batch and the live
  events, published events arrive, a failed job is announced before it is cached
  as failed, and one loop polls at a time.

### Not modelled, and why

* *Configuration hot reload, the sharded caches and their transactions, the
  write-ahead log, the parallel executor of specialists* are the next
  candidates: they have state and concurrency of their own.
* The *audit queue* (`core/audit_queue.py`) has no consumer in the repository.
* The *agents, LangGraph graphs, orchestrator* are sequential pipelines whose
  decisions are about text. *Knowledge retrieval* and the *semantic cache* are
  numerical and I/O.
* *Other breakers, retries, pools* (`core/retry.py`, `services/llm_retry.py`,
  `core/circuit_breaker_registry.py`, `core/smart_pooling.py`, ...) are variants of
  what is modelled or wrappers of libraries.
* *Health, monitoring, dashboards, compliance, routes* report on the state of
  the others.

These are most of the repository's lines: it is a wide service, and its
coordination is in few places.

`PROJECT.json` lists every component with its sources and status, and every
hazard with its line and the properties that cover it.

## 2. Modules

    BreakerOps ---- CircuitBreaker ---- MCCircuitBreaker, CircuitBreakerProofs
             \----- LLMFallback ------- MCLLMFallback, LLMFallbackProofs
    TaskLifecycle - TaskManager ------- MCTaskManager, TaskManagerProofs
                    AuditLock --------- MCAuditLock, AuditLockProofs
                    WebSocketPool ----- MCWebSocketPool, WebSocketPoolProofs
                    Idempotency ------- MCIdempotency, IdempotencyProofs
    SingleFlight -- StampedeCache ----- MCStampedeCache, StampedeCacheProofs
    EventBus ------ TWSPoller -- Monitoring ---- MCMonitoring, MonitoringProofs

`TaskLifecycle` and `SingleFlight` are abstract specifications, instantiated
(`INSTANCE ... WITH`) by the modules that implement them.

**The unit of a step.** asyncio switches tasks only where a coroutine really
suspends. What a coroutine does between two suspensions is one action; an
uncontended `async with lock` around code that does not suspend is part of the
step. Between processes, each Redis command is one action.

**Faulty variants.** Definitions announced as faulty variants are not part of
any specification. Each is a slip one could make in the code, and substituting
it for the definition it mimics makes the property listed beside it in
`PROJECT.json` ("mutants") fail: the properties do bite.

### BreakerOps

The breaker as a record and its methods as functions on it. The failure count
is only compared with the threshold and saturates there; `last_failure_time`
is only read as an age compared with `recovery_timeout`, and the age is kept,
saturating there. `CanAge`/`Aged` let a tick of time pass. Counters that only
`get_metrics` reads are left out.

### CircuitBreaker

`call()` takes the lock before and after awaiting the function, and never
suspends inside: `Admit` or `Block` is the first critical section, `Succeed`
or `Fail` the second, and `Abort` is a call that reaches none of the handlers
(cancellation, or an exception that is not `expected_exception`). The history
variable `lateSuccess` records that a call admitted before the breaker opened
has succeeded since. Such a success sets the failure count to 0 without
closing the breaker, after which one failed probe does not open it again;
`FailedProbeReopens` therefore excludes that case, and only that.

### LLMFallback

`Complete` and `CompleteWithFallback` run from the call to the first suspension:
models whose breaker is OPEN are passed over (`Usable`), the next is called
(`CallNext`), and without one the request fails (`GiveUp`). `Answer`, `Retry`,
`BackoffOver` and `ModelFails` are what can happen at a suspension, `Cancel` the
cancellation of the request's task there. The `finally` of
`complete_with_fallback` (`Restored`) is part of whichever action ends the
request. Abstractions:

* which error a model gives is a free choice between one the retry handler
  expects (`LLMError`, `LLMTimeoutError`) and one it does not; an error raised
  before the call suspends (a missing API key) is treated as one that comes
  later, which allows more interleavings than the code;
* `except CircuitBreakerError` is not reachable: between the check of the
  breaker's state and `call()` nothing suspends;
* `model_config.timeout_seconds`, which `complete()` writes into the class-wide
  `KNOWN_MODELS` for fallbacks, has no effect, since whether and when a call
  times out is free;
* a chain keeps the requested model where the configured chain repeats it; the
  code filters it out, and here that position is never usable;
* `complete_stream()` (`Stream`, `StreamNext`, `StreamEnds`, `StreamFails`) walks the
  same chain, but calls the provider itself: it reads the breakers and reports
  to none, and has neither retry nor timeout. A stream that fails after its
  first chunk goes on with the next model from the beginning, behind the chunks
  given out; what the consumer makes of them is not modelled.

### TaskLifecycle and TaskManager

`TaskLifecycle` is the abstract specification: the status of each task and its
retry count, as `get_task()` shows them. `TaskManager` is the detailed one;
its state besides is the queue, the sleeping retries, where the processor is,
the asyncio task (wrapper) it awaits, whether that has been asked to cancel,
and `_shutdown`. The property `ImplementsLifecycle` is the refinement, with
`status` and `retry_count` mapped to themselves.

The processor awaits the wrapper inside its loop, so that there is at most one
wrapper and the semaphore of `max_workers` is never contended (it is left out).
The wrapper's state `created`, before its first step, matters: a coroutine
cancelled there never enters its `try`, the wrapper is `aborted`, and awaiting it
raises `CancelledError` in the processor, which no handler catches (`Die`).
`Stubborn` are tasks that may answer their cancellation with a result or an
error; they are why `TaskLifecycle` lets CANCELLED be replaced. Cancellation of
the processor itself from outside (of a caller of `stop()`) is not modelled.

### AuditLock

A run of `analyze_and_flag_memories` is: `Start` (the KEYS of the sweep), then
`ReadTTL` and `Delete` per key, `Fetch` (the sweep ends, normally or by an error of
Redis, and the memories are read), and for each memory a context that is
`entering`, `inside` or `out` (`Enter`, `Refused`, `EnterUnanswered`, `Leave`,
`LeaveLocked`), and `Finish` (the `gather`). `Tick` is the clock with the expiry of
keys, `Crash` the death of the process, `ForceRelease` the administrator's
operation. Lock values are fresh UUIDs in the code; a run has at most one
context per memory and can enter again only when the key is gone, so the run
stands for its value. The history variable `lost` records how a run inside lost
its key. What is done inside the lock (LLM analysis, deleting, flagging) is
abstract: it takes any time and ends in any way. (In the present code it ends at
once: `analyze_memory` calls methods that `ContextStore` does not have, and the
`gather` swallows the exception; the model does not rely on it.) `is_locked` and the GET after a
failed release only read.

### WebSocketPool

A session is one WebSocket with its handler: `Accept`, `Reject`, `Refuse` and
`ConnectFails`, `Join` when `accept()` has returned, `Leave` with its variants for a
lock that is taken (`AwaitLeave`, `FinishLeave`) and for an id the manager no longer
has (`LeaveUnrecorded`). A sender is a send under way, of a broadcast or a personal
message: it has looked its session up and awaits the socket (`StartSend`, then
`SendOk`, `SendError`, or `Drop` when the socket turns out to be disconnected). The
removal goes by client id (`Remove`), whatever that id belongs to by then. A
critical section that does not suspend is one step, and so is one that would, if
what it awaits cannot: `not websocket.client_state.DISCONNECTED` is never true, so
that a removal closes no socket. `Cleanup` and `FinishShutdown` wait for their own
lock when there is something to remove: the lock becomes `"stuck"`.

The model allows what the present configuration hides: the `WS_POOL_*` settings
that the pool reads are not defined anywhere, so that its cleanup loop fails on
each round, and only the configuration watcher uses the `ConnectionManager`. A
rejected session is still recorded as active (`RecordRejected`,
`connection_manager.py:39`).

### Idempotency

One key, with the requests that carry it in any process; every Redis command is
a step that may fail (`PassUnchecked`, `MarkFails`, `StoreFails`, `ClearFails`) and
every request may be lost (`Crash`). `Tick` is the expiry of the mark,
`RecordExpires` that of the record, `InvalidateRecord` and `InvalidateMark` the two
deletions of `invalidate_key()`. The history variables say why a request is
without its mark (`exposed`), and who had checked before a mark was set or has had
its check fail since (`racers`). `storage.set()` writes `str(dict)`, which
`storage.get()` cannot decode: a record that exists is never found, and `LookUp` has
no other outcome. So `record` is written, by `Store`, `RecordExpires` and
`InvalidateRecord`, and no guard or property reads it: what a retry meets is the
mark alone, and the properties are about the mark. No code of the repository registers the
middleware, and the endpoints meant to use the manager call an
`execute_idempotent` that it does not have; the module is about the middleware as
written.

### SingleFlight and StampedeCache

`SingleFlight` is the promise per key: a load begins only while no other call loads
the key and there is no valid entry. It does not promise that no other *loader* of
the key runs: a plain function cannot be stopped, and when its call is cancelled
it becomes a stray (`Abandon`, `StrayEnds`). `StampedeCache` is `get()`: `Miss` asks for the
lock; at the head of its queue a caller finds an entry, awaits the loader *under
the lock*, or registers and loads outside it; whoever was woken finds an entry or
loads under the lock. `Loaded` ends a load with a value or an error, which is
cached alike; `CancelLoad`, `CancelQueued` and `CancelWaiting` are the cancellation of
the caller at each of its awaits. `Sync` are the callers whose loader is a plain
function. When one of these is cancelled in its load, the load ends if no thread has
begun it, or the thread goes on (`abandoned`) until `ThreadEnds`; the key is
registered no longer, the next caller loads it, and what the thread brings is
dropped. The model takes no new call for this caller until then, which loses nothing but
the number of callers; that the thread pool is limited is abstract, since a load that
waits for a thread is as one that runs. A waiter compares the entry's expiry with the
time it read *before* its wait (`cache_with_stampede_protection.py:76`, `:93`), and may
return an entry that has expired meanwhile: `late` remembers that it has.
`ImplementsSingleFlight` maps the loads of a key to the callers that load it, and the
strays to those that are `abandoned`. `invalidate()` and `clear()` use `with` on an
`asyncio.Lock`, raise before they change anything, and have no action;
`load_timeout` and `max_concurrent_loads` are never read.

### EventBus, TWSPoller and Monitoring

`EventBus`: `publish` appends, and the processor takes one event, notifies the
subscribers and then sends to the copied list of clients, suspending at each
(`Process`). A subscription during the notification makes the iteration raise,
and the event is given up for the clients. A client is registered with a batch of
recent events (`Register`), or its connection is lost while the batch is sent
(`RegisterLost`), or later (`Lose`); `Unregister` is its handler's `finally`. The history
variables `joined` and `settled` say from where on a client has a claim and what
it received or was given up.

`TWSPoller`: a loop wakes, collects, emits one event after another and updates its
cache with the last one; each await may be where it is cancelled (`EndLoop`), and
collecting may fail (`CollectFails`; a timezone-aware `startTime` without an end
also does that, `tws_background_poller.py:481`) or bring an empty answer, which is
cached as it is. `StopPoller` and `FinishStop` are the two halves of `stop()`. Loops
stand for tasks and are used again once they have ended.

`Monitoring` composes them: the manager's `stop()` (`BeginStop`, `FinishStopping`), the
endpoints (`Switch`), and the steps of the two components. Left out: filters by
subscription type, changes of workstations and of the system's health (compared
as jobs are), and the events that every poll repeats (stuck jobs, whose key is
never in the cache, and anomalies). Nobody in the repository calls
`bus.subscribe`; subscribers are modelled because the API offers them. In the
repository only the mock TWS client defines `get_plan_jobs`.

## 3. Runs

| Run | Instance | States | Shows |
|---|---|---|---|
| `breaker` | 3 callers, threshold 2, timeout 2 ticks | 15 275 | `TypeOK`, `ClosedBelowThreshold`, `OpenShedsLoad`, `FailedProbeReopens`, `OpenIsLeft`, `HalfOpenResolves` |
| `llm_fallback` | 2 requests, 3 models, 2 providers, 1 retry, threshold 2, 1 override, streams | 256 527 | `TypeOK`, `FailsOnlyWhenExhausted`, `TripsAreEarned`, `SoloOverrideIsUndone`, `OpenProvidersAreSkipped`, `RequestsEnd` |
| `llm_recovery` | the same, no retry, threshold 1 | | `OpenProviderIsRetried` fails |
| `llm_override` | the same | | `OverrideIsTemporary` fails |
| `task_manager` | 3 tasks of different priority, one with a retry, one stubborn | 16 073 | `TypeOK`, `PendingIsSomewhere`, `RunningIsReal`, `ImplementsLifecycle`, `TasksEnd` |
| `task_cancel` | the same | | `OnlyStopEndsProcessor` fails |
| `audit_lock` | 3 runs, 1 memory, lock timeout 2 ticks, `max_age` 4 | 111 536 | `TypeOK`, `HoldersOwnTheirKey`, `ExclusiveUnlessLost`, `LocksAreFreed` |
| `audit_sweep` | 2 runs | | `ExclusiveWithinTimeout` fails |
| `websocket_pool` | 3 sessions, two of one id, 2 senders, capacity 1, no error tolerated | 956 710 | `TypeOK`, `OverfullOnlyByOverlap`, `CountersAddUp`, `KeptUnlessShared`, `OnlyStragglersOutliveShutdown`, `WaitersGoOn` |
| `idempotency` | 3 requests of a key, mark of 2 ticks | 334 050 | `TypeOK`, `OneAtATimeUnlessExposed`, `OnlyRacersOverwrite`, `RetriesAreRefused` |
| `stampede_cache` | 4 callers, two with plain functions as loaders, 2 keys | 36 768 | `TypeOK`, `WaitersHaveLoaders`, `ImplementsSingleFlight`, `CallsEnd` |
| `monitoring` | 1 client, 1 subscriber, batch of 1, 2 jobs, 2 loops, 1 change, 1 start | 2 021 042 | `TypeOK`, `NoGapForClients`, `OneLoopUnlessHasty`, `AbendsAreAnnounced`, `EventsArrive` |

**Bounds.** Three callers are the fewest with a straggler from before a trip and
two concurrent probes; a threshold of 2 tells the first failure from the one
that trips, and a timeout of 2 ticks has a late failure fall inside it. In the
LLM instance the requested model and the last fallback share a provider, so that
a request can close the door on its own fallback, and two requests are
enough for one to trip a breaker under the other and for overrides to overlap.
Three tasks give one running, one queued and one asleep. Three audit runs are
one inside, one that sweeps and one that enters; locks on different memories do
not interact except through the sweep's list of keys, which is why one memory is
enough (the proofs are for any number). Of three sessions two share an id, so
that each of them may remove the other, and the third fills the pool meanwhile;
two senders find the same session disconnected. Three idempotent requests are the
fewest of which one clears the mark of a second in favour of a third. Four
callers of the cache are a loader, a waiter that keeps the lock, and one queued
for each key; two of them with loaders that are plain functions allow two strays beside a
load. In monitoring two jobs let a `stop()` cut a poll off between two
events, two loops let `start()` overlap `stop()`, and a batch shorter than the
history lets a client have a claim to some events only. `MaxChanges` and `MaxStarts`
bound what TWS changes and how often the poller is started again; each adds
nothing but repetition of what one change and one start can do. `Watched` names the
event whose arrival `EventsArrive` follows: the second, which a client may get
live, in its batch, or not at all. The ticks of the audit lock stand for 15
seconds: 30 and 60 in the code become 2 and 4. No state constraint is used: the
ages, counters and keys are finite because the code compares them with limits.

**Fairness.** Time passes (`WF` of `Tick`). In the breaker callers keep calling,
and not every call of a caller is cancelled for ever (`SF` of `Succeed` or
`Fail`: without it a HALF_OPEN breaker stays as it is, which the code allows).
In the LLM service what is awaited ends: the provider call runs under
`TimeoutManager.with_timeout`, the sleep by itself. In the task manager the event
loop runs what is ready and functions of tasks end; this is an assumption on
the functions, because `timeout` is optional. For the lock, nothing is assumed
of the runs: expiry alone frees it. Streams end under the LLM library's own
timeout (the service sets none). In the pool and in the cache asyncio resumes
whoever can go on (`FinishShutdown`, `FinishLeave`, `FinishDrop`; `Proceed`), and loaders
end or are cancelled, those left in threads included; like the functions of tasks,
that is an assumption on the loaders, since `load_timeout` is not read. In monitoring the processor of the bus goes on; nothing is
assumed of the poller, the clients or the manager.

**Deadlock** is checked except in `websocket_pool`, `idempotency` and `monitoring`, where
the system may really stop: sessions and requests of the instance end, and so
does monitoring. That the pool waits for its own lock is no deadlock of the
model, since senders go on; `WaitersGoOn` says who waits for what.

**Liveness properties hold under exactly these.** `TasksEnd` is limited to a
living processor and a manager that has not been stopped, because the code
gives no more: see the next section and the hazards on `stop()`. `WaitersGoOn` is
limited to a lock that is not `"stuck"`, because a cleanup that finds something
to remove does block the pool for good; no document or test promises
otherwise.

## 4. Disagreements between the code and its documentation

The first four are runs that are expected to end in a counterexample.

* `llm_recovery`: `complete()` skips a provider whose breaker is OPEN, and only
  the breaker's `call()` can leave OPEN. The comment on
  `circuit_recovery_timeout` says "1 minute before retry"
  (`resync/services/llm_fallback.py:162`); there is no retry before a restart.
* `llm_override`: two overlapping `complete_with_fallback()` calls restore each
  other's chain. Starting r1, starting r2, ending r1, ending r2 leaves r1's
  override as the configured chain (`:680-689`, "Temporarily override").
* `task_cancel`: `cancel_task()` between the creation of the wrapper and its first
  step ends the processor (`resync/core/task_manager.py:168`, `:230`).
* `audit_sweep`: the sweep deletes every lock whose *remaining* life is at most
  60 s (`resync/core/audit_lock.py:174`), and the auditor's locks live for 30 s.
* A stored response is never returned. `storage.set()` writes `str(dict)`
  (`resync/core/idempotency/storage.py:40`), `from_dict()` raises on that text
  (`:32`), and `get_cached_response()` answers the error with None. The middleware
  announces "Cache automático de respostas"
  (`resync/api/middleware/idempotency.py:11`), the manager that operations are not
  executed more than once (`resync/core/idempotency/manager.py:25-27`), and the tests
  expect JSON in Redis and a hit (`tests/test_idempotency.py:135`, `:70`). It is not a
  matter of interleaving but of a conversion, which the model takes over as it is
  (`LookUp`), and a retry that comes after the mark is cleared, or has expired,
  executes the operation again. The run `idempotency` shows what remains of the
  promise: `RetriesAreRefused`, by the mark, for as long as it is kept.

## 5. Proofs

All are for arbitrary constants under the named assumptions of the modules
(`BreakerAssumption`, `LLMAssumption`, `TaskAssumption`, `LockAssumption`,
`PoolAssumption`, `IdempotencyAssumption`, `CacheAssumption`, `BusAssumption`,
`PollerAssumption`, `MonitoringAssumption`), which TLC evaluates in the runs. They use no fairness.

**CircuitBreakerProofs.** The inductive invariant is `TypeOK`,
`ClosedBelowThreshold`, `ProbesAreGuarded` (a breaker that is not closed, and
that no straggler has vouched for, has its count at the threshold) and
`TrippedHasFailure` (it has a failure to time the recovery from).
`ClosedBelowThreshold` is inductive with the types, but the two action
properties are not: `ShedsLoad` needs `TrippedHasFailure`, because
`_should_attempt_reset` answers True when no failure is recorded, and
`ProbeFailureReopens` needs `ProbesAreGuarded`, because one failure only reaches
the threshold from just below it or from the threshold itself, where the count
saturates.
`OnlyLegalTransitions` sums the machine up: every change of state is one of four, each
with the call that makes it and what that call must have found.

**LLMFallbackProofs.** The invariant gives each request what is behind it
(`RequestOK`: every position before the one being called has failed or is behind
an OPEN breaker), each breaker the failures it counts (`BreakersOK`), and the
overrides their order (`OverrideOK`: without overlap there is one, and it has saved
the configured chain). The argument turns on the fact behind the finding
`llm_recovery`: no step of the service takes a breaker out of OPEN, so that what was
skipped once stays skipped when the request fails at the end of its chain.
`Skipped` is the action property, from what each step that calls or streams shows
(`Prudent`).

The fact itself is `OnlyTrips` (breakers change from CLOSED to OPEN alone, when a
model is given up) on top of `NoProbes` (none is ever HALF_OPEN); `OpenForGood` draws
the conclusion `[](OPEN => []OPEN)` for every provider, so that the disagreement that
`llm_recovery` shows on one instance holds for all constants, and `NothingInOutage`
that no call starts once every provider is open. `Forward` is the rank behind
`RequestsEnd`: a request under way never returns to an earlier model or attempt.

**TaskManagerProofs.** `PendingIsSomewhere` and `RunningIsReal` depend on where
the processor is. The invariant adds `WrapperOfProcessor` (a wrapper exists
exactly while the processor awaits it), `OnePlace` (queue entries, sleeping
retries and the execution under way are at most one per task), `StatusOfPlace`
(what each place says of the status) and `CancelledIsAsked` (a task that is
cancelled while it runs has its wrapper's cancellation requested, or had it
done). `Refinement` then shows step by step that each action of the manager is
an action of `TaskLifecycle` or leaves its variables unchanged: the manager's
actions on `current` do not test the status, so the abstract guards come from
`StatusOfPlace` and `CancelledIsAsked`.

What the lifecycle promises is carried over the refinement: `SettledForGood` (a final
status stays, CANCELLED only for a function that does not answer its cancellation).
`Counted` bounds the retries. `EndsForCause` is the weaker promise that holds where
`OnlyStopEndsProcessor` fails: the processor ends by `stop()` or with a task cancelled
before its wrapper's first step; it adds the inductive fact `AbortedIsAsked` (an aborted
wrapper had been asked to end). `PendingIsServed` is the safety half of `TasksEnd`:
while there is a processor, a PENDING task sleeps before a retry or the processor has a
step to take. `StopIsForGood` shows that `start()` does not undo `stop()`.

**AuditLockProofs.** `HoldersOwnTheirKey` with the type invariant and `KeysExpire`
(an owned key has a positive ttl) is inductive: the release script and NX are
what each step needs. `ExclusiveUnlessLost` follows from it, since a key names
one owner.

`OnlyTheSweepBreaksIt` gives the documented exclusion within the timeout back for
behaviours in which no sweep deletes a lock in use, and `FreshLocksAreSwept` shows,
whenever Timeout <= MaxAge, that the sweep spares no lock it looks at: together the
finding `audit_sweep` for all constants. `Kept` (only the owner, the clock, a sweep or
an administrator frees a key, and nothing prolongs it) and `LeasesRunOut` (each tick
takes one off) are the safety half of `LocksAreFreed`.

**WebSocketPoolProofs.** The capacity becomes inductive when the pending `accept()`s
count with the connections (`Room`): each was begun below the capacity, beside at
most `overlap` others. `KeptUnlessShared` follows from the two ways an id's entry
disappears, a send that failed (`Kept`) and a disconnect that ended (`Recorded`), of
that session or of one that shares its id.
`RemovedForCause` is the same as an action property: each entry leaves alone, with the
lock free and one of the three causes, and never by the cleanup or the shutdown, which
exist to remove entries. For these `StuckForGood` and `WaitersOfAStuckLock` show that
their wait for the lock they hold never ends, nor does that of anybody behind them: the
exception of `WaitersGoOn` is permanent. `NeverFoundUnhealthy`:
`unhealthy_connections` is only decremented, so with `CountersAddUp` the healthy ones
count everything and the threshold in `health_check()` is never reached.

**IdempotencyProofs.** `MarkIsKept` (a request inside that was not exposed is the one
the mark names) is inductive because each step that changes the mark exposes
whoever counted on it; a mark names one request, so two that are not exposed are
not inside together.
`MarkRefusesRetries` follows: a request inside and not exposed has its mark set, so that
the check finds it, and only one that fails lets a retry pass. `RacersOverwrite` says
who may write over a mark: a request that had passed its check when the mark was set, or
whose check has failed since.
`ExposedForCause` closes the list of what exposes a request: its mark fails or expires,
a racer overwrites it, somebody who was exposed clears it, or it is invalidated.

**StampedeCacheProofs.** `Registered` (the events in `_loading` are those of the callers
that load outside the lock) and `Unregistered` (whoever was woken, or loads under
the lock, finds its key registered to no one) make the calls that load a key exclude
each other; the refinement is then shown action by action. What cancelled calls have
left in threads excludes nobody, and maps to the strays.
`OneLoadAtATime` carries SingleFlight's promise back to the cache: of two loaders of one
key that run at a time, one is a plain function whose call has been cancelled; where all
loaders are coroutines (`Sync = {}`) there is never more than one. The lock's queue needs
an invariant of its own (`QueueOK`: it holds exactly those who wait, each once, through
cancellations anywhere in it), proved as `QueueIsExact`; from it follow `NobodyOvertakes`
and `SomeoneGoesOn`, the safety half of `CallsEnd`: although a waiter keeps the lock that
every key needs, somebody can always go on.

**MonitoringProofs.** `Registered` (a connected client is in the dictionary that the
processor copies, and no send to it has failed) carries `NoGapForClients`; `OneTask`
follows the task that `start()` and `stop()` know, and carries `OneLoopUnlessHasty`.
With it nobody else updates the cache between a loop's detection and its own
update, so that a failure it has seen is announced or still among its events
(`Held`), from which `AbendsAreAnnounced` follows.
`StopIsComplete` is `OneTask`'s promise to the caller of `stop()`: without haste, no loop
outlives it. `NothingAfterStop` shows that once the bus is stopped its queue is never
taken from and no registered client is sent anything, though `/poller/start` still
makes the poller publish; `InOrder` that events are taken one by one and a connected
client is sent no other than the last one taken, so that live events keep their order.

The results that are not properties of a run (`PROJECT.json` lists them without a
"property") were also checked by TLC on the instances of section 3.
Those of the form `[](P => []P)`, with P about one provider, task or entry, were
checked as invariance of P under the steps.

Only model-checked: the liveness properties (`OpenIsLeft`, `HalfOpenResolves`,
`RequestsEnd`, `TasksEnd`, `LocksAreFreed`, `WaitersGoOn`, `CallsEnd`, `EventsArrive`), which
need fairness and ENABLED and are out of the prover's reach. For `RequestsEnd`,
`TasksEnd`, `LocksAreFreed`, `CallsEnd` and, with its exception, `WaitersGoOn`, the theorems
above prove the part that is a safety property. Every other property of the passing
runs is stated by a theorem. The four violations are TLC's: a theorem says what
holds instead (`OpenForGood`, `EndsForCause`, `OnlyTheSweepBreaksIt` with
`FreshLocksAreSwept`, and `Undone` for overrides that do not overlap).

## 6. Plan

1. *(done)* Breaker, LLM service, task manager with its lifecycle, audit lock.
2. *(done)* WebSocket pool, idempotency, stampede-protected cache with its
   abstract specification, event bus, poller and their composition.
3. *(done)* The safety properties and refinements of all of these proved, the
   universal form of the findings, and the safety halves of the liveness properties.
4. To prove next: that the stages of a request's retries are bounded by its chain
   (the rank of `Forward` as a number), and that the breakers inside the LLM service
   implement the failure half of CircuitBreaker, step by step.
5. Further components, by weight: configuration hot reload (a rollback that takes
   a lock it holds), the write-ahead log (append, replay after a crash; abstract
   specification: the log is a prefix of what was appended), the sharded cache's
   transactions, the parallel executor.
