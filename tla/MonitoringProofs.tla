-------------------------- MODULE MonitoringProofs --------------------------
(***************************************************************************)
(* What monitoring promises, for any number of clients, subscribers, jobs  *)
(* and loops: no client that stays connected misses an event that was not  *)
(* given up, and one loop polls at a time unless start() is called during  *)
(* a stop().                                                               *)
(*                                                                         *)
(* The first rests on Registered: a client that is connected is in the     *)
(* dictionary the processor copies, and no send to it has failed.  The     *)
(* second (OneTask) follows the task that start() and stop() know.         *)
(***************************************************************************)
EXTENDS Monitoring, FiniteSetTheorems, TLAPS

Registered ==
  /\ \A c \in Clients : link[c] = "up" => c \in clients
  /\ \A c \in broken : link[c] \notin {"new", "up"}
  /\ \A c \in clients \cup todo : link[c] # "new"

AtAnEvent == proc # "waiting" => taken > 0

NoStop == \A h \in Stoppers : awaiting[h] = NoLoop

AllOff == \A l \in Loops : loop[l] = "off"

\* Without haste, a loop that is on is _polling_task; a stop() awaits that task
\* or it has been forgotten; and a poller that is not running, with no stop()
\* under way, has no loop.
OneTask ==
  ~hasty =>
    /\ \A l \in Loops : loop[l] # "off" => l = task
    /\ \A h \in Stoppers : awaiting[h] # NoLoop => task \in {awaiting[h], NoLoop}
    /\ running => NoStop
    /\ ~running /\ NoStop => AllOff

IInv ==
  /\ published \in Nat
  /\ TypeOK
  /\ AtAnEvent
  /\ Registered
  /\ NoGapForClients
  /\ OneTask

-----------------------------------------------------------------------------
(* The bus. *)

BusIInv ==
  /\ published \in Nat
  /\ BusTypeOK
  /\ AtAnEvent
  /\ Registered
  /\ NoGapForClients

\* Giving up settles an event that has been published.
LEMMA GiveUpTypes ==
  ASSUME BusIInv, GiveUp, proc # "waiting"
  PROVE  /\ settled' \in [Clients -> SUBSET (1..published)]
         /\ \A c \in Clients : settled'[c] =
              IF link[c] = "up" THEN settled[c] \cup {taken} ELSE settled[c]
<1>1. taken \in 1..published
  BY DEF BusIInv, BusTypeOK, AtAnEvent
<1>2. QED
  BY <1>1 DEF GiveUp, BusIInv, BusTypeOK

\* What the processor does not give up or send, it has not passed.
LEMMA TakeKeeps == BusIInv /\ Take => BusIInv'
<1> SUFFICES ASSUME BusIInv, Take PROVE BusIInv'
  OBVIOUS
<1> USE BusAssumption DEF BusIInv
<1>1. /\ taken' = taken + 1 /\ taken < published /\ proc = "waiting"
      /\ UNCHANGED <<published, bus, broken, subs, clients, link, joined, settled>>
      /\ \/ proc' = "sending" /\ todo' = clients
         \/ proc' = "notifying" /\ UNCHANGED todo
      /\ subsSeen' = Cardinality(subs)
  BY DEF Take, Broadcast, clientVars
<1>2. taken \in 0..published /\ taken' \in 0..published'
  BY <1>1 DEF BusTypeOK
<1>3. subsSeen' \in Nat
  BY <1>1, FS_Subset, FS_CardinalityType DEF BusTypeOK
<1>4. BusTypeOK' /\ AtAnEvent'
  BY <1>1, <1>2, <1>3 DEF BusTypeOK, AtAnEvent
<1>5. Registered'
  BY <1>1 DEF Registered
<1>6. ASSUME NEW c \in Clients, link'[c] = "up", NEW e \in 1..taken',
             e > joined'[c] - Recent, Done(e, c)'
      PROVE  e \in settled'[c]
  <2>1. c \in clients
    BY <1>1, <1>6 DEF Registered
  <2>2. e < taken'
    BY <1>1, <1>6, <2>1 DEF Done
  <2>3. e \in 1..taken /\ Done(e, c)
    BY <1>1, <1>2, <2>2 DEF Done
  <2>4. QED
    BY <1>1, <1>6, <2>3 DEF NoGapForClients
<1>7. NoGapForClients'
  BY <1>6 DEF NoGapForClients
<1>8. QED
  BY <1>1, <1>4, <1>5, <1>7

\* An event is over for a client when it has been sent to it, or is given up.
LEMMA ProcessKeeps ==
  BusIInv /\ (Notified \/ NotifyFails \/ EndEvent \/ (\E c \in Clients : Send(c)) \/ StopBus)
    => BusIInv'
<1> USE BusAssumption DEF BusIInv
<1>1. ASSUME BusIInv, Notified PROVE BusIInv'
  <2>1. /\ proc' = "sending" /\ todo' = clients /\ proc = "notifying" /\ subsSeen' = 0
        /\ UNCHANGED <<published, taken, bus, broken, subs, clients, link, joined, settled>>
    BY <1>1 DEF Notified, Broadcast, clientVars
  <2>2. BusTypeOK' /\ Registered' /\ AtAnEvent'
    BY <1>1, <2>1 DEF BusTypeOK, Registered, AtAnEvent
  <2>3. ASSUME NEW c \in Clients, link'[c] = "up", NEW e \in 1..taken',
               e > joined'[c] - Recent, Done(e, c)'
        PROVE  e \in settled'[c]
    <3>1. c \in clients
      BY <1>1, <2>1, <2>3 DEF Registered
    <3>2. e < taken
      BY <2>1, <2>3, <3>1 DEF Done
    <3>3. QED
      BY <1>1, <2>1, <2>3, <3>2 DEF NoGapForClients, Done
  <2>4. NoGapForClients'
    BY <2>3 DEF NoGapForClients
  <2>5. QED
    BY <1>1, <2>1, <2>2, <2>4
<1>2. ASSUME BusIInv, NotifyFails PROVE BusIInv'
  <2>1. /\ proc' = "waiting" /\ proc = "notifying" /\ subsSeen' = 0
        /\ UNCHANGED <<published, taken, bus, todo, broken, subs, clients, link, joined>>
        /\ GiveUp
    BY <1>2 DEF NotifyFails
  <2>2. /\ settled' \in [Clients -> SUBSET (1..published)]
        /\ \A c \in Clients : settled'[c] =
             IF link[c] = "up" THEN settled[c] \cup {taken} ELSE settled[c]
    BY <1>2, <2>1, GiveUpTypes DEF BusIInv
  <2>3. BusTypeOK' /\ Registered' /\ AtAnEvent'
    BY <1>2, <2>1, <2>2 DEF BusTypeOK, Registered, AtAnEvent
  <2>4. NoGapForClients'
    BY <1>2, <2>1, <2>2 DEF NoGapForClients, Done, BusTypeOK
  <2>5. QED
    BY <1>2, <2>1, <2>3, <2>4
<1>3. ASSUME BusIInv, EndEvent PROVE BusIInv'
  <2>1. /\ proc' = "waiting" /\ proc = "sending" /\ todo = {} /\ broken' = {}
        /\ clients' = clients \ broken
        /\ UNCHANGED <<published, taken, bus, subsSeen, todo, subs, link, joined, settled>>
    BY <1>3 DEF EndEvent
  <2>2. BusTypeOK' /\ Registered' /\ AtAnEvent'
    BY <1>3, <2>1 DEF BusTypeOK, Registered, AtAnEvent
  <2>3. NoGapForClients'
    BY <1>3, <2>1 DEF NoGapForClients, Done
  <2>4. QED
    BY <1>3, <2>1, <2>2, <2>3
<1>4. ASSUME BusIInv, NEW d \in Clients, Send(d) PROVE BusIInv'
  <2>1. /\ proc = "sending" /\ d \in todo /\ todo' = todo \ {d}
        /\ UNCHANGED <<published, taken, bus, proc, subsSeen, subs, clients, link, joined>>
        /\ \/ /\ link[d] = "up" /\ UNCHANGED broken
              /\ settled' = [settled EXCEPT ![d] = @ \cup {taken}]
           \/ link[d] # "up" /\ broken' = broken \cup {d} /\ UNCHANGED settled
    BY <1>4 DEF Send
  <2>2. taken \in 1..published
    BY <1>4, <2>1 DEF BusTypeOK, AtAnEvent
  <2>3. BusTypeOK' /\ Registered' /\ AtAnEvent'
    BY <1>4, <2>1, <2>2 DEF BusTypeOK, Registered, AtAnEvent
  <2>4. NoGapForClients'
    BY <1>4, <2>1 DEF NoGapForClients, Done, BusTypeOK
  <2>5. QED
    BY <1>4, <2>1, <2>3, <2>4
<1>5. ASSUME BusIInv, StopBus PROVE BusIInv'
  <2>1. /\ proc' = "waiting" /\ bus' = "stopped" /\ todo' = {} /\ broken' = {} /\ subsSeen' = 0
        /\ UNCHANGED <<published, taken, subs, clients, link, joined>>
        /\ IF proc = "waiting" THEN UNCHANGED settled ELSE GiveUp
    BY <1>5 DEF StopBus
  <2>2. CASE proc = "waiting"
    BY <1>5, <2>1, <2>2 DEF BusTypeOK, Registered, AtAnEvent, NoGapForClients, Done
  <2>3. CASE proc # "waiting"
    <3>1. /\ settled' \in [Clients -> SUBSET (1..published)]
          /\ \A c \in Clients : settled'[c] =
               IF link[c] = "up" THEN settled[c] \cup {taken} ELSE settled[c]
      BY <1>5, <2>1, <2>3, GiveUpTypes DEF BusIInv
    <3>2. BusTypeOK' /\ Registered' /\ AtAnEvent'
      BY <1>5, <2>1, <3>1 DEF BusTypeOK, Registered, AtAnEvent
    <3>3. NoGapForClients'
      BY <1>5, <2>1, <3>1 DEF NoGapForClients, Done, BusTypeOK
    <3>4. QED
      BY <1>5, <2>1, <3>2, <3>3
  <2>4. QED
    BY <2>2, <2>3
<1>6. QED
  BY <1>1, <1>2, <1>3, <1>4, <1>5

\* A client that registers gets a batch that reaches up to the queue's end.
LEMMA RegistrationKeeps ==
  ASSUME BusIInv,
         \/ \E u \in Subscribers : Subscribe(u) \/ Unsubscribe(u)
         \/ \E c \in Clients : Register(c) \/ RegisterLost(c) \/ Lose(c) \/ Unregister(c)
  PROVE  BusIInv'
<1> USE BusAssumption DEF BusIInv, procVars
<1>1. CASE \E u \in Subscribers : Subscribe(u) \/ Unsubscribe(u)
  BY <1>1 DEF Subscribe, Unsubscribe, clientVars, BusTypeOK, Registered, AtAnEvent,
              NoGapForClients, Done
<1>2. ASSUME NEW d \in Clients, Register(d) PROVE BusIInv'
  <2>1. /\ link[d] = "new" /\ link' = [link EXCEPT ![d] = "up"] /\ clients' = clients \cup {d}
        /\ joined' = [joined EXCEPT ![d] = published]
        /\ settled' = [settled EXCEPT ![d] = RecentEvents]
        /\ UNCHANGED <<published, taken, bus, proc, subsSeen, todo, broken, subs>>
    BY <1>2 DEF Register
  <2>2. RecentEvents \in SUBSET (1..published) /\ published \in 0..published
    BY DEF RecentEvents
  <2>3. BusTypeOK' /\ AtAnEvent'
    BY <2>1, <2>2 DEF BusTypeOK, AtAnEvent
  <2>4. Registered'
    BY <2>1 DEF Registered, BusTypeOK
  <2>5. NoGapForClients'
    BY <2>1 DEF NoGapForClients, Done, BusTypeOK, RecentEvents
  <2>6. QED
    BY <2>1, <2>3, <2>4, <2>5
<1>3. ASSUME NEW d \in Clients, RegisterLost(d) \/ Lose(d) \/ Unregister(d) PROVE BusIInv'
  <2>1. /\ \E how \in {"down", "gone"} : link' = [link EXCEPT ![d] = how]
        /\ UNCHANGED <<published, taken, bus, proc, subsSeen, todo, broken, subs>>
    BY <1>3 DEF RegisterLost, Lose, Unregister
  <2>2. \/ clients' = clients \/ clients' = clients \ {d} \/ clients' = clients \cup {d}
    BY <1>3 DEF RegisterLost, Lose, Unregister
  <2>3. \A c \in Clients \ {d} : c \in clients' <=> c \in clients
    BY <2>2
  <2>4. 0 \in 0..published
    OBVIOUS
  <2>5. /\ joined' \in [Clients -> 0..published]
        /\ settled' \in [Clients -> SUBSET (1..published)]
        /\ \A c \in Clients \ {d} : joined'[c] = joined[c] /\ settled'[c] = settled[c]
    BY <1>3, <2>4 DEF RegisterLost, Lose, Unregister, Forget, BusTypeOK
  <2>6. BusTypeOK' /\ AtAnEvent'
    BY <2>1, <2>2, <2>5 DEF BusTypeOK, AtAnEvent
  <2>7. Registered'
    BY <2>1, <2>2, <2>3 DEF Registered, BusTypeOK
  <2>8. NoGapForClients'
    BY <2>1, <2>5 DEF NoGapForClients, Done, BusTypeOK
  <2>9. QED
    BY <2>1, <2>6, <2>7, <2>8
<1>4. QED
  BY <1>1, <1>2, <1>3

\* What is published lengthens the queue, and settles nothing.
LEMMA PublishKeeps ==
  ASSUME BusIInv, UNCHANGED <<procVars, subs, clientVars>>,
         published' \in Nat, published' >= published
  PROVE  BusIInv'
<1> USE DEF BusIInv, procVars, clientVars
<1>1. 0..published \subseteq 0..published' /\ 1..published \subseteq 1..published'
  BY DEF BusIInv
<1>2. BusTypeOK'
  BY <1>1 DEF BusTypeOK
<1>3. AtAnEvent' /\ Registered' /\ NoGapForClients'
  BY DEF AtAnEvent, Registered, NoGapForClients, Done
<1>4. QED
  BY <1>2, <1>3

-----------------------------------------------------------------------------
(* The poller. *)

EventType == [kind : {"started", "completed", "abend"}, job : Jobs]

LEMMA DetectTypes ==
  ASSUME NEW was, NEW now
  PROVE  Detect(was, now) \in SUBSET EventType
BY DEF Detect, Event, EventType

\* A step of a loop switches no loop on, and leaves start() and stop() alone.
LEMMA PollKeeps ==
  ASSUME PollerTypeOK, OneTask, published \in Nat, NEW l \in Loops, PollStep(l)
  PROVE  /\ PollerTypeOK' /\ OneTask'
         /\ UNCHANGED <<procVars, subs, clientVars>>
         /\ published' \in Nat /\ published' >= published
<1> USE PollerAssumption DEF boundVars, switchVars, busVars
<1>1. ASSUME NEW now \in [Jobs -> Statuses], CollectAs(l, now), UNCHANGED <<busVars, cache, switchVars, told>>,
             tws' = tws, starts' = starts, changes' \in 0..MaxChanges
      PROVE  PollerTypeOK'
  <2>1. Detect(cache, now) \in SUBSET EventType
    BY DetectTypes
  <2>2. pending' \in [Loops -> SUBSET EventType]
    BY <1>1, <2>1 DEF CollectAs, PollerTypeOK, EventType
  <2>3. snapshot' \in [Loops -> [Jobs -> Statuses]]
    BY <1>1 DEF CollectAs, PollerTypeOK
  <2>4. loop' = [loop EXCEPT ![l] = "emitting"]
    BY <1>1 DEF CollectAs, Go
  <2>5. QED
    BY <1>1, <2>2, <2>3, <2>4 DEF PollerTypeOK, EventType
<1>2. CASE Collect(l) \/ CollectNothing(l)
  <2>1. Nothing \in [Jobs -> Statuses] /\ tws \in [Jobs -> Statuses]
    BY DEF Nothing, Statuses, PollerTypeOK
  <2>2. \/ changes' = changes
        \/ changes < MaxChanges /\ changes' = changes + 1
    BY <1>2 DEF Collect, CollectNothing
  <2>3. changes' \in 0..MaxChanges
    BY <2>2 DEF PollerTypeOK
  <2>4. PollerTypeOK'
    BY <1>1, <1>2, <2>1, <2>3 DEF Collect, CollectNothing
  <2>5. loop' = [loop EXCEPT ![l] = "emitting"] /\ loop[l] # "off"
    BY <1>2 DEF Collect, CollectNothing, CollectAs, Go, Active
  <2>6. OneTask'
    BY <1>2, <2>5 DEF Collect, CollectNothing, OneTask, NoStop, AllOff, PollerTypeOK
  <2>7. QED
    BY <1>2, <2>4, <2>6 DEF Collect, CollectNothing, PollerTypeOK
<1>3. ASSUME NEW announced \in SUBSET Jobs, UpdateCache(l, announced), Active(l, "emitting"),
             UNCHANGED <<tws, switchVars, boundVars>>,
             pending' \in [Loops -> SUBSET EventType]
      PROVE  PollerTypeOK' /\ OneTask'
  <2>1. snapshot[l] \in [Jobs -> Statuses] /\ Nothing \in [Jobs -> Statuses]
    BY DEF PollerTypeOK, Nothing, Statuses
  <2>2. /\ cache' = snapshot[l] /\ snapshot' = [snapshot EXCEPT ![l] = Nothing]
        /\ told' \in SUBSET Jobs
        /\ loop' = [loop EXCEPT ![l] = "sleeping"] /\ loop[l] # "off"
    BY <1>3 DEF UpdateCache, Go, Active
  <2>3. PollerTypeOK'
    BY <1>3, <2>1, <2>2 DEF PollerTypeOK, EventType
  <2>4. OneTask'
    BY <1>3, <2>2 DEF OneTask, NoStop, AllOff, PollerTypeOK
  <2>5. QED
    BY <2>3, <2>4
<1>4. CASE Skip(l)
  <2>1. pending' \in [Loops -> SUBSET EventType] /\ told \in SUBSET Jobs
    BY <1>4 DEF Skip, PollerTypeOK, EventType
  <2>2. QED
    BY <1>3, <1>4, <2>1 DEF Skip
<1>5. ASSUME NEW e \in pending[l], Emit(l, e)
      PROVE  /\ PollerTypeOK' /\ OneTask'
             /\ UNCHANGED <<procVars, subs, clientVars>>
             /\ published' \in Nat /\ published' >= published
  <2> DEFINE announced == IF e.kind = "abend" THEN told \cup {e.job} ELSE told
  <2>1. pending[l] \in SUBSET EventType
    BY DEF PollerTypeOK, EventType
  <2>2. announced \in SUBSET Jobs
    BY <2>1 DEF PollerTypeOK, EventType
  <2>3. pending' = [pending EXCEPT ![l] = @ \ {e}]
    BY <1>5 DEF Emit
  <2>4. pending' \in [Loops -> SUBSET EventType]
    BY <2>3 DEF PollerTypeOK, EventType
  <2>5. /\ UNCHANGED <<procVars, subs, clientVars, tws, switchVars, boundVars>>
        /\ Active(l, "emitting")
        /\ published' = published + 1 \/ published' = published + 2
    BY <1>5 DEF Emit, Publish
  <2>6. CASE pending[l] = {e}
    <3>1. UpdateCache(l, announced)
      BY <1>5, <2>6 DEF Emit
    <3>2. PollerTypeOK' /\ OneTask'
      BY <1>3, <2>2, <2>4, <2>5, <3>1
    <3>3. QED
      BY <2>5, <3>2
  <2>7. CASE pending[l] # {e}
    <3>1. told' = announced /\ UNCHANGED <<cache, loop, snapshot>>
      BY <1>5, <2>7 DEF Emit
    <3>2. PollerTypeOK'
      BY <2>2, <2>4, <2>5, <3>1 DEF PollerTypeOK, EventType
    <3>3. OneTask'
      BY <2>5, <3>1 DEF OneTask, NoStop, AllOff
    <3>4. QED
      BY <2>5, <3>2, <3>3
  <2>8. QED
    BY <2>6, <2>7
<1>6. CASE CollectFails(l) \/ Wake(l)
  <2>1. /\ UNCHANGED <<busVars, tws, cache, snapshot, pending, switchVars, boundVars, told>>
        /\ loop[l] # "off" /\ l \notin cancelled
        /\ \/ loop' = [loop EXCEPT ![l] = "sleeping"]
           \/ running /\ loop' = [loop EXCEPT ![l] = "collecting"]
           \/ ~running /\ loop' = [loop EXCEPT ![l] = "off"]
    BY <1>6 DEF CollectFails, Wake, Active, Go
  <2>2. PollerTypeOK'
    BY <2>1 DEF PollerTypeOK
  <2>3. OneTask'
    BY <2>1 DEF OneTask, NoStop, AllOff, PollerTypeOK
  <2>4. QED
    BY <2>1, <2>2, <2>3
<1>7. CASE EndLoop(l)
  <2>1. /\ UNCHANGED <<busVars, tws, cache, running, task, awaiting, hasty, boundVars, told>>
        /\ l \in cancelled /\ cancelled' = cancelled \ {l}
        /\ loop' = [loop EXCEPT ![l] = "off"]
        /\ snapshot' = [snapshot EXCEPT ![l] = Nothing]
        /\ pending' = [pending EXCEPT ![l] = {}]
    BY <1>7 DEF EndLoop, Go
  <2>2. Nothing \in [Jobs -> Statuses]
    BY DEF Nothing, Statuses
  <2>3. PollerTypeOK'
    BY <2>1, <2>2 DEF PollerTypeOK
  <2>4. OneTask'
    BY <2>1 DEF OneTask, NoStop, AllOff, PollerTypeOK
  <2>5. QED
    BY <2>1, <2>3, <2>4
<1>8. QED
  BY <1>2, <1>4, <1>5, <1>6, <1>7 DEF PollStep, Skip

\* start(): the new loop is alone, unless a stop() awaits one.
LEMMA StartKeeps ==
  ASSUME PollerTypeOK, OneTask, StartPoller
  PROVE  PollerTypeOK' /\ OneTask' /\ UNCHANGED busVars
<1> USE PollerAssumption
<1>1. /\ ~running /\ running' = TRUE /\ Free # {} /\ task' = CHOOSE l \in Free : TRUE
      /\ starts < MaxStarts /\ starts' = starts + 1
      /\ loop' = [loop EXCEPT ![task'] = "sleeping"]
      /\ hasty' = (hasty \/ \E h \in Stoppers : awaiting[h] # NoLoop)
      /\ UNCHANGED <<busVars, tws, cache, snapshot, pending, cancelled, awaiting, changes, told>>
  BY DEF StartPoller, Go
<1>2. task' \in Free
  BY <1>1
<1>3. task' \in Loops /\ loop[task'] = "off"
  BY <1>2 DEF Free
<1>4. starts' \in 0..MaxStarts
  BY <1>1 DEF PollerTypeOK
<1>5. hasty' \in BOOLEAN
  BY <1>1
<1>6. cancelled' \in SUBSET {l \in Loops : loop'[l] # "off"}
  BY <1>1, <1>3 DEF PollerTypeOK
<1>7. PollerTypeOK'
  BY <1>1, <1>3, <1>4, <1>5, <1>6 DEF PollerTypeOK
<1>8. ASSUME ~hasty' PROVE ~hasty /\ NoStop /\ AllOff
  BY <1>1, <1>8 DEF OneTask, NoStop
<1>9. OneTask'
  BY <1>1, <1>3, <1>8 DEF OneTask, NoStop, AllOff, PollerTypeOK
<1>10. QED
  BY <1>1, <1>7, <1>9

\* stop() makes nothing but the loop it has awaited disappear.
LEMMA StopKeeps ==
  ASSUME PollerTypeOK, OneTask, NEW h \in Stoppers, StopPoller(h) \/ FinishStop(h)
  PROVE  PollerTypeOK' /\ OneTask' /\ UNCHANGED busVars
<1> USE PollerAssumption DEF loopVars, boundVars
<1>1. CASE StopPoller(h)
  <2>1. /\ running' = FALSE
        /\ UNCHANGED <<busVars, tws, cache, loop, snapshot, pending, hasty, changes, starts, told>>
        /\ \/ /\ task # NoLoop /\ loop[task] # "off"
              /\ cancelled' = cancelled \cup {task}
              /\ awaiting' = [awaiting EXCEPT ![h] = task]
              /\ UNCHANGED task
           \/ /\ task = NoLoop \/ loop[task] = "off"
              /\ task' = NoLoop /\ UNCHANGED <<cancelled, awaiting>>
    BY <1>1 DEF StopPoller
  <2>2. PollerTypeOK'
    BY <2>1 DEF PollerTypeOK
  <2>3. OneTask'
    BY <2>1 DEF OneTask, NoStop, AllOff, PollerTypeOK
  <2>4. QED
    BY <2>1, <2>2, <2>3
<1>2. CASE FinishStop(h)
  <2>1. /\ awaiting[h] # NoLoop /\ loop[awaiting[h]] = "off" /\ task' = NoLoop
        /\ awaiting' = [awaiting EXCEPT ![h] = NoLoop]
        /\ UNCHANGED <<busVars, tws, cache, loop, snapshot, pending, cancelled, running,
                       hasty, changes, starts, told>>
    BY <1>2 DEF FinishStop
  <2>2. PollerTypeOK'
    BY <2>1 DEF PollerTypeOK
  <2>3. ~hasty => AllOff
    BY <2>1 DEF OneTask, AllOff
  <2>4. OneTask'
    BY <2>1, <2>3 DEF OneTask, NoStop, AllOff, PollerTypeOK
  <2>5. QED
    BY <2>1, <2>2, <2>4
<1>3. QED
  BY <1>1, <1>2

-----------------------------------------------------------------------------
(* The composition. *)

LEMMA InitIInv == Init => IInv
<1> SUFFICES ASSUME Init PROVE IInv
  OBVIOUS
<1> USE BusAssumption, PollerAssumption DEF Init, BusInit, PollerInit
<1>1. task \in Loops /\ \A l \in Loops : loop[l] # "off" => l = task
  OBVIOUS
<1>2. Nothing \in [Jobs -> Statuses] /\ tws \in [Jobs -> Statuses]
  BY DEF Nothing, Statuses
<1>3. PollerTypeOK
  <2>1. 0 \in 0..MaxChanges /\ 0 \in 0..MaxStarts
    OBVIOUS
  <2>2. /\ loop \in [Loops -> {"off", "collecting", "emitting", "sleeping"}]
        /\ cancelled \subseteq {l \in Loops : loop[l] # "off"}
        /\ awaiting \in [Stoppers -> Loops \cup {NoLoop}]
    OBVIOUS
  <2>3. /\ snapshot \in [Loops -> [Jobs -> Statuses]]
        /\ pending \in [Loops ->
             SUBSET [kind : {"started", "completed", "abend"}, job : Jobs]]
    BY <1>2
  <2>4. running \in BOOLEAN /\ hasty \in BOOLEAN /\ told \in SUBSET Jobs
    OBVIOUS
  <2>5. cache \in [Jobs -> Statuses] /\ changes = 0 /\ starts = 0
    BY <1>2
  <2>6. QED
    BY <1>1, <1>2, <2>1, <2>2, <2>3, <2>4, <2>5 DEF PollerTypeOK
<1>4. BusTypeOK
  BY DEF BusTypeOK
<1>5. published \in Nat /\ AtAnEvent /\ Registered /\ NoGapForClients
  BY DEF AtAnEvent, Registered, NoGapForClients
<1>6. OneTask
  BY <1>1 DEF OneTask, NoStop, AllOff
<1>7. QED
  BY <1>3, <1>4, <1>5, <1>6 DEF IInv, TypeOK

LEMMA NextIInv == IInv /\ [Next]_vars => IInv'
<1> SUFFICES ASSUME IInv, [Next]_vars PROVE IInv'
  OBVIOUS
<1> USE DEF IInv, TypeOK
<1>1. BusIInv
  BY DEF BusIInv
<1>2. ASSUME BusIInv', PollerTypeOK', OneTask', manager' \in {"running", "stopping", "stopped"}
      PROVE  IInv'
  BY <1>2 DEF BusIInv
<1>3. ASSUME UNCHANGED busVars PROVE BusIInv'
  BY <1>1, <1>3, PublishKeeps DEF busVars, BusIInv
<1>4. ASSUME UNCHANGED pollerVars PROVE PollerTypeOK' /\ OneTask'
  BY <1>4 DEF pollerVars, loopVars, switchVars, boundVars, PollerTypeOK, OneTask, NoStop, AllOff
<1>5. CASE BeginStop
  <2>1. Manager \in Stoppers
    BY MonitoringAssumption
  <2>2. PollerTypeOK' /\ OneTask' /\ UNCHANGED busVars
    BY <1>5, <2>1, StopKeeps DEF BeginStop
  <2>3. QED
    BY <1>2, <1>3, <1>5, <2>2 DEF BeginStop
<1>6. CASE FinishStopping
  <2>1. BusIInv'
    BY <1>1, <1>6, ProcessKeeps DEF FinishStopping
  <2>2. QED
    BY <1>2, <1>4, <1>6, <2>1 DEF FinishStopping
<1>7. CASE BusNext /\ UNCHANGED <<pollerVars, manager>>
  <2>1. BusIInv'
    BY <1>1, <1>7, TakeKeeps, ProcessKeeps, RegistrationKeeps DEF BusNext, Process
  <2>2. QED
    BY <1>2, <1>4, <1>7, <2>1
<1>8. CASE Switch /\ UNCHANGED manager
  <2>1. \/ StartPoller
        \/ \E h \in Stoppers : StopPoller(h) \/ FinishStop(h)
    BY <1>8, MonitoringAssumption DEF Switch
  <2>2. ASSUME NEW h \in Stoppers, StopPoller(h) \/ FinishStop(h)
        PROVE  PollerTypeOK' /\ OneTask' /\ UNCHANGED busVars
    BY <2>2, StopKeeps
  <2>3. PollerTypeOK' /\ OneTask' /\ UNCHANGED busVars
    BY <2>1, <2>2, StartKeeps
  <2>4. QED
    BY <1>2, <1>3, <1>8, <2>3
<1>9. CASE \E l \in Loops : PollStep(l) /\ UNCHANGED manager
  <2>1. PICK l \in Loops : PollStep(l) /\ UNCHANGED manager
    BY <1>9
  <2>2. /\ PollerTypeOK' /\ OneTask'
        /\ UNCHANGED <<procVars, subs, clientVars>>
        /\ published' \in Nat /\ published' >= published
    BY <2>1, PollKeeps
  <2>3. BusIInv'
    BY <1>1, <2>2, PublishKeeps
  <2>4. QED
    BY <1>2, <2>1, <2>2, <2>3
<1>10. CASE Change /\ UNCHANGED manager
  <2>1. /\ UNCHANGED <<busVars, cache, loopVars, switchVars, starts, told>>
        /\ changes < MaxChanges /\ changes' = changes + 1
    BY <1>10 DEF Change
  <2>2. tws' \in [Jobs -> Statuses]
    BY <1>10, PollerAssumption DEF Change, Statuses
  <2>3. changes' \in 0..MaxChanges
    BY <2>1, PollerAssumption DEF PollerTypeOK
  <2>4. PollerTypeOK' /\ OneTask'
    BY <2>1, <2>2, <2>3 DEF loopVars, switchVars, PollerTypeOK, OneTask, NoStop, AllOff
  <2>5. QED
    BY <1>2, <1>3, <1>10, <2>1, <2>4
<1>11. CASE UNCHANGED vars
  BY <1>2, <1>3, <1>4, <1>11 DEF vars, busVars
<1>12. QED
  BY <1>5, <1>6, <1>7, <1>8, <1>9, <1>10, <1>11 DEF Next

LEMMA Invariance == Spec => []IInv
<1>1. Init => IInv
  BY InitIInv
<1>2. IInv /\ [Next]_vars => IInv'
  BY NextIInv
<1>3. QED
  BY <1>1, <1>2, PTL DEF Spec

-----------------------------------------------------------------------------
(* The theorems. *)

\* Bus, poller and manager stay within their types.
THEOREM TypeCorrect == Spec => []TypeOK
<1>1. IInv => TypeOK
  BY DEF IInv
<1>2. QED
  BY <1>1, Invariance, PTL

\* A connected client has no gap between its batch and its live events
\* (register_websocket(), _broadcast_to_websockets()).
THEOREM NoGap == Spec => []NoGapForClients
<1>1. IInv => NoGapForClients
  BY DEF IInv
<1>2. QED
  BY <1>1, Invariance, PTL

\* One polling loop at a time, but for a start() during a stop()
\* (TWSBackgroundPoller.start(), stop()).
THEOREM OneLoop == Spec => []OneLoopUnlessHasty
<1>1. IInv => OneLoopUnlessHasty
  BY DEF IInv, OneTask, OneLoopUnlessHasty
<1>2. QED
  BY <1>1, Invariance, PTL

-----------------------------------------------------------------------------
(* The announcements. *)

\* A failure that a loop has seen and not announced yet is among its events.
Held ==
  ~hasty =>
    \A l \in Loops : loop[l] = "emitting" =>
      \A j \in Jobs :
        cache[j] \notin {"absent", "ABEND"} /\ snapshot[l][j] = "ABEND" =>
          Event("abend", j) \in pending[l] \/ j \in told

\* The cache is updated when no event is left, and forgets no announcement then.
LEMMA UpdateAnnounces ==
  ASSUME PollerTypeOK, Held, ~hasty, NEW l \in Loops, NEW j \in Jobs,
         cache[j] \notin {"absent", "ABEND"}, cache'[j] = "ABEND",
         Skip(l) \/ \E e \in pending[l] : Emit(l, e)
  PROVE  j \in told'
<1>1. CASE Skip(l)
  <2>1. /\ loop[l] = "emitting" /\ pending[l] = {}
        /\ cache' = snapshot[l] /\ told' = {i \in told : snapshot[l][i] = "ABEND"}
    BY <1>1 DEF Skip, Active, UpdateCache
  <2>2. QED
    BY <2>1 DEF Held
<1>2. ASSUME NEW e \in pending[l], Emit(l, e) PROVE j \in told'
  <2> DEFINE announced == IF e.kind = "abend" THEN told \cup {e.job} ELSE told
  <2>1. loop[l] = "emitting"
    BY <1>2 DEF Emit, Active
  <2>2. CASE pending[l] = {e}
    <3>1. cache' = snapshot[l] /\ told' = {i \in announced : snapshot[l][i] = "ABEND"}
      BY <1>2, <2>2 DEF Emit, UpdateCache
    <3>2. Event("abend", j) \in pending[l] \/ j \in told
      BY <2>1, <3>1 DEF Held
    <3>3. j \in announced
      BY <2>2, <3>2 DEF Event
    <3>4. QED
      BY <3>1, <3>3
  <2>3. CASE pending[l] # {e}
    BY <1>2, <2>3 DEF Emit
  <2>4. QED
    BY <2>2, <2>3
<1>3. QED
  BY <1>1, <1>2

\* Without haste the only loop that is on keeps what it holds in order.
LEMMA PollHeld ==
  ASSUME PollerTypeOK, OneTask, Held, NEW l \in Loops, PollStep(l)
  PROVE  Held'
<1> SUFFICES ASSUME ~hasty', NEW k \in Loops, loop'[k] = "emitting", NEW j \in Jobs,
                    cache'[j] \notin {"absent", "ABEND"}, snapshot'[k][j] = "ABEND"
             PROVE  Event("abend", j) \in pending'[k] \/ j \in told'
  BY DEF Held
<1>1. ~hasty /\ loop[l] # "off"
  BY DEF PollStep, Collect, CollectNothing, CollectAs, CollectFails, Skip, Wake, EndLoop, Emit,
         Active, switchVars, PollerTypeOK
<1>2. \A m \in Loops : m # l => loop[m] = "off"
  BY <1>1 DEF OneTask
<1>3. ASSUME NEW now, CollectAs(l, now), cache' = cache
      PROVE  Event("abend", j) \in pending'[k] \/ j \in told'
  <2>1. /\ loop' = [loop EXCEPT ![l] = "emitting"]
        /\ snapshot' = [snapshot EXCEPT ![l] = now]
        /\ pending' = [pending EXCEPT ![l] = Detect(cache, now)]
    BY <1>3 DEF CollectAs, Go
  <2>2. k = l
    BY <1>2, <2>1 DEF PollerTypeOK
  <2>3. snapshot'[l] = now /\ pending'[l] = Detect(cache, now)
    BY <2>1 DEF PollerTypeOK
  <2>4. Event("abend", j) \in Detect(cache, now)
    BY <1>3, <2>2, <2>3 DEF Detect, Event
  <2>5. QED
    BY <2>2, <2>3, <2>4
<1>4. CASE Collect(l) \/ CollectNothing(l)
  BY <1>3, <1>4 DEF Collect, CollectNothing
<1>5. CASE CollectFails(l) \/ Wake(l) \/ EndLoop(l) \/ Skip(l)
  <2>1. loop'[l] # "emitting" /\ \A m \in Loops : m # l => loop'[m] = loop[m]
    BY <1>5 DEF CollectFails, Wake, EndLoop, Skip, UpdateCache, Go, PollerTypeOK
  <2>2. QED
    BY <1>2, <2>1
<1>6. ASSUME NEW e \in pending[l], Emit(l, e)
      PROVE  Event("abend", j) \in pending'[k] \/ j \in told'
  <2>1. CASE pending[l] = {e}
    <3>1. loop'[l] # "emitting" /\ \A m \in Loops : m # l => loop'[m] = loop[m]
      BY <1>6, <2>1 DEF Emit, UpdateCache, Go, PollerTypeOK
    <3>2. QED
      BY <1>2, <3>1
  <2>2. CASE pending[l] # {e}
    <3>1. /\ told' = IF e.kind = "abend" THEN told \cup {e.job} ELSE told
          /\ UNCHANGED <<cache, loop, snapshot>>
          /\ pending' = [pending EXCEPT ![l] = @ \ {e}]
      BY <1>6, <2>2 DEF Emit
    <3>2. k = l /\ pending'[l] = pending[l] \ {e}
      BY <1>2, <3>1 DEF PollerTypeOK
    <3>3. Event("abend", j) \in pending[l] \/ j \in told
      BY <1>1, <3>1, <3>2 DEF Held
    <3>4. QED
      BY <3>1, <3>2, <3>3 DEF Event
  <2>3. QED
    BY <2>1, <2>2
<1>7. QED
  BY <1>4, <1>5, <1>6 DEF PollStep

LEMMA NextHeld == IInv /\ Held /\ [Next]_vars => Held'
<1> SUFFICES ASSUME IInv, Held, [Next]_vars PROVE Held'
  OBVIOUS
<1>0. PollerTypeOK /\ OneTask
  BY DEF IInv, TypeOK
<1>1. ASSUME NEW l \in Loops, PollStep(l) PROVE Held'
  BY <1>0, <1>1, PollHeld
<1>2. CASE StartPoller
  <2>1. /\ UNCHANGED <<cache, snapshot, pending, told>>
        /\ loop' = [loop EXCEPT ![task'] = "sleeping"]
        /\ ~hasty' => ~hasty
    BY <1>2 DEF StartPoller, Go
  <2>2. \A l \in Loops : loop'[l] = "emitting" => loop[l] = "emitting"
    BY <1>0, <2>1 DEF PollerTypeOK
  <2>3. QED
    BY <2>1, <2>2 DEF Held
<1>3. ASSUME UNCHANGED <<cache, loop, snapshot, pending, told, hasty>> PROVE Held'
  BY <1>3 DEF Held
<1>4. CASE \E h \in Stoppers : StopPoller(h) \/ FinishStop(h)
  BY <1>3, <1>4 DEF StopPoller, FinishStop, loopVars
<1>5. CASE Change \/ UNCHANGED pollerVars
  BY <1>3, <1>5 DEF Change, pollerVars, loopVars, switchVars
<1>6. QED
  BY <1>1, <1>2, <1>4, <1>5, MonitoringAssumption
  DEF Next, BeginStop, FinishStopping, Switch, vars

\* A job is not cached as failed before its failure has been published
\* (_polling_loop(), _update_cache()).
THEOREM Announced == Spec => AbendsAreAnnounced
<1> DEFINE Step ==
      \A j \in Jobs :
        cache[j] \notin {"absent", "ABEND"} /\ cache'[j] = "ABEND" => j \in told' \/ hasty
<1>1. Init => Held
  BY DEF Init, PollerInit, Held
<1>2. IInv /\ Held /\ [Next]_vars => [Step]_cache
  <2> SUFFICES ASSUME IInv, Held, [Next]_vars, ~ UNCHANGED cache PROVE Step
    OBVIOUS
  <2>1. PICK l \in Loops : Skip(l) \/ \E e \in pending[l] : Emit(l, e)
    BY DEF Next, BeginStop, FinishStopping, Switch, StartPoller, StopPoller, FinishStop, Change,
           PollStep, Collect, CollectNothing, CollectFails, Wake, EndLoop, pollerVars, vars
  <2>2. QED
    BY <2>1, UpdateAnnounces DEF IInv, TypeOK
<1>3. QED
  BY <1>1, <1>2, NextHeld, Invariance, PTL DEF Spec, AbendsAreAnnounced

-----------------------------------------------------------------------------
(* The end of monitoring. *)

\* A poller that is not running, and that no stop() is waiting for, polls no more:
\* what stop() has returned from is over, unless start() was called meanwhile.
StoppedIsQuiet == ~hasty /\ ~running /\ NoStop => AllOff

\* No loop outlives the stop() that ended it (TWSBackgroundPoller.stop()).
THEOREM StopIsComplete == Spec => []StoppedIsQuiet
<1>1. IInv => StoppedIsQuiet
  BY DEF IInv, OneTask, StoppedIsQuiet
<1>2. QED
  BY <1>1, Invariance, PTL

\* stop() of the bus cancels the processor, wherever it is.
ProcessorStops == bus = "stopped" => proc = "waiting"

\* What the bus has taken, and what a client that has registered has been sent.
Sent(n, c, events) ==
  /\ bus = "stopped"
  /\ taken = n
  /\ link[c] # "new"
  /\ link[c] = "up" => settled[c] = events

\* The poller does not touch the bus, but for what it publishes.
LEMMA PollerSparesTheBus ==
  ASSUME [Next]_vars
  PROVE  \/ UNCHANGED <<procVars, subs, clientVars>>
         \/ BusNext \/ StopBus
<1> USE DEF busVars
<1>1. ASSUME NEW l \in Loops, PollStep(l) PROVE UNCHANGED <<procVars, subs, clientVars>>
  BY <1>1 DEF PollStep, Collect, CollectNothing, CollectFails, Skip, Wake, EndLoop, Emit
<1>2. CASE BeginStop \/ Switch \/ Change \/ UNCHANGED vars
  BY <1>2 DEF BeginStop, Switch, StartPoller, StopPoller, FinishStop, Change, vars
<1>3. QED
  BY <1>1, <1>2 DEF Next, FinishStopping

LEMMA ProcessorStopsStep == ProcessorStops /\ [Next]_vars => ProcessorStops'
<1> SUFFICES ASSUME ProcessorStops, [Next]_vars PROVE ProcessorStops'
  OBVIOUS
<1>1. CASE UNCHANGED <<procVars, subs, clientVars>>
  BY <1>1 DEF procVars, ProcessorStops
<1>2. CASE BusNext
  BY <1>2 DEF BusNext, Process, Take, Notified, NotifyFails, EndEvent, Send, Broadcast,
              Subscribe, Unsubscribe, Register, RegisterLost, Lose, Unregister, procVars,
              ProcessorStops
<1>3. CASE StopBus
  BY <1>3 DEF StopBus, ProcessorStops
<1>4. QED
  BY <1>1, <1>2, <1>3, PollerSparesTheBus

\* Once the bus is stopped, nothing leaves its queue: start() of the poller, which
\* an endpoint may still call, publishes to no one, and a client that has
\* registered receives no event beyond its batch (EventBus.stop(), StartPoller).
THEOREM NothingAfterStop ==
  ASSUME NEW n, NEW c \in Clients, NEW events
  PROVE  Spec => [](Sent(n, c, events) => []Sent(n, c, events))
<1>1. Init => ProcessorStops
  BY DEF Init, BusInit, ProcessorStops
<1>2. IInv /\ ProcessorStops /\ [Next]_vars => (Sent(n, c, events) => Sent(n, c, events)')
  <2> SUFFICES ASSUME BusTypeOK, ProcessorStops, Sent(n, c, events), [Next]_vars
               PROVE  Sent(n, c, events)'
    BY DEF IInv, TypeOK
  <2>1. CASE UNCHANGED <<procVars, subs, clientVars>>
    BY <2>1 DEF procVars, clientVars, Sent
  <2>2. CASE Process \/ StopBus
    BY <2>2 DEF Process, Take, Notified, NotifyFails, EndEvent, Send, StopBus, ProcessorStops, Sent
  <2>3. CASE \E u \in Subscribers : Subscribe(u) \/ Unsubscribe(u)
    BY <2>3 DEF Subscribe, Unsubscribe, procVars, clientVars, Sent
  <2>4. ASSUME NEW d \in Clients, Register(d) \/ RegisterLost(d) \/ Lose(d) \/ Unregister(d)
        PROVE  Sent(n, c, events)'
    <3>1. UNCHANGED <<bus, taken>>
      BY <2>4 DEF Register, RegisterLost, Lose, Unregister, procVars
    <3>2. CASE d = c
      BY <2>4, <3>1, <3>2 DEF Register, RegisterLost, Lose, Unregister, BusTypeOK, Sent
    <3>3. CASE d # c
      BY <2>4, <3>1, <3>3
      DEF Register, RegisterLost, Lose, Unregister, Forget, BusTypeOK, Sent
    <3>4. QED
      BY <3>2, <3>3
  <2>5. QED
    BY <2>1, <2>2, <2>3, <2>4, PollerSparesTheBus DEF BusNext
<1>3. QED
  BY <1>1, <1>2, ProcessorStopsStep, Invariance, PTL DEF Spec

-----------------------------------------------------------------------------
(* Events go out in the order they came in. *)

\* A client that stays connected is sent one event at a time, the one that was
\* taken last, whatever happens to the poller, to other clients or to subscribers
\* in between.
OneEventAtATime ==
  \A c \in Clients : link[c] = "up" /\ link'[c] = "up" =>
    settled'[c] \in {settled[c], settled[c] \cup {taken}}

\* Events are taken in the order of their publication, none is left out, and each
\* is sent before the next is taken: live events reach a client in order
\* (_process_events(), _broadcast_to_websockets()).
THEOREM InOrder == Spec => [][OneEventAtATime /\ taken' \in {taken, taken + 1}]_vars
<1>1. IInv /\ [Next]_vars => [OneEventAtATime /\ taken' \in {taken, taken + 1}]_vars
  <2> SUFFICES ASSUME BusTypeOK, [Next]_vars
               PROVE  OneEventAtATime /\ taken' \in {taken, taken + 1}
    BY DEF IInv, TypeOK
  <2>1. CASE UNCHANGED <<procVars, subs, clientVars>>
    BY <2>1 DEF procVars, clientVars, OneEventAtATime
  <2>2. CASE Process \/ StopBus
    BY <2>2 DEF Process, Take, Notified, NotifyFails, EndEvent, Send, StopBus, GiveUp,
                clientVars, BusTypeOK, OneEventAtATime
  <2>3. CASE \E u \in Subscribers : Subscribe(u) \/ Unsubscribe(u)
    BY <2>3 DEF Subscribe, Unsubscribe, procVars, clientVars, OneEventAtATime
  <2>4. ASSUME NEW d \in Clients, Register(d) \/ RegisterLost(d) \/ Lose(d) \/ Unregister(d)
        PROVE  OneEventAtATime /\ taken' \in {taken, taken + 1}
    <3>1. taken' = taken
      BY <2>4 DEF Register, RegisterLost, Lose, Unregister, procVars
    <3>2. OneEventAtATime
      BY <2>4 DEF Register, RegisterLost, Lose, Unregister, Forget, BusTypeOK, OneEventAtATime
    <3>3. QED
      BY <3>1, <3>2
  <2>5. QED
    BY <2>1, <2>2, <2>3, <2>4, PollerSparesTheBus DEF BusNext
<1>2. QED
  BY <1>1, Invariance, PTL DEF Spec
=============================================================================
