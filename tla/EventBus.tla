------------------------------ MODULE EventBus ------------------------------
(***************************************************************************)
(* EventBus (resync/core/event_bus.py) with the WebSocket endpoint of      *)
(* resync/api/monitoring_routes.py.  publish() appends to the history and  *)
(* to an unbounded queue without suspending, and only the processor takes  *)
(* from the queue: events are known by their number, and those after the   *)
(* last one taken are the queue.  What an event says makes no difference   *)
(* here.  The history (1000 events) is longer than any run.                *)
(*                                                                         *)
(* All the clients of the endpoint subscribe to ALL types.  Their ids are  *)
(* fresh UUIDs: a client is registered once.                               *)
(***************************************************************************)
EXTENDS Integers, FiniteSets

CONSTANTS
  Clients,      (* WebSocket clients                                        *)
  Subscribers,  (* ids of subscribers within the process                    *)
  Recent        (* how many events _send_recent_events() sends              *)

ASSUME BusAssumption ==
  /\ IsFiniteSet(Subscribers)
  /\ Recent \in Nat

VARIABLES
  published, (* how many events have been published                         *)
  taken,    (* how many of them the processor has taken from the queue      *)
  bus,      (* "running" or "stopped"                                       *)
  proc,     (* where the processor is with the event it took last           *)
  subs,     (* registered subscribers                                       *)
  subsSeen, (* how many there were when their iteration began               *)
  clients,  (* _websocket_clients                                           *)
  todo,     (* clients of the copied list that the event has yet to be sent *)
  broken,   (* clients to which sending it has failed: `disconnected'       *)
  link,     (* link[c]: the client's WebSocket and its handler              *)
  joined,   (* history: how many events were published when c registered    *)
  settled   (* history: the events that c has received, or that were given  *)
            (* up while it was connected                                    *)

procVars   == <<taken, bus, proc, subsSeen, todo, broken>>
clientVars == <<clients, link, joined, settled>>
busVars    == <<published, procVars, subs, clientVars>>

BusInit ==
  /\ published = 0
  /\ taken = 0
  /\ bus = "running"
  /\ proc = "waiting"
  /\ subs = {} /\ subsSeen = 0
  /\ clients = {} /\ todo = {} /\ broken = {}
  /\ link = [c \in Clients |-> "new"]
  /\ joined = [c \in Clients |-> 0]
  /\ settled = [c \in Clients |-> {}]

Publish(count) == published' = published + count

-----------------------------------------------------------------------------
(* The processor *)

\* The list of clients is copied, and the sends begin
Broadcast == proc' = "sending" /\ todo' = clients

\* Faulty variant: the last event of the queue is left there
TakeAllButLast ==
  /\ bus = "running"
  /\ proc = "waiting"
  /\ taken + 1 < published
  /\ taken' = taken + 1
  /\ subsSeen' = Cardinality(subs)
  /\ IF subs = {} THEN Broadcast ELSE proc' = "notifying" /\ UNCHANGED todo
  /\ UNCHANGED <<published, bus, broken, subs, clientVars>>

\* The next event is taken from the queue.  A subscriber's callback may
\* suspend; without subscribers nothing does.
Take ==
  /\ bus = "running"
  /\ proc = "waiting"
  /\ taken < published
  /\ taken' = taken + 1
  /\ subsSeen' = Cardinality(subs)
  /\ IF subs = {} THEN Broadcast ELSE proc' = "notifying" /\ UNCHANGED todo
  /\ UNCHANGED <<published, bus, broken, subs, clientVars>>

\* The callbacks have returned, and subscribers are as many as before
Notified ==
  /\ proc = "notifying"
  /\ Cardinality(subs) = subsSeen
  /\ Broadcast
  /\ subsSeen' = 0
  /\ UNCHANGED <<published, taken, bus, broken, subs, clientVars>>

\* The event that was taken last goes to no one any more
GiveUp ==
  settled' = [c \in Clients |->
    IF link[c] = "up" THEN settled[c] \cup {taken} ELSE settled[c]]

\* The dictionary has changed its size while it was iterated over: RuntimeError
\* ends the processing of the event, for the clients too
NotifyFails ==
  /\ proc = "notifying"
  /\ Cardinality(subs) # subsSeen
  /\ proc' = "waiting"
  /\ subsSeen' = 0
  /\ GiveUp
  /\ UNCHANGED <<published, taken, bus, todo, broken, subs, clients, link, joined>>

\* One client of the copied list, registered still or not
Send(c) ==
  /\ proc = "sending"
  /\ c \in todo
  /\ IF link[c] = "up"
     THEN settled' = [settled EXCEPT ![c] = @ \cup {taken}] /\ UNCHANGED broken
     ELSE broken' = broken \cup {c} /\ UNCHANGED settled
  /\ todo' = todo \ {c}
  /\ UNCHANGED <<published, taken, bus, proc, subsSeen, subs, clients, link, joined>>

\* Faulty variant: clients to which a send has failed stay in the list
EndEventKeeping ==
  /\ proc = "sending"
  /\ todo = {}
  /\ proc' = "waiting"
  /\ UNCHANGED <<published, taken, bus, subsSeen, todo, broken, subs, clientVars>>

\* The clients to which a send has failed are unregistered
EndEvent ==
  /\ proc = "sending"
  /\ todo = {}
  /\ proc' = "waiting"
  /\ clients' = clients \ broken
  /\ broken' = {}
  /\ UNCHANGED <<published, taken, bus, subsSeen, todo, subs, link, joined, settled>>

Process == Take \/ Notified \/ NotifyFails \/ EndEvent \/ \E c \in Clients : Send(c)

\* stop() cancels the processor: the event it is at is given up
StopBus ==
  /\ bus = "running"
  /\ bus' = "stopped"
  /\ proc' = "waiting"
  /\ IF proc = "waiting" THEN UNCHANGED settled ELSE GiveUp
  /\ todo' = {} /\ broken' = {}
  /\ subsSeen' = 0
  /\ UNCHANGED <<published, taken, subs, clients, link, joined>>

-----------------------------------------------------------------------------
(* Subscribers and clients *)

Subscribe(u) ==
  /\ u \notin subs
  /\ subs' = subs \cup {u}
  /\ UNCHANGED <<published, procVars, clientVars>>

Unsubscribe(u) ==
  /\ u \in subs
  /\ subs' = subs \ {u}
  /\ UNCHANGED <<published, procVars, clientVars>>

\* Faulty variant: [-count:-1] for [-count:]
RecentButLast == {e \in 1..published : e > published - Recent /\ e < published}

\* The last events of the history, taken by the processor or not
RecentEvents == {e \in 1..published : e > published - Recent}

\* register_websocket(): the client is put in the dictionary and the batch is
\* sent without anything in between
Register(c) ==
  /\ link[c] = "new"
  /\ link' = [link EXCEPT ![c] = "up"]
  /\ clients' = clients \cup {c}
  /\ joined' = [joined EXCEPT ![c] = published]
  /\ settled' = [settled EXCEPT ![c] = RecentEvents]
  /\ UNCHANGED <<published, procVars, subs>>

\* The connection is lost before "connected" is sent: that raises outside the
\* endpoint's try, the handler ends and its client stays registered
RegisterLost(c) ==
  /\ link[c] = "new"
  /\ link' = [link EXCEPT ![c] = "gone"]
  /\ clients' = clients \cup {c}
  /\ UNCHANGED <<published, procVars, subs, joined, settled>>

\* The history of a client that is not connected is not kept
Forget(c) ==
  /\ joined' = [joined EXCEPT ![c] = 0]
  /\ settled' = [settled EXCEPT ![c] = {}]

\* The connection is lost, and the handler has not noticed
Lose(c) ==
  /\ link[c] = "up"
  /\ link' = [link EXCEPT ![c] = "down"]
  /\ Forget(c)
  /\ UNCHANGED <<published, procVars, subs, clients>>

\* The handler ends; unregister_websocket() is in its finally
Unregister(c) ==
  /\ link[c] \in {"up", "down"}
  /\ link' = [link EXCEPT ![c] = "gone"]
  /\ clients' = clients \ {c}
  /\ Forget(c)
  /\ UNCHANGED <<published, procVars, subs>>

BusNext ==
  \/ Process
  \/ \E u \in Subscribers : Subscribe(u) \/ Unsubscribe(u)
  \/ \E c \in Clients : Register(c) \/ RegisterLost(c) \/ Lose(c) \/ Unregister(c)

-----------------------------------------------------------------------------
(* Properties *)

BusTypeOK ==
  /\ taken \in 0..published
  /\ bus \in {"running", "stopped"}
  /\ proc \in {"waiting", "notifying", "sending"}
  /\ subs \in SUBSET Subscribers
  /\ subsSeen \in Nat
  /\ clients \in SUBSET Clients
  /\ todo \in SUBSET Clients
  /\ broken \in SUBSET Clients
  /\ proc # "sending" => todo = {} /\ broken = {}
  /\ link \in [Clients -> {"new", "up", "down", "gone"}]
  /\ joined \in [Clients -> 0..published]
  /\ settled \in [Clients -> SUBSET (1..published)]

\* The broadcast of event e, as far as it concerns c, is over
Done(e, c) ==
  e < taken \/ (e = taken /\ (proc = "waiting" \/ (proc = "sending" /\ c \notin todo)))

\* A client that is connected has no gap in what it received, from the oldest
\* event of its batch on: batch and live events meet, wherever the processor
\* was when it registered, and only an event that was given up is missing.
NoGapForClients ==
  \A c \in Clients : link[c] = "up" =>
    \A e \in 1..taken :
      e > joined[c] - Recent /\ Done(e, c) => e \in settled[c]
=============================================================================
