----------------------------- MODULE Monitoring -----------------------------
(***************************************************************************)
(* Proactive monitoring as resync/core/proactive_monitoring_manager.py     *)
(* puts it together: the poller publishes to the event bus, whose clients  *)
(* are the WebSockets of the dashboard.  The manager stops the poller and  *)
(* then the bus; the endpoints /poller/start and /poller/stop act on the   *)
(* poller alone, at any time.                                              *)
(***************************************************************************)
EXTENDS TWSPoller

CONSTANTS
  Manager, Endpoint,  (* the callers of stop()                              *)
  Watched             (* bound: the events whose arrival is checked         *)

ASSUME MonitoringAssumption == Stoppers = {Manager, Endpoint}

VARIABLE manager  (* "running", "stopping" or "stopped"                     *)

vars == <<busVars, pollerVars, manager>>

\* initialize() and start() have been called
Init == BusInit /\ PollerInit /\ manager = "running"

\* stop() of the manager begins with that of the poller
BeginStop ==
  /\ manager = "running"
  /\ manager' = "stopping"
  /\ StopPoller(Manager)

\* ... which has returned; the bus is next
FinishStopping ==
  /\ manager = "stopping"
  /\ awaiting[Manager] = NoLoop
  /\ manager' = "stopped"
  /\ StopBus
  /\ UNCHANGED pollerVars

Switch ==
  \/ StartPoller
  \/ StopPoller(Endpoint)
  \/ \E h \in Stoppers : FinishStop(h)

Next ==
  \/ BeginStop
  \/ FinishStopping
  \/ BusNext /\ UNCHANGED <<pollerVars, manager>>
  \/ Switch /\ UNCHANGED manager
  \/ \E l \in Loops : PollStep(l) /\ UNCHANGED manager
  \/ Change /\ UNCHANGED manager

Spec == Init /\ [][Next]_vars

\* The processor goes on as long as it can
LiveSpec == Spec /\ WF_vars(Process /\ UNCHANGED <<pollerVars, manager>>)

-----------------------------------------------------------------------------
(* Properties *)

TypeOK ==
  /\ BusTypeOK
  /\ PollerTypeOK
  /\ manager \in {"running", "stopping", "stopped"}

\* What the poller has published reaches every client that is registered by
\* then and stays connected, unless the bus is stopped or the event given up.
EventsArrive ==
  \A c \in Clients : \A e \in Watched :
    (e <= published /\ link[c] = "up") ~>
      (e \in settled[c] \/ e <= joined[c] - Recent \/ link[c] # "up" \/ bus = "stopped")
=============================================================================
