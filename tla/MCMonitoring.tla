---------------------------- MODULE MCMonitoring ----------------------------
(***************************************************************************)
(* Two jobs, so that a stop() may cut off a poll between two events; two   *)
(* loops, so that a start() during a stop() makes a second one; a client   *)
(* and a subscriber; a batch of one event, so that the history is longer   *)
(* than the batch.  The second event is one that a client may get live, in *)
(* its batch, or has no claim to.                                          *)
(***************************************************************************)
EXTENDS Monitoring
=============================================================================
