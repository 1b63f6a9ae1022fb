---------------------------- MODULE MCTaskManager ----------------------------
(***************************************************************************)
(* Three tasks: one urgent that may be retried once, one whose function    *)
(* does not let itself be cancelled and may be retried once, one plain.    *)
(***************************************************************************)
EXTENDS TaskManager, TLC

CONSTANTS urgent, stubborn, plain

MCTasks      == {urgent, stubborn, plain}
MCPriority   == (urgent :> 4) @@ (stubborn :> 2) @@ (plain :> 2)
MCMaxRetries == (urgent :> 1) @@ (stubborn :> 1) @@ (plain :> 0)
MCStubborn   == {stubborn}
=============================================================================
