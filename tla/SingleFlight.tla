---------------------------- MODULE SingleFlight ----------------------------
(***************************************************************************)
(* What a cache with stampede protection promises about each key: a load   *)
(* begins only while no other call loads the key and there is no valid     *)
(* entry, and only the end of a call's load puts an entry there.           *)
(*                                                                         *)
(* It does not promise that no other loader of the key runs.  A loader     *)
(* that is a plain function cannot be stopped: when its call is cancelled  *)
(* it becomes a stray, any number of which may run beside a load.          *)
(***************************************************************************)
CONSTANTS
  Callers,
  Sync,    (* callers whose loader is a plain function                      *)
  Keys

VARIABLES
  flight,  (* flight[k]: the callers that are loading k                     *)
  stray,   (* stray[k]: the callers that have gone while their loader of k  *)
           (* runs on                                                       *)
  cached   (* cached[k]: the valid entry of k: a value, an error, or none   *)

Content == {"none", "value", "error"}

FlightInit ==
  /\ flight = [k \in Keys |-> {}]
  /\ stray = [k \in Keys |-> {}]
  /\ cached = [k \in Keys |-> "none"]

Begin(c, k) ==
  /\ flight[k] = {}
  /\ cached[k] = "none"
  /\ flight' = [flight EXCEPT ![k] = {c}]
  /\ UNCHANGED <<stray, cached>>

\* A load may take longer than its entry is valid, and ends with none then
End(c, k) ==
  /\ flight[k] = {c}
  /\ flight' = [flight EXCEPT ![k] = {}]
  /\ \E e \in Content : cached' = [cached EXCEPT ![k] = e]
  /\ UNCHANGED stray

\* The call is cancelled, and its loader goes on in its thread
Abandon(c, k) ==
  /\ c \in Sync
  /\ flight[k] = {c}
  /\ flight' = [flight EXCEPT ![k] = {}]
  /\ stray' = [stray EXCEPT ![k] = @ \cup {c}]
  /\ UNCHANGED cached

\* What a stray brings is dropped
StrayEnds(c, k) ==
  /\ c \in stray[k]
  /\ stray' = [stray EXCEPT ![k] = @ \ {c}]
  /\ UNCHANGED <<flight, cached>>

Expire(k) ==
  /\ cached' = [cached EXCEPT ![k] = "none"]
  /\ UNCHANGED <<flight, stray>>

FlightNext ==
  \/ \E c \in Callers, k \in Keys :
       Begin(c, k) \/ End(c, k) \/ Abandon(c, k) \/ StrayEnds(c, k)
  \/ \E k \in Keys : Expire(k)

FlightSpec == FlightInit /\ [][FlightNext]_<<flight, stray, cached>>
=============================================================================
