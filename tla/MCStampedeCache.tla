--------------------------- MODULE MCStampedeCache ---------------------------
(***************************************************************************)
(* Four callers and two keys: a loader, a waiter that keeps the lock,      *)
(* and callers queued behind it for the same key and for the other.  Two   *)
(* of them load by plain functions, so that two loaders of a key may be    *)
(* left behind in threads while a third runs.                              *)
(***************************************************************************)
EXTENDS StampedeCache
=============================================================================
