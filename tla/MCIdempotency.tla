---------------------------- MODULE MCIdempotency ----------------------------
(***************************************************************************)
(* Three requests with the key, so that one may clear the mark of a second *)
(* in favour of a third.  A mark lives two ticks of 150 seconds.           *)
(***************************************************************************)
EXTENDS Idempotency

MCMarkTTL == 2
=============================================================================
