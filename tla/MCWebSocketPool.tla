--------------------------- MODULE MCWebSocketPool ---------------------------
(***************************************************************************)
(* Sessions s1 and s2 share a client id (a reconnect before the old        *)
(* handler has noticed), s3 has its own; there is room for one, and one    *)
(* error makes a connection unhealthy.  Two sends, so that both may find   *)
(* the same session disconnected.                                          *)
(***************************************************************************)
EXTENDS WebSocketPool, TLC

CONSTANTS s1, s2, s3, c1, c2

MCSessions == {s1, s2, s3}
MCIds == {c1, c2}
MCIdOf == (s1 :> c1) @@ (s2 :> c1) @@ (s3 :> c2)
=============================================================================
