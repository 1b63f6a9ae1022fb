----------------------------- MODULE MCAuditLock -----------------------------
(***************************************************************************)
(* One tick is 15 seconds: timeout=30 and max_age=60 as in ia_auditor.py.  *)
(* Three runs over one memory, so that a late release could hit the lock   *)
(* of a second run in favour of a third; the keys of different memories    *)
(* are independent of each other.                                          *)
(***************************************************************************)
EXTENDS AuditLock

MCTimeout == 2
MCMaxAge  == 4
=============================================================================
