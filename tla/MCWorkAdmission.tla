--------------------------- MODULE MCWorkAdmission ---------------------------
(***************************************************************************)
(* Three operations, one of them an install whose permit a task owns, and  *)
(* two shutdown callers.  Three operations are enough for a stale wakeup   *)
(* (the count reaches zero before the drain) followed by two overlapping   *)
(* releases during it; two callers are enough to join, tighten and retry.  *)
(***************************************************************************)
EXTENDS WorkAdmission
=============================================================================
