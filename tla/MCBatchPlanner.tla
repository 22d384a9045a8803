--------------------------- MODULE MCBatchPlanner ----------------------------
(* Model checking of BatchPlanner. *)
EXTENDS BatchPlanner
=============================================================================
