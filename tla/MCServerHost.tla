---------------------------- MODULE MCServerHost -----------------------------
(* Model checking of ServerHost: readiness changes a few times. *)
EXTENDS ServerHost
=============================================================================
