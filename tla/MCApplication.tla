--------------------------- MODULE MCApplication -----------------------------
(* Model checking of Application: a list of two models, two lifecycle futures  *)
(* and one request.                                                            *)
EXTENDS Application, TLC

CONSTANTS m1, m2

MCPreload == <<m1, m2>>

\* Futures are interchangeable.
Callers == Permutations(Caller)
=============================================================================
