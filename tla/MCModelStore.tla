--------------------------- MODULE MCModelStore ------------------------------
(* Model checking of ModelStore: two callers of one identity.                  *)
EXTENDS ModelStore, TLC

Callers == Permutations(Proc)
=============================================================================
