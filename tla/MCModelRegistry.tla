--------------------------- MODULE MCModelRegistry ---------------------------
(***************************************************************************)
(* Two keys on one model are enough for a load racing another load, a      *)
(* registration or an unload and reload of the same model, and for a load  *)
(* that is not subscribed to the forced stop while another is; one holder  *)
(* of a lease adds a pin.                                                  *)
(***************************************************************************)
EXTENDS ModelRegistry, TLC

\* Keys are interchangeable: used by the safety run, which checks no liveness.
KeySymmetry == Permutations(Key)
=============================================================================
