--------------------------- MODULE MCEmbedPipeline ---------------------------
(* Model checking of EmbedPipeline. *)
EXTENDS EmbedPipeline
=============================================================================
