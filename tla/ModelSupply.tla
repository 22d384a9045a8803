----------------------------- MODULE ModelSupply -----------------------------
(***************************************************************************)
(* A model's way from its manifest to a vector: Provisioning fills the     *)
(* cache, and OnnxEngine loads from it.  An installation and the engine    *)
(* meet in the cache only, so the engine starts when the installations of  *)
(* an instance are over and the two do not interleave.                     *)
(***************************************************************************)
EXTENDS OnnxEngine

Init == ProvisioningInit /\ EngineInit

Untouched == tally.turns = 0 /\ tally.embeds = 0 /\ tally.alterations = 0

Next ==
    \/ Untouched /\ ProvisioningNext /\ UNCHANGED engine
    \/ job.at \in {"failed", "installed"} /\ job.jobs = MaxJobs /\ EngineNext /\ UNCHANGED supply

Spec == Init /\ [][Next]_<<supply, engine>>
=============================================================================
