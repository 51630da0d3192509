-------------------------- MODULE MCDeployPipeline --------------------------
(* Small instances of DeployPipeline for TLC.                              *)
EXTENDS DeployInvariant, TLC

Symmetry == Permutations(Dep) \cup Permutations(Sha) \cup Permutations(Slot)
=============================================================================
