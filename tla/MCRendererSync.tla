-------------------------- MODULE MCRendererSync --------------------------
(* RendererSync on small instances. *)
EXTENDS RendererSync, TLC

\* The theorems about SyncSpec assume it.
ASSUME DeployedAssumption == Deployed

Symmetry == Permutations(Soap) \cup Permutations(Checks) \cup Permutations(Autos)
            \cup Permutations(Resumers)

===========================================================================
