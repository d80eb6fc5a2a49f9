------------------------------ MODULE MCBuilds ------------------------------
(* Builds for TLC: its cfgs name the clusters and trees. *)
EXTENDS Builds, TLC

Symmetry == Permutations(Cluster)
=============================================================================
