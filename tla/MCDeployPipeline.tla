-------------------------- MODULE MCDeployPipeline --------------------------
(* DeployPipeline for TLC: the requests and the projects are alike. *)
EXTENDS PipelineClaims, TLC

Symmetry == Permutations(Request) \cup Permutations(Project)

=============================================================================
