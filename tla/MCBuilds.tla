------------------------------ MODULE MCBuilds -----------------------------
(* A source of its own for buildpacks; a Dockerfile is built again.        *)
EXTENDS Builds

CONSTANTS s1, s2

MCDeploys ==
    {[source |-> s1, strategy |-> "dockerfile"],
     [source |-> s1, strategy |-> "buildpacks"],
     [source |-> s2, strategy |-> "buildpacks"]}
=============================================================================
