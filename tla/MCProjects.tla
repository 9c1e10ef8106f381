----------------------------- MODULE MCProjects ----------------------------
(* Two projects on two hosts: each is the default host of one.             *)
EXTENDS Projects, TLC

CONSTANTS blog, shop, hostA, hostB, small, large

MCDefaultHost == (blog :> hostA) @@ (shop :> hostB)
MCCost == (small :> 1) @@ (large :> 2)
MCPlans == {NoPlan, [projects |-> 2, instances |-> 2, cpu |-> 3, storage |-> 1]}
=============================================================================
