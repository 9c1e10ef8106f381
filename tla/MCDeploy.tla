------------------------------ MODULE MCDeploy -----------------------------
(***************************************************************************)
(* Deploy and LogDrain in one run: two parts that share no state and no    *)
(* step.  A behaviour is one of either: the first that moves goes on alone. *)
(***************************************************************************)
EXTENDS LogDrain, Deploy

CONSTANTS s1, i1

MCPasts == {[source |-> Nothing, pin |-> Nothing],
            [source |-> s1, pin |-> i1]}

\* Nobody wrote the App, and the App is the one LogDrain is run beside.
AppUntouched == command = NoCommand /\ writes = 0 /\ mishaps = 0
Beside == strategy = "dockerfile" /\ spec.source = Nothing
DrainsUntouched == changes = 0 /\ faults = 0

MCNext ==
    \/ AppUntouched /\ Beside /\ Next /\ UNCHANGED deployVars
    \/ DrainsUntouched /\ DeployNext /\ UNCHANGED vars

MCInit == Init /\ DeployInit
MCSpec ==
    /\ MCInit
    /\ [][MCNext]_<<vars, deployVars>>
    /\ Fairness /\ DeployFairness
=============================================================================
