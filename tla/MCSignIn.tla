------------------------------ MODULE MCSignIn -----------------------------
(* Login and SignIn on a small instance: replicas, requests, sign-ins and   *)
(* attempts are alike.                                                      *)
EXTENDS Login, TLC

Symmetry == Permutations(Replicas) \cup Permutations(Requests) \cup Permutations(Attempts)

Policy(join, claimed, connector, listed) ==
    [join |-> join, claimed |-> claimed, connector |-> connector, listed |-> listed]

\* Everybody; a company whose accounts come by redirect; those in a team.
MCPolicies == {Policy("open", FALSE, "any", FALSE),
               Policy("company", TRUE, "redirect", FALSE),
               Policy("company", FALSE, "any", TRUE),
               Policy("listed", FALSE, "any", FALSE),
               Policy("listed", TRUE, "password", TRUE)}
============================================================================
