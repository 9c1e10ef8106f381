------------------------------ MODULE MCAccess -----------------------------
(* Access for TLC: two requests at a time, which are alike. *)
EXTENDS Access, TLC

Symmetry == Permutations(Callers)
=============================================================================
