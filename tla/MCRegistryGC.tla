--------------------------- MODULE MCRegistryGC ---------------------------
(* RegistryGC on a small instance: at most one kind of fault in a run.      *)
EXTENDS RegistryGC

MCInit == Init /\ Cardinality(faults) <= 1
MCSpec == MCInit /\ [][Next]_vars /\ Fairness
=============================================================================
