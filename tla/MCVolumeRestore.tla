-------------------------- MODULE MCVolumeRestore -------------------------
(* VolumeRestore on a small instance: two snapshots, two requests, at most  *)
(* one kind of fault in a run.                                              *)
EXTENDS VolumeRestore

CONSTANT FirstSnapshot

\* A request was accepted, then its snapshot was deleted, and taken again or
\* not.
InitRetaken ==
    /\ vol = [Mounted EXCEPT !.rv = 2, !.snap = FirstSnapshot, !.id = 1]
    /\ snapshots \in [Snapshots -> {"absent", "taking"}]
    /\ \A s \in Snapshots \ {FirstSnapshot} : snapshots[s] = "absent"
    /\ \/ faults = {} /\ snapshots[FirstSnapshot] = "taking"
       \/ faults = {"call"}
    /\ nextId = 2
    /\ cachedVol = vol
    /\ claim = [NewClaim(Original, 0) EXCEPT !.bound = TRUE]
    /\ cachedClaim = claim
    /\ replicas = 1 /\ appWants = Nothing /\ pod = "running" /\ cachedPod = TRUE
    /\ request = NoRequest /\ job = NoJob /\ queued = TRUE
    /\ budget = Budget

\* The second snapshot has still to be taken, or calls and processes fail.
MCInit ==
    /\ faults \in {{}} \cup {{f} : f \in Faults}
    /\ \/ /\ Init
          /\ \A s \in Snapshots :
                snapshots[s] = "absent" <=>
                    s # FirstSnapshot /\ faults \in {{}, {"delete"}}
       \/ InitRetaken
MCSpec == MCInit /\ [][Next]_vars /\ Fairness

\* A resourceVersion is only compared with the Volume's own.
Relative(v) == [v EXCEPT !.rv = vol.rv - @]
View == <<Relative(vol), Relative(cachedVol), claim, cachedClaim, snapshots, appVars, apiVars,
          job.pc, IF job = NoJob THEN NoJob.vol ELSE Relative(job.vol), queued, faults, budget>>
=============================================================================
