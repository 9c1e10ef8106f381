--------------------------- MODULE MCAppRelease ---------------------------
(* AppRelease on a small instance: two images, two contents of the config  *)
(* vars, a history of two releases, so that a third one drops the first.    *)
EXTENDS AppRelease

CONSTANT FirstImage

\* The App after its first release: image deployed, Running, nothing queued.
Released == [NewApp EXCEPT !.rv = 3, !.gen = 2, !.observed = 2, !.pin = FirstImage,
               !.releases = <<[num |-> 1, image |-> FirstImage, config |-> InitConfig]>>,
               !.phase = "Running"]
InitReleased ==
    /\ app = Released /\ cached = Released
    /\ env = NewSecret /\ cachedEnv = NewSecret
    /\ snaps = {[num |-> 1, config |-> InitConfig]}
    /\ deleted = {}
    /\ build = [source |-> 0, ready |-> "Unknown", image |-> NoImage]
    /\ deployed = [image |-> FirstImage, config |-> InitConfig, rollout |-> "ready"]
    /\ job = NoJob /\ queued = FALSE
    /\ budget = Budget

MCInit == Init \/ InitReleased
MCSpec == MCInit /\ [][Next]_vars /\ Fairness

\* The actions compare a resourceVersion, and a generation, only with those of
\* the object in the API server: states that agree on the differences, and on
\* everything else, have the same behaviours.
Relative(a) == [a EXCEPT !.rv = app.rv - @, !.gen = app.gen - @, !.observed = app.gen - @]
View == <<Relative(app), Relative(cached),
          IF job = NoJob THEN NewApp ELSE Relative(job.app), [job EXCEPT !.app = NewApp],
          env.config, cachedEnv.config, env.rv = cachedEnv.rv, snaps, deleted, build, deployed, queued, budget>>
=============================================================================
