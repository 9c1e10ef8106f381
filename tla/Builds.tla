------------------------------- MODULE Builds ------------------------------
(***************************************************************************)
(* The builds of one App: reconcileDockerfileBuild and pruneBuildJobs      *)
(* (internal/controller/dockerfile.go), reconcileKpackImage,               *)
(* triggerKpackBuild and readBuildState (app_controller.go, status.go),    *)
(* and the handlers that ask for a build (pkg/api/apps.go).                *)
(*                                                                         *)
(* The controller reads the App, the Jobs and their pods from caches that  *)
(* follow the API server each at its own pace; the kpack Image and its     *)
(* Builds, which have no type here, are read from the API server.  Only    *)
(* the status is written under the version of the App that was read: a Job *)
(* is created, annotated and deleted whatever the App is by then.          *)
(*                                                                         *)
(* External: kpack builds an Image one Build at a time, again when its     *)
(* spec is not the one built or the newest Build asks for it, and is Ready *)
(* when there is nothing left to build; a Job runs to its end.             *)
(***************************************************************************)
EXTENDS Naturals, Sequences, FiniteSets, FiniteSetsExt

CONSTANTS
    Sources,     \* what a deploy can point at, with its build settings
    Deploys,     \* bound: the sources deployed with each strategy
    Registries,  \* 1..n: the registries the platform pushes to, in turn
    KeptSucceeded, KeptFailed,  \* successfulBuildsKept (10), failedBuildsKept (5)
    MaxChanges,  \* bound: deploys and rebuilds
    MaxFaults,   \* bound: failing calls, restarts
    None

ASSUME BoundsAssumption ==
    /\ {KeptSucceeded, KeptFailed, MaxChanges, MaxFaults} \subseteq Nat
    /\ Registries = 1 .. Max(Registries)
    /\ None \notin Sources
    /\ Deploys \subseteq [source : Sources, strategy : {"dockerfile", "buildpacks"}]

VARIABLES
    spec,      \* what the App asks for: source, strategy, rebuild request
    seen,      \* the App in the controller's cache
    current,   \* whether that is the newest version
    jobs,      \* the build Jobs, by number
    jobsSeen,  \* the Jobs in the cache
    events,    \* what the cache has not seen yet of the Jobs
    kpack,     \* the kpack Image, with the newest of its Builds
    registry,  \* Config.RegistryHost
    status,    \* what the App's status says of its build
    due,       \* the App is in the work queue
    changes, faults

buildsVars == <<spec, seen, current, jobs, jobsSeen, events, kpack, registry,
                status, due, changes, faults>>

\* An image, by what it was built from; 0 is the first request.
Built(source, rebuild, reg) == [source |-> source, rebuild |-> rebuild, registry |-> reg]

NoBuild == Built(None, 0, 0)

NoStatus == [ready |-> "none", image |-> None]

BuildsInit ==
    /\ spec = [source |-> None, strategy |-> "buildpacks", rebuild |-> 0]
    /\ seen = spec /\ current = TRUE
    /\ jobs = [n \in {} |-> None] /\ jobsSeen = jobs
    /\ events = <<>>
    /\ kpack = None
    /\ registry = 1
    /\ status = NoStatus
    /\ due = TRUE
    /\ changes = 0 /\ faults = 0

Dockerfile == <<jobs, jobsSeen, events>>

\* The Jobs become js; the cache will be told.
SetJobs(js) ==
    /\ jobs' = js
    /\ events' = IF js = jobs THEN events ELSE Append(events, js)

Fault == faults < MaxFaults /\ faults' = faults + 1 /\ UNCHANGED changes
Free == UNCHANGED <<changes, faults>>
----------------------------------------------------------------------------
(***************************************************************************)
(* The API.                                                                *)
(***************************************************************************)
Change(a) ==
    /\ changes < MaxChanges /\ changes' = changes + 1
    /\ spec' = a
    /\ current' = FALSE
    /\ UNCHANGED <<seen, Dockerfile, kpack, registry, status, due, faults>>

\* deployApp: a source, and maybe another strategy.
Deploy(d) ==
    /\ d.source # spec.source \/ d.strategy # spec.strategy
    /\ Change([spec EXCEPT !.source = d.source, !.strategy = d.strategy])

\* redeployApp with "rebuild".
Rebuild ==
    /\ spec.source # None
    /\ Change([spec EXCEPT !.rebuild = @ + 1])
----------------------------------------------------------------------------
(***************************************************************************)
(* The caches, and the work queue their events feed.                       *)
(***************************************************************************)
SyncSpec ==
    /\ ~current
    /\ seen' = spec /\ current' = TRUE /\ due' = TRUE
    /\ Free
    /\ UNCHANGED <<spec, Dockerfile, kpack, registry, status>>

SyncJobs ==
    /\ events # <<>>
    /\ jobsSeen' = Head(events) /\ events' = Tail(events) /\ due' = TRUE
    /\ Free
    /\ UNCHANGED <<spec, seen, current, jobs, kpack, registry, status>>

\* The end of a reconcile: its report, under the version of the App it read.
\* Without an image to run it looks again after 30 s.
Report(ready, img) ==
    LET report == [ready |-> ready, image |-> img]
    IN  /\ IF current
           THEN /\ status' = report
                /\ current' = (status' = status)
                /\ due' = (ready = "Unknown" /\ img = None)
           ELSE /\ due' = TRUE
                /\ UNCHANGED <<status, current>>
        /\ UNCHANGED <<spec, seen, registry>>

\* A call fails: the App is tried again, its build status as it was.
Fails ==
    /\ Fault
    /\ due' = TRUE
    /\ UNCHANGED <<spec, seen, current, registry, status>>
----------------------------------------------------------------------------
(***************************************************************************)
(* Dockerfile builds.                                                      *)
(***************************************************************************)
\* buildKey.
Key(a) == <<a.source, a.rebuild>>

Newest(js) == Max({0} \cup DOMAIN js)

\* lastImage: of the builds below n.
LastImage(js, n) ==
    LET done == {k \in DOMAIN js : k < n /\ js[k].image # None}
    IN  IF done = {} THEN None ELSE js[Max(done)].image

\* Mutant: a Job is for the App whatever its key.
FitsAny(js, a) == DOMAIN js # {}

\* The newest Job is for the current source and build settings.
Fits(js, a) == DOMAIN js # {} /\ js[Newest(js)].key = Key(a)

\* desiredBuildJob.
NewJob(a) ==
    [key |-> Key(a), state |-> "running", pushes |-> Built(a.source, a.rebuild, registry),
     image |-> None, failure |-> FALSE]

\* All but the newest kept ones.
Beyond(ns, kept) == {n \in ns : Cardinality({k \in ns : k > n}) >= kept}

\* pruneBuildJobs, by the list at hand: the newest build always stays, and one
\* that ended when it was not the newest any more is no success here.
PrunedJobs(js) ==
    LET old == DOMAIN js \ {Newest(js)}
        succeeded == {n \in old : js[n].image # None}
        failed == {n \in old \ succeeded : js[n].failure \/ js[n].state = "failed"}
    IN  Beyond(succeeded, KeptSucceeded) \cup Beyond(failed, KeptFailed)

\* The newest Job becomes j, the old ones go.
Keep(j) ==
    [k \in DOMAIN jobs \ PrunedJobs(jobsSeen) |-> IF k = Newest(jobsSeen) THEN j ELSE jobs[k]]

\* buildOutcome: the pod of a Job may not be in the cache yet, and wakes nobody
\* when it comes.
Outcomes(j) == IF j.state = "succeeded" THEN {"image", "failure"} ELSE {"failure"}

ReconcileDockerfile ==
    LET n == Newest(jobsSeen)
        j == jobsSeen[n]
        noted == jobs[n]
        last == LastImage(jobsSeen, n)
        settled == j.image # None \/ j.failure
    IN  /\ due /\ seen.source # None /\ seen.strategy = "dockerfile"
        /\ \/ /\ ~Fits(jobsSeen, seen)
              /\ SetJobs([k \in DOMAIN jobs \cup {n + 1} |->
                            IF k \in DOMAIN jobs THEN jobs[k] ELSE NewJob(seen)])
              /\ Report("Unknown", LastImage(jobsSeen, n + 1))
           \/ /\ Fits(jobsSeen, seen) /\ j.image # None
              /\ SetJobs(Keep(noted))
              /\ Report("True", j.image)
           \/ /\ Fits(jobsSeen, seen) /\ j.image = None /\ j.failure
              /\ SetJobs(Keep(noted))
              /\ Report("False", last)
           \/ /\ Fits(jobsSeen, seen) /\ ~settled /\ j.state = "running"
              /\ SetJobs(Keep(noted))
              /\ Report("Unknown", last)
           \/ /\ Fits(jobsSeen, seen) /\ ~settled /\ j.state # "running"
              /\ \/ /\ "image" \in Outcomes(j)
                    /\ SetJobs(Keep([noted EXCEPT !.image = j.pushes]))
                    /\ Report("True", j.pushes)
                 \/ /\ "failure" \in Outcomes(j)
                    /\ SetJobs(Keep([noted EXCEPT !.failure = TRUE]))
                    /\ Report("False", last)
        /\ kpack' = None
        /\ Free
        /\ UNCHANGED jobsSeen

\* It breaks off: after the Job was made, or the old ones were deleted.
DockerfileFails ==
    /\ due /\ seen.source # None /\ seen.strategy = "dockerfile"
    /\ IF Fits(jobsSeen, seen)
       THEN SetJobs(Keep(jobs[Newest(jobsSeen)]))
       ELSE \E made \in BOOLEAN :
               SetJobs(IF made /\ Newest(jobsSeen) = Newest(jobs)
                       THEN [k \in DOMAIN jobs \cup {Newest(jobs) + 1} |->
                               IF k \in DOMAIN jobs THEN jobs[k] ELSE NewJob(seen)]
                       ELSE jobs)
    /\ Fails
    /\ UNCHANGED <<jobsSeen, kpack>>

\* BackoffLimit 0: a Job has one pod, and 30 minutes.
JobEnds(n) ==
    /\ n \in DOMAIN jobs /\ jobs[n].state = "running"
    /\ \E state \in {"succeeded", "failed"} :
          SetJobs([jobs EXCEPT ![n].state = state])
    /\ Free
    /\ UNCHANGED <<spec, seen, current, jobsSeen, kpack, registry, status, due>>
----------------------------------------------------------------------------
(***************************************************************************)
(* kpack builds.                                                           *)
(***************************************************************************)
\* desiredKpackImage, as kpack has it before it looked at it.
NewImage(a) ==
    [source |-> a.source, registry |-> registry, asked |-> 0,
     observed |-> FALSE, ready |-> "Unknown", image |-> None,
     newest |-> NoBuild, building |-> FALSE, again |-> FALSE]

\* readBuildState.
StateOf(i) == IF i.observed THEN i.ready ELSE "Unknown"

\* Mutant: a rebuild is remembered, and the newest Build is not asked.
UpdatedUntriggered(i, a) == [i EXCEPT !.source = a.source, !.asked = a.rebuild]

\* A rebuild asks the newest Build for another one, once.
Updated(i, a) ==
    LET trigger == a.rebuild # 0 /\ i.asked # a.rebuild
    IN  [i EXCEPT !.source = a.source,
                  !.observed = @ /\ i.source = a.source,
                  !.asked = IF trigger THEN a.rebuild ELSE @,
                  !.again = @ \/ (trigger /\ i.newest # NoBuild)]

\* The tag of an Image cannot change: it is made anew for another registry.
ReconcileKpack ==
    /\ due /\ seen.source # None /\ seen.strategy = "buildpacks"
    /\ IF kpack = None \/ (kpack # None /\ kpack.registry # registry)
       THEN kpack' = NewImage(seen)
       ELSE kpack' = Updated(kpack, seen)
    /\ Report(StateOf(kpack'), kpack'.image)
    /\ Free
    /\ UNCHANGED Dockerfile

\* It breaks off: the Image was deleted and not made, or its newest Build was
\* asked for another one and the Image does not remember it.
KpackFails ==
    /\ due /\ seen.source # None /\ seen.strategy = "buildpacks"
    /\ \/ UNCHANGED kpack
       \/ kpack # None /\ kpack.registry # registry /\ kpack' = None
       \/ /\ kpack # None /\ kpack.registry = registry
          /\ kpack' = [kpack EXCEPT !.again = Updated(kpack, seen).again]
    /\ Fails
    /\ UNCHANGED Dockerfile

Needed(i) == i.newest.source # i.source \/ i.again

KpackBuilds ==
    /\ kpack # None /\ ~kpack.building /\ Needed(kpack)
    /\ kpack' = [kpack EXCEPT !.newest = Built(kpack.source, kpack.asked, kpack.registry),
                              !.building = TRUE, !.again = FALSE,
                              !.observed = TRUE, !.ready = "Unknown"]
    /\ due' = TRUE
    /\ Free
    /\ UNCHANGED <<spec, seen, current, Dockerfile, registry, status>>

\* A spec that is the one built already.
KpackObserves ==
    /\ kpack # None /\ ~kpack.observed /\ ~kpack.building /\ ~Needed(kpack)
    /\ kpack' = [kpack EXCEPT !.observed = TRUE,
                              !.ready = IF kpack.image = kpack.newest THEN "True" ELSE "False"]
    /\ due' = TRUE
    /\ Free
    /\ UNCHANGED <<spec, seen, current, Dockerfile, registry, status>>

KpackEnds ==
    /\ kpack # None /\ kpack.building
    /\ \E done \in BOOLEAN :
          kpack' = [kpack EXCEPT !.building = FALSE, !.observed = TRUE,
                                 !.image = IF done THEN kpack.newest ELSE @,
                                 !.ready = IF Needed(kpack) THEN "Unknown"
                                           ELSE IF done THEN "True" ELSE "False"]
    /\ due' = TRUE
    /\ Free
    /\ UNCHANGED <<spec, seen, current, Dockerfile, registry, status>>
----------------------------------------------------------------------------
\* The server starts again, maybe with the next registry: all is listed anew.
Restart(reg) ==
    /\ Fault
    /\ registry' = reg
    /\ seen' = spec /\ current' = TRUE
    /\ jobsSeen' = jobs /\ events' = <<>>
    /\ due' = TRUE
    /\ UNCHANGED <<spec, jobs, kpack, status>>

BuildsNext ==
    \/ \E d \in Deploys : Deploy(d)
    \/ Rebuild
    \/ SyncSpec \/ SyncJobs
    \/ ReconcileDockerfile \/ DockerfileFails
    \/ ReconcileKpack \/ KpackFails
    \/ \E n \in DOMAIN jobs : JobEnds(n)
    \/ KpackBuilds \/ KpackObserves \/ KpackEnds
    \/ \E reg \in Registries : reg \in {registry, registry + 1} /\ Restart(reg)

BuildsSpec == BuildsInit /\ [][BuildsNext]_buildsVars

\* Caches follow, the queue is worked off, a Job has a deadline and kpack goes on.
FairBuildsSpec ==
    /\ BuildsSpec
    /\ WF_buildsVars(SyncSpec) /\ WF_buildsVars(SyncJobs)
    /\ WF_buildsVars(ReconcileDockerfile) /\ WF_buildsVars(ReconcileKpack)
    /\ \A n \in 1 .. MaxChanges + 1 : WF_buildsVars(JobEnds(n))
    /\ WF_buildsVars(KpackBuilds) /\ WF_buildsVars(KpackObserves) /\ WF_buildsVars(KpackEnds)
----------------------------------------------------------------------------
(***************************************************************************)
(* The status calls a build done only with an image of the App's source,   *)
(* and for a Dockerfile of the rebuild last asked for, whatever the App,   *)
(* the Jobs and the Image were in between.  A reconcile releases what the  *)
(* status says (app_controller.go).                                        *)
(***************************************************************************)
DoneIsOfSource ==
    [][status' # status /\ status'.ready = "True" =>
         /\ status'.image.source = spec.source
         /\ spec.strategy = "dockerfile" => status'.image.rebuild = spec.rebuild]_buildsVars

\* The newest build is for what the App asks for, and the status is its outcome.
Answered ==
    \/ /\ spec.strategy = "dockerfile"
       /\ Fits(jobs, spec) /\ kpack = None
       /\ LET j == jobs[Newest(jobs)]
          IN  \/ (j.image # None /\ status.ready = "True" /\ status.image = j.image)
              \/ (j.image = None /\ j.failure /\ status.ready = "False")
    \/ /\ spec.strategy = "buildpacks"
       /\ kpack # None /\ kpack.registry = registry
       /\ kpack.newest = Built(spec.source, spec.rebuild, registry)
       /\ ~kpack.building
       /\ status.ready = kpack.ready /\ status.ready \in {"True", "False"}

(***************************************************************************)
(* What is asked for comes to be built, in the end only that, and the App  *)
(* says how it ended: also after a deploy in the middle of a build, a      *)
(* switch of the strategy, a move of the registry, a rebuild that was      *)
(* asked for and forgotten (dockerfile.go, reconcileKpackImage).           *)
(***************************************************************************)
EventuallyAnswered == <>[](spec.source # None => Answered)
=============================================================================
