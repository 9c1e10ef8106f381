---------------------------- MODULE AppRelease ----------------------------
(***************************************************************************)
(* The App controller's release machine (internal/controller): one App     *)
(* object in the API server, the informer copies the controller reads, the *)
(* reconcile of that App cut at each call that leaves the process, and the *)
(* API handlers that change the App or its config vars meanwhile.          *)
(*                                                                         *)
(* A reconcile reads a cached App, restores config vars for a rollback,    *)
(* asks the builder for an image, writes the Deployments, records a        *)
(* release in memory and snapshots its config vars, deletes stale images   *)
(* from the registry, and only then patches the status, under optimistic   *)
(* locking: any step before the patch has already happened when the patch  *)
(* is refused.                                                             *)
(***************************************************************************)
EXTENDS Naturals, Sequences, FiniteSets

CONSTANTS
    Images,       \* digest references an App can run
    Configs,      \* contents of Secret <app>-env; the config hash tells them apart
    NoImage,      \* the empty image reference
    InitConfig,   \* the config vars before the first deploy
    MaxReleases,  \* maxReleases (status.go): releases kept in the history
    Budget        \* bound: users' operations, failures and crashes, together

ASSUME ConstantsAssumption ==
    /\ NoImage \notin Images
    /\ InitConfig \in Configs
    /\ MaxReleases \in Nat \ {0}
    /\ Budget \in Nat

VARIABLES
    app,        \* the App in the API server
    cached,     \* the informer's copy of it, possibly older
    env,        \* Secret <app>-env in the API server: its version and contents
    cachedEnv,  \* the informer's copy of it
    snaps,      \* Secrets <app>-release-v<n>
    deleted,    \* images deleted from the in-cluster registry
    build,      \* the builder: source of its latest build, that build's state, newest image
    deployed,   \* what the Deployments run, and how their rollout stands
    job,        \* the reconcile in progress
    queued,     \* the App's key is in the work queue
    budget      \* what is left of the bound

vars == <<app, cached, env, cachedEnv, snaps, deleted, build, deployed, job,
          queued, budget>>

Phases == {"Pending", "Building", "Deploying", "Running", "Failed"}
Rollouts == {"progressing", "ready", "failing"}
Readiness == {"Unknown", "True", "False"}

Secret == [rv : Nat, config : Configs]

Release == [num : Nat \ {0}, image : Images, config : Configs]

App == [rv : Nat, gen : Nat,
        pin : Images \cup {NoImage},      \* spec.image
        source : Nat,                     \* spec.source: 0 is none, n the n-th upload
        rollbackTo : Nat,                 \* annotation rollback-to; 0 is none
        releases : Seq(Release), stale : SUBSET Images,
        phase : Phases, observed : Nat]   \* observed: status.observedGeneration

\* A reconcile at work: its own copy of the App, which it changes in memory,
\* and what it has computed so far.
Job == [pc : {"idle", "config", "build", "workloads", "release", "prune", "patch", "clear"},
        app : App, config : Configs, image : Images \cup {NoImage},
        ready : Readiness, rollout : Rollouts,
        clear : BOOLEAN, requeue : BOOLEAN]

NewSecret == [rv |-> 1, config |-> InitConfig]

NewApp == [rv |-> 1, gen |-> 1, pin |-> NoImage, source |-> 0, rollbackTo |-> 0,
           releases |-> <<>>, stale |-> {}, phase |-> "Pending", observed |-> 0]

\* Between reconciles nothing is kept: Reconcile is a function of the cluster.
NoJob == [pc |-> "idle", app |-> NewApp, config |-> InitConfig, image |-> NoImage,
          ready |-> "Unknown", rollout |-> "progressing",
          clear |-> FALSE, requeue |-> FALSE]

Init ==
    /\ app = NewApp
    /\ cached = NewApp
    /\ env = NewSecret
    /\ cachedEnv = NewSecret
    /\ snaps = {}
    /\ deleted = {}
    /\ build = [source |-> 0, ready |-> "Unknown", image |-> NoImage]
    /\ deployed = [image |-> NoImage, config |-> InitConfig, rollout |-> "ready"]
    /\ job = NoJob
    /\ queued = TRUE
    /\ budget = Budget

\* The bound: what users do, and what fails, is paid for.
Spend == budget > 0 /\ budget' = budget - 1

---------------------------------------------------------------------------
(* Histories *)

Current(rels) == rels[Len(rels)]
Numbers(rels) == {rels[i].num : i \in 1..Len(rels)}
ReleaseByNumber(rels, n) == rels[CHOOSE i \in 1..Len(rels) : rels[i].num = n]
ImagesOf(rels) == {rels[i].image : i \in 1..Len(rels)}

\* Mutant: compares with the oldest release.
SameReleaseOldest(rels, image, config) ==
    rels # <<>> /\ rels[1].image = image /\ rels[1].config = config

\* recordRelease's first test: nothing to record when image and config hash
\* are those of the current release.
SameRelease(rels, image, config) ==
    /\ rels # <<>>
    /\ Current(rels).image = image
    /\ Current(rels).config = config

NextNumber(rels) == IF rels = <<>> THEN 1 ELSE Current(rels).num + 1

\* The history with a release appended and only the last MaxReleases kept.
Appended(rels, image, config) ==
    LET all == Append(rels, [num |-> NextNumber(rels), image |-> image, config |-> config])
    IN  IF Len(all) > MaxReleases
          THEN SubSeq(all, Len(all) - MaxReleases + 1, Len(all))
          ELSE all

\* A history that is an earlier one, or that one with a release more.
Extends(new, old) ==
    \/ new = old
    \/ /\ new # <<>>
       /\ new = Appended(old, Current(new).image, Current(new).config)

\* unreferencedImages: images of dropped releases that no kept release uses.
Unreferenced(old, kept) == ImagesOf(old) \ ImagesOf(kept)

---------------------------------------------------------------------------
(* Users: the handlers of pkg/api.  mutateApp re-reads the App and retries  *)
(* on a conflict, so each is one write to the newest App.                   *)

\* A write to the App: a change of the spec also starts a new generation.
Write(new) ==
    app' = IF new = app THEN app ELSE [new EXCEPT !.rv = app.rv + 1]
WriteSpec(new) ==
    Write(IF new = app THEN app ELSE [new EXCEPT !.gen = app.gen + 1])

\* The config vars of Secret <app>-env are replaced.
WriteEnv(c) == env' = [rv |-> env.rv + 1, config |-> c]

\* updateAppSecrets: the user changes the config vars.
SetConfig(c) ==
    /\ Spend
    /\ c # env.config
    /\ WriteEnv(c)
    /\ UNCHANGED <<app, cached, cachedEnv, snaps, deleted, build, deployed, job, queued>>

\* deployApp with an image: users deploy images that exist.
DeployImage(i) ==
    /\ Spend
    /\ i \notin deleted
    /\ WriteSpec([app EXCEPT !.pin = i])
    /\ UNCHANGED <<cached, env, cachedEnv, snaps, deleted, build, deployed, job, queued>>

\* deployApp with a source: the pin goes, the builder decides the image.
DeploySource ==
    /\ Spend
    /\ WriteSpec([app EXCEPT !.pin = NoImage, !.source = @ + 1])
    /\ UNCHANGED <<cached, env, cachedEnv, snaps, deleted, build, deployed, job, queued>>

RolloutInProgress(a) == a.observed < a.gen \/ a.phase \in {"Deploying", "Building"}

\* rollbackApp: pins the image of release n and asks the controller, by an
\* annotation, to restore its config vars.
Rollback(n) ==
    /\ Spend
    /\ n \in Numbers(app.releases)
    /\ Current(app.releases).num # n
    /\ ~RolloutInProgress(app)
    /\ LET image == ReleaseByNumber(app.releases, n).image
           noted == [app EXCEPT !.rollbackTo = n, !.pin = image]
       IN  IF image = app.pin THEN Write(noted) ELSE WriteSpec(noted)
    /\ UNCHANGED <<cached, env, cachedEnv, snaps, deleted, build, deployed, job, queued>>

User ==
    \/ \E c \in Configs : SetConfig(c)
    \/ \E i \in Images : DeployImage(i)
    \/ DeploySource
    \/ \E n \in Numbers(app.releases) : Rollback(n)

---------------------------------------------------------------------------
(* The cluster around the controller.                                       *)

\* The watch delivers the newest App (or env Secret) and queues the App.
SyncApp ==
    /\ cached # app
    /\ cached' = app
    /\ queued' = TRUE
    /\ UNCHANGED <<app, env, cachedEnv, snaps, deleted, build, deployed, job, budget>>

\* Mutant: the env Secret is not watched.
SyncEnvUnwatched ==
    /\ cachedEnv # env
    /\ cachedEnv' = env
    /\ UNCHANGED <<app, cached, env, snaps, deleted, build, deployed, job, queued, budget>>

SyncEnv ==
    /\ cachedEnv # env
    /\ cachedEnv' = env
    /\ queued' = TRUE
    /\ UNCHANGED <<app, cached, env, snaps, deleted, build, deployed, job, budget>>

\* A build pushes its image, or fails.  Digests are content addressed: a
\* build may produce an image that exists, or bring a deleted one back.
BuildDone(i) ==
    /\ build.source > 0 /\ build.ready = "Unknown"
    /\ build' = [build EXCEPT !.ready = "True", !.image = i]
    /\ deleted' = deleted \ {i}
    /\ queued' = TRUE
    /\ UNCHANGED <<app, cached, env, cachedEnv, snaps, deployed, job, budget>>

BuildFails ==
    /\ build.source > 0 /\ build.ready = "Unknown"
    /\ Spend
    /\ build' = [build EXCEPT !.ready = "False"]
    /\ queued' = TRUE
    /\ UNCHANGED <<app, cached, env, cachedEnv, snaps, deleted, deployed, job>>

\* The Deployment controller finishes a rollout, or its new instances fail.
RolloutDone ==
    /\ deployed.rollout = "progressing"
    /\ deployed' = [deployed EXCEPT !.rollout = "ready"]
    /\ queued' = TRUE
    /\ UNCHANGED <<app, cached, env, cachedEnv, snaps, deleted, build, job, budget>>

RolloutFails ==
    /\ deployed.rollout = "progressing"
    /\ Spend
    /\ deployed' = [deployed EXCEPT !.rollout = "failing"]
    /\ queued' = TRUE
    /\ UNCHANGED <<app, cached, env, cachedEnv, snaps, deleted, build, job>>

Cluster ==
    \/ SyncApp
    \/ SyncEnv
    \/ \E i \in Images : BuildDone(i)
    \/ BuildFails
    \/ RolloutDone
    \/ RolloutFails

---------------------------------------------------------------------------
(* Reconcile.                                                               *)

At(pc) == job.pc = pc
\* reconcile returns: what is left of the job is the App to patch.
ToPatch(a, requeue, clear) ==
    job' = [NoJob EXCEPT !.pc = "patch", !.app = a, !.requeue = requeue, !.clear = clear]

\* Reconcile's error path: the App as changed in memory so far is patched
\* with phase Failed and retried after 30 s.
FailTo(a) == ToPatch([a EXCEPT !.phase = "Failed"], TRUE, FALSE)

\* Mutant: a failed reconcile is forgotten.
RetryForgets == job' = NoJob /\ queued' = queued

\* A conflict, or a failing status patch: drop everything and start again.
Retry == job' = NoJob /\ queued' = TRUE

\* Reconcile begins with the cached App.
Begin ==
    /\ At("idle") /\ queued
    /\ queued' = FALSE
    /\ job' = [NoJob EXCEPT !.pc = "config", !.app = cached]
    /\ UNCHANGED <<app, cached, env, cachedEnv, snaps, deleted, build, deployed, budget>>

\* restoreRelease for a requested rollback whose snapshot exists: the live
\* Secret is overwritten with it (refused when the cached copy is stale).
RestoreConfig ==
    /\ At("config")
    /\ job.app.rollbackTo > 0
    /\ \E s \in snaps :
         /\ s.num = job.app.rollbackTo
         /\ IF s.config # cachedEnv.config /\ cachedEnv # env
              THEN Retry /\ env' = env
              ELSE /\ IF s.config = cachedEnv.config THEN env' = env ELSE WriteEnv(s.config)
                   /\ job' = [job EXCEPT !.pc = "build", !.config = s.config]
                   /\ queued' = queued
    /\ UNCHANGED <<app, cached, cachedEnv, snaps, deleted, build, deployed, budget>>

\* No rollback asked for, or no snapshot of that release: the cached Secret.
ReadConfig ==
    /\ At("config")
    /\ ~ \E s \in snaps : s.num = job.app.rollbackTo
    /\ job' = [job EXCEPT !.pc = "build", !.config = cachedEnv.config]
    /\ UNCHANGED <<app, cached, env, cachedEnv, snaps, deleted, build, deployed, queued, budget>>

\* Before and after the config vars are known a call fails, or conflicts; or
\* an attached resource is not ready, which waits (phase Pending).
ConfigFails ==
    /\ job.pc \in {"config", "build"}
    /\ Spend
    /\ \/ FailTo(job.app) /\ queued' = queued
       \/ Retry
       \/ /\ At("build")
          /\ ToPatch([job.app EXCEPT !.phase = "Pending"], TRUE, FALSE)
          /\ queued' = queued
    /\ UNCHANGED <<app, cached, env, cachedEnv, snaps, deleted, build, deployed>>

\* Mutant: the builder's image wins over a pinned one.
ReadBuildWins ==
    /\ At("build")
    /\ build' = IF job.app.source \in {0, build.source} THEN build
                ELSE [build EXCEPT !.source = job.app.source, !.ready = "Unknown"]
    /\ job' = [job EXCEPT !.pc = "workloads",
                 !.ready = IF job.app.source = 0 THEN "Unknown" ELSE build'.ready,
                 !.image = IF build.image # NoImage THEN build.image ELSE job.app.pin]
    /\ UNCHANGED <<app, cached, env, cachedEnv, snaps, deleted, deployed, queued, budget>>

\* reconcileDockerfileBuild / reconcileKpackImage: a source the latest build
\* is not about starts a build; either way the builder's newest image and the
\* state of its latest build come back.  A pinned image wins over the builder.
ReadBuild ==
    /\ At("build")
    /\ build' = IF job.app.source \in {0, build.source} THEN build
                ELSE [build EXCEPT !.source = job.app.source, !.ready = "Unknown"]
    /\ job' = [job EXCEPT !.pc = "workloads",
                 !.ready = IF job.app.source = 0 THEN "Unknown" ELSE build'.ready,
                 !.image = IF job.app.pin # NoImage THEN job.app.pin
                           ELSE IF job.app.source = 0 THEN NoImage ELSE build.image]
    /\ UNCHANGED <<app, cached, env, cachedEnv, snaps, deleted, deployed, queued, budget>>

\* Nothing to run yet: no release, straight to the status.
NothingToRun ==
    /\ At("workloads") /\ job.image = NoImage
    /\ LET phase == IF job.app.source = 0 THEN "Pending"
                    ELSE IF job.ready = "False" THEN "Failed" ELSE "Building"
       IN  ToPatch([job.app EXCEPT !.phase = phase], phase = "Building", FALSE)
    /\ UNCHANGED <<app, cached, env, cachedEnv, snaps, deleted, build, deployed, queued, budget>>

\* reconcileWorkloads: the Deployments get the image and the config hash; a
\* change starts a rollout.
Workloads ==
    /\ At("workloads") /\ job.image # NoImage
    /\ deployed' = IF deployed.image = job.image /\ deployed.config = job.config
                     THEN deployed
                     ELSE [image |-> job.image, config |-> job.config, rollout |-> "progressing"]
    /\ job' = [job EXCEPT !.pc = "release", !.rollout = deployed'.rollout]
    /\ UNCHANGED <<app, cached, env, cachedEnv, snaps, deleted, build, queued, budget>>

\* The Deployment write fails; a conflict is not an app failure.
WorkloadsFail ==
    /\ At("workloads") /\ job.image # NoImage
    /\ Spend
    /\ \/ FailTo(job.app) /\ queued' = queued
       \/ Retry
    /\ UNCHANGED <<app, cached, env, cachedEnv, snaps, deleted, build, deployed>>

\* recordRelease in memory: the job's App with the new release.
Recorded ==
    LET kept == Appended(job.app.releases, job.image, job.config)
    IN  [job.app EXCEPT !.releases = kept, !.stale = @ \cup Unreferenced(job.app.releases, kept)]

Unchanged == SameRelease(job.app.releases, job.image, job.config)

\* A new release: recorded in memory, its config vars copied to the snapshot
\* Secret (whatever it held), snapshots of dropped releases deleted
\* (those it can: a failing deletion is only logged).
RecordRelease ==
    /\ At("release") /\ ~Unchanged
    /\ LET new == Current(Recorded.releases)
           dropped == {s \in snaps : s.num \notin Numbers(Recorded.releases)}
       IN  \E left \in SUBSET dropped :
             /\ IF left = {} THEN budget' = budget ELSE Spend
             /\ snaps' = {s \in snaps \ dropped : s.num # new.num} \cup left
                            \cup {[num |-> new.num, config |-> job.config]}
    /\ job' = [job EXCEPT !.app = Recorded, !.pc = "prune"]
    /\ UNCHANGED <<app, cached, env, cachedEnv, deleted, build, deployed, queued>>

\* snapshotRelease fails: the release stays in the App being patched.
SnapshotFails ==
    /\ At("release") /\ ~Unchanged
    /\ Spend
    /\ FailTo(Recorded)
    /\ UNCHANGED <<app, cached, env, cachedEnv, snaps, deleted, build, deployed, queued>>

NoNewRelease ==
    /\ At("release") /\ Unchanged
    /\ job' = [job EXCEPT !.pc = "prune"]
    /\ UNCHANGED <<app, cached, env, cachedEnv, snaps, deleted, build, deployed, queued, budget>>

\* The phase of an App that runs something, and whether it is polled.
PhaseNow ==
    LET fromSource == job.app.source > 0 /\ job.app.pin = NoImage
    IN  IF job.rollout = "failing" \/ (fromSource /\ job.ready = "False") THEN "Failed"
        ELSE IF fromSource /\ job.ready = "Unknown" THEN "Building"
        ELSE IF job.rollout = "ready" THEN "Running" ELSE "Deploying"

\* The one-shot rollback request is consumed unless its build still runs.
ConsumesNote ==
    /\ job.app.rollbackTo > 0
    /\ job.app.source = 0 \/ job.app.pin # NoImage \/ job.ready = "True"

\* pruneImages: the manifests of stale images are deleted; those that cannot
\* be stay listed.  Then the rest of reconcile: note and phase.
PruneImages ==
    /\ At("prune")
    /\ \E kept \in SUBSET job.app.stale :
         /\ IF kept = {} THEN budget' = budget ELSE Spend
         /\ deleted' = deleted \cup (job.app.stale \ kept)
         /\ ToPatch([job.app EXCEPT !.stale = kept, !.phase = PhaseNow],
                    job.rollout = "failing" \/ PhaseNow \in {"Building", "Deploying"},
                    ConsumesNote)
    /\ UNCHANGED <<app, cached, env, cachedEnv, snaps, build, deployed, queued>>

\* Mutant: the status is patched without a lock.
PatchStatusUnlocked ==
    /\ At("patch")
    /\ Write([app EXCEPT !.releases = job.app.releases, !.stale = job.app.stale,
                         !.phase = job.app.phase, !.observed = job.app.gen])
    /\ queued' = (queued \/ job.requeue)
    /\ job' = IF job.clear THEN [NoJob EXCEPT !.pc = "clear"] ELSE NoJob
    /\ UNCHANGED <<cached, env, cachedEnv, snaps, deleted, build, deployed, budget>>

\* Status().Patch with the resourceVersion the reconcile began from.
PatchStatus ==
    /\ At("patch")
    /\ IF job.app.rv # app.rv
         THEN Retry /\ app' = app
         ELSE /\ Write([app EXCEPT !.releases = job.app.releases, !.stale = job.app.stale,
                                   !.phase = job.app.phase, !.observed = job.app.gen])
              /\ queued' = (queued \/ job.requeue)
              /\ job' = IF job.clear THEN [NoJob EXCEPT !.pc = "clear"] ELSE NoJob
    /\ UNCHANGED <<cached, env, cachedEnv, snaps, deleted, build, deployed, budget>>

\* The status patch fails otherwise: the error is returned and retried.
PatchFails ==
    /\ At("patch")
    /\ Spend
    /\ Retry
    /\ UNCHANGED <<app, cached, env, cachedEnv, snaps, deleted, build, deployed>>

\* clearReleaseNote: a merge patch with no resourceVersion removes the
\* annotations; its failure is only logged.
ClearNote ==
    /\ At("clear")
    /\ Write([app EXCEPT !.rollbackTo = 0])
    /\ job' = NoJob
    /\ UNCHANGED <<cached, env, cachedEnv, snaps, deleted, build, deployed, queued, budget>>

ClearNoteFails ==
    /\ At("clear")
    /\ Spend
    /\ job' = NoJob
    /\ UNCHANGED <<app, cached, env, cachedEnv, snaps, deleted, build, deployed, queued>>

\* The process dies, or loses leadership: the next leader lists everything
\* and queues every App.
Crash ==
    /\ ~At("idle")
    /\ Spend
    /\ cached' = app
    /\ cachedEnv' = env
    /\ Retry
    /\ UNCHANGED <<app, env, snaps, deleted, build, deployed>>

Reconcile ==
    \/ Begin \/ RestoreConfig \/ ReadConfig \/ ReadBuild \/ NothingToRun
    \/ Workloads \/ RecordRelease \/ NoNewRelease \/ PruneImages \/ PatchStatus \/ ClearNote

Failure ==
    \/ ConfigFails \/ WorkloadsFail \/ SnapshotFails \/ PatchFails \/ ClearNoteFails \/ Crash

Next == User \/ Cluster \/ Reconcile \/ Failure

\* The controller, the watches, the builder and the Deployment controller
\* keep working; users and failures are not owed.
Fairness ==
    /\ WF_vars(Reconcile)
    /\ WF_vars(SyncApp)
    /\ WF_vars(SyncEnv)
    /\ WF_vars(BuildFails \/ \E i \in Images : BuildDone(i))
    /\ WF_vars(RolloutFails \/ RolloutDone)

Spec == Init /\ [][Next]_vars
FairSpec == Spec /\ Fairness

---------------------------------------------------------------------------
(* Properties.                                                              *)

TypeOK ==
    /\ app \in App
    /\ cached \in App
    /\ env \in Secret
    /\ cachedEnv \in Secret
    /\ snaps \subseteq [num : Nat \ {0}, config : Configs]
    /\ deleted \subseteq Images
    /\ build \in [source : Nat, ready : Readiness, image : Images \cup {NoImage}]
    /\ deployed \in [image : Images \cup {NoImage}, config : Configs, rollout : Rollouts]
    /\ job \in Job
    /\ queued \in BOOLEAN
    /\ budget \in 0..Budget

\* The optimistic lock is worth what it says (app_controller.go:180-184): a
\* cached App, and a reconcile, whose resourceVersion is still the newest work
\* from the newest App, whatever was written meanwhile.
LockSound ==
    /\ cached.rv <= app.rv
    /\ cached.rv = app.rv => cached = app
    /\ job.pc \notin {"idle", "clear"} /\ job.app.rv = app.rv =>
         /\ job.app.pin = app.pin /\ job.app.source = app.source /\ job.app.gen = app.gen
         /\ Extends(job.app.releases, app.releases)

\* A history is a run of consecutive release numbers, within maxReleases, and
\* no release repeats the one before it.
WellFormed(rels) ==
    /\ Len(rels) <= MaxReleases
    /\ \A i \in 1..(Len(rels) - 1) :
         /\ rels[i + 1].num = rels[i].num + 1
         /\ <<rels[i].image, rels[i].config>> # <<rels[i + 1].image, rels[i + 1].config>>

\* However reconciles race and fail, one change of image or config vars is one
\* release: none is recorded twice and no number is skipped or used again.
HistoryWellFormed == WellFormed(app.releases)

\* Nothing ever rewrites the durable history: not a reconcile that began from
\* a stale cache, not a crash, not a failed patch.  A step leaves it alone or
\* appends one release with the next number, dropping only the oldest.
HistoryAppendOnly == [][Extends(app'.releases, app.releases)]_vars

\* The history as a log, whose entries differ from all before them in number.
Log == INSTANCE ReleaseLog
           WITH pin <- app.pin, log <- {app.releases[i] : i \in 1..Len(app.releases)}

(***************************************************************************)
(* A release takes effect at one instant, the status patch that makes it   *)
(* durable (app_controller.go:160-193): whatever was read earlier from     *)
(* which cache, and however many reconciles failed on the way, it has the  *)
(* image the App pins at that instant, the next number, and differs from   *)
(* the release before it.                                                  *)
(***************************************************************************)
ImplementsLog == Log!Spec

\* A client that sees phase Running at the App's own generation sees the
\* truth: the image it pinned is the current release.
RunningIsReleased ==
    app.phase = "Running" /\ app.observed = app.gen /\ app.pin # NoImage
        => Current(app.releases).image = app.pin

\* The controller has nothing left to do: no key queued, caches current.
Quiescent ==
    /\ At("idle") /\ ~queued
    /\ cached = app /\ cachedEnv = env

\* What the App asks to run.
Wanted == IF app.pin # NoImage THEN app.pin
          ELSE IF app.source = 0 THEN NoImage ELSE build.image

\* A controller with nothing left to do has done it all: no event was lost,
\* whatever raced the last reconcile.  The current release is what the App
\* asks for with the config vars of the live Secret, and it is deployed.
QuiescentIsCurrent ==
    Quiescent /\ Wanted # NoImage =>
        /\ SameRelease(app.releases, Wanted, env.config)
        /\ deployed.image = Wanted /\ deployed.config = env.config
        /\ app.observed = app.gen

\* Once users and failures stop, the App settles: on what it asks for,
\* released and deployed, in a phase that is not polled, so that a rollback
\* is not refused for ever as "still rolling out".
Settled ==
    /\ ~RolloutInProgress(app)
    /\ Wanted # NoImage =>
         /\ SameRelease(app.releases, Wanted, env.config)
         /\ deployed.image = Wanted /\ deployed.config = env.config
EventuallySettled == <>[]Settled

=============================================================================
