------------------------------- MODULE Deploy ------------------------------
(***************************************************************************)
(* `shpyrd deploy`, `rollback` and `redeploy` (internal/cli/deploy.go,     *)
(* appcmds.go, appclient.go): commands that write the App and then watch   *)
(* it, and the instances they wait for: the Deployments the controller     *)
(* renders (reconcileWorkloads, mutateDeployment) and the phase it makes   *)
(* of them (status.go).                                                    *)
(*                                                                         *)
(* A command reads the App, writes it later, finds a build by comparing    *)
(* names, follows that build's pod, and polls the status until the         *)
(* generation it wrote is observed.  Other people write the App meanwhile. *)
(*                                                                         *)
(* A reconcile is one step here: AppRelease and Builds take it apart.  It  *)
(* reads the App and the Deployments from caches, writes Deployments under *)
(* the version it read and the status under the App's.  Config vars are    *)
(* left out: a release is an image and a set of processes.                 *)
(***************************************************************************)
EXTENDS Naturals, Sequences, FiniteSetsExt, SequencesExt

CONSTANTS
    Processes,   \* 1..n, in the order of their names
    Single,      \* the processes with a single-instance volume
    Layouts,     \* bound: the sets of processes shpyrd.yaml declares
    Archives,    \* the sources
    Pins,        \* prebuilt images
    Strategies,  \* build strategies
    Pasts,       \* bound: what was released before: a source and a pinned image, or none
    MaxTrouble,  \* bound: writes of others, failing builds and instances, errors of a command
    Nothing

ASSUME DeployAssumption ==
    /\ 1 \in Processes /\ Single \subseteq Processes /\ Layouts \subseteq (SUBSET Processes) \ {{}}
    /\ Strategies \subseteq {"dockerfile", "buildpacks"}
    /\ Pasts \subseteq [source : Archives \cup {Nothing}, pin : Pins \cup {Nothing}]
    /\ Nothing \notin Archives \cup Pins
    /\ Nothing \notin [image : Pins \cup (Archives \X Nat), layout : SUBSET Processes]
    /\ MaxTrouble \in Nat

VARIABLES
    spec,      \* the App: generation, source, pinned image, rebuild request, processes
    status,    \* its status
    copy,      \* the App in the controller's cache: spec and status
    latest,    \* whether that is the newest version
    strategy,  \* the build strategy of the App
    made,      \* the builds, oldest first
    pack,      \* the kpack Image
    work,      \* the Deployments and their instances
    workSeen,  \* the Deployments in the cache
    wake,      \* the App is in the work queue
    command,   \* the command under way
    writes, mishaps

deployVars == <<spec, status, copy, latest, strategy, made, pack, work, workSeen,
                wake, command, writes, mishaps>>

NoCommand == [pc |-> "none"]
Ended(how) == [pc |-> how]
Working == {"write", "build", "follow", "running"}

\* An App that is settled: new, or running a source or a pinned image.
Settled(past) ==
    LET image == IF past.pin # Nothing THEN past.pin ELSE <<past.source, 0>>
        released == (IF past.source = Nothing THEN <<>> ELSE <<[image |-> <<past.source, 0>>, layout |-> {1}]>>)
                    \o (IF past.pin = Nothing THEN <<>> ELSE <<[image |-> past.pin, layout |-> {1}]>>)
        new == released = <<>>
    IN  /\ spec = [gen |-> 1, source |-> past.source, pin |-> past.pin, rebuild |-> 0, layout |-> {1}]
        /\ made = IF past.source = Nothing THEN <<>>
                  ELSE <<[source |-> past.source, rebuild |-> 0, state |-> "done"]>>
        /\ status = [observed |-> 1, phase |-> IF new THEN "Pending" ELSE "Running",
                     build |-> Len(made), releases |-> released]
        /\ pack = [source |-> IF strategy = "buildpacks" THEN past.source ELSE Nothing,
                   asked |-> 0, again |-> FALSE,
                   ref |-> IF strategy = "buildpacks" THEN Len(made) ELSE 0]
        /\ work = [p \in Processes |->
                    IF new \/ p # 1 THEN Nothing
                    ELSE [image |-> image, observed |-> TRUE, new |-> "ready", old |-> FALSE]]

DeployInit ==
    /\ strategy \in Strategies
    /\ \E past \in Pasts : Settled(past)
    /\ copy = [spec |-> spec, status |-> status] /\ latest = TRUE
    /\ workSeen = work
    /\ wake = FALSE
    /\ command = NoCommand
    /\ writes = 0 /\ mishaps = 0

Controller == <<status, copy, strategy, made, pack, work, workSeen, wake>>
Mishap == writes + mishaps < MaxTrouble /\ mishaps' = mishaps + 1 /\ UNCHANGED writes
NoMishap == UNCHANGED <<writes, mishaps>>

CurrentOf(releases) == IF releases = <<>> THEN Nothing ELSE Last(releases)
----------------------------------------------------------------------------
(***************************************************************************)
(* Writes of the App.  A change of the spec is a new generation; the       *)
(* annotations of a rebuild are none.                                      *)
(***************************************************************************)
Written(new) == IF new.source = spec.source /\ new.pin = spec.pin /\ new.layout = spec.layout
                THEN new ELSE [new EXCEPT !.gen = @ + 1]

WriteApp(new) ==
    /\ spec' = Written(new)
    /\ latest' = FALSE
    /\ UNCHANGED <<Controller, mishaps>>

\* deployApp and redeployApp for someone else, who came first.  (A command
\* somebody else's write comes between is promised nothing: it is left out.)
Other ==
    /\ command = NoCommand
    /\ writes + mishaps < MaxTrouble /\ writes' = writes + 1
    /\ \/ \E s \in Archives : WriteApp([spec EXCEPT !.source = s, !.pin = Nothing])
       \/ \E i \in Pins : WriteApp([spec EXCEPT !.pin = i])
       \/ spec.source # Nothing /\ spec.pin = Nothing /\ WriteApp([spec EXCEPT !.rebuild = @ + 1])
    /\ UNCHANGED command
----------------------------------------------------------------------------
(***************************************************************************)
(* The commands.                                                           *)
(***************************************************************************)
RollingOut == status.observed < spec.gen \/ status.phase \in {"Deploying", "Building"}

\* The command reads the App: what was built and released before.
Starts(kind, source, pin, layout) ==
    /\ command = NoCommand
    /\ command' = [pc |-> "write", kind |-> kind, source |-> source, pin |-> pin,
                   layout |-> layout, before |-> spec.source, build |-> status.build,
                   settled |-> ~RollingOut, gen |-> 0]
    /\ NoMishap
    /\ UNCHANGED <<spec, latest, Controller>>

\* deploy from the directory, with --git, or with --image.
StartDeploy ==
    \E layout \in Layouts :
        \/ \E s \in Archives : Starts("source", s, Nothing, layout)
        \/ \E i \in Pins : Starts("image", spec.source, i, layout)

\* rollback: without --force only when nothing is rolling out.
StartRollback ==
    /\ ~RollingOut
    /\ \E k \in 1 .. Len(status.releases) - 1 :
          Starts("rollback", spec.source, status.releases[k].image, spec.layout)

\* redeploy: after a failed build, or with --rebuild.
StartRebuild ==
    /\ spec.source # Nothing /\ spec.pin = Nothing
    /\ Starts("rebuild", spec.source, Nothing, spec.layout)

\* updateApp: the newest App with the command's change, whatever it has become.
Changed ==
    CASE command.kind = "source" ->
            [spec EXCEPT !.source = command.source, !.pin = Nothing, !.layout = command.layout]
      [] command.kind = "image" -> [spec EXCEPT !.pin = command.pin, !.layout = command.layout]
      [] command.kind = "rollback" -> [spec EXCEPT !.pin = command.pin]
      [] command.kind = "rebuild" -> [spec EXCEPT !.rebuild = @ + 1]

\* Mutant: a build is expected of every deploy from source.
SourceChangedAlways == TRUE

\* sameSource: a build is expected when there was none, or of something else.
SourceChanged == command.build = 0 \/ command.before # command.source

WriteCommand ==
    /\ command.pc = "write"
    /\ WriteApp(Changed) /\ UNCHANGED writes
    /\ command' = [command EXCEPT
                     !.gen = spec'.gen,
                     !.pc = IF \/ command.kind = "source" /\ SourceChanged
                               \/ command.kind = "rebuild"
                            THEN "build" ELSE "running"]

\* A build other than the one before; a rebuild also looks at kpack's Builds.
NewBuilds ==
    ({status.build} \cup IF command.kind = "rebuild" /\ strategy = "buildpacks"
                         THEN {Len(made)} ELSE {}) \ {0, command.build}

\* waitForBuild, waitForNewBuild.
FindsBuild ==
    /\ command.pc = "build"
    /\ \E b \in NewBuilds : command' = [command EXCEPT !.pc = "follow", !.build = b]
    /\ NoMishap
    /\ UNCHANGED <<spec, latest, Controller>>

\* waitForBuild gives up on an App that failed at its generation.
FindsNone ==
    /\ command.pc = "build" /\ command.kind = "source" /\ NewBuilds = {}
    /\ status.phase = "Failed" /\ status.observed >= spec.gen
    /\ command' = Ended("failed")
    /\ NoMishap
    /\ UNCHANGED <<spec, latest, Controller>>

\* followBuild: the steps of the build's pod, to the end of the last.
FollowsBuild ==
    /\ command.pc = "follow" /\ made[command.build].state # "running"
    /\ command' = IF made[command.build].state = "done" THEN [command EXCEPT !.pc = "running"]
                  ELSE Ended("failed")
    /\ NoMishap
    /\ UNCHANGED <<spec, latest, Controller>>

\* Mutant: the status is taken for that of the generation written.
ObservedAny == TRUE

\* The status is of the generation the command wrote.
Observed == status.observed >= command.gen

\* waitRunning.
Waits ==
    /\ command.pc = "running" /\ Observed
    /\ status.phase \in {"Running", "Failed"}
    /\ command' = Ended(IF status.phase = "Running" THEN "released" ELSE "failed")
    /\ NoMishap
    /\ UNCHANGED <<spec, latest, Controller>>

\* A read fails, or a wait takes too long.
CommandFails ==
    /\ command.pc \in Working
    /\ Mishap
    /\ command' = Ended("failed")
    /\ UNCHANGED <<spec, latest, Controller>>

Command ==
    StartDeploy \/ StartRollback \/ StartRebuild \/ WriteCommand \/ FindsBuild \/ FindsNone
    \/ FollowsBuild \/ Waits
----------------------------------------------------------------------------
(***************************************************************************)
(* The builds.  A Job is made by the reconcile; kpack makes its Builds     *)
(* itself, and names the newest at once unless it was asked for again.     *)
(***************************************************************************)
NewestBuild == IF made = <<>> THEN [source |-> Nothing, rebuild |-> 0, state |-> "none"]
               ELSE Last(made)
Build(source, rebuild) == [source |-> source, rebuild |-> rebuild, state |-> "running"]
ImageOf(b) == <<b.source, b.rebuild>>

\* The image of the newest build that was done.
NewestImage(bs) ==
    LET done == {k \in DOMAIN bs : bs[k].state = "done"}
    IN  IF done = {} THEN Nothing ELSE ImageOf(bs[Max(done)])

\* Jobs and kpack Image after the reconcile of a.
JobMade(a) ==
    strategy = "dockerfile" /\ a.source # Nothing
    /\ <<NewestBuild.source, NewestBuild.rebuild>> # <<a.source, a.rebuild>>
PackOf(a) ==
    IF strategy = "buildpacks" /\ a.source # Nothing
    THEN [pack EXCEPT !.source = a.source, !.asked = a.rebuild,
                      !.again = @ \/ (pack.asked # a.rebuild /\ made # <<>>)]
    ELSE pack

\* buildState: the build the status names, how it stands, the image there is.
BuildOf(a, bs, p) ==
    LET newest == IF bs = <<>> THEN NewestBuild ELSE Last(bs)
        behind == strategy = "buildpacks" /\ newest.source # p.source
        is == IF newest.state \in {"none", "running"} \/ behind THEN "Unknown"
              ELSE IF newest.state = "done" THEN "True" ELSE "False"
    IN  IF a.source = Nothing THEN [build |-> 0, ready |-> "Unknown", image |-> Nothing]
        ELSE [build |-> IF strategy = "dockerfile" THEN Len(bs) ELSE p.ref,
              ready |-> is, image |-> NewestImage(bs)]

\* External: kpack begins a Build.
PackBuilds ==
    /\ pack.source # Nothing /\ NewestBuild.state # "running"
    /\ NewestBuild.source # pack.source \/ pack.again
    /\ made' = Append(made, Build(pack.source, pack.asked))
    /\ pack' = [pack EXCEPT !.again = FALSE,
                            !.ref = IF pack.again THEN @ ELSE Len(made) + 1]
    /\ wake' = TRUE
    /\ NoMishap
    /\ UNCHANGED <<spec, status, copy, latest, strategy, work, workSeen, command>>

\* External: the newest build ends; older ones went on and are no one's any more.
BuildEnds ==
    /\ NewestBuild.state = "running"
    /\ \/ made' = [made EXCEPT ![Len(made)].state = "done"] /\ NoMishap
       \/ made' = [made EXCEPT ![Len(made)].state = "failed"] /\ Mishap
    /\ pack' = [pack EXCEPT !.ref = IF strategy = "buildpacks" THEN Len(made) ELSE @]
    /\ wake' = TRUE
    /\ UNCHANGED <<spec, status, copy, latest, strategy, work, workSeen, command>>

\* External: a Job that is not the newest ends too.
OldBuildEnds ==
    \E k \in 1 .. Len(made) - 1 :
        /\ made[k].state = "running"
        /\ made' = [made EXCEPT ![k].state = "done"]
        /\ wake' = TRUE
        /\ NoMishap
        /\ UNCHANGED <<spec, status, copy, latest, strategy, pack, work, workSeen, command>>
----------------------------------------------------------------------------
(***************************************************************************)
(* The Deployments: one instance of the newest template, and before it is  *)
(* ready one of the template before.                                       *)
(***************************************************************************)
\* mutateDeployment: the template for an image; rolloutStrategy decides what
\* becomes of the instance there is.
Rendered(p, image) ==
    LET d == work[p]
    IN  IF d = Nothing THEN [image |-> image, observed |-> FALSE, new |-> "none", old |-> FALSE]
        ELSE [image |-> image, observed |-> FALSE, new |-> "none",
              old |-> d.new = "ready" \/ d.old]

\* ProcessStatus of a Deployment as the cache has it: instances on the newest
\* template, and ready ones, of whatever template.
UpdatedOf(d) == IF d.observed /\ d.new # "none" THEN 1 ELSE 0
ReadyOf(d) == IF ~d.observed THEN 0
              ELSE (IF d.new = "ready" THEN 1 ELSE 0) + (IF d.old THEN 1 ELSE 0)

\* summarizeProcesses, for the one instance a process has.
Summary(ds) == \A p \in DOMAIN ds : UpdatedOf(ds[p]) >= 1 /\ ReadyOf(ds[p]) >= 1

\* processHealth: instances that do not start.
FailingIn(ds) == \E p \in DOMAIN ds : ds[p].new = "failing"

\* External: the Deployment controller takes a template up.
TakesUp(p) ==
    /\ work[p] # Nothing
    /\ \/ /\ ~work[p].observed
          /\ work' = [work EXCEPT ![p] = IF p \in Single
                        THEN [@ EXCEPT !.observed = TRUE, !.old = FALSE]
                        ELSE [@ EXCEPT !.observed = TRUE, !.new = "starting"]]
       \/ /\ work[p].observed /\ work[p].new = "none"
          /\ work' = [work EXCEPT ![p].new = "starting"]
    /\ NoMishap
    /\ UNCHANGED <<spec, status, copy, latest, strategy, made, pack, workSeen, wake, command>>

\* External: an instance is ready and its predecessor goes, or it does not start.
InstanceStarts(p) ==
    /\ work[p] # Nothing /\ work[p].new = "starting"
    /\ \/ work' = [work EXCEPT ![p].new = "ready", ![p].old = FALSE] /\ NoMishap
       \/ work' = [work EXCEPT ![p].new = "failing"] /\ Mishap
    /\ UNCHANGED <<spec, status, copy, latest, strategy, made, pack, workSeen, wake, command>>
----------------------------------------------------------------------------
(***************************************************************************)
(* The controller.                                                         *)
(***************************************************************************)
CopyApp ==
    /\ ~latest
    /\ copy' = [spec |-> spec, status |-> status] /\ latest' = TRUE /\ wake' = TRUE
    /\ NoMishap
    /\ UNCHANGED <<spec, status, strategy, made, pack, work, workSeen, command>>

CopyWork ==
    /\ workSeen # work
    /\ workSeen' = work /\ wake' = TRUE
    /\ NoMishap
    /\ UNCHANGED <<spec, status, copy, latest, strategy, made, pack, work, command>>

\* A process whose Deployment is not as the cache should have it.
Outdated(a, image) ==
    {p \in a.layout : workSeen[p] = Nothing \/ (workSeen[p] # Nothing /\ workSeen[p].image # image)}

\* reconcileWorkloads: the Deployments in turn up to the first conflict, then
\* those of processes that were dropped.
Conflict(a, image) == {p \in Outdated(a, image) : workSeen[p] # work[p]}
WorkOf(a, image) ==
    LET all == Conflict(a, image) = {}
        reached(p) == \A q \in Conflict(a, image) : p < q
    IN  [p \in Processes |->
           CASE p \in Outdated(a, image) /\ reached(p) -> Rendered(p, image)
             [] all /\ p \notin a.layout -> Nothing
             [] OTHER -> work[p]]

\* recordRelease.
ReleasesWith(releases, a, image) ==
    IF CurrentOf(releases) # Nothing /\ CurrentOf(releases).image = image
       /\ CurrentOf(releases).layout = a.layout
    THEN releases
    ELSE Append(releases, [image |-> image, layout |-> a.layout])

PhaseOf(a, b, ds) ==
    LET fromSource == a.source # Nothing /\ a.pin = Nothing
        failed == (FailingIn(ds) /\ ~Summary(ds)) \/ (fromSource /\ b.ready = "False")
    IN  IF failed THEN "Failed"
        ELSE IF fromSource /\ b.ready = "Unknown" THEN "Building"
        ELSE IF ~Summary(ds) THEN "Deploying" ELSE "Running"

\* The status of an App that runs nothing yet.
PhaseWithout(a, b) ==
    IF a.source = Nothing THEN "Pending" ELSE IF b.ready = "False" THEN "Failed" ELSE "Building"

\* The patch, refused when the App was written since it was read.
Patched(new) ==
    /\ status' = IF latest THEN new ELSE status
    /\ latest' = (latest /\ status' = status)
    /\ wake' = ~latest

ReconcileDeploy ==
    LET a == copy.spec
        b == BuildOf(a, made', pack')
        image == IF a.pin # Nothing THEN a.pin ELSE b.image
        base == [copy.status EXCEPT !.observed = a.gen, !.build = b.build]
        ds == [p \in a.layout |-> IF p \in Outdated(a, image) THEN work'[p] ELSE workSeen[p]]
    IN  /\ wake
        /\ made' = IF JobMade(a) THEN Append(made, Build(a.source, a.rebuild)) ELSE made
        /\ pack' = PackOf(a)
        /\ \/ /\ image = Nothing
              /\ Patched([base EXCEPT !.phase = PhaseWithout(a, b)])
              /\ UNCHANGED work
           \/ /\ image # Nothing /\ Conflict(a, image) # {}
              /\ work' = WorkOf(a, image)
              /\ wake' = TRUE
              /\ UNCHANGED <<status, latest>>
           \/ /\ image # Nothing /\ Conflict(a, image) = {}
              /\ work' = WorkOf(a, image)
              /\ Patched([base EXCEPT !.phase = PhaseOf(a, b, ds),
                                      !.releases = ReleasesWith(@, a, image)])
        /\ NoMishap
        /\ UNCHANGED <<spec, copy, strategy, workSeen, command>>
----------------------------------------------------------------------------
\* Bound: what happens after the command is not looked at.
DeployNext ==
    /\ command.pc \in Working \cup {"none"}
    /\ \/ Other \/ Command \/ CommandFails
       \/ PackBuilds \/ BuildEnds \/ OldBuildEnds
       \/ \E p \in Processes : TakesUp(p) \/ InstanceStarts(p)
       \/ CopyApp \/ CopyWork \/ ReconcileDeploy

DeploySpec == DeployInit /\ [][DeployNext]_deployVars

\* Commands poll, caches follow, builds end, Deployments are taken up.
DeployFairness ==
    /\ WF_deployVars(WriteCommand \/ FindsBuild \/ FindsNone \/ FollowsBuild \/ Waits)
    /\ WF_deployVars(PackBuilds) /\ WF_deployVars(BuildEnds) /\ WF_deployVars(OldBuildEnds)
    /\ \A p \in Processes : WF_deployVars(TakesUp(p)) /\ WF_deployVars(InstanceStarts(p))
    /\ WF_deployVars(CopyApp) /\ WF_deployVars(CopyWork) /\ WF_deployVars(ReconcileDeploy)
----------------------------------------------------------------------------
(***************************************************************************)
(* A command that says "Released" says it of its own change: the current   *)
(* release is then of the source or image and the processes it put there,  *)
(* not the release from before that was Running while the controller, its  *)
(* caches and the build were behind (waitForBuild, waitRunning).  A        *)
(* rebuild makes no generation and is not promised this.                   *)
(***************************************************************************)
ToldOfItsOwn ==
    [][command.pc = "running" /\ command'.pc = "released" /\ command.kind # "rebuild" =>
         LET release == CurrentOf(status.releases)
         IN  /\ release # Nothing
             /\ release.layout = spec.layout
             /\ IF spec.pin # Nothing THEN release.image = spec.pin
                ELSE \E r \in 0 .. spec.rebuild : release.image = <<spec.source, r>>]_deployVars

\* The command began when nothing was rolling out, and nothing came between.
Undisturbed == command.pc \in Working /\ command.settled /\ mishaps = 0

(***************************************************************************)
(* A command that began when nothing was rolling out, with nobody else at  *)
(* work and nothing failing, comes to an end and says "Released": it finds *)
(* its build although the name of the build before is all it knows of it   *)
(* (waitForBuild, waitForNewBuild, sameSource).                            *)
(***************************************************************************)
EventuallyTold == Undisturbed ~> (command.pc = "released" \/ ~Undisturbed)
=============================================================================
