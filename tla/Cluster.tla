------------------------------- MODULE Cluster ------------------------------
(***************************************************************************)
(* A cluster over the years: `shpyrd cluster init` by newer and newer      *)
(* releases of the command line, with settings given once and carried over *)
(* by the install record; `shpyrd cluster token`; and `shpyrd cluster      *)
(* destroy` on a cloud, which takes down what costs money in an order that *)
(* lets the cluster withdraw it, and is run again when it fails.           *)
(*                                                                         *)
(* One setting stands for all: the profile's default is the number of the  *)
(* release; 8 is given with --set, 9 with a flag of its own.  In the cloud *)
(* there are one project with a disk, the disk of the platform's own       *)
(* namespace, one load balancer, and the two DNS records ExternalDNS       *)
(* publishes.  A behaviour tells one story (a bound) and spends its faults *)
(* on it: an installation, the settings, the token, or a cloud from its    *)
(* first installation to its end.                                          *)
(***************************************************************************)
EXTENDS Installer

\* Whose claims and workloads there are: a project, and shpyrd-system.
Namespaces == {"project", "platform"}

VARIABLES
    story,      \* what this behaviour is about
    settings,   \* the setting: the release, the run's value, the record's, the one applied
    token,      \* the step of `cluster token`
    destroy,    \* the step of `cluster destroy`, whether it listed the project, and
                \* whether one was created after that
    cloud       \* the phase of an installation on a cloud; the cluster's project, disks,
                \* workloads, load balancer and DNS records

clusterVars == <<story, settings, token, destroy, cloud>>
allVars == <<installerVars, clusterVars>>

Default == settings.release

InitCluster ==
    /\ InstallerInit
    /\ story \in {"install", "settings", "token", "cloud"}
    /\ settings = [release |-> 1, run |-> [value |-> 1, given |-> "no"], by |-> 1,
                   recorded |-> 1, override |-> 0, applied |-> 1, asked |-> 0,
                   overruled |-> FALSE, frozen |-> FALSE]
    /\ token = "none"
    /\ destroy = [pc |-> "none", listed |-> FALSE, late |-> FALSE]
    /\ cloud = [phase |-> "none", project |-> "gone", disks |-> [n \in Namespaces |-> "gone"],
                running |-> {}, balancer |-> "gone", ingress |-> FALSE, records |-> {}]
----------------------------------------------------------------------------
(***************************************************************************)
(* Settings.  A run works with the value given, else the one carried over, *)
(* else the default of this release.  Explicit values are recorded as      *)
(* overrides when they differ from that default.                           *)
(***************************************************************************)
\* Mutant: what was carried over is not recorded again.
OverrideOfRun(v) == IF v.given \in {"set", "flag"} /\ v.value # Default THEN v.value ELSE 0

\* overrides(): an explicit variable the profile would not have by itself.
Override(v) == IF v.given # "no" /\ v.value # Default THEN v.value ELSE 0

\* seedFromRecord() and vars(): what was not given with --set comes from the
\* record, even when its flag was passed, then from the flag, then from the
\* profile.
Seeded(given, readable) ==
    CASE given = "set" -> [value |-> 8, given |-> "set"]
      [] given # "set" /\ readable /\ settings.override # 0 ->
           [value |-> settings.override,
            given |-> IF given = "flag" THEN "overruled" ELSE "record"]
      [] given = "flag" /\ ~(readable /\ settings.override # 0) -> [value |-> 9, given |-> "flag"]
      [] OTHER -> [value |-> Default, given |-> "no"]

\* extensionEngine(): every recorded variable is given again, and with them
\* the defaults of the release that recorded them.
Again == [value |-> settings.recorded, given |-> "record"]

\* Runs fail and are repeated in the stories about them.
Affords == story \in {"install", "settings"} \/ faults' = faults

\* One operator, and one command at a time.
Idle == run = NoRun /\ token = "none" /\ destroy.pc = "none"

\* What needs a certificate goes last on a cloud.
CertificateComponents == {"shpyrd"}

\* initFlags: settings given with the command, or carried over from the record.
Initialise ==
    /\ Idle
    /\ ClusterInit(IF story = "cloud" THEN Components \ CertificateComponents ELSE Components)
    /\ story # "install" => ~run'.user /\ run'.extensions = record.extensions
    /\ Affords
    /\ cloud' = [cloud EXCEPT !.phase = IF story = "cloud" THEN "first" ELSE "none"]
    /\ \E given \in IF story = "settings" THEN {"no", "set", "flag"} ELSE {"no"} :
         settings' = [settings EXCEPT !.run = Seeded(given, misread' = misread)]
    /\ UNCHANGED <<story, token, destroy>>

Extensions ==
    /\ Idle
    /\ story \in {"install", "settings"}
    /\ Enable \/ (story = "install" /\ Disable)
    /\ settings' = [settings EXCEPT !.run = Again]
    /\ UNCHANGED <<story, token, destroy, cloud>>

\* The objects carry the run's value; the server's stand for all.
ServerApplied ==
    /\ ApplyAll("shpyrd")
    /\ settings' = [settings EXCEPT !.applied = settings.run.value]
    /\ cloud' = [cloud EXCEPT !.ingress = (story = "cloud")]
    /\ UNCHANGED <<story, token, destroy>>

Recording ==
    LET v == settings.run
        asked == IF v.given \in {"set", "flag"} THEN v.value ELSE settings.asked
    IN  /\ cloud.phase \in {"none", "all"}
        /\ RecordProfile
        /\ settings' = [settings EXCEPT !.recorded = v.value, !.by = Default,
                            !.override = Override(v), !.asked = asked,
                            !.overruled = (@ \/ v.given = "overruled") /\ v.given # "set",
                            !.frozen = (asked = 0 /\ Override(v) # 0)]
        /\ UNCHANGED <<story, token, destroy, cloud>>

(***************************************************************************)
(* On a cloud the certificates need the wildcard record, and the record    *)
(* the address of the load balancer: everything else first, then the two   *)
(* waits, then all of it.                                                  *)
(***************************************************************************)
FirstPhaseDone ==
    /\ cloud.phase = "first"
    /\ run.level = 4
    /\ \A c \in Components : task[c].pc \in {"none", "ok"}
    /\ record' = [record EXCEPT !.there = TRUE, !.extensions = run.extensions]
    /\ cloud' = [cloud EXCEPT !.phase = "address", !.disks["platform"] = "bound",
                              !.running = @ \cup {"platform"},
                              !.balancer = IF @ = "gone" THEN "pending" ELSE @]
    /\ UNCHANGED <<run, task, cancelled, secrets, database, release, server, enabled, misread,
                   cut, complete, faults, story, settings, token, destroy>>

WaitForLoadBalancer ==
    /\ run # NoRun
    /\ cloud.phase = "address"
    /\ cloud.balancer = "up"
    /\ cloud' = [cloud EXCEPT !.phase = "dns"]
    /\ UNCHANGED <<installerVars, story, settings, token, destroy>>

\* Public resolvers are asked for the platform's name.
WaitForDNS ==
    /\ run # NoRun
    /\ cloud.phase = "dns"
    /\ "wildcard" \in cloud.records
    /\ cloud' = [cloud EXCEPT !.phase = "all"]
    /\ run' = [run EXCEPT !.level = 0, !.only = Components]
    /\ UNCHANGED <<task, cancelled, secrets, database, release, record, server, enabled,
                   misread, cut, complete, faults, story, settings, token, destroy>>

\* Ten minutes, or thirty, were not enough.
WaitFails ==
    /\ run # NoRun
    /\ cloud.phase \in {"address", "dns"}
    /\ Fault
    /\ run' = NoRun
    /\ cloud' = [cloud EXCEPT !.phase = "none"]
    /\ UNCHANGED <<task, cancelled, secrets, database, release, record, server, enabled,
                   misread, cut, complete, story, settings, token, destroy>>

\* The operator takes a newer release, whose profiles have other defaults.
NewRelease ==
    /\ story = "settings"
    /\ Idle
    /\ settings.release = 1
    /\ settings' = [settings EXCEPT !.release = 2]
    /\ UNCHANGED <<installerVars, story, token, destroy, cloud>>

\* The rest of a run.
Going ==
    /\ \/ NextLevel \/ EndRun \/ Rollout
       \/ \E c \in Components : Fail(c) \/ (~(c = "shpyrd" /\ At(c, "apply")) /\ Component(c))
    /\ Affords
    /\ story = "settings" => misread' = misread
    /\ UNCHANGED clusterVars
----------------------------------------------------------------------------
(***************************************************************************)
(* `cluster token`: the Secret is updated, then the server restarted.      *)
(***************************************************************************)
TokenCommand(value, disabled) ==
    /\ story = "token"
    /\ Idle
    /\ complete
    /\ Fault
    /\ secrets' = [secrets EXCEPT !["token"] = value, !["disabled"] = disabled]
    /\ token' = "restart"
    /\ complete' = FALSE
    /\ UNCHANGED <<run, task, cancelled, database, release, record, server, enabled,
                   misread, cut, story, settings, destroy, cloud>>

\* setTokenDisabled() keeps the token; the command is refused while nobody could
\* sign in without it.
SetTokenDisabled == \E off \in {0, 1} : TokenCommand(secrets["token"], off)

\* rotateAdminToken() replaces all the Secret holds: a token that was off is
\* on again.
RotateAdminToken == TokenCommand(Another("token"), 0)

\* Mutant: the pods are left as they are.
RestartNothing == server

RestartServer == [server EXCEPT !.old = TRUE]

\* A restart that fails leaves a server with what it read before.
Restart ==
    /\ token = "restart"
    /\ \/ server' = RestartServer /\ complete' = TRUE /\ UNCHANGED <<cut, faults>>
       \/ Fault /\ cut' = TRUE /\ UNCHANGED <<server, complete>>
    /\ token' = "none"
    /\ UNCHANGED <<run, task, cancelled, secrets, database, release, record, enabled,
                   misread, story, settings, destroy, cloud>>
----------------------------------------------------------------------------
(***************************************************************************)
(* `cluster destroy` on a cloud: projects, Ingresses, load balancers, then *)
(* the disks, each confirmed by the cloud before the next.                 *)
(***************************************************************************)
Goes(pc) == destroy' = [destroy EXCEPT !.pc = pc]

\* Mutant: the disks first.
DisksFirst == <<"disks", "await disks", "projects", "await projects", "ingresses",
                "withdraw host", "balancers", "await balancers", "withdraw wildcard", "forget">>

Steps == <<"projects", "await projects", "ingresses", "withdraw host", "balancers",
           "await balancers", "withdraw wildcard", "disks", "await disks", "forget">>

Proceed ==
    Goes(Steps[(CHOOSE i \in 1 .. Len(Steps) : Steps[i] = destroy.pc) + 1])

Destroying(pc) ==
    /\ destroy.pc = pc
    /\ UNCHANGED <<run, task, cancelled, secrets, database, release, server, enabled, cut,
                   complete, story, settings, token>>

\* Projects and load balancers are listed before the question is asked.
StartDestroy ==
    /\ story = "cloud"
    /\ run = NoRun
    /\ complete
    /\ Destroying("none")
    /\ destroy' = [destroy EXCEPT !.pc = Steps[1], !.listed = cloud.project # "gone"]
    /\ UNCHANGED <<record, misread, faults, cloud>>

DeleteProjects ==
    /\ Destroying("projects")
    /\ cloud' = IF destroy.listed /\ cloud.project = "up"
                THEN [cloud EXCEPT !.project = "terminating"] ELSE cloud
    /\ Proceed
    /\ UNCHANGED <<record, misread, faults>>

\* A namespace that cannot be read counts as gone.
AwaitProjects ==
    /\ Destroying("await projects")
    /\ \/ /\ destroy.listed => cloud.project = "gone"
          /\ UNCHANGED <<misread, faults>>
       \/ destroy.listed /\ Fault /\ misread' = TRUE
    /\ Proceed
    /\ UNCHANGED <<record, cloud>>

\* Ingresses that cannot be listed or deleted are left.
DeleteIngresses ==
    /\ Destroying("ingresses")
    /\ \/ cloud' = [cloud EXCEPT !.ingress = FALSE] /\ UNCHANGED <<misread, faults>>
       \/ Fault /\ misread' = TRUE /\ UNCHANGED cloud
    /\ Proceed
    /\ UNCHANGED record

\* The minute ExternalDNS is given, in which it does withdraw what it owns.
Withdraw(what, name) ==
    /\ Destroying(what)
    /\ "platform" \in cloud.running /\ ~misread => name \notin cloud.records
    /\ Proceed
    /\ UNCHANGED <<record, misread, faults, cloud>>

DeleteBalancers ==
    /\ Destroying("balancers")
    /\ cloud' = IF cloud.balancer = "up" THEN [cloud EXCEPT !.balancer = "terminating"] ELSE cloud
    /\ Proceed
    /\ UNCHANGED <<record, misread, faults>>

AwaitBalancers ==
    /\ Destroying("await balancers")
    /\ cloud.balancer = "gone"
    /\ Proceed
    /\ UNCHANGED <<record, misread, faults, cloud>>

\* The claims there are now; the workloads of their namespaces are scaled to
\* zero first, the server's own and ExternalDNS with them.
DeleteDisks ==
    LET claims == {n \in Namespaces : cloud.disks[n] # "gone"}
    IN  /\ Destroying("disks")
        /\ cloud' = [cloud EXCEPT !.running = @ \ claims,
                        !.disks = [n \in Namespaces |-> IF n \in claims THEN "deleted" ELSE "gone"]]
        /\ Proceed
        /\ UNCHANGED <<record, misread, faults>>

AwaitDisks ==
    /\ Destroying("await disks")
    /\ \A n \in Namespaces : cloud.disks[n] = "gone"
    /\ Proceed
    /\ UNCHANGED <<record, misread, faults, cloud>>

\* The record goes last.
Forgetting ==
    /\ Destroying("forget")
    /\ record' = [record EXCEPT !.there = FALSE]
    /\ Goes("done")
    /\ UNCHANGED <<misread, faults, cloud>>

\* A call fails, the command is killed, or a wait ends after ten minutes,
\* which costs nothing when what it waits for is not being deleted at all.
DestroyFails ==
    /\ destroy.pc \notin {"none", "done"}
    /\ Destroying(destroy.pc)
    /\ \/ Fault
       \/ /\ destroy.pc = "await disks"
          /\ \E n \in Namespaces : cloud.disks[n] = "bound"
          /\ UNCHANGED faults
    /\ Goes("none")
    /\ UNCHANGED <<record, misread, cloud>>

DestroyStep ==
    \/ DeleteProjects \/ AwaitProjects \/ DeleteIngresses \/ Withdraw("withdraw host", "host")
    \/ DeleteBalancers \/ AwaitBalancers \/ Withdraw("withdraw wildcard", "wildcard")
    \/ DeleteDisks \/ AwaitDisks \/ Forgetting
----------------------------------------------------------------------------
(***************************************************************************)
(* What the cluster and the cloud do meanwhile.                            *)
(***************************************************************************)
CloudDoes(change) ==
    /\ cloud' = change
    /\ cloud' # cloud
    /\ UNCHANGED <<installerVars, story, settings, token, destroy>>

BalancerUp ==
    /\ cloud.balancer = "pending"
    /\ CloudDoes([cloud EXCEPT !.balancer = "up"])

\* A namespace goes with all it holds, once the controller has taken its
\* object bucket down (the finalizer).
NamespaceGone ==
    /\ cloud.project = "terminating"
    /\ "platform" \in cloud.running
    /\ CloudDoes([cloud EXCEPT !.project = "gone", !.disks["project"] = "gone",
                               !.running = @ \ {"project"}])

DiskGone(n) ==
    /\ cloud.disks[n] = "deleted"
    /\ n \notin cloud.running
    /\ CloudDoes([cloud EXCEPT !.disks[n] = "gone"])

BalancerGone ==
    /\ cloud.balancer = "terminating"
    /\ CloudDoes([cloud EXCEPT !.balancer = "gone"])

\* ExternalDNS publishes and withdraws the records of Ingresses and Services.
ExternalDNS ==
    /\ "platform" \in cloud.running
    /\ CloudDoes([cloud EXCEPT !.records =
            (IF cloud.ingress THEN {"host"} ELSE {})
            \cup (CASE cloud.balancer = "up" -> {"wildcard"}
                    [] cloud.balancer = "gone" -> {}
                    [] OTHER -> @ \cap {"wildcard"})])

\* While the server runs, its controllers scale the workloads of a project up
\* again, and people create projects.
Controllers ==
    /\ story = "cloud"
    /\ complete
    /\ "platform" \in cloud.running
    /\ \/ /\ cloud.project = "up"
          /\ CloudDoes([cloud EXCEPT !.running = @ \cup {"project"}])
       \/ /\ cloud.project = "gone"
          /\ destroy.pc # "done"
          /\ IF destroy.pc = "none" THEN UNCHANGED faults ELSE Fault
          /\ cloud' = [cloud EXCEPT !.project = "up", !.disks["project"] = "bound",
                                    !.running = @ \cup {"project"}]
          /\ destroy' = [destroy EXCEPT !.late = @ \/ destroy.pc # "none"]
          /\ UNCHANGED <<run, task, cancelled, secrets, database, release, record, server,
                         enabled, misread, cut, complete, story, settings, token>>

Cloud ==
    \/ BalancerUp \/ NamespaceGone \/ BalancerGone \/ ExternalDNS \/ Controllers
    \/ \E n \in Namespaces : DiskGone(n)
----------------------------------------------------------------------------
ClusterNext ==
    \/ Initialise \/ Extensions \/ ServerApplied \/ Recording \/ NewRelease \/ Going
    \/ FirstPhaseDone \/ WaitForLoadBalancer \/ WaitForDNS \/ WaitFails
    \/ SetTokenDisabled \/ RotateAdminToken \/ Restart
    \/ StartDestroy \/ DestroyStep \/ DestroyFails \/ Cloud

ClusterSpec == InitCluster /\ [][ClusterNext]_allVars

(***************************************************************************)
(* What costs nothing goes on: a command under way, the return of one that *)
(* failed, the repetition of one that did not go through, the cluster and  *)
(* the cloud.                                                              *)
(***************************************************************************)
FairClusterSpec == ClusterSpec /\ WF_allVars(ClusterNext /\ faults' = faults)
----------------------------------------------------------------------------
(***************************************************************************)
(* "Variables the operator set explicitly are kept across runs; profile    *)
(* defaults stay live for everything else" (seedFromRecord): after a       *)
(* command that went through, whichever failed before it, the cluster has  *)
(* the recorded value; it is the one the operator gave last, if there ever *)
(* was one, and the default of the release that recorded it otherwise.     *)
(* Unless the record could not be read, a flag was passed for a setting    *)
(* the record carries, or `extensions enable` by a newer release made the  *)
(* older default an explicit value.                                        *)
(***************************************************************************)
SettingsKept ==
    (complete /\ ~misread) =>
      /\ settings.applied = settings.recorded
      /\ (settings.asked # 0 /\ ~settings.overruled) => settings.applied = settings.asked
      /\ (settings.asked = 0 /\ ~settings.frozen) => settings.applied = settings.by

(***************************************************************************)
(* Destroying "waits until the cloud confirms each step", "so nothing      *)
(* outlives the cluster", and is "run again" when it fails: in the end it  *)
(* goes through, and then no disk, load balancer or DNS record of the      *)
(* platform is left.  Unless a failed read counted as an answer, or a      *)
(* project was created after the projects were listed.                     *)
(***************************************************************************)
EventuallyGone ==
    (story = "cloud") ~>
        \/ /\ destroy.pc = "done"
           /\ \A n \in Namespaces : cloud.disks[n] = "gone"
           /\ cloud.balancer = "gone"
           /\ cloud.records = {}
        \/ misread \/ destroy.late
        \/ \E c \in Charts : release[c].status = "uninstalling"

============================================================================
