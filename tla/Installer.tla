------------------------------ MODULE Installer ----------------------------
(***************************************************************************)
(* The platform installer: `shpyrd cluster init` and `shpyrd extensions    *)
(* enable | disable` (internal/cli), and the engine they drive             *)
(* (pkg/install).  A run applies its components runlevel by runlevel, the  *)
(* components of a runlevel at once: the hooks that keep or make a Secret, *)
(* the Helm release, the objects, the waits, the component's entry in the  *)
(* install record.  The first failure cancels the others of its level; a   *)
(* run can be killed anywhere, and is repeated.                            *)
(*                                                                         *)
(* One operator runs one command at a time.  The components are those of   *)
(* the local profile that differ in what they do, cnpg standing for what   *)
(* an extension adds.  Helm is external: a release is the status and the   *)
(* number of its last revision.                                            *)
(***************************************************************************)
EXTENDS Naturals, Sequences, FiniteSets, TLC

CONSTANT MaxFaults  \* bound: failures, kills, and runs after a complete one

ASSUME FaultsAssumption == MaxFaults \in Nat

VARIABLES
    run,        \* the command under way
    task,       \* applyComponent of each component
    cancelled,  \* the context of the runlevel
    secrets,    \* the Secrets: 0, or which value they hold; "disabled": the token is off
    database,   \* the password the control-plane database was made with
    release,    \* the Helm releases
    record,     \* ConfigMap shpyrd-install
    server,     \* the server: its Deployment's extensions, what its pods started with
    enabled,    \* the extension was enabled, and its disabling not begun
    misread,    \* a read that failed was taken for "there is none"
    cut,        \* a run ended between the writes of two Secrets that match
    complete,   \* the last command went through
    faults      \* how many there may still be

installerVars == <<run, task, cancelled, secrets, database, release, record, server,
                   enabled, misread, cut, complete, faults>>

\* Mutant: the database and the server in one runlevel.
LevelTogether == [c \in {"cert-manager", "registry-credentials", "ca-issuers", "cnpg",
                         "control-plane-db", "shpyrd"} |->
                    CASE c \in {"cert-manager", "registry-credentials"} -> 1
                      [] c \in {"ca-issuers", "cnpg"} -> 2
                      [] c \in {"control-plane-db", "shpyrd"} -> 4]

\* The runlevels rc1 to rc4 of the local profile, and an extension's component.
Level == [c \in {"cert-manager", "registry-credentials", "ca-issuers", "cnpg",
                 "control-plane-db", "shpyrd"} |->
            CASE c \in {"cert-manager", "registry-credentials"} -> 1
              [] c \in {"ca-issuers", "cnpg"} -> 2
              [] c = "control-plane-db" -> 3
              [] c = "shpyrd" -> 4]
Components == DOMAIN Level
Charts == {"cert-manager", "cnpg"}
HooksOf(c) ==
    CASE c = "registry-credentials" -> <<"registry">>
      [] c = "ca-issuers" -> <<"ca">>
      [] c = "control-plane-db" -> <<"db">>
      [] c = "shpyrd" -> <<"token", "db">>
      [] OTHER -> <<>>

\* The hooks that look whether a failed read says NotFound.
Careful == {"token"}

NoRelease == [status |-> "none", version |-> 0, deployed |-> FALSE]
Pending == {"pending-install", "pending-upgrade", "pending-rollback"}
NoTask == [pc |-> "none", hooks |-> <<>>]
NoRun == [kind |-> "none", level |-> 0, only |-> {}, extensions |-> {}, user |-> FALSE]

InstallerInit ==
    /\ run = NoRun
    /\ task = [c \in Components |-> NoTask]
    /\ cancelled = FALSE
    /\ secrets = [s \in {"ca", "registry", "htpasswd", "db", "token", "disabled"} |-> 0]
    /\ database = 0
    /\ release = [c \in Charts |-> NoRelease]
    /\ record = [there |-> FALSE, components |-> {}, extensions |-> {}]
    /\ server = [spec |-> {}, pods |-> {}, token |-> 0, off |-> FALSE, old |-> FALSE]
    /\ enabled = FALSE
    /\ misread = FALSE
    /\ cut = FALSE
    /\ complete = FALSE
    /\ faults = MaxFaults

Fault ==
    /\ faults > 0
    /\ faults' = faults - 1

At(c, pc) == task[c].pc = pc
Goto(c, pc) == task' = [task EXCEPT ![c].pc = pc]
Ended(c) == task[c].pc \in {"none", "ok", "failed"}
Selected(l, kind, only, extensions) ==
    {c \in only : Level[c] = l /\ (c = "cnpg" => "postgres" \in extensions)}
----------------------------------------------------------------------------
(***************************************************************************)
(* The commands.  The recorded extensions are read; what cannot be read is *)
(* taken for a first install.                                              *)
(***************************************************************************)
\* mergeExtensions(): the recorded extensions and the one of the command.
Merged(recorded, enable) == recorded \cup enable

\* Repeating a command that did not go through is free.
MayStart ==
    /\ run = NoRun
    /\ IF complete THEN Fault ELSE UNCHANGED faults

Begin(kind, only, extensions, user) ==
    /\ run' = [kind |-> kind, level |-> 0, only |-> only, extensions |-> extensions,
               user |-> user]
    /\ complete' = FALSE
    /\ cancelled' = FALSE
    /\ UNCHANGED <<secrets, database, release, record, server, cut>>

\* `cluster init`, with credentials for the registry or without.
ClusterInit(only) ==
    /\ \E enable \in SUBSET {"postgres"}, user \in BOOLEAN :
         \/ /\ MayStart
            /\ Begin("init", only, Merged(record.extensions, enable), user)
            /\ UNCHANGED misread
         \/ /\ run = NoRun
            /\ Fault
            /\ Begin("init", only, Merged({}, enable), user)
            /\ misread' = TRUE
    /\ UNCHANGED <<task, enabled>>

\* `extensions enable`: the extension's component and the server.
Enable ==
    /\ MayStart
    /\ record.there
    /\ Begin("enable", {"cnpg", "shpyrd"}, Merged(record.extensions, {"postgres"}), FALSE)
    /\ UNCHANGED <<task, enabled, misread>>

\* `extensions disable`: the component is removed, then the server applied.
Disable ==
    /\ MayStart
    /\ "postgres" \in record.extensions
    /\ Begin("disable", {"shpyrd"}, {}, FALSE)
    /\ Goto("cnpg", "remove")
    /\ enabled' = FALSE
    /\ UNCHANGED misread

\* Apply(): the next runlevel, once every component of this one is done.
NextLevel ==
    /\ run # NoRun
    /\ run.level < 4
    /\ \A c \in Components : task[c].pc \in {"none", "ok"}
    /\ run' = [run EXCEPT !.level = @ + 1]
    /\ task' = [c \in Components |->
                  IF c \in Selected(run.level + 1, run.kind, run.only, run.extensions)
                  THEN [pc |-> "hooks", hooks |-> HooksOf(c)] ELSE NoTask]
    /\ UNCHANGED <<cancelled, secrets, database, release, record, server, enabled,
                   misread, cut, complete, faults>>

\* recordProfile() ends a command that went through.
RecordProfile ==
    /\ run.level = 4
    /\ \A c \in Components : task[c].pc \in {"none", "ok"}
    /\ record' = [record EXCEPT !.there = TRUE, !.extensions = run.extensions]
    /\ enabled' = (enabled \/ "postgres" \in run.extensions)
    /\ complete' = TRUE
    /\ run' = NoRun
    /\ task' = [c \in Components |-> NoTask]
    /\ UNCHANGED <<cancelled, secrets, database, release, server, misread, cut, faults>>

\* A command ends with the first error once all of its level have returned,
\* or is killed where it is.
EndRun ==
    /\ run # NoRun
    /\ \/ /\ \A c \in Components : Ended(c)
          /\ \E c \in Components : At(c, "failed")
          /\ UNCHANGED <<faults, cut>>
       \/ Fault /\ cut' = (cut \/ At("registry-credentials", "htpasswd"))
    /\ run' = NoRun
    /\ task' = [c \in Components |-> NoTask]
    /\ UNCHANGED <<cancelled, secrets, database, release, record, server, enabled,
                   misread, complete>>
----------------------------------------------------------------------------
(***************************************************************************)
(* Hooks: a Secret that is there is kept, else one is made.                *)
(***************************************************************************)
Hook(c) == Head(task[c].hooks)
NextHook(c) ==
    task' = [task EXCEPT ![c] = [pc |-> "hooks", hooks |-> Tail(task[c].hooks)]]

\* Given credentials replace the registry's; the htpasswd file must be there.
Kept(s) ==
    IF s = "registry"
    THEN ~run.user /\ secrets["registry"] # 0 /\ secrets["htpasswd"] # 0
    ELSE secrets[s] # 0

ReadSecret(c) ==
    /\ At(c, "hooks")
    /\ task[c].hooks # <<>>
    /\ \/ Kept(Hook(c)) /\ NextHook(c) /\ UNCHANGED <<misread, faults>>
       \/ ~Kept(Hook(c)) /\ Goto(c, "make") /\ UNCHANGED <<misread, faults>>
       \/ /\ Hook(c) \notin Careful         \* the read fails
          /\ Fault
          /\ misread' = TRUE
          /\ Goto(c, "replace")
    /\ UNCHANGED <<run, cancelled, secrets, database, release, record, server,
                   enabled, cut, complete>>

\* A value neither the Secret holds nor what was made with it.
Another(s) ==
    CHOOSE v \in 1 .. 3 :
        v \notin {secrets[s], IF s = "registry" THEN secrets["htpasswd"] ELSE database}

\* A credential the registry has and was not told to replace is kept when
\* only its htpasswd file is missing.
MakeSecret(c) ==
    LET rebuild == At(c, "make") /\ Hook(c) = "registry" /\ ~run.user
                   /\ secrets["registry"] # 0
    IN  /\ task[c].pc \in {"make", "replace"}
        /\ IF rebuild THEN UNCHANGED secrets
           ELSE secrets' = [secrets EXCEPT ![Hook(c)] = Another(Hook(c))]
        /\ IF Hook(c) = "registry" THEN Goto(c, "htpasswd") ELSE NextHook(c)
        /\ UNCHANGED <<run, cancelled, database, release, record, server, enabled, misread,
                       cut, complete, faults>>

MakeHtpasswd(c) ==
    /\ At(c, "htpasswd")
    /\ secrets' = [secrets EXCEPT !["htpasswd"] = secrets["registry"]]
    /\ NextHook(c)
    /\ UNCHANGED <<run, cancelled, database, release, record, server, enabled, misread,
                   cut, complete, faults>>
----------------------------------------------------------------------------
(***************************************************************************)
(* installOrUpgrade(): what an interrupted run left is recovered first.    *)
(* Each operation of Helm stores a revision, works, and stores the outcome.*)
(***************************************************************************)
\* Mutant: a release left pending is upgraded like any other.
PlanAnyway(c) ==
    IF release[c].status = "none" THEN "install" ELSE "upgrade"

Plan(c) ==
    LET r == release[c]
    IN  CASE r.status = "none" -> "install"
          [] r.status \in Pending /\ r.version = 1 -> "uninstall"
          [] r.status \in Pending /\ r.version > 1 -> "rollback"
          [] OTHER -> "upgrade"

History(c) ==
    /\ At(c, "hooks")
    /\ task[c].hooks = <<>>
    /\ Goto(c, IF c \in Charts THEN Plan(c) ELSE "apply")
    /\ UNCHANGED <<run, cancelled, secrets, database, release, record, server, enabled,
                   misread, cut, complete, faults>>

\* Helm refuses to upgrade over a pending revision, or over nothing deployed.
Upgradable(r) == r.status \notin Pending /\ (r.deployed \/ r.status = "failed")

HelmBegins(c) ==
    LET r == release[c]
        revision(status, version) ==
          release' = [release EXCEPT ![c].status = status, ![c].version = version]
    IN  /\ \/ At(c, "install") /\ revision("pending-install", 1) /\ Goto(c, "installing")
           \/ At(c, "uninstall") /\ revision("uninstalling", r.version) /\ Goto(c, "uninstalling")
           \/ At(c, "rollback") /\ revision("pending-rollback", 2) /\ Goto(c, "rolling back")
           \/ At(c, "upgrade") /\ Upgradable(r)
              /\ revision("pending-upgrade", 2) /\ Goto(c, "upgrading")
        /\ UNCHANGED <<run, cancelled, secrets, database, record, server, enabled,
                       misread, cut, complete, faults>>

HelmRefuses(c) ==
    /\ At(c, "upgrade")
    /\ ~Upgradable(release[c])
    /\ Goto(c, "failed")
    /\ cancelled' = TRUE
    /\ UNCHANGED <<run, secrets, database, release, record, server, enabled, misread,
                   cut, complete, faults>>

HelmEnds(c) ==
    LET deployed == release' = [release EXCEPT ![c].status = "deployed", ![c].deployed = TRUE]
    IN  /\ \/ task[c].pc \in {"installing", "upgrading"} /\ deployed /\ Goto(c, "apply")
           \/ At(c, "rolling back") /\ deployed /\ Goto(c, "upgrade")
           \/ At(c, "uninstalling") /\ run.kind # "disable"
              /\ release' = [release EXCEPT ![c] = NoRelease] /\ Goto(c, "install")
           \/ At(c, "uninstalling") /\ run.kind = "disable"
              /\ release' = [release EXCEPT ![c] = NoRelease] /\ Goto(c, "forget")
        /\ UNCHANGED <<run, cancelled, secrets, database, record, server, enabled,
                       misread, cut, complete, faults>>
----------------------------------------------------------------------------
\* The objects are applied.  The database is made with the password its
\* Secret holds the first time it starts; a Deployment that changed rolls.
ApplyAll(c) ==
    /\ At(c, "apply")
    /\ server' = IF c = "shpyrd" /\ (server.spec # run.extensions \/ server.token = 0)
                 THEN [server EXCEPT !.spec = run.extensions, !.old = TRUE] ELSE server
    /\ database' = IF c = "control-plane-db" /\ database = 0 THEN secrets["db"] ELSE database
    /\ Goto(c, "wait")
    /\ UNCHANGED <<run, cancelled, secrets, release, record, enabled, misread, cut,
                   complete, faults>>

\* The cluster replaces the pods: they read the Secrets as they start, and
\* are available once the database takes their password.
Rollout ==
    /\ server.old
    /\ secrets["token"] # 0
    /\ database # 0
    /\ secrets["db"] = database
    /\ server' = [server EXCEPT !.pods = server.spec, !.token = secrets["token"],
                                !.off = (secrets["disabled"] = 1), !.old = FALSE]
    /\ UNCHANGED <<run, task, cancelled, secrets, database, release, record, enabled,
                   misread, cut, complete, faults>>

\* Mutant: the replicas of the Deployment as it was count.
ReadyBefore(c) == c = "shpyrd" => server.token # 0

\* waitDeployment(): the pods of the Deployment as it is now are available.
Ready(c) == c = "shpyrd" => ~server.old

Wait(c) ==
    /\ At(c, "wait")
    /\ Ready(c)
    /\ Goto(c, "record")
    /\ UNCHANGED <<run, cancelled, secrets, database, release, record, server, enabled,
                   misread, cut, complete, faults>>

Record(c) ==
    /\ At(c, "record")
    /\ record' = [record EXCEPT !.components = @ \cup {c}]
    /\ Goto(c, "ok")
    /\ UNCHANGED <<run, cancelled, secrets, database, release, server, enabled, misread,
                   cut, complete, faults>>

\* Remove(): objects, release, entry of the record.  A release that is not
\* there is removed already.
Remove(c) ==
    /\ At(c, "remove")
    /\ Goto(c, IF release[c].status = "none" THEN "forget" ELSE "uninstall")
    /\ UNCHANGED <<run, cancelled, secrets, database, release, record, server, enabled,
                   misread, cut, complete, faults>>

Forget(c) ==
    /\ At(c, "forget")
    /\ record' = [record EXCEPT !.components = @ \ {c}]
    /\ Goto(c, "ok")
    /\ UNCHANGED <<run, cancelled, secrets, database, release, server, enabled, misread,
                   cut, complete, faults>>

\* Any call fails, or the wait ends with the component's timeout; once one
\* has, the calls of the others fail too.  Helm marks the revision failed,
\* or does not get to.
Fail(c) ==
    /\ ~Ended(c)
    /\ \/ Fault
       \/ cancelled /\ UNCHANGED faults
    /\ cancelled' = TRUE
    /\ Goto(c, "failed")
    /\ cut' = (cut \/ At(c, "htpasswd"))
    /\ \/ /\ task[c].pc \in {"installing", "upgrading", "rolling back"}
          /\ release' = [release EXCEPT ![c].status = "failed"]
       \/ UNCHANGED release
    /\ UNCHANGED <<run, secrets, database, record, server, enabled, misread, complete>>
----------------------------------------------------------------------------
Component(c) ==
    \/ ReadSecret(c) \/ MakeSecret(c) \/ MakeHtpasswd(c)
    \/ History(c) \/ HelmBegins(c) \/ HelmRefuses(c) \/ HelmEnds(c)
    \/ ApplyAll(c) \/ Wait(c) \/ Record(c) \/ Remove(c) \/ Forget(c)

----------------------------------------------------------------------------
(***************************************************************************)
(* The two ends of a credential agree.  The control-plane database was     *)
(* made with the password in Secret control-plane-db, whichever component  *)
(* ran the hook first and in however many runs (controlPlaneDBHook: the    *)
(* hook "runs from both components"); and "the htpasswd file must match    *)
(* the credential in use" (registryCredentialsHook) whenever a run passed  *)
(* the registry's runlevel.  Unless a failed read was taken for absence,   *)
(* or a run with new credentials ended between the two writes, which       *)
(* nothing repairs.                                                        *)
(***************************************************************************)
CredentialsAgree ==
    ~misread =>
      /\ database \in {0, secrets["db"]}
      /\ (~cut /\ (run.level > 1 \/ complete)) => secrets["htpasswd"] = secrets["registry"]
      /\ (~cut /\ complete /\ ~server.old) => /\ server.token = secrets["token"]
                                              /\ server.off = (secrets["disabled"] = 1)

(***************************************************************************)
(* "Extensions already enabled on the cluster stay enabled" (runInit): the *)
(* record names an enabled extension through every later run, failed or    *)
(* not, and after a run that went through the server runs with exactly the *)
(* recorded ones and the component of an enabled one is deployed.          *)
(***************************************************************************)
EnabledStays ==
    ~misread =>
      /\ enabled => "postgres" \in record.extensions
      /\ complete => /\ server.pods = record.extensions
                     /\ enabled => release["cnpg"].status = "deployed"

(***************************************************************************)
(* "Interrupted runs (pending-* status) are recovered first": however many *)
(* runs failed or were killed, repeating the command installs the platform *)
(* in the end.  A release whose uninstallation was cut short is neither    *)
(* pending nor upgradable, and stays in the way.                           *)
(***************************************************************************)
EventuallyInstalled ==
    []<>(complete \/ misread \/ \E c \in Charts : release[c].status = "uninstalling")

============================================================================
