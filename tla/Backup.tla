------------------------------- MODULE Backup -------------------------------
(***************************************************************************)
(* Platform backup and restore: the Jobs that export the cluster and prune *)
(* the target (cmd/shpyrd-server/backup.go, pkg/backup/backup.go,          *)
(* target.go), the CronJob and the "back up now" handler that start them   *)
(* (pkg/api/backups.go), and `shpyrd cluster restore`                      *)
(* (pkg/backup/restore.go, internal/cli/cluster_backup.go).                *)
(*                                                                         *)
(* An export reads a live cluster, one kind of one project at a time, and  *)
(* a restore writes it back in the same way, while people work and other   *)
(* Jobs run.  The cluster may be lost as a whole; the target stays.        *)
(***************************************************************************)
EXTENDS Naturals, FiniteSets

CONSTANTS
    Namespaces,   \* the namespaces of projects
    Kinds,        \* the kinds looked at, of those in ExportOrder
    Optional,     \* those of them an extension serves
    Values,       \* what an object can hold
    Jobs,         \* bound: the backup Jobs there can be
    Keep,         \* SHPYRD_BACKUP_KEEP
    Busy,         \* bound: the projects people change
    MaxTries,     \* backoffLimit + 1
    MaxChanges,   \* bound: changes of users
    MaxFailures,  \* bound: failing calls, crashes, the loss of the cluster
    MaxRestores,  \* bound: runs of the restore
    System, Unknown

\* projectKinds in their order, the Secrets last; secrets.yaml, then restoreOrder.
\* The system objects come before them.
ExportOrder == [globals |-> 0, apps |-> 1, volumes |-> 2, postgres |-> 3, redis |-> 4,
                logdrains |-> 5, secrets |-> 6]
RestoreOrder == [globals |-> 0, secrets |-> 1, volumes |-> 2, postgres |-> 3, redis |-> 4,
                 logdrains |-> 5, apps |-> 6]

ASSUME BackupAssumption ==
    /\ Kinds \subseteq DOMAIN ExportOrder \ {"globals"}
    /\ System \notin Namespaces
    /\ Keep \in Nat \ {0}
    /\ {MaxTries, MaxChanges, MaxFailures, MaxRestores} \subseteq Nat
    /\ Values # {} /\ 0 \notin Values /\ Unknown \notin Values \cup {0}

VARIABLES
    object,     \* what the cluster holds of each kind in each project, 0: nothing
    namespace,  \* the projects whose namespace exists
    served,     \* the kinds the cluster has
    bucket,     \* the archives in the target; the newest has the highest id
    uploads,    \* how many there ever were
    job,        \* the backup Jobs
    restore,    \* the restore under way, or how the last one ended
    changes, failures, restores

backupVars == <<object, namespace, served, bucket, uploads, job, restore,
                changes, failures, restores>>

\* The system objects (global config vars, sizes) stand as one.
Globals == <<System, "globals">>
Objects == {Globals} \cup (Namespaces \X Kinds)
Of(p) == {o \in Objects : o[1] = p}

Nothing == [o \in Objects |-> 0]
NoBackup == [pc |-> "none", manual |-> FALSE, tries |-> 0, ns |-> {}, todo |-> {},
             has |-> Nothing, expect |-> Nothing, doomed |-> {}]
NoRestore == [pc |-> "idle", ns |-> {}, has |-> Nothing, expect |-> Nothing, overwrite |-> FALSE,
              left |-> {}, todo |-> {}, update |-> FALSE, restored |-> {}, touched |-> {}]

BackupInit ==
    /\ object = [o \in Objects |-> CHOOSE v \in Values : TRUE]
    /\ namespace = Namespaces
    /\ served = Kinds
    /\ bucket = {} /\ uploads = 0
    /\ job = [j \in Jobs |-> NoBackup]
    /\ restore = NoRestore
    /\ changes = 0 /\ failures = 0 /\ restores = 0

Change == changes < MaxChanges /\ changes' = changes + 1 /\ UNCHANGED <<failures, restores>>
Failure == failures < MaxFailures /\ failures' = failures + 1 /\ UNCHANGED <<changes, restores>>
Free == UNCHANGED <<changes, failures, restores>>
----------------------------------------------------------------------------
(***************************************************************************)
(* People and the cluster.                                                 *)
(***************************************************************************)
\* An export can tell nothing of what changes meanwhile, a restore owes nothing for it.
Disturb(os) ==
    job' = [j \in Jobs |->
              [job[j] EXCEPT !.expect = [o \in Objects |-> IF o \in os THEN Unknown ELSE @[o]]]]
Touch(os) == Disturb(os) /\ restore' = [restore EXCEPT !.touched = @ \cup os]

Write(o, v) ==
    /\ o = Globals \/ (o[1] \in namespace \cap Busy /\ o[2] \in served)
    /\ v # object[o]
    /\ Change
    /\ object' = [object EXCEPT ![o] = v]
    /\ Touch({o})
    /\ UNCHANGED <<namespace, served, bucket, uploads>>

CreateProject(p) ==
    /\ p \in Busy \ namespace
    /\ Change
    /\ namespace' = namespace \cup {p}
    /\ Touch(Of(p))
    /\ UNCHANGED <<object, served, bucket, uploads>>

DestroyProject(p) ==
    /\ p \in Busy \cap namespace
    /\ Change
    /\ namespace' = namespace \ {p}
    /\ object' = [o \in Objects |-> IF o[1] = p THEN 0 ELSE object[o]]
    /\ Touch(Of(p))
    /\ UNCHANGED <<served, bucket, uploads>>

\* Another cluster, `cluster init` done, not always with every extension.
ClusterLost ==
    /\ Failure
    /\ object' = Nothing /\ namespace' = {}
    /\ served' \in {Kinds, Kinds \ Optional}
    /\ job' = [j \in Jobs |-> [NoBackup EXCEPT !.pc = IF job[j].pc = "none" THEN "none" ELSE "gone"]]
    /\ restore' = NoRestore
    /\ UNCHANGED <<bucket, uploads>>
----------------------------------------------------------------------------
(***************************************************************************)
(* The Jobs.                                                               *)
(***************************************************************************)
UnderWay(j) == job[j].pc \notin {"none", "asked", "succeeded", "failed", "gone"}

Keeping == UNCHANGED <<object, namespace, served, restore>>
Set(j, r) == job' = [job EXCEPT ![j] = r]

\* A pod: runBackup from the start.
Attempt(j, manual, tries) ==
    [NoBackup EXCEPT !.pc = "export", !.manual = manual, !.tries = tries,
                     !.todo = {Globals}, !.expect = object]

\* concurrencyPolicy: Forbid looks at the Jobs of the schedule only.
StartScheduled(j) ==
    /\ job[j].pc = "none"
    /\ \A i \in Jobs : UnderWay(i) => job[i].manual
    /\ Set(j, Attempt(j, FALSE, 1))
    /\ Free /\ Keeping /\ UNCHANGED <<bucket, uploads>>

\* runBackup of the API: no Job runs, or they cannot be listed; the Job is created after.
AskManual(j) ==
    /\ job[j].pc = "none"
    /\ IF \E i \in Jobs : UnderWay(i) THEN Failure ELSE Free
    /\ Set(j, [NoBackup EXCEPT !.pc = "asked"])
    /\ Keeping /\ UNCHANGED <<bucket, uploads>>
CreateManual(j) ==
    /\ job[j].pc = "asked"
    /\ Set(j, Attempt(j, TRUE, 1))
    /\ Free /\ Keeping /\ UNCHANGED <<bucket, uploads>>

\* An error or the death of the pod: the Job tries again, from the start.
PodFails(j) ==
    /\ UnderWay(j)
    /\ Failure
    /\ Set(j, IF job[j].tries < MaxTries THEN Attempt(j, job[j].manual, job[j].tries + 1)
              ELSE [NoBackup EXCEPT !.pc = "failed"])
    /\ Keeping /\ UNCHANGED <<bucket, uploads>>

Read(j, o) == [job[j] EXCEPT !.todo = @ \ {o}, !.has[o] = object[o]]
\* `continue`: what cannot be listed is left out of the archive.
Drop(j, o) == [job[j] EXCEPT !.todo = @ \ {o}, !.expect[o] = Unknown]

\* The files, project by project and in each project kind by kind.
FilesOf(ps) == ps \X Kinds
Turn(o, todo, order) ==
    /\ o \in todo
    /\ \A q \in todo : IF q[1] = o[1] THEN order[o[2]] <= order[q[2]]
                       ELSE FilesOf({q[1]}) \subseteq todo

\* Export: the next file.  Secrets that cannot be listed end it (PodFails).
ExportNext(j) ==
    /\ job[j].pc \in {"export", "projects"}
    /\ \E o \in job[j].todo :
        /\ Turn(o, job[j].todo, ExportOrder)
        /\ \/ (o = Globals \/ o[2] \in served) /\ Set(j, Read(j, o)) /\ Free
           \/ o # Globals /\ o[2] \notin served /\ Set(j, Drop(j, o)) /\ Free
           \/ o[2] # "secrets" /\ Set(j, Drop(j, o)) /\ Failure
    /\ Keeping /\ UNCHANGED <<bucket, uploads>>

\* Export: the namespaces with the project label, after the system objects.
ListNamespaces(j) ==
    /\ job[j].pc = "export" /\ job[j].todo = {}
    /\ Set(j, [job[j] EXCEPT !.pc = "projects", !.ns = namespace,
                             !.todo = FilesOf(namespace)])
    /\ Free /\ Keeping /\ UNCHANGED <<bucket, uploads>>

\* The sources are had too: the archive is stored, once.
Archive(j) == [id |-> uploads + 1, ns |-> job[j].ns, has |-> job[j].has, expect |-> job[j].expect]
Upload(j) ==
    /\ job[j].pc = "projects" /\ job[j].todo = {}
    /\ bucket' = bucket \cup {Archive(j)}
    /\ uploads' = uploads + 1
    /\ \/ Set(j, [job[j] EXCEPT !.pc = "list"]) /\ Free
       \/ \* stored, but the answer is lost
          /\ Failure
          /\ Set(j, IF job[j].tries < MaxTries THEN Attempt(j, job[j].manual, job[j].tries + 1)
                    ELSE [NoBackup EXCEPT !.pc = "failed"])
    /\ Keeping

\* Mutant: the archives are sorted the other way round.
DoomedOldestFirst(ids) == {id \in ids : Cardinality({k \in ids : k < id}) >= Keep}

\* entries[min(keep, len(entries)):] of the archives, the newest first.
Doomed(ids) == {id \in ids : Cardinality({k \in ids : k > id}) >= Keep}

\* Prune: the listing, then one archive after the other; an error is only logged.
ListArchives(j) ==
    /\ job[j].pc = "list"
    /\ \/ /\ Set(j, [job[j] EXCEPT !.pc = "prune",
                                   !.doomed = Doomed({a.id : a \in bucket})])
          /\ Free
       \/ Set(j, [NoBackup EXCEPT !.pc = "succeeded"]) /\ Failure
    /\ Keeping /\ UNCHANGED <<bucket, uploads>>
Prune(j) ==
    /\ job[j].pc = "prune"
    /\ \/ /\ \E id \in job[j].doomed :
              /\ \A k \in job[j].doomed : k <= id
              /\ bucket' = {a \in bucket : a.id # id}
              /\ Set(j, [job[j] EXCEPT !.doomed = @ \ {id}])
          /\ Free
       \/ /\ IF job[j].doomed = {} THEN Free ELSE Failure
          /\ Set(j, [NoBackup EXCEPT !.pc = "succeeded"])
          /\ UNCHANGED bucket
    /\ Keeping /\ UNCHANGED uploads
----------------------------------------------------------------------------
(***************************************************************************)
(* shpyrd cluster restore.                                                 *)
(***************************************************************************)
Still == UNCHANGED <<bucket, uploads>>

\* The archive is downloaded first, whichever was named.
StartRestore(a, overwrite) ==
    /\ restore.pc \in {"idle", "done", "failed"} /\ restores < MaxRestores
    /\ restores' = restores + 1 /\ UNCHANGED <<changes, failures>>
    /\ restore' = [NoRestore EXCEPT !.pc = "files", !.ns = a.ns, !.has = a.has, !.expect = a.expect,
                                    !.overwrite = overwrite, !.left = a.ns,
                                    !.todo = {Globals}, !.update = TRUE]
    /\ Still /\ UNCHANGED <<object, namespace, served, job>>

\* Mutant: what exists is left alone, whatever was asked.
AppliedKeeps(o, update) == IF object[o] = 0 THEN restore.has[o] ELSE object[o]

\* apply: created, or replaced when that was asked for.
Applied(o, update) == IF object[o] = 0 \/ update THEN restore.has[o] ELSE object[o]

\* applyFile, of a kind the cluster has or not (a warning).
RestoreNext ==
    /\ restore.pc = "files"
    /\ \E o \in restore.todo :
        LET known == o = Globals \/ o[2] \in served
            stays == restore.has[o] = 0 \/ ~known
        IN  /\ Turn(o, restore.todo, RestoreOrder)
            /\ stays \/ o = Globals \/ o[1] \in namespace
            /\ object' = IF stays THEN object ELSE [object EXCEPT ![o] = Applied(o, restore.update)]
            /\ restore' = [restore EXCEPT !.todo = @ \ {o},
                                          !.touched = IF known THEN @ ELSE @ \cup {o}]
            /\ Disturb({o})
    /\ Free /\ Still /\ UNCHANGED <<namespace, served>>

\* restoreProject: a namespace that exists is skipped, or updated with --overwrite.
RestoreProject(p) ==
    /\ restore.pc = "files" /\ restore.todo = {} /\ p \in restore.left
    /\ LET enters == p \notin namespace \/ restore.overwrite
       IN  /\ namespace' = namespace \cup {p}
           /\ restore' = [restore EXCEPT
                 !.left = @ \ {p},
                 !.restored = IF enters THEN @ \cup {p} ELSE @,
                 !.todo = IF enters THEN FilesOf({p}) ELSE {},
                 !.update = restore.overwrite]
           /\ IF p \in namespace THEN UNCHANGED job ELSE Disturb(Of(p))
    /\ Free /\ Still /\ UNCHANGED <<object, served>>

RestoreEnds ==
    /\ restore.pc = "files" /\ restore.todo = {} /\ restore.left = {}
    /\ restore' = [NoRestore EXCEPT !.pc = "done"]
    /\ Free /\ Still /\ UNCHANGED <<object, namespace, served, job>>

\* An error or an interrupt ends it where it is; so does a namespace that went away.
RestoreFails ==
    /\ restore.pc = "files"
    /\ IF \E o \in restore.todo : o # Globals /\ o[1] \notin namespace
       THEN Free ELSE Failure
    /\ restore' = [NoRestore EXCEPT !.pc = "failed"]
    /\ Still /\ UNCHANGED <<object, namespace, served, job>>
----------------------------------------------------------------------------
BackupNext ==
    \/ \E o \in Objects, v \in Values \cup {0} : Write(o, v)
    \/ \E p \in Namespaces : CreateProject(p) \/ DestroyProject(p) \/ RestoreProject(p)
    \/ ClusterLost
    \/ \E j \in Jobs :
        \/ StartScheduled(j) \/ AskManual(j) \/ CreateManual(j) \/ PodFails(j)
        \/ ExportNext(j) \/ ListNamespaces(j) \/ Upload(j) \/ ListArchives(j) \/ Prune(j)
    \/ \E a \in bucket, overwrite \in BOOLEAN : StartRestore(a, overwrite)
    \/ RestoreNext \/ RestoreEnds \/ RestoreFails

BackupSpec == BackupInit /\ [][BackupNext]_backupVars
----------------------------------------------------------------------------
(***************************************************************************)
(* A restore that reports success gives back what was saved: of the system *)
(* objects and of every project it does not report as skipped, whatever    *)
(* held still through the export, was not left out of it and has not been  *)
(* touched since the restore began is there again as it was, although the  *)
(* export read a live cluster, earlier restores broke off half-way and     *)
(* others were made from other archives (Export, Restorer.Run).            *)
(***************************************************************************)
RestoreGivesBack ==
    [][restore.pc = "files" /\ restore'.pc = "done" =>
         \A o \in Objects :
            /\ o = Globals \/ o[1] \in restore.restored
            /\ restore.expect[o] \notin {0, Unknown} /\ o \notin restore.touched
            => object[o] = restore.expect[o]]_backupVars

(***************************************************************************)
(* The newest archives stay: of the archives ever stored the last Keep are *)
(* in the target, although Jobs overlap, prune from listings that others   *)
(* have acted on since, are cut short and try again (Target.Prune).        *)
(***************************************************************************)
NewestArchivesStay ==
    \A id \in 1..uploads : id + Keep > uploads => \E a \in bucket : a.id = id
=============================================================================
