---------------------- MODULE RegistryAndBackupProofs ----------------------
(***************************************************************************)
(* What Backup promises for any projects, kinds, values, Jobs and numbers  *)
(* of changes, failures, retries and restores: pruning leaves the newest   *)
(* archives, and a restore that reports success gives back what was saved. *)
(*                                                                         *)
(* What RegistryGC promises for every set of images and every number of    *)
(* collections and certificates: its types, and that a collection no call  *)
(* and no crash interrupts is alone on the disk and takes no image's layer.*)
(*                                                                         *)
(* The two components share nothing.                                       *)
(***************************************************************************)
EXTENDS RegistryGC, Backup, FiniteSetTheorems, TLAPS

(***************************************************************************)
(* Backup.  An export and a restore know what they owe: `expect` of a Job, *)
(* an archive and a restore.  The invariant relates it to what the cluster *)
(* holds and to what has been read or written so far.                      *)
(***************************************************************************)
\* Types.
Holds == [Objects -> Values \cup {0}]
Expects == [Objects -> Values \cup {0, Unknown}]
BackupJob ==
    [pc : {"none", "asked", "export", "projects", "list", "prune", "succeeded", "failed", "gone"},
     manual : BOOLEAN, tries : Nat, ns : SUBSET Namespaces, todo : SUBSET Objects,
     has : Holds, expect : Expects, doomed : SUBSET Nat]
RestoreRun ==
    [pc : {"idle", "files", "done", "failed"}, ns : SUBSET Namespaces, has : Holds,
     expect : Expects, overwrite : BOOLEAN, left : SUBSET Namespaces, todo : SUBSET Objects,
     update : BOOLEAN, restored : SUBSET Namespaces, touched : SUBSET Objects]
BackupType ==
    /\ object \in Holds
    /\ namespace \subseteq Namespaces
    /\ served \subseteq Kinds
    /\ uploads \in Nat
    /\ bucket \subseteq [id : 1 .. uploads, ns : SUBSET Namespaces, has : Holds, expect : Expects]
    /\ job \in [Jobs -> BackupJob]
    /\ restore \in RestoreRun

\* What a Job is to delete is older than the last Keep archives.
DoomedAreOld == \A j \in Jobs : \A id \in job[j].doomed : id + Keep <= uploads

\* A namespace that is not there holds nothing.
AbsentIsEmpty == \A o \in Objects : o # Globals /\ o[1] \notin namespace => object[o] = 0

\* What an export expects is there now, and in its files once they are read.
JobKnows(j) ==
    job[j].pc \in {"export", "projects"} =>
        \A o \in Objects : job[j].expect[o] # Unknown =>
            /\ object[o] = job[j].expect[o]
            /\ /\ o = Globals \/ (job[j].pc = "projects" /\ o[1] \in job[j].ns)
               /\ o \notin job[j].todo
               => job[j].has[o] = job[j].expect[o]

\* What an archive is expected to hold it holds.
ArchiveKnows(a) ==
    \A o \in Objects : (o = Globals \/ o[1] \in a.ns) /\ a.expect[o] # Unknown
        => a.has[o] = a.expect[o]

\* What a restore owes is there, or nothing is in its way.
RestoreKnows ==
    restore.pc = "files" =>
        /\ restore.restored \cup restore.left \subseteq restore.ns
        /\ ArchiveKnows(restore)
        /\ \A o \in Objects :
             /\ o = Globals \/ o[1] \in restore.restored
             /\ restore.expect[o] \notin {0, Unknown} /\ o \notin restore.touched
             => IF o \in restore.todo THEN restore.update \/ object[o] = 0
                ELSE object[o] = restore.expect[o]

SavedInv ==
    /\ AbsentIsEmpty
    /\ \A j \in Jobs : JobKnows(j)
    /\ \A a \in bucket : ArchiveKnows(a)
    /\ RestoreKnows

----------------------------------------------------------------------------
(* Types.                                                                   *)

LEMMA ObjectsFacts ==
    /\ Globals \in Objects
    /\ \A p : Of(p) \subseteq Objects
    /\ \A ps \in SUBSET Namespaces : FilesOf(ps) \subseteq Objects
    /\ \A o \in Objects : o # Globals => o[1] \in Namespaces /\ o[2] \in Kinds
    /\ \A p \in Namespaces : \A o \in Objects :
         o # Globals /\ o[1] = p => o \in Of(p) /\ o \in FilesOf({p})
    /\ \A p \in Namespaces : Globals[1] # p /\ Globals \notin Of(p)
    /\ \A ps \in SUBSET Namespaces : \A o \in Objects :
         o # Globals /\ o[1] \in ps => o \in FilesOf(ps)
    /\ \A p \in Namespaces : \A o \in Objects : o \in Of(p) => o[1] = p
  BY BackupAssumption DEF Objects, Globals, Of, FilesOf

LEMMA Blanks ==
    /\ Nothing \in Holds /\ Nothing \in Expects
    /\ NoBackup \in BackupJob /\ NoRestore \in RestoreRun
  <1>1. Nothing \in Holds /\ Nothing \in Expects
    BY DEF Nothing, Holds, Expects
  <1> QED BY <1>1 DEF NoBackup, NoRestore, BackupJob, RestoreRun

\* A pod that starts.
LEMMA AttemptType ==
    ASSUME BackupType, NEW j \in Jobs, NEW manual \in BOOLEAN, NEW tries \in Nat
    PROVE  /\ Attempt(j, manual, tries) \in BackupJob
           /\ Attempt(j, manual, tries).pc = "export"
           /\ Attempt(j, manual, tries).todo = {Globals}
           /\ Attempt(j, manual, tries).expect = object
           /\ Attempt(j, manual, tries).doomed = {}
  <1>1. object \in Expects
    BY DEF BackupType, Holds, Expects
  <1> QED BY <1>1, Blanks, ObjectsFacts DEF Attempt, NoBackup, BackupJob

\* A pod that does not.
LEMMA IdleType ==
    ASSUME NEW pc \in {"none", "asked", "succeeded", "failed", "gone"}
    PROVE  /\ [NoBackup EXCEPT !.pc = pc] \in BackupJob
           /\ [NoBackup EXCEPT !.pc = pc].pc = pc
           /\ [NoBackup EXCEPT !.pc = pc].doomed = {}
  BY Blanks DEF NoBackup, BackupJob

\* What a change does to the Jobs.
LEMMA DisturbType ==
    ASSUME BackupType, NEW os, Disturb(os)
    PROVE  /\ job' \in [Jobs -> BackupJob]
           /\ \A j \in Jobs :
                /\ job'[j].pc = job[j].pc /\ job'[j].ns = job[j].ns
                /\ job'[j].todo = job[j].todo /\ job'[j].has = job[j].has
                /\ job'[j].doomed = job[j].doomed
                /\ \A o \in Objects : job'[j].expect[o] =
                                        IF o \in os THEN Unknown ELSE job[j].expect[o]
  <1> SUFFICES ASSUME NEW j \in Jobs
      PROVE  /\ job'[j] \in BackupJob
             /\ job'[j].pc = job[j].pc /\ job'[j].ns = job[j].ns
             /\ job'[j].todo = job[j].todo /\ job'[j].has = job[j].has
             /\ job'[j].doomed = job[j].doomed
             /\ \A o \in Objects : job'[j].expect[o] =
                                     IF o \in os THEN Unknown ELSE job[j].expect[o]
    BY DEF Disturb, BackupType
  <1> DEFINE e == [o \in Objects |-> IF o \in os THEN Unknown ELSE job[j].expect[o]]
  <1>1. job[j] \in BackupJob
    BY DEF BackupType
  <1>2. e \in Expects
    BY <1>1 DEF BackupJob, Expects
  <1>3. job'[j] = [job[j] EXCEPT !.expect = e]
    BY DEF Disturb
  <1> HIDE DEF e
  <1>4. job'[j] \in BackupJob /\ job'[j].expect = e
    BY <1>1, <1>2, <1>3 DEF BackupJob
  <1>5. \A o \in Objects : e[o] = IF o \in os THEN Unknown ELSE job[j].expect[o]
    BY DEF e
  <1> QED BY <1>1, <1>3, <1>4, <1>5 DEF BackupJob

\* What a change does to a restore.
LEMMA TouchType ==
    ASSUME BackupType, NEW os \in SUBSET Objects, restore' = [restore EXCEPT !.touched = @ \cup os]
    PROVE  /\ restore' \in RestoreRun
           /\ restore'.touched = restore.touched \cup os
           /\ \A f \in {"pc", "ns", "has", "expect", "left", "todo", "update", "restored"} :
                restore'[f] = restore[f]
  BY DEF BackupType, RestoreRun

\* What one step of an export makes of its Job.
LEMMA FileType ==
    ASSUME BackupType, NEW j \in Jobs, NEW o \in Objects
    PROVE  /\ Read(j, o) \in BackupJob /\ Drop(j, o) \in BackupJob
           /\ \A r \in {Read(j, o), Drop(j, o)} :
                /\ r.pc = job[j].pc /\ r.ns = job[j].ns /\ r.doomed = job[j].doomed
                /\ r.todo = job[j].todo \ {o}
           /\ Read(j, o).expect = job[j].expect
           /\ Read(j, o).has = [job[j].has EXCEPT ![o] = object[o]]
           /\ Drop(j, o).has = job[j].has
           /\ Drop(j, o).expect = [job[j].expect EXCEPT ![o] = Unknown]
  <1> DEFINE h == [job[j].has EXCEPT ![o] = object[o]]
             e == [job[j].expect EXCEPT ![o] = Unknown]
  <1>1. job[j] \in BackupJob
    BY DEF BackupType
  <1>2. h \in Holds /\ e \in Expects
    BY <1>1 DEF BackupJob, Holds, Expects, BackupType
  <1>3. Read(j, o) = [job[j] EXCEPT !.todo = @ \ {o}, !.has = h]
    BY <1>1 DEF Read, BackupJob
  <1>4. Drop(j, o) = [job[j] EXCEPT !.todo = @ \ {o}, !.expect = e]
    BY <1>1 DEF Drop, BackupJob
  <1> HIDE DEF h, e
  <1>5. /\ Read(j, o) \in BackupJob /\ Read(j, o).has = h
        /\ Drop(j, o) \in BackupJob /\ Drop(j, o).expect = e
    BY <1>1, <1>2, <1>3, <1>4 DEF BackupJob
  <1>6. /\ Read(j, o).pc = job[j].pc /\ Read(j, o).ns = job[j].ns
        /\ Read(j, o).doomed = job[j].doomed /\ Read(j, o).todo = job[j].todo \ {o}
    BY <1>1, <1>3 DEF BackupJob
  <1>8. /\ Drop(j, o).pc = job[j].pc /\ Drop(j, o).ns = job[j].ns
        /\ Drop(j, o).doomed = job[j].doomed /\ Drop(j, o).todo = job[j].todo \ {o}
    BY <1>1, <1>4 DEF BackupJob
  <1>7. Read(j, o).expect = job[j].expect /\ Drop(j, o).has = job[j].has
    BY <1>1, <1>3, <1>4 DEF BackupJob
  <1> QED BY <1>5, <1>6, <1>7, <1>8 DEF h, e

\* A Job of its own changes.
LEMMA SetType ==
    ASSUME BackupType, NEW j \in Jobs, NEW r \in BackupJob, Set(j, r)
    PROVE  /\ job' \in [Jobs -> BackupJob] /\ job'[j] = r
           /\ \A i \in Jobs \ {j} : job'[i] = job[i]
  BY DEF Set, BackupType

LEMMA BackupInitType == BackupInit => BackupType
  <1> SUFFICES ASSUME BackupInit PROVE BackupType
    OBVIOUS
  <1>1. object \in Holds
    BY BackupAssumption DEF BackupInit, Holds
  <1> QED BY <1>1, Blanks DEF BackupInit, BackupType

\* Changes of people.
LEMMA PeopleType ==
    ASSUME BackupType,
           \/ \E o \in Objects, v \in Values \cup {0} : Write(o, v)
           \/ \E p \in Namespaces : CreateProject(p) \/ DestroyProject(p)
    PROVE  BackupType'
  <1> USE DEF BackupType
  <1>1. ASSUME NEW o \in Objects, NEW v \in Values \cup {0}, Write(o, v) PROVE BackupType'
    <2>1. object' \in Holds
      BY <1>1 DEF Write, Holds
    <2>2. Disturb({o}) /\ {o} \in SUBSET Objects
      BY <1>1 DEF Write, Touch
    <2>3. restore' \in RestoreRun
      BY <1>1, <2>2, TouchType DEF Write, Touch
    <2>4. job' \in [Jobs -> BackupJob]
      BY <2>2, DisturbType
    <2> QED BY <1>1, <2>1, <2>3, <2>4 DEF Write
  <1>2. ASSUME NEW p \in Namespaces, CreateProject(p) PROVE BackupType'
    BY <1>2, DisturbType, TouchType, ObjectsFacts DEF CreateProject, Touch
  <1>3. ASSUME NEW p \in Namespaces, DestroyProject(p) PROVE BackupType'
    <2>1. object' \in Holds
      BY <1>3 DEF DestroyProject, Holds
    <2> QED BY <1>3, <2>1, DisturbType, TouchType, ObjectsFacts DEF DestroyProject, Touch
  <1> QED BY <1>1, <1>2, <1>3

LEMMA LostType ==
    ASSUME BackupType, ClusterLost
    PROVE  BackupType' /\ \A j \in Jobs : job'[j].doomed = {} /\ job'[j].pc \in {"none", "gone"}
  <1>1. \A j \in Jobs : job'[j] \in BackupJob /\ job'[j].doomed = {}
                         /\ job'[j].pc \in {"none", "gone"}
    BY IdleType DEF ClusterLost
  <1> QED BY <1>1, Blanks DEF ClusterLost, BackupType

\* The steps of a Job, the upload apart.
JobStep(j) ==
    \/ StartScheduled(j) \/ AskManual(j) \/ CreateManual(j) \/ PodFails(j)
    \/ ExportNext(j) \/ ListNamespaces(j) \/ ListArchives(j) \/ Prune(j)

\* What a Job that failed becomes.
LEMMA AgainType ==
    ASSUME BackupType, NEW j \in Jobs,
           Set(j, IF job[j].tries < MaxTries THEN Attempt(j, job[j].manual, job[j].tries + 1)
                  ELSE [NoBackup EXCEPT !.pc = "failed"])
    PROVE  /\ job' \in [Jobs -> BackupJob]
           /\ \A i \in Jobs \ {j} : job'[i] = job[i]
           /\ job'[j].doomed = {}
           /\ \/ job'[j].pc = "failed"
              \/ job'[j].pc = "export" /\ job'[j].todo = {Globals} /\ job'[j].expect = object
  <1>1. job[j].manual \in BOOLEAN /\ job[j].tries + 1 \in Nat
    BY DEF BackupType, BackupJob
  <1>2. CASE job[j].tries < MaxTries
    <2>1. Set(j, Attempt(j, job[j].manual, job[j].tries + 1))
      BY <1>2
    <2> QED BY <1>1, <2>1, AttemptType, SetType
  <1>3. CASE ~(job[j].tries < MaxTries)
    <2>1. Set(j, [NoBackup EXCEPT !.pc = "failed"])
      BY <1>3
    <2> QED BY <2>1, IdleType, SetType
  <1> QED BY <1>2, <1>3

\* The archives' numbers.
LEMMA Ids ==
    ASSUME BackupType
    PROVE  /\ {a.id : a \in bucket} \subseteq 1 .. uploads
           /\ Doomed({a.id : a \in bucket}) \subseteq Nat
  BY DEF BackupType, Doomed

\* What each step of a Job leaves of it.
LEMMA JobStepType ==
    ASSUME BackupType, NEW j \in Jobs, JobStep(j)
    PROVE  /\ job' \in [Jobs -> BackupJob]
           /\ \A i \in Jobs \ {j} : job'[i] = job[i]
           /\ UNCHANGED <<object, namespace, served, restore, uploads>>
           /\ \/ job'[j].pc \notin {"export", "projects"}
              \/ job'[j].pc = "export" /\ job'[j].todo = {Globals} /\ job'[j].expect = object
              \/ ExportNext(j) \/ ListNamespaces(j)
           /\ \/ job'[j].doomed \subseteq job[j].doomed
              \/ job'[j].doomed = {}
              \/ job'[j].doomed = Doomed({a.id : a \in bucket})
           /\ \/ bucket' = bucket
              \/ \E id \in job[j].doomed : bucket' = {a \in bucket : a.id # id}
  <1>0. job[j] \in BackupJob
    BY DEF BackupType
  <1>1. CASE StartScheduled(j)
    <2>1. /\ Attempt(j, FALSE, 1) \in BackupJob
          /\ Attempt(j, FALSE, 1).pc = "export" /\ Attempt(j, FALSE, 1).todo = {Globals}
          /\ Attempt(j, FALSE, 1).expect = object /\ Attempt(j, FALSE, 1).doomed = {}
      BY AttemptType
    <2>2. Set(j, Attempt(j, FALSE, 1))
      BY <1>1 DEF StartScheduled
    <2> QED BY <1>1, <2>1, <2>2, SetType DEF StartScheduled, Keeping
  <1>2. CASE AskManual(j)
    BY <1>2, IdleType, SetType DEF AskManual, Keeping
  <1>3. CASE CreateManual(j)
    <2>1. /\ Attempt(j, TRUE, 1) \in BackupJob
          /\ Attempt(j, TRUE, 1).pc = "export" /\ Attempt(j, TRUE, 1).todo = {Globals}
          /\ Attempt(j, TRUE, 1).expect = object /\ Attempt(j, TRUE, 1).doomed = {}
      BY AttemptType
    <2>2. Set(j, Attempt(j, TRUE, 1))
      BY <1>3 DEF CreateManual
    <2> QED BY <1>3, <2>1, <2>2, SetType DEF CreateManual, Keeping
  <1>4. CASE PodFails(j)
    BY <1>4, AgainType DEF PodFails, Keeping
  <1>5. CASE ExportNext(j)
    <2>1. PICK o \in Objects : Set(j, Read(j, o)) \/ Set(j, Drop(j, o))
      BY <1>0, <1>5 DEF ExportNext, BackupJob
    <2>2. PICK r \in {Read(j, o), Drop(j, o)} : Set(j, r)
      BY <2>1
    <2>3. r \in BackupJob /\ r.doomed = job[j].doomed
      BY <2>2, FileType
    <2> QED BY <1>5, <2>2, <2>3, SetType DEF ExportNext, Keeping
  <1>6. CASE ListNamespaces(j)
    <2> DEFINE r == [job[j] EXCEPT !.pc = "projects", !.ns = namespace,
                                   !.todo = FilesOf(namespace)]
    <2>1. r \in BackupJob /\ r.doomed = job[j].doomed
      BY <1>0, ObjectsFacts DEF BackupJob, BackupType
    <2> HIDE DEF r
    <2>2. Set(j, r)
      BY <1>6 DEF ListNamespaces, r
    <2> QED BY <1>6, <2>1, <2>2, SetType DEF ListNamespaces, Keeping
  <1>7. CASE ListArchives(j)
    <2> DEFINE r == [job[j] EXCEPT !.pc = "prune", !.doomed = Doomed({a.id : a \in bucket})]
    <2>1. r \in BackupJob /\ r.pc = "prune" /\ r.doomed = Doomed({a.id : a \in bucket})
      BY <1>0, Ids DEF BackupJob
    <2> HIDE DEF r
    <2>2. Set(j, r) \/ Set(j, [NoBackup EXCEPT !.pc = "succeeded"])
      BY <1>7 DEF ListArchives, r
    <2>3. CASE Set(j, r)
      BY <1>7, <2>1, <2>3, SetType DEF ListArchives, Keeping
    <2>4. CASE Set(j, [NoBackup EXCEPT !.pc = "succeeded"])
      BY <1>7, <2>4, IdleType, SetType DEF ListArchives, Keeping
    <2> QED BY <2>2, <2>3, <2>4
  <1>8. CASE Prune(j)
    <2>1. CASE Set(j, [NoBackup EXCEPT !.pc = "succeeded"]) /\ UNCHANGED bucket
      BY <1>8, <2>1, IdleType, SetType DEF Prune, Keeping
    <2>2. ASSUME NEW id \in job[j].doomed, bucket' = {a \in bucket : a.id # id},
                 Set(j, [job[j] EXCEPT !.doomed = @ \ {id}])
          PROVE  /\ job' \in [Jobs -> BackupJob]
                 /\ \A i \in Jobs \ {j} : job'[i] = job[i]
                 /\ job'[j].pc = "prune"
                 /\ job'[j].doomed \subseteq job[j].doomed
      <3> DEFINE r == [job[j] EXCEPT !.doomed = @ \ {id}]
      <3>1. r \in BackupJob /\ r.pc = "prune" /\ r.doomed \subseteq job[j].doomed
        BY <1>0, <1>8 DEF BackupJob, Prune
      <3> HIDE DEF r
      <3>2. Set(j, r)
        BY <2>2 DEF r
      <3> QED BY <3>1, <3>2, SetType
    <2> QED BY <1>8, <2>1, <2>2 DEF Prune, Keeping
  <1> QED BY <1>1, <1>2, <1>3, <1>4, <1>5, <1>6, <1>7, <1>8 DEF JobStep

\* The upload: the archive, and what becomes of the Job.
LEMMA UploadType ==
    ASSUME BackupType, NEW j \in Jobs, Upload(j)
    PROVE  /\ job' \in [Jobs -> BackupJob]
           /\ \A i \in Jobs \ {j} : job'[i] = job[i]
           /\ UNCHANGED <<object, namespace, served, restore>>
           /\ uploads' = uploads + 1 /\ bucket' = bucket \cup {Archive(j)}
           /\ Archive(j) \in [id : {uploads + 1}, ns : SUBSET Namespaces, has : Holds,
                               expect : Expects]
           /\ \/ job'[j].pc \notin {"export", "projects"}
              \/ job'[j].pc = "export" /\ job'[j].todo = {Globals} /\ job'[j].expect = object
           /\ job'[j].doomed \subseteq job[j].doomed
  <1>0. job[j] \in BackupJob
    BY DEF BackupType
  <1>1. Archive(j) \in [id : {uploads + 1}, ns : SUBSET Namespaces, has : Holds, expect : Expects]
    BY <1>0 DEF Archive, BackupJob
  <1>2. CASE Set(j, [job[j] EXCEPT !.pc = "list"])
    <2> DEFINE r == [job[j] EXCEPT !.pc = "list"]
    <2>1. r \in BackupJob /\ r.pc = "list" /\ r.doomed = job[j].doomed
      BY <1>0 DEF BackupJob
    <2> HIDE DEF r
    <2>2. Set(j, r)
      BY <1>2 DEF r
    <2> QED BY <1>1, <2>1, <2>2, SetType DEF Upload, Keeping
  <1>3. CASE ~Set(j, [job[j] EXCEPT !.pc = "list"])
    BY <1>1, <1>3, AgainType DEF Upload, Keeping
  <1> QED BY <1>2, <1>3

\* The restore.
LEMMA RestoreStepType ==
    ASSUME BackupType,
           \/ \E a \in bucket, overwrite \in BOOLEAN : StartRestore(a, overwrite)
           \/ RestoreNext \/ RestoreEnds \/ RestoreFails
           \/ \E p \in Namespaces : RestoreProject(p)
    PROVE  BackupType'
  <1> USE DEF BackupType, Still
  <1>0. restore \in RestoreRun
    OBVIOUS
  <1>1. ASSUME NEW a \in bucket, NEW overwrite \in BOOLEAN, StartRestore(a, overwrite)
        PROVE  BackupType'
    <2>1. restore' \in RestoreRun
      BY <1>1, Blanks, ObjectsFacts DEF StartRestore, NoRestore, RestoreRun
    <2> QED BY <1>1, <2>1 DEF StartRestore
  <1>2. CASE RestoreNext
    <2>1. PICK o \in restore.todo :
            /\ object' = object \/ object' = [object EXCEPT ![o] = Applied(o, restore.update)]
            /\ \E os \in {restore.touched, restore.touched \cup {o}} :
                 restore' = [restore EXCEPT !.todo = @ \ {o}, !.touched = os]
            /\ Disturb({o})
      BY <1>2 DEF RestoreNext
    <2>2. o \in Objects
      BY <1>0 DEF RestoreRun
    <2>3. Applied(o, restore.update) \in Values \cup {0}
      BY <1>0, <2>2 DEF Applied, RestoreRun, Holds
    <2>4. object' \in Holds
      BY <2>1, <2>2, <2>3 DEF Holds
    <2>5. restore' \in RestoreRun
      <3>1. PICK os \in {restore.touched, restore.touched \cup {o}} :
              restore' = [restore EXCEPT !.todo = @ \ {o}, !.touched = os]
        BY <2>1
      <3>2. os \in SUBSET Objects
        BY <1>0, <2>2, <3>1 DEF RestoreRun
      <3> QED BY <1>0, <3>1, <3>2 DEF RestoreRun
    <2>6. job' \in [Jobs -> BackupJob]
      BY <2>1, DisturbType
    <2> QED BY <1>2, <2>4, <2>5, <2>6 DEF RestoreNext
  <1>3. CASE RestoreEnds \/ RestoreFails
    <2>1. restore' \in RestoreRun
      BY <1>3, Blanks DEF RestoreEnds, RestoreFails, NoRestore, RestoreRun
    <2> QED BY <1>3, <2>1 DEF RestoreEnds, RestoreFails
  <1>4. ASSUME NEW p \in Namespaces, RestoreProject(p) PROVE BackupType'
    <2>1. FilesOf({p}) \subseteq Objects
      BY ObjectsFacts
    <2>2. restore' \in RestoreRun
      BY <1>0, <1>4, <2>1 DEF RestoreProject, RestoreRun
    <2>3. job' \in [Jobs -> BackupJob]
      BY <1>4, DisturbType DEF RestoreProject
    <2> QED BY <1>4, <2>2, <2>3 DEF RestoreProject
  <1> QED BY <1>1, <1>2, <1>3, <1>4

LEMMA BackupTypeStep == BackupType /\ [BackupNext]_backupVars => BackupType'
  <1> SUFFICES ASSUME BackupType, [BackupNext]_backupVars PROVE BackupType'
    OBVIOUS
  <1>1. ASSUME NEW j \in Jobs, JobStep(j) PROVE BackupType'
    BY <1>1, JobStepType DEF BackupType
  <1>2. ASSUME NEW j \in Jobs, Upload(j) PROVE BackupType'
    BY <1>2, UploadType DEF BackupType
  <1>3. CASE UNCHANGED backupVars
    BY <1>3 DEF backupVars, BackupType
  <1> QED BY <1>1, <1>2, <1>3, PeopleType, LostType, RestoreStepType DEF BackupNext, JobStep

----------------------------------------------------------------------------
(* The newest archives stay.                                                *)

\* What is pruned from a listing has Keep newer archives, all of them stored.
LEMMA DoomedIsOld ==
    ASSUME BackupType, NEW id \in Doomed({a.id : a \in bucket})
    PROVE  id + Keep <= uploads
  <1> DEFINE newer == {k \in {a.id : a \in bucket} : k > id}
  <1>1. id \in 1 .. uploads /\ Cardinality(newer) >= Keep /\ uploads \in Nat
    BY Ids DEF Doomed, BackupType
  <1>2. newer \subseteq (id + 1) .. uploads
    BY <1>1, Ids
  <1> HIDE DEF newer
  <1>3. /\ IsFiniteSet((id + 1) .. uploads)
        /\ Cardinality((id + 1) .. uploads) =
             IF id + 1 > uploads THEN 0 ELSE uploads - (id + 1) + 1
    BY <1>1, FS_Interval
  <1>4. /\ IsFiniteSet(newer) /\ Cardinality(newer) \in Nat
        /\ Cardinality(newer) <= Cardinality((id + 1) .. uploads)
    BY <1>2, <1>3, FS_Subset, FS_CardinalityType
  <1> QED BY <1>1, <1>3, <1>4, BackupAssumption

PruneInv == DoomedAreOld /\ NewestArchivesStay

LEMMA PruneStep ==
    ASSUME BackupType, PruneInv, [BackupNext]_backupVars
    PROVE  PruneInv'
  <1> USE DEF PruneInv
  <1>0. uploads \in Nat /\ Keep \in Nat \ {0} /\ \A j \in Jobs : job[j].doomed \subseteq Nat
    BY BackupAssumption DEF BackupType, BackupJob
  <1>1. ASSUME NEW j \in Jobs, JobStep(j) PROVE PruneInv'
    <2>1. \A i \in Jobs : \A id \in job'[i].doomed : id + Keep <= uploads
      BY <1>1, JobStepType, DoomedIsOld DEF DoomedAreOld
    <2>2. NewestArchivesStay'
      <3>1. CASE bucket' = bucket
        BY <1>1, <3>1, JobStepType DEF NewestArchivesStay
      <3>2. ASSUME NEW id \in job[j].doomed, bucket' = {a \in bucket : a.id # id}
            PROVE  NewestArchivesStay'
        <4>1. id + Keep <= uploads /\ id \in Nat /\ uploads' = uploads
          BY <1>0, <1>1, JobStepType DEF DoomedAreOld
        <4> QED BY <1>0, <3>2, <4>1 DEF NewestArchivesStay
      <3> QED BY <1>1, <3>1, <3>2, JobStepType
    <2> QED BY <1>1, <2>1, <2>2, JobStepType DEF DoomedAreOld
  <1>2. ASSUME NEW j \in Jobs, Upload(j) PROVE PruneInv'
    <2>1. \A i \in Jobs : job'[i].doomed \subseteq job[i].doomed
      BY <1>2, UploadType
    <2>2. uploads' = uploads + 1 /\ bucket' = bucket \cup {Archive(j)}
          /\ Archive(j).id = uploads + 1
      BY <1>2, UploadType DEF Archive
    <2>3. DoomedAreOld'
      BY <1>0, <2>1, <2>2 DEF DoomedAreOld
    <2>4. NewestArchivesStay'
      BY <1>0, <2>2 DEF NewestArchivesStay
    <2> QED BY <2>3, <2>4
  <1>3. CASE ClusterLost
    BY <1>3, LostType DEF ClusterLost, DoomedAreOld, NewestArchivesStay
  <1>4. ASSUME UNCHANGED <<bucket, uploads>>,
               (\E os : Disturb(os)) \/ UNCHANGED job
        PROVE  PruneInv'
    <2>1. \A j \in Jobs : job'[j].doomed = job[j].doomed
      BY <1>4, DisturbType
    <2> QED BY <1>4, <2>1 DEF DoomedAreOld, NewestArchivesStay
  <1>5. ASSUME NEW o \in Objects, NEW v \in Values \cup {0}, Write(o, v) PROVE PruneInv'
    BY <1>4, <1>5 DEF Write, Touch
  <1>6. ASSUME NEW p \in Namespaces, CreateProject(p) \/ DestroyProject(p) \/ RestoreProject(p)
        PROVE  PruneInv'
    BY <1>4, <1>6 DEF CreateProject, DestroyProject, RestoreProject, Touch, Still
  <1>7. CASE (\E a \in bucket, overwrite \in BOOLEAN : StartRestore(a, overwrite))
             \/ RestoreEnds \/ RestoreFails \/ UNCHANGED backupVars
    BY <1>4, <1>7 DEF StartRestore, RestoreEnds, RestoreFails, Still, backupVars
  <1>8. CASE RestoreNext
    BY <1>4, <1>8 DEF RestoreNext, Still
  <1> QED BY <1>1, <1>2, <1>3, <1>5, <1>6, <1>7, <1>8 DEF BackupNext, JobStep

(***************************************************************************)
(* The newest Keep of the archives ever stored are in the target, for any  *)
(* number of Jobs, however they overlap, fail and try again, and whatever  *)
(* people, restores and the loss of the cluster do (Target.Prune).         *)
(***************************************************************************)
THEOREM NewestHolds == BackupSpec => []NewestArchivesStay
  <1>1. BackupInit => BackupType /\ PruneInv
    <2> SUFFICES ASSUME BackupInit PROVE BackupType /\ PruneInv
      OBVIOUS
    <2>1. \A j \in Jobs : job[j].doomed = {}
      BY DEF BackupInit, NoBackup
    <2> QED BY <2>1, BackupInitType DEF BackupInit, PruneInv, DoomedAreOld, NewestArchivesStay
  <1>2. BackupType /\ PruneInv /\ [BackupNext]_backupVars => (BackupType /\ PruneInv)'
    BY BackupTypeStep, PruneStep
  <1>3. PruneInv => NewestArchivesStay
    BY DEF PruneInv
  <1> QED BY <1>1, <1>2, <1>3, PTL DEF BackupSpec

----------------------------------------------------------------------------
(* What is restored is what was saved.                                      *)

\* Disturbed: the Jobs know nothing of what changed.
LEMMA DisturbKnows ==
    ASSUME BackupType, NEW os, Disturb(os),
           \A o \in Objects : o \notin os => object'[o] = object[o],
           \A j \in Jobs : JobKnows(j)
    PROVE  \A j \in Jobs : JobKnows(j)'
  <1> SUFFICES ASSUME NEW j \in Jobs, job'[j].pc \in {"export", "projects"},
                      NEW o \in Objects, job'[j].expect[o] # Unknown
      PROVE  /\ object'[o] = job'[j].expect[o]
             /\ /\ o = Globals \/ (job'[j].pc = "projects" /\ o[1] \in job'[j].ns)
                /\ o \notin job'[j].todo
                => job'[j].has[o] = job'[j].expect[o]
    BY DEF JobKnows
  <1>1. /\ job'[j].pc = job[j].pc /\ job'[j].ns = job[j].ns
        /\ job'[j].todo = job[j].todo /\ job'[j].has = job[j].has
        /\ job'[j].expect[o] = IF o \in os THEN Unknown ELSE job[j].expect[o]
    BY DisturbType
  <1>2. o \notin os /\ job'[j].expect[o] = job[j].expect[o]
    BY <1>1
  <1>3. object'[o] = object[o]
    BY <1>2
  <1> QED BY <1>1, <1>2, <1>3 DEF JobKnows

\* Touched: a restore owes nothing for what changed.
LEMMA TouchKnows ==
    ASSUME BackupType, NEW os \in SUBSET Objects,
           restore' = [restore EXCEPT !.touched = @ \cup os],
           \A o \in Objects \ os : object'[o] = object[o],
           RestoreKnows
    PROVE  RestoreKnows'
  <1>1. /\ restore'.touched = restore.touched \cup os
        /\ restore'.pc = restore.pc /\ restore'.ns = restore.ns /\ restore'.has = restore.has
        /\ restore'.expect = restore.expect /\ restore'.left = restore.left
        /\ restore'.todo = restore.todo /\ restore'.update = restore.update
        /\ restore'.restored = restore.restored
    BY TouchType
  <1> QED BY <1>1 DEF RestoreKnows, ArchiveKnows

LEMMA PeopleKnow ==
    ASSUME BackupType, SavedInv,
           \/ \E o \in Objects, v \in Values \cup {0} : Write(o, v)
           \/ \E p \in Namespaces : CreateProject(p) \/ DestroyProject(p)
    PROVE  SavedInv'
  <1> USE DEF SavedInv
  <1>1. ASSUME NEW o \in Objects, NEW v \in Values \cup {0}, Write(o, v) PROVE SavedInv'
    <2>1. /\ Disturb({o}) /\ {o} \in SUBSET Objects
          /\ restore' = [restore EXCEPT !.touched = @ \cup {o}]
      BY <1>1 DEF Write, Touch
    <2>2. object' = [object EXCEPT ![o] = v] /\ object \in Holds
      BY <1>1 DEF Write, BackupType
    <2>3. \A q \in Objects : q \notin {o} => object'[q] = object[q]
      BY <2>2 DEF Holds
    <2>4. AbsentIsEmpty'
      BY <1>1, <2>3 DEF Write, AbsentIsEmpty
    <2>5. (\A j \in Jobs : JobKnows(j))'
      BY <2>1, <2>3, DisturbKnows
    <2>6. RestoreKnows'
      BY <2>1, <2>3, TouchKnows
    <2> QED BY <1>1, <2>4, <2>5, <2>6 DEF Write, ArchiveKnows
  <1>2. ASSUME NEW p \in Namespaces, CreateProject(p) PROVE SavedInv'
    <2>1. /\ Disturb(Of(p)) /\ Of(p) \in SUBSET Objects
          /\ restore' = [restore EXCEPT !.touched = @ \cup Of(p)] /\ object' = object
      BY <1>2, ObjectsFacts DEF CreateProject, Touch
    <2>2. AbsentIsEmpty'
      BY <1>2 DEF CreateProject, AbsentIsEmpty
    <2>3. (\A j \in Jobs : JobKnows(j))'
      BY <2>1, DisturbKnows
    <2>4. RestoreKnows'
      BY <2>1, TouchKnows
    <2> QED BY <1>2, <2>2, <2>3, <2>4 DEF CreateProject, ArchiveKnows
  <1>3. ASSUME NEW p \in Namespaces, DestroyProject(p) PROVE SavedInv'
    <2>1. /\ Disturb(Of(p)) /\ Of(p) \in SUBSET Objects
          /\ restore' = [restore EXCEPT !.touched = @ \cup Of(p)]
      BY <1>3, ObjectsFacts DEF DestroyProject, Touch
    <2>2. \A q \in Objects : object'[q] = IF q[1] = p THEN 0 ELSE object[q]
      BY <1>3 DEF DestroyProject
    <2>3. \A q \in Objects : q \notin Of(p) => object'[q] = object[q]
      BY <2>2 DEF Of
    <2>4. AbsentIsEmpty'
      BY <1>3, <2>2 DEF DestroyProject, AbsentIsEmpty
    <2>5. (\A j \in Jobs : JobKnows(j))'
      BY <2>1, <2>3, DisturbKnows
    <2>6. RestoreKnows'
      BY <2>1, <2>3, TouchKnows
    <2> QED BY <1>3, <2>4, <2>5, <2>6 DEF DestroyProject, ArchiveKnows
  <1> QED BY <1>1, <1>2, <1>3

LEMMA LostKnows == ASSUME BackupType, SavedInv, ClusterLost PROVE SavedInv'
  <1>1. AbsentIsEmpty'
    BY DEF ClusterLost, AbsentIsEmpty, Nothing
  <1>2. (\A j \in Jobs : JobKnows(j))'
    BY LostType DEF JobKnows
  <1>3. RestoreKnows'
    BY DEF ClusterLost, NoRestore, RestoreKnows
  <1> QED BY <1>1, <1>2, <1>3 DEF ClusterLost, SavedInv, ArchiveKnows

\* A file of an export.
LEMMA ExportKnows ==
    ASSUME BackupType, NEW j \in Jobs, JobKnows(j), ExportNext(j)
    PROVE  JobKnows(j)'
  <1>0. job[j] \in BackupJob /\ object \in Holds
    BY DEF BackupType
  <1>1. PICK o \in Objects : Set(j, Read(j, o)) \/ Set(j, Drop(j, o))
    BY <1>0 DEF ExportNext, BackupJob
  <1>2. job[j].pc \in {"export", "projects"} /\ object' = object
    BY DEF ExportNext, Keeping
  <1>3. CASE Set(j, Read(j, o))
    <2>1. /\ job'[j].pc = job[j].pc /\ job'[j].ns = job[j].ns
          /\ job'[j].todo = job[j].todo \ {o} /\ job'[j].expect = job[j].expect
          /\ job'[j].has = [job[j].has EXCEPT ![o] = object[o]]
      <3>1. /\ Read(j, o) \in BackupJob /\ Read(j, o).pc = job[j].pc
            /\ Read(j, o).ns = job[j].ns /\ Read(j, o).todo = job[j].todo \ {o}
            /\ Read(j, o).expect = job[j].expect
            /\ Read(j, o).has = [job[j].has EXCEPT ![o] = object[o]]
        BY FileType
      <3>2. job'[j] = Read(j, o)
        BY <1>3, <3>1, SetType
      <3> QED BY <3>1, <3>2
    <2>2. \A q \in Objects : job'[j].has[q] = IF q = o THEN object[o] ELSE job[j].has[q]
      BY <1>0, <2>1 DEF BackupJob, Holds
    <2> QED BY <1>2, <2>1, <2>2 DEF JobKnows
  <1>4. CASE Set(j, Drop(j, o))
    <2>1. /\ job'[j].pc = job[j].pc /\ job'[j].ns = job[j].ns
          /\ job'[j].todo = job[j].todo \ {o} /\ job'[j].has = job[j].has
          /\ job'[j].expect = [job[j].expect EXCEPT ![o] = Unknown]
      <3>1. /\ Drop(j, o) \in BackupJob /\ Drop(j, o).pc = job[j].pc
            /\ Drop(j, o).ns = job[j].ns /\ Drop(j, o).todo = job[j].todo \ {o}
            /\ Drop(j, o).expect = [job[j].expect EXCEPT ![o] = Unknown]
            /\ Drop(j, o).has = job[j].has
        BY FileType
      <3>2. job'[j] = Drop(j, o)
        BY <1>4, <3>1, SetType
      <3> QED BY <3>1, <3>2
    <2>2. \A q \in Objects : job'[j].expect[q] = IF q = o THEN Unknown ELSE job[j].expect[q]
      BY <1>0, <2>1 DEF BackupJob, Expects
    <2> QED BY <1>2, <2>1, <2>2 DEF JobKnows
  <1> QED BY <1>1, <1>3, <1>4

\* The namespaces of an export.
LEMMA ListKnows ==
    ASSUME BackupType, NEW j \in Jobs, JobKnows(j), ListNamespaces(j)
    PROVE  JobKnows(j)'
  <1> DEFINE r == [job[j] EXCEPT !.pc = "projects", !.ns = namespace, !.todo = FilesOf(namespace)]
  <1>0. job[j] \in BackupJob /\ namespace \in SUBSET Namespaces
    BY DEF BackupType
  <1>1. /\ r \in BackupJob /\ r.pc = "projects" /\ r.ns = namespace
        /\ r.todo = FilesOf(namespace) /\ r.has = job[j].has /\ r.expect = job[j].expect
    BY <1>0, ObjectsFacts DEF BackupJob
  <1> HIDE DEF r
  <1>2. job'[j] = r /\ job[j].pc = "export" /\ job[j].todo = {} /\ object' = object
    BY <1>1, SetType DEF ListNamespaces, Keeping, r
  <1>3. \A o \in Objects : o # Globals /\ o[1] \in namespace => o \in FilesOf(namespace)
    BY <1>0, ObjectsFacts
  <1> QED BY <1>1, <1>2, <1>3 DEF JobKnows

\* A Job that starts, or has no export under way, is right.
LEMMA StartKnows ==
    ASSUME NEW j \in Jobs, object' = object,
           \/ job'[j].pc \notin {"export", "projects"}
           \/ job'[j].pc = "export" /\ job'[j].todo = {Globals} /\ job'[j].expect = object
    PROVE  JobKnows(j)'
  BY DEF JobKnows

LEMMA JobsKnow ==
    ASSUME BackupType, SavedInv, NEW j \in Jobs, JobStep(j) \/ Upload(j)
    PROVE  SavedInv'
  <1>1. /\ UNCHANGED <<object, namespace, restore>>
        /\ \A i \in Jobs \ {j} : job'[i] = job[i]
    BY JobStepType, UploadType
  <1>2. JobKnows(j)'
    BY JobStepType, UploadType, StartKnows, ExportKnows, ListKnows DEF SavedInv
  <1>3. \A i \in Jobs \ {j} : JobKnows(i)'
    BY <1>1 DEF SavedInv, JobKnows
  <1>4. CASE JobStep(j)
    <2>1. bucket' \subseteq bucket
      BY <1>4, JobStepType
    <2> QED BY <1>1, <1>2, <1>3, <2>1 DEF SavedInv, AbsentIsEmpty, RestoreKnows, ArchiveKnows
  <1>5. CASE Upload(j)
    <2>1. job[j].pc = "projects" /\ job[j].todo = {} /\ bucket' = bucket \cup {Archive(j)}
      BY <1>5 DEF Upload
    <2>2. ArchiveKnows(Archive(j))
      BY <2>1 DEF Archive, ArchiveKnows, JobKnows, SavedInv
    <2> QED BY <1>1, <1>2, <1>3, <2>1, <2>2
            DEF SavedInv, AbsentIsEmpty, RestoreKnows, ArchiveKnows
  <1> QED BY <1>4, <1>5

\* A restore that starts owes what its archive holds.
LEMMA StartRestoreKnows ==
    ASSUME BackupType, SavedInv, NEW a \in bucket, NEW overwrite \in BOOLEAN,
           StartRestore(a, overwrite)
    PROVE  SavedInv'
  <1>1. /\ restore'.ns = a.ns /\ restore'.has = a.has /\ restore'.expect = a.expect
        /\ restore'.left = a.ns /\ restore'.restored = {}
        /\ restore'.todo = {Globals} /\ restore'.update = TRUE
    BY DEF StartRestore, NoRestore
  <1>2. \A o \in Objects : o = Globals => o \in restore'.todo
    BY <1>1
  <1>3. RestoreKnows'
    BY <1>1, <1>2 DEF RestoreKnows, ArchiveKnows, SavedInv
  <1>4. UNCHANGED <<object, namespace, job, bucket>>
    BY DEF StartRestore, Still
  <1> QED BY <1>3, <1>4 DEF SavedInv, AbsentIsEmpty, JobKnows, ArchiveKnows

\* A file of a restore.
LEMMA RestoreNextKnows ==
    ASSUME BackupType, SavedInv, RestoreNext
    PROVE  SavedInv'
  <1>0. restore \in RestoreRun /\ object \in Holds
    BY DEF BackupType
  <1> DEFINE known(o) == o = Globals \/ o[2] \in served
             stays(o) == restore.has[o] = 0 \/ ~known(o)
  <1>1. PICK o \in restore.todo :
          /\ stays(o) \/ o = Globals \/ o[1] \in namespace
          /\ object' = IF stays(o) THEN object
                       ELSE [object EXCEPT ![o] = Applied(o, restore.update)]
          /\ restore' = [restore EXCEPT !.todo = @ \ {o},
                            !.touched = IF known(o) THEN @ ELSE @ \cup {o}]
          /\ Disturb({o})
    BY DEF RestoreNext
  <1>2. o \in Objects
    BY <1>0, <1>1 DEF RestoreRun
  <1>3. \A q \in Objects : q \notin {o} => object'[q] = object[q]
    BY <1>0, <1>1, <1>2 DEF Holds
  <1>4. (\A j \in Jobs : JobKnows(j))'
    BY <1>1, <1>3, DisturbKnows DEF SavedInv
  <1>5. AbsentIsEmpty'
    <2>1. namespace' = namespace
      BY DEF RestoreNext
    <2>2. CASE stays(o)
      BY <1>1, <2>1, <2>2 DEF SavedInv, AbsentIsEmpty
    <2>3. CASE o = Globals \/ o[1] \in namespace
      BY <1>3, <2>1, <2>3 DEF SavedInv, AbsentIsEmpty
    <2> QED BY <1>1, <2>2, <2>3
  <1>6. /\ restore'.pc = restore.pc /\ restore'.ns = restore.ns /\ restore'.has = restore.has
        /\ restore'.expect = restore.expect /\ restore'.left = restore.left
        /\ restore'.restored = restore.restored /\ restore'.update = restore.update
        /\ restore'.todo = restore.todo \ {o}
        /\ restore.touched \subseteq restore'.touched
        /\ known(o) \/ o \in restore'.touched
    <2>1. CASE known(o)
      <3>1. restore' = [restore EXCEPT !.todo = @ \ {o}]
        BY <1>0, <1>1, <2>1 DEF RestoreRun
      <3> QED BY <1>0, <2>1, <3>1 DEF RestoreRun
    <2>2. CASE ~known(o)
      <3>1. restore' = [restore EXCEPT !.todo = @ \ {o}, !.touched = @ \cup {o}]
        BY <1>1, <2>2
      <3> QED BY <1>0, <3>1 DEF RestoreRun
    <2> QED BY <2>1, <2>2
  <1>7. restore.pc = "files" /\ RestoreKnows
    BY DEF RestoreNext, SavedInv
  <1>8. ASSUME NEW q \in Objects, q = Globals \/ q[1] \in restore'.restored,
               restore'.expect[q] \notin {0, Unknown}, q \notin restore'.touched
        PROVE  IF q \in restore'.todo THEN restore'.update \/ object'[q] = 0
               ELSE object'[q] = restore'.expect[q]
    <2>1. CASE q = o
      <3>1. known(o) /\ q \notin restore.touched
        BY <1>6, <1>8, <2>1
      <3>2. restore.has[o] = restore.expect[o] /\ restore.expect[o] \notin {0, Unknown}
        BY <1>2, <1>6, <1>7, <1>8, <2>1 DEF RestoreKnows, ArchiveKnows
      <3>3. restore.update \/ object[o] = 0
        BY <1>1, <1>2, <1>6, <1>7, <1>8, <2>1, <3>1, <3>2 DEF RestoreKnows
      <3>4. object'[o] = restore.has[o]
        BY <1>0, <1>1, <1>2, <3>1, <3>2, <3>3 DEF Applied, Holds
      <3> QED BY <1>6, <2>1, <3>2, <3>4
    <2>2. CASE q # o
      BY <1>3, <1>6, <1>7, <1>8, <2>2 DEF RestoreKnows
    <2> QED BY <2>1, <2>2
  <1>9. RestoreKnows'
    BY <1>6, <1>7, <1>8 DEF RestoreKnows, ArchiveKnows
  <1> QED BY <1>4, <1>5, <1>9 DEF RestoreNext, Still, SavedInv, ArchiveKnows

\* A project is restored where it was not, or over what is there.
LEMMA RestoreProjectKnows ==
    ASSUME BackupType, SavedInv, NEW p \in Namespaces, RestoreProject(p)
    PROVE  SavedInv'
  <1>0. restore \in RestoreRun
    BY DEF BackupType
  <1> DEFINE enters == p \notin namespace \/ restore.overwrite
  <1>1. /\ restore.pc = "files" /\ restore.todo = {} /\ p \in restore.left
        /\ object' = object /\ namespace' = namespace \cup {p}
    BY DEF RestoreProject
  <1>2. /\ restore'.pc = restore.pc /\ restore'.ns = restore.ns /\ restore'.has = restore.has
        /\ restore'.expect = restore.expect /\ restore'.left \subseteq restore.left
        /\ restore'.restored = IF enters THEN restore.restored \cup {p} ELSE restore.restored
        /\ restore'.todo = IF enters THEN FilesOf({p}) ELSE {}
        /\ restore'.update = restore.overwrite /\ restore'.touched = restore.touched
    BY <1>0 DEF RestoreProject, RestoreRun
  <1>3. AbsentIsEmpty'
    BY <1>1 DEF SavedInv, AbsentIsEmpty
  <1>4. (\A j \in Jobs : JobKnows(j))'
    <2>1. CASE UNCHANGED job
      BY <1>1, <2>1 DEF SavedInv, JobKnows
    <2>2. CASE Disturb(Of(p))
      BY <1>1, <2>2, DisturbKnows DEF SavedInv
    <2> QED BY <2>1, <2>2 DEF RestoreProject
  <1>5. ASSUME NEW q \in Objects, q = Globals \/ q[1] \in restore'.restored,
               restore'.expect[q] \notin {0, Unknown}, q \notin restore'.touched
        PROVE  IF q \in restore'.todo THEN restore'.update \/ object'[q] = 0
               ELSE object'[q] = restore'.expect[q]
    <2>1. CASE q # Globals /\ q[1] = p /\ enters
      <3>1. q \in restore'.todo
        BY <1>2, <2>1, ObjectsFacts
      <3>2. p \notin namespace => object'[q] = 0
        BY <1>1, <2>1 DEF SavedInv, AbsentIsEmpty
      <3> QED BY <1>2, <2>1, <3>1, <3>2
    <2>2. CASE ~(q # Globals /\ q[1] = p /\ enters)
      <3>1. q = Globals \/ q[1] \in restore.restored
        BY <1>2, <1>5, <2>2
      <3>2. object[q] = restore.expect[q]
        BY <1>1, <1>2, <1>5, <3>1 DEF SavedInv, RestoreKnows
      <3>3. q \notin restore'.todo
        BY <1>2, <2>2, ObjectsFacts DEF FilesOf, Globals
      <3> QED BY <1>1, <1>2, <3>2, <3>3
    <2> QED BY <2>1, <2>2
  <1>6. restore'.restored \cup restore'.left \subseteq restore'.ns
    BY <1>1, <1>2 DEF SavedInv, RestoreKnows
  <1>7. ArchiveKnows(restore')
    BY <1>1, <1>2 DEF SavedInv, RestoreKnows, ArchiveKnows
  <1>8. RestoreKnows'
    BY <1>5, <1>6, <1>7 DEF RestoreKnows, ArchiveKnows
  <1> QED BY <1>3, <1>4, <1>8 DEF RestoreProject, Still, SavedInv, ArchiveKnows

LEMMA SavedStep ==
    ASSUME BackupType, SavedInv, [BackupNext]_backupVars
    PROVE  SavedInv'
  <1>1. ASSUME restore'.pc # "files", UNCHANGED <<object, namespace, job, bucket>>
        PROVE  SavedInv'
    BY <1>1 DEF SavedInv, AbsentIsEmpty, JobKnows, ArchiveKnows, RestoreKnows
  <1>2. CASE RestoreEnds \/ RestoreFails
    BY <1>1, <1>2 DEF RestoreEnds, RestoreFails, NoRestore, Still
  <1>3. CASE UNCHANGED backupVars
    BY <1>3 DEF backupVars, SavedInv, AbsentIsEmpty, JobKnows, ArchiveKnows, RestoreKnows
  <1>4. ASSUME NEW j \in Jobs, JobStep(j) \/ Upload(j) PROVE SavedInv'
    BY <1>4, JobsKnow
  <1> QED BY <1>2, <1>3, <1>4, PeopleKnow, LostKnows, StartRestoreKnows, RestoreNextKnows,
             RestoreProjectKnows DEF BackupNext, JobStep

\* Only a restore that is through says so.
LEMMA EndGivesBack ==
    ASSUME BackupType, SavedInv, [BackupNext]_backupVars,
           restore.pc = "files", restore'.pc = "done",
           NEW o \in Objects, o = Globals \/ o[1] \in restore.restored,
           restore.expect[o] \notin {0, Unknown}, o \notin restore.touched
    PROVE  object[o] = restore.expect[o]
  <1>1. CASE RestoreEnds
    <2>1. restore.todo = {}
      BY <1>1 DEF RestoreEnds
    <2> QED BY <2>1 DEF SavedInv, RestoreKnows
  <1>2. ASSUME restore'.pc = restore.pc \/ restore'.pc \in {"idle", "files", "failed"}
        PROVE  FALSE
    BY <1>2
  <1>3. restore \in RestoreRun
    BY DEF BackupType
  <1>4. CASE \E q \in Objects, v \in Values \cup {0} : Write(q, v)
    BY <1>2, <1>3, <1>4 DEF Write, Touch, RestoreRun
  <1>5. CASE \E p \in Namespaces : CreateProject(p) \/ DestroyProject(p)
    BY <1>2, <1>3, <1>5 DEF CreateProject, DestroyProject, Touch, RestoreRun
  <1>6. CASE ClusterLost
    BY <1>2, <1>6 DEF ClusterLost, NoRestore
  <1>7. ASSUME NEW j \in Jobs, JobStep(j) \/ Upload(j) PROVE FALSE
    BY <1>2, <1>7, JobStepType, UploadType
  <1>8. CASE \E a \in bucket, overwrite \in BOOLEAN : StartRestore(a, overwrite)
    BY <1>2, <1>8 DEF StartRestore, NoRestore
  <1>9. CASE RestoreNext
    BY <1>2, <1>3, <1>9 DEF RestoreNext, RestoreRun
  <1>10. ASSUME NEW p \in Namespaces, RestoreProject(p) PROVE FALSE
    BY <1>2, <1>3, <1>10 DEF RestoreProject, RestoreRun
  <1>11. CASE RestoreFails
    BY <1>2, <1>11 DEF RestoreFails, NoRestore
  <1>12. CASE UNCHANGED backupVars
    BY <1>2, <1>12 DEF backupVars
  <1> QED BY <1>1, <1>4, <1>5, <1>6, <1>7, <1>8, <1>9, <1>10, <1>11, <1>12
          DEF BackupNext, JobStep

(***************************************************************************)
(* A restore that reports success gives back what was saved, for any       *)
(* projects, kinds, Jobs and number of restores, although the cluster      *)
(* changes under the export and under the restore (Export, Restorer.Run).  *)
(***************************************************************************)
THEOREM GivesBackHolds == BackupSpec => RestoreGivesBack
  <1>1. BackupInit => BackupType /\ SavedInv
    <2> SUFFICES ASSUME BackupInit PROVE BackupType /\ SavedInv
      OBVIOUS
    <2>1. AbsentIsEmpty
      BY ObjectsFacts DEF BackupInit, AbsentIsEmpty
    <2>2. \A j \in Jobs : JobKnows(j)
      BY DEF BackupInit, NoBackup, JobKnows
    <2>3. RestoreKnows
      BY DEF BackupInit, NoRestore, RestoreKnows
    <2> QED BY <2>1, <2>2, <2>3, BackupInitType DEF BackupInit, SavedInv
  <1>2. BackupType /\ SavedInv /\ [BackupNext]_backupVars => (BackupType /\ SavedInv)'
    BY BackupTypeStep, SavedStep
  <1>3. BackupType /\ SavedInv /\ [BackupNext]_backupVars =>
          [restore.pc = "files" /\ restore'.pc = "done" =>
             \A o \in Objects :
                /\ o = Globals \/ o[1] \in restore.restored
                /\ restore.expect[o] \notin {0, Unknown} /\ o \notin restore.touched
                => object[o] = restore.expect[o]]_backupVars
    BY EndGivesBack
  <1> QED BY <1>1, <1>2, <1>3, PTL DEF BackupSpec, RestoreGivesBack

----------------------------------------------------------------------------
(* RegistryGC.                                                              *)

USE ConstantsAssumption

---------------------------------------------------------------------------
(* Type correctness.                                                        *)

\* The numbers of outcomes are runs: a collection in progress has a number.
Numbered == Running => runs \in RunIds
TypeInv == TypeOK /\ Numbered

LEMMA InitType == Init => TypeInv
  <1> SUFFICES ASSUME Init PROVE TypeInv
    OBVIOUS
  <1>1. pod \in Pod
    BY DEF Init, Pod, Modes, Certs, NoCert
  <1>2. run \in Run /\ ~Running
    BY DEF Init, NoRun, Run, Steps, Modes, Running
  <1>3. jobs \in [RunIds -> Job]
    BY DEF Init, NoJob, Job
  <1>4. stamp \in {NoCert} \cup Certs /\ secret \in Certs /\ seen \in {NoCert} \cup Certs
    BY DEF Init, Certs, NoCert
  <1>5. /\ outcomes \subseteq [run : RunIds, ok : BOOLEAN]
        /\ record \in [run : 0..MaxRuns, ok : BOOLEAN]
        /\ runs \in 0..MaxRuns /\ budget \in 0..Budget
    BY DEF Init
  <1> QED BY <1>1, <1>2, <1>3, <1>4, <1>5 DEF Init, TypeInv, TypeOK, Numbered, Modes

\* What a fault spends.
LEMMA FaultType ==
    ASSUME TypeOK, NEW kind, Fault(kind)
    PROVE  budget' \in 0..Budget
  BY DEF TypeOK, Fault

\* A write by somebody else leaves a collection where it is.
LEMMA TouchedType ==
    ASSUME TypeInv
    PROVE  Touched \in Run /\ Touched.pc = run.pc
  BY DEF TypeInv, TypeOK, Touched, Run

\* The ways a step of a collection leaves it.
LEMMA EndsType ==
    ASSUME TypeInv, Running, NEW ok \in BOOLEAN, Ends(ok)
    PROVE  /\ run' \in Run /\ run'.pc = "idle"
           /\ outcomes' \subseteq [run : RunIds, ok : BOOLEAN]
  BY DEF TypeInv, TypeOK, Numbered, Ends, NoRun, Run, Steps, Modes

LEMMA RestoreType ==
    ASSUME TypeInv, NEW ok \in BOOLEAN, Restore(ok)
    PROVE  /\ run' \in Run
           /\ outcomes' \subseteq [run : RunIds, ok : BOOLEAN]
  BY DEF TypeInv, TypeOK, Restore, Run, Steps, Modes

LEMMA GotoType ==
    ASSUME TypeInv, NEW pc \in Steps, Goto(pc)
    PROVE  run' \in Run
  BY DEF TypeInv, TypeOK, Goto, Run

LEMMA ClientsType == TypeInv /\ Clients => TypeInv'
  <1> SUFFICES ASSUME TypeInv, NEW i \in Images,
                      PushBlob(i) \/ PushManifest(i) \/ DeleteManifest(i)
               PROVE  TypeInv'
    BY DEF Clients
  <1> USE DEF TypeInv, TypeOK, Numbered, Running, deployVars, diskVars, gcVars
  <1>1. CASE PushBlob(i)
    <2>1. pod' \in Pod
      BY <1>1 DEF PushBlob, Pod
    <2> QED BY <1>1, <2>1 DEF PushBlob
  <1>2. CASE PushManifest(i)
    BY <1>2 DEF PushManifest
  <1>3. CASE DeleteManifest(i)
    BY <1>3 DEF DeleteManifest
  <1> QED BY <1>1, <1>2, <1>3

LEMMA ClusterType == TypeInv /\ Cluster => TypeInv'
  <1> SUFFICES ASSUME TypeInv, Cluster PROVE TypeInv'
    OBVIOUS
  <1> USE DEF TypeInv, TypeOK, Numbered, Running, diskVars, deployVars
  <1>1. CASE PodStops
    <2>1. pod' \in Pod
      BY <1>1 DEF PodStops, Pod
    <2> QED BY <1>1, <2>1, TouchedType DEF PodStops
  <1>2. CASE PodStarts
    <2>1. pod' \in Pod
      BY <1>2 DEF PodStarts, Pod
    <2> QED BY <1>2, <2>1, TouchedType DEF PodStarts
  <1>3. CASE CertificateRenewed
    BY <1>3 DEF CertificateRenewed, gcVars, Certs
  <1>4. ASSUME NEW r \in RunIds, Mark(r) \/ Sweep(r) \/ JobEnds(r) PROVE TypeInv'
    <2>1. jobs' \in [RunIds -> Job]
      BY <1>4 DEF Mark, Sweep, JobEnds, Job
    <2> QED BY <1>4, <2>1 DEF Mark, Sweep, JobEnds
  <1> QED BY <1>1, <1>2, <1>3, <1>4 DEF Cluster, Rollout, Collector

LEMMA RotationType == TypeInv /\ Rotation => TypeInv'
  <1> SUFFICES ASSUME TypeInv, Rotation PROVE TypeInv'
    OBVIOUS
  <1> USE DEF TypeInv, TypeOK, Numbered, Running, diskVars, deployVars
  <1>1. CASE CheckReads
    BY <1>1 DEF CheckReads, gcVars
  <1>2. CASE CheckPatches
    BY <1>2, TouchedType DEF CheckPatches
  <1> QED BY <1>1, <1>2 DEF Rotation

LEMMA TriggerType == TypeInv /\ Trigger => TypeInv'
  <1> SUFFICES ASSUME TypeInv, Trigger PROVE TypeInv'
    OBVIOUS
  <1>1. run' \in Run
    BY DEF Trigger, Run, Steps, Modes
  <1>2. runs' \in 0..MaxRuns /\ runs' \in RunIds
    BY DEF Trigger, TypeInv, TypeOK, RunIds
  <1> QED BY <1>1, <1>2 DEF Trigger, TypeInv, TypeOK, Numbered, deployVars, diskVars

LEMMA CollectionType == TypeInv /\ Collection => TypeInv'
  <1> SUFFICES ASSUME TypeInv, Collection PROVE TypeInv'
    OBVIOUS
  <1>1. run.pc \in Steps /\ run.to \in Modes /\ run.ok \in BOOLEAN
    BY DEF TypeInv, TypeOK, Run
  <1>2. /\ run' \in Run
        /\ outcomes' \subseteq [run : RunIds, ok : BOOLEAN]
        /\ Running
    <2>1. CASE GetDeployment
      BY <2>1 DEF GetDeployment, At, Running, TypeInv, TypeOK, Run, Steps
    <2>2. CASE UpdateDeployment
      <3>1. Running
        BY <2>2 DEF UpdateDeployment, At, Running
      <3> QED BY <2>2, <3>1, EndsType, GotoType DEF UpdateDeployment, SetFails, Steps, TypeInv, TypeOK
    <2>3. CASE WaitRollout
      <3>1. Running
        BY <2>3 DEF WaitRollout, At, Running
      <3> QED BY <1>1, <2>3, <3>1, EndsType, GotoType DEF WaitRollout, Steps, TypeInv, TypeOK
    <2>4. CASE FindNode
      BY <2>4, RestoreType, GotoType DEF FindNode, At, Running, Steps, TypeInv, TypeOK
    <2>5. CASE CreateJob
      BY <2>5, GotoType DEF CreateJob, At, Running, Steps, TypeInv, TypeOK
    <2>6. CASE WaitJob
      BY <2>6 DEF WaitJob, At, Running, TypeInv, TypeOK, Run, Steps
    <2>7. CASE DeleteJob
      BY <1>1, <2>7, RestoreType DEF DeleteJob, At, Running
    <2> QED BY <2>1, <2>2, <2>3, <2>4, <2>5, <2>6, <2>7 DEF Collection
  <1>3. config' \in Modes /\ jobs' \in [RunIds -> Job]
    <2>1. CASE UpdateDeployment
      BY <1>1, <2>1 DEF UpdateDeployment, TypeInv, TypeOK
    <2>2. CASE CreateJob
      BY <2>2 DEF CreateJob, TypeInv, TypeOK, Job, deployVars
    <2>3. CASE ~UpdateDeployment /\ ~CreateJob
      BY <2>3 DEF Collection, GetDeployment, WaitRollout, FindNode, WaitJob, DeleteJob,
                  TypeInv, TypeOK, deployVars
    <2> QED BY <2>1, <2>2, <2>3
  <1>4. UNCHANGED <<stamp, secret, pod, gcRest, record, budget>>
    BY DEF Collection, GetDeployment, UpdateDeployment, WaitRollout, FindNode, CreateJob,
           WaitJob, DeleteJob, deployVars
  <1> QED BY <1>2, <1>3, <1>4 DEF TypeInv, TypeOK, Numbered, gcRest, diskVars

LEMMA RecordType == TypeInv /\ Record => TypeInv'
  <1> SUFFICES ASSUME TypeInv, Record PROVE TypeInv'
    OBVIOUS
  <1>1. record' \in [run : 0..MaxRuns, ok : BOOLEAN]
    BY DEF Record, TypeInv, TypeOK, RunIds
  <1> QED BY <1>1 DEF Record, TypeInv, TypeOK, Numbered, Running, deployVars, diskVars

LEMMA FailureType == TypeInv /\ (CallFails \/ RecordFails \/ Crash) => TypeInv'
  <1> SUFFICES ASSUME TypeInv, CallFails \/ RecordFails \/ Crash PROVE TypeInv'
    OBVIOUS
  <1>1. run.pc \in Steps /\ run.to \in Modes /\ run.ok \in BOOLEAN
    BY DEF TypeInv, TypeOK, Run
  <1>2. budget' \in 0..Budget
    BY FaultType DEF CallFails, RecordFails, Crash, TypeInv
  <1>3. CASE CallFails
    <2>1. /\ Running
          /\ run' \in Run
          /\ outcomes' \subseteq [run : RunIds, ok : BOOLEAN]
      <3>1. CASE run.pc \in {"get", "update", "rollout"} /\ SetFails
        BY <3>1, EndsType DEF SetFails, Running
      <3>2. CASE run.pc \in {"node", "create", "delete"} /\ Restore(run.ok /\ At("delete"))
        BY <1>1, <3>2, RestoreType DEF Running
      <3>3. CASE /\ At("wait")
                 /\ run' = [run EXCEPT !.pc = "delete", !.ok = FALSE]
                 /\ outcomes' = outcomes
        BY <3>3 DEF At, Running, TypeInv, TypeOK, Run, Steps
      <3> QED BY <1>3, <3>1, <3>2, <3>3 DEF CallFails
    <2> QED BY <1>2, <1>3, <2>1
          DEF CallFails, TypeInv, TypeOK, Numbered, gcRest, diskVars, deployVars
  <1>4. CASE RecordFails
    BY <1>2, <1>4 DEF RecordFails, TypeInv, TypeOK, Numbered, Running, diskVars, deployVars
  <1>5. CASE Crash
    <2>1. run' \in Run /\ run'.pc = "idle"
      BY <1>5 DEF Crash, NoRun, Run, Steps, Modes
    <2> QED BY <1>2, <1>5, <2>1
          DEF Crash, TypeInv, TypeOK, Numbered, Running, diskVars, deployVars
  <1> QED BY <1>3, <1>4, <1>5

LEMMA StutterType == TypeInv /\ UNCHANGED vars => TypeInv'
  BY DEF TypeInv, TypeOK, Numbered, Running, vars, deployVars, diskVars, gcVars

\* Every reachable state is well typed: run of any number of collections.
THEOREM TypeCorrect == Spec => []TypeInv
  <1>1. Init => TypeInv
    BY InitType
  <1>2. TypeInv /\ [Next]_vars => TypeInv'
    BY ClientsType, ClusterType, RotationType, TriggerType, CollectionType, RecordType,
       FailureType, StutterType DEF Next
  <1> QED BY <1>1, <1>2, PTL DEF Spec

\* The type invariant of the run (TypeOK), for every value of the constants.
THEOREM TypesHold == Spec => []TypeOK
  <1>1. TypeInv => TypeOK
    BY DEF TypeInv
  <1> QED BY <1>1, TypeCorrect, PTL

---------------------------------------------------------------------------
(* A collection that nothing interrupts.                                    *)

Uninterrupted == faults \cap {"call", "crash"} = {}

\* Where a collection is, what the registry is: read-only from the end of the
\* first rollout until the collector has ended.
StepInv ==
    /\ At("rollout") => config = run.to
    /\ run.pc \in {"node", "create", "wait"} => config = "ro" /\ ~Writable
    /\ \A r \in RunIds : Collecting(r) => At("wait") /\ r = runs

\* What the registry's process, its disk and the collector know of blobs.
DiskInv ==
    /\ ~Writable => pod.cache = {}
    /\ pod.cache \subseteq blobs
    /\ manifests \subseteq blobs
    /\ \A r \in RunIds : jobs[r].state = "marked" => manifests \subseteq jobs[r].marked

CollectionInv == Uninterrupted => StepInv /\ DiskInv

LEMMA InitCollection == Init => CollectionInv
  BY DEF Init, CollectionInv, StepInv, DiskInv, Writable, Collecting, At, NoRun, NoJob

\* Where a collector works, the registry's process knows of no blob, and
\* takes no push.
LEMMA CollectingCloses ==
    ASSUME CollectionInv, Uninterrupted, NEW r \in RunIds, Collecting(r)
    PROVE  ~Writable /\ pod.cache = {} /\ At("wait") /\ r = runs
  BY DEF CollectionInv, StepInv, DiskInv, At

\* Clients change the disk only while no collector works.
LEMMA ClientsCollection ==
    TypeInv /\ CollectionInv /\ Uninterrupted /\ Clients => StepInv' /\ DiskInv'
  <1> SUFFICES ASSUME TypeInv, CollectionInv, Uninterrupted, NEW i \in Images,
                      PushBlob(i) \/ PushManifest(i) \/ DeleteManifest(i)
               PROVE  StepInv' /\ DiskInv'
    BY DEF Clients
  <1>1. Writable /\ UNCHANGED <<config, gcVars>>
    BY DEF PushBlob, PushManifest, DeleteManifest, deployVars
  <1>2. \A r \in RunIds : ~Collecting(r)
    BY <1>1, CollectingCloses
  <1>3. pod'.up = pod.up /\ pod'.mode = pod.mode
    BY DEF PushBlob, PushManifest, DeleteManifest, deployVars, TypeInv, TypeOK, Pod
  <1>4. StepInv'
    BY <1>1, <1>2, <1>3 DEF CollectionInv, StepInv, Writable, Collecting, At, gcVars
  <1>5. \A r \in RunIds : jobs'[r].state # "marked"
    BY <1>1, <1>2 DEF Collecting, gcVars
  <1>6. pod'.cache \subseteq blobs' /\ manifests' \subseteq blobs'
    <2>1. pod.cache \subseteq blobs /\ manifests \subseteq blobs
      BY DEF CollectionInv, DiskInv
    <2>2. CASE PushBlob(i)
      BY <2>1, <2>2 DEF PushBlob, TypeInv, TypeOK, Pod
    <2>3. CASE PushManifest(i)
      BY <2>1, <2>3 DEF PushManifest, deployVars
    <2>4. CASE DeleteManifest(i)
      BY <2>1, <2>4 DEF DeleteManifest, deployVars
    <2> QED BY <2>2, <2>3, <2>4
  <1> QED BY <1>1, <1>3, <1>4, <1>5, <1>6 DEF DiskInv, Writable

\* A rollout: the new pod has the Deployment's configuration and an empty cache.
LEMMA RolloutCollection ==
    TypeInv /\ CollectionInv /\ Uninterrupted /\ Rollout => StepInv' /\ DiskInv'
  <1> SUFFICES ASSUME TypeInv, CollectionInv, Uninterrupted, Rollout
               PROVE  StepInv' /\ DiskInv'
    OBVIOUS
  <1>1. run'.pc = run.pc /\ run'.to = run.to
    BY DEF Rollout, PodStops, PodStarts, Touched, TypeInv, TypeOK, Run
  <1>2. UNCHANGED <<config, blobs, manifests, runs, jobs>>
    BY DEF Rollout, PodStops, PodStarts, diskVars
  <1>3. pod'.cache = {} /\ (pod'.up => pod'.mode = config)
    <2>1. CASE PodStops
      <3>1. pod \in Pod
        BY DEF TypeInv, TypeOK
      <3>2. \A b : LET p == [pod EXCEPT !.up = b, !.cache = {}] IN p.up = b /\ p.cache = {}
        BY <3>1 DEF Pod
      <3> QED BY <2>1, <3>2, Zenon DEF PodStops
    <2>2. CASE PodStarts
      BY <2>2 DEF PodStarts
    <2> QED BY <2>1, <2>2 DEF Rollout
  <1>4. StepInv'
    BY <1>1, <1>2, <1>3 DEF CollectionInv, StepInv, Writable, Collecting, At
  <1>5. DiskInv'
    BY <1>2, <1>3 DEF CollectionInv, DiskInv
  <1> QED BY <1>4, <1>5

\* The collector sweeps nothing a manifest names: none was pushed since it
\* marked them.
LEMMA CollectorCollection ==
    TypeInv /\ CollectionInv /\ Uninterrupted /\ Collector => StepInv' /\ DiskInv'
  <1> SUFFICES ASSUME TypeInv, CollectionInv, Uninterrupted, NEW r \in RunIds,
                      Mark(r) \/ Sweep(r) \/ JobEnds(r)
               PROVE  StepInv' /\ DiskInv'
    BY DEF Collector
  <1>1. /\ Collecting(r)
        /\ UNCHANGED <<config, pod, manifests, run, runs>>
    BY DEF Mark, Sweep, JobEnds, Collecting, deployVars, diskVars
  <1>2. ~Writable /\ pod.cache = {} /\ At("wait") /\ r = runs
    BY <1>1, CollectingCloses
  <1>3. \A q \in RunIds : q # r => jobs'[q] = jobs[q]
    BY DEF Mark, Sweep, JobEnds, TypeInv, TypeOK
  <1>4. StepInv'
    <2>1. \A q \in RunIds : Collecting(q)' => q = runs
      BY <1>2, <1>3 DEF CollectionInv, StepInv, Collecting
    <2> QED BY <1>1, <1>2, <2>1 DEF CollectionInv, StepInv, Writable, At
  <1>5. \A q \in RunIds : jobs'[q].state = "marked" => manifests \subseteq jobs'[q].marked
    <2>1. jobs'[r].state = "marked" => manifests \subseteq jobs'[r].marked
      BY DEF Mark, Sweep, JobEnds, TypeInv, TypeOK, Job
    <2> QED BY <1>3, <2>1 DEF CollectionInv, DiskInv
  <1>6. manifests \subseteq blobs'
    <2>1. CASE Sweep(r)
      BY <2>1 DEF Sweep, CollectionInv, DiskInv
    <2>2. CASE ~Sweep(r)
      BY <2>2 DEF Mark, JobEnds, diskVars, CollectionInv, DiskInv
    <2> QED BY <2>1, <2>2
  <1> QED BY <1>1, <1>2, <1>4, <1>5, <1>6 DEF DiskInv

\* The steps of a collection: the configuration changes only by its own
\* write, and it goes on to the node, the Job and the wait only when the
\* rollout to read-only is over.
LEMMA StepsCollection ==
    TypeInv /\ CollectionInv /\ Uninterrupted /\ Collection => StepInv' /\ DiskInv'
  <1> SUFFICES ASSUME TypeInv, CollectionInv, Uninterrupted, Collection
               PROVE  StepInv' /\ DiskInv'
    OBVIOUS
  <1>1. UNCHANGED <<pod, blobs, manifests, runs>>
    BY DEF Collection, GetDeployment, UpdateDeployment, WaitRollout, FindNode, CreateJob,
           WaitJob, DeleteJob, deployVars, gcRest, diskVars
  <1> USE DEF TypeInv, TypeOK, Run, Job, At
  <1>4. WaitJob => run'.pc = "delete"
    <2>1. \A b : [run EXCEPT !.pc = "delete", !.ok = b].pc = "delete"
      OBVIOUS
    <2> QED BY <2>1, Zenon DEF WaitJob
  <1>2. CASE CreateJob
    <2>1. /\ run'.pc = "wait" /\ UNCHANGED config
          /\ \A r \in RunIds : jobs'[r].state = IF r = runs THEN "starting" ELSE jobs[r].state
          /\ \A r \in RunIds : r # runs => jobs'[r] = jobs[r]
      BY <1>2 DEF CreateJob, Goto, deployVars
    <2>2. config = "ro" /\ ~Writable /\ \A r \in RunIds : ~Collecting(r)
      BY <1>2 DEF CreateJob, CollectionInv, StepInv
    <2>3. StepInv'
      BY <1>1, <2>1, <2>2 DEF StepInv, Writable, Collecting
    <2>4. DiskInv'
      BY <1>1, <2>1 DEF CollectionInv, DiskInv, Writable
    <2> QED BY <2>3, <2>4
  <1>3. CASE ~CreateJob
    <2>1. jobs' = jobs
      BY <1>3 DEF Collection, GetDeployment, UpdateDeployment, WaitRollout, FindNode,
                  WaitJob, DeleteJob
    <2>2. DiskInv'
      BY <1>1, <2>1 DEF CollectionInv, DiskInv, Writable
    <2>3. \A r \in RunIds : ~Collecting(r)'
      <3>1. CASE WaitJob
        <4>1. ~Collecting(runs)
          BY <3>1 DEF WaitJob, Collecting
        <4> QED BY <2>1, <4>1 DEF Collecting, CollectionInv, StepInv
      <3>2. CASE ~WaitJob
        <4>1. run.pc # "wait"
          BY <1>3, <3>2 DEF Collection, GetDeployment, UpdateDeployment, WaitRollout,
                            FindNode, DeleteJob
        <4> QED BY <2>1, <4>1 DEF Collecting, CollectionInv, StepInv
      <3> QED BY <3>1, <3>2
    <2>4. run'.pc = "rollout" => config' = run'.to
      <3>1. CASE GetDeployment
        BY <3>1 DEF GetDeployment, deployVars
      <3>2. CASE UpdateDeployment
        BY <3>2 DEF UpdateDeployment, Goto, SetFails, Ends, NoRun
      <3>3. CASE WaitRollout
        BY <3>3 DEF WaitRollout, Goto, Ends, NoRun
      <3>4. CASE FindNode \/ WaitJob \/ DeleteJob
        <4>1. run'.pc \in {"create", "get", "delete"}
          BY <3>4, <1>4 DEF FindNode, DeleteJob, Goto, Restore
        <4> QED BY <4>1
      <3> QED BY <1>3, <3>1, <3>2, <3>3, <3>4 DEF Collection
    <2>5. run'.pc \in {"node", "create", "wait"} => config' = "ro" /\ ~Writable'
      <3>1. CASE GetDeployment
        BY <3>1 DEF GetDeployment
      <3>2. CASE UpdateDeployment
        BY <3>2 DEF UpdateDeployment, Goto, SetFails, Ends, NoRun
      <3>3. CASE WaitRollout
        <4>1. CASE run.to = "ro"
          BY <1>1, <3>3, <4>1
             DEF WaitRollout, RolledOut, Writable, CollectionInv, StepInv, deployVars
        <4>2. CASE run.to # "ro"
          BY <3>3, <4>2 DEF WaitRollout, Ends, NoRun
        <4> QED BY <4>1, <4>2
      <3>4. CASE FindNode
        <4>1. config = "ro" /\ ~Writable /\ config' = config
          BY <3>4 DEF FindNode, CollectionInv, StepInv, deployVars
        <4> QED BY <1>1, <4>1 DEF Writable
      <3>5. CASE WaitJob \/ DeleteJob
        <4>1. run'.pc \in {"delete", "get"}
          BY <3>5, <1>4 DEF DeleteJob, Restore
        <4> QED BY <4>1
      <3> QED BY <1>3, <3>1, <3>2, <3>3, <3>4, <3>5 DEF Collection
    <2> QED BY <2>2, <2>3, <2>4, <2>5 DEF StepInv
  <1> QED BY <1>2, <1>3

\* The steps that change neither the registry, its disk nor the Jobs.
LEMMA OthersCollection ==
    /\ TypeInv /\ CollectionInv /\ Uninterrupted
    /\ Trigger \/ Rotation \/ Record \/ CertificateRenewed \/ UNCHANGED vars
    => StepInv' /\ DiskInv'
  <1> SUFFICES ASSUME TypeInv, CollectionInv, Uninterrupted,
                      Trigger \/ Rotation \/ Record \/ CertificateRenewed \/ UNCHANGED vars
               PROVE  StepInv' /\ DiskInv'
    OBVIOUS
  <1>1. UNCHANGED <<config, pod, blobs, manifests, jobs>>
    BY DEF Trigger, Rotation, CheckReads, CheckPatches, Record, CertificateRenewed, vars,
           deployVars, diskVars, gcVars
  <1>2. DiskInv'
    BY <1>1 DEF CollectionInv, DiskInv, Writable
  <1>3. StepInv'
    <2>1. CASE Trigger
      <3>1. run'.pc = "get" /\ run.pc = "idle"
        BY <2>1 DEF Trigger, Running
      <3> QED BY <1>1, <3>1 DEF CollectionInv, StepInv, Collecting, At
    <2>2. CASE ~Trigger
      <3>1. run'.pc = run.pc /\ run'.to = run.to /\ runs' = runs
        BY <2>2 DEF Rotation, CheckReads, CheckPatches, Record, CertificateRenewed, vars,
                    gcVars, Touched, TypeInv, TypeOK, Run
      <3> QED BY <1>1, <3>1 DEF CollectionInv, StepInv, Collecting, At, Writable
    <2> QED BY <2>1, <2>2
  <1> QED BY <1>2, <1>3

LEMMA NextCollection == TypeInv /\ CollectionInv /\ [Next]_vars => CollectionInv'
  <1> SUFFICES ASSUME TypeInv, CollectionInv, [Next]_vars, Uninterrupted'
               PROVE  StepInv' /\ DiskInv'
    BY DEF CollectionInv
  <1>1. faults' = faults
    BY DEF Next, Clients, PushBlob, PushManifest, DeleteManifest, Cluster, Rollout, PodStops,
           PodStarts, CertificateRenewed, Collector, Mark, Sweep, JobEnds, Rotation,
           CheckReads, CheckPatches, Trigger, Collection, GetDeployment, UpdateDeployment,
           WaitRollout, FindNode, CreateJob, WaitJob, DeleteJob, Record, CallFails,
           RecordFails, Crash, gcRest, vars
  <1>2. Uninterrupted
    BY <1>1 DEF Uninterrupted
  <1>3. ~CallFails /\ ~RecordFails /\ ~Crash
    BY <1>2 DEF CallFails, RecordFails, Crash, Fault, Uninterrupted
  <1> QED BY <1>2, <1>3, ClientsCollection, RolloutCollection, CollectorCollection,
             StepsCollection, OthersCollection DEF Next, Cluster

THEOREM CollectionHolds == Spec => []CollectionInv
  <1>1. Init => CollectionInv
    BY InitCollection
  <1>2. TypeInv /\ CollectionInv /\ [Next]_vars => CollectionInv'
    BY NextCollection
  <1> QED BY <1>1, <1>2, TypeCorrect, PTL DEF Spec

\* A collection that no failing call and no crash interrupts never works
\* beside a writable registry (setReadOnly, waitJob).
THEOREM CollectorIsAlone == Spec => []UninterruptedAlone
  <1>1. CollectionInv => UninterruptedAlone
    BY DEF CollectionInv, StepInv, UninterruptedAlone, CollectorAlone, Uninterrupted, At
  <1> QED BY <1>1, CollectionHolds, PTL

\* Nor does it take a layer of an image the registry holds.
THEOREM ImagesStayComplete == Spec => []UninterruptedComplete
  <1>1. CollectionInv => UninterruptedComplete
    BY DEF CollectionInv, DiskInv, UninterruptedComplete, Uninterrupted
  <1> QED BY <1>1, CollectionHolds, PTL

============================================================================
