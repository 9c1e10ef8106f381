---------------------------- MODULE RegistryGC ----------------------------
(***************************************************************************)
(* Garbage collection of the in-cluster registry (internal/controller/     *)
(* registrygc.go) beside the restarts for renewed certificates             *)
(* (registryrotation.go) and the clients that push and delete images.      *)
(*                                                                         *)
(* A collection points the registry's Deployment at a read-only            *)
(* configuration, waits for the rollout, runs a collector Job on the       *)
(* registry's disk and points the Deployment back.                         *)
(***************************************************************************)
EXTENDS Naturals, FiniteSets

CONSTANTS
    Images,       \* each with one manifest and one blob
    MaxRuns,      \* bound: collections triggered
    MaxCert,      \* bound: certificates issued
    Budget        \* bound: failing calls and crashes

ASSUME ConstantsAssumption ==
    /\ IsFiniteSet(Images)
    /\ MaxRuns \in Nat
    /\ MaxCert \in Nat \ {0}
    /\ Budget \in Nat

VARIABLES
    config,       \* the configuration the Deployment names
    stamp,        \* the certificate its pod template is stamped with
    secret,       \* the certificate in the Secret
    pod,          \* the registry's pod
    blobs,        \* blobs on its disk
    manifests,    \* manifests on its disk
    pushing,      \* images whose blob a client knows to be there
    run,          \* the collection in progress
    runs,         \* collections triggered so far
    jobs,         \* the collector Job of each
    outcomes,     \* outcomes that are still to be recorded
    record,       \* the recorded outcome (ConfigMap)
    seen,         \* the certificate RegistryRotation.Check has read
    faults,       \* the kinds of faults this run of the system meets
    budget

deployVars == <<config, stamp, secret, pod>>
diskVars == <<blobs, manifests, pushing>>
gcVars == <<run, runs, jobs, outcomes, record>>
vars == <<deployVars, diskVars, gcVars, seen, faults, budget>>

Modes == {"rw", "ro"}
Certs == 1..MaxCert
RunIds == 1..MaxRuns
Steps == {"idle", "get", "update", "rollout", "node", "create", "wait", "delete"}
Faults == {"call", "crash", "renew"}
NoCert == 0   \* a registry that was just installed is not stamped yet

\* to: what setReadOnly is turning the registry into; fresh: nobody wrote the
\* Deployment since it was read; ok: no error yet.
Run == [pc : Steps, to : Modes, fresh : BOOLEAN, ok : BOOLEAN]
Pod == [up : BOOLEAN, mode : Modes, stamp : {NoCert} \cup Certs, cert : Certs,
        cache : SUBSET Images]
Job == [state : {"none", "starting", "marked", "swept", "failed"}, marked : SUBSET Images]

NoRun == [pc |-> "idle", to |-> "rw", fresh |-> TRUE, ok |-> TRUE]
NoJob == [state |-> "none", marked |-> {}]

Init ==
    /\ faults \in SUBSET Faults
    /\ config = "rw" /\ secret = 1
    /\ stamp \in IF "renew" \in faults THEN {NoCert, 1} ELSE {1}
    /\ pod = [up |-> TRUE, mode |-> "rw", stamp |-> stamp, cert |-> 1, cache |-> {}]
    /\ blobs = {} /\ manifests = {} /\ pushing = {}
    /\ run = NoRun /\ runs = 0
    /\ jobs = [r \in RunIds |-> NoJob]
    /\ outcomes = {} /\ record = [run |-> 0, ok |-> TRUE]
    /\ seen = NoCert
    /\ budget = Budget

Fault(kind) == kind \in faults /\ budget > 0 /\ budget' = budget - 1

Writable == pod.up /\ pod.mode = "rw"
Running == run.pc # "idle"

\* A write by somebody else to the Deployment (status included) makes the
\* copy a collection has read stale.
Touched == [run EXCEPT !.fresh = FALSE]

---------------------------------------------------------------------------
(* Clients: builds push, pruneImages deletes.  A read-only registry refuses. *)

\* The blob is uploaded, or found to be there already.
PushBlob(i) ==
    /\ Writable
    /\ i \notin pushing
    /\ pushing' = pushing \cup {i}
    /\ blobs' = blobs \cup {i}
    /\ pod' = [pod EXCEPT !.cache = @ \cup {i}]
    /\ UNCHANGED <<config, stamp, secret, manifests, gcVars, seen, faults, budget>>

\* The manifest is accepted when the registry knows its blob, by the
\* descriptor cache of its process or on disk.
PushManifest(i) ==
    /\ Writable
    /\ i \in pushing
    /\ pushing' = pushing \ {i}
    /\ manifests' = IF i \in pod.cache \cup blobs THEN manifests \cup {i} ELSE manifests
    /\ UNCHANGED <<deployVars, blobs, gcVars, seen, faults, budget>>

\* pruneImages: DeleteManifest; blobs are left to the collection.
DeleteManifest(i) ==
    /\ Writable
    /\ i \in manifests
    /\ manifests' = manifests \ {i}
    /\ UNCHANGED <<deployVars, blobs, pushing, gcVars, seen, faults, budget>>

Clients == \E i \in Images : PushBlob(i) \/ PushManifest(i) \/ DeleteManifest(i)

---------------------------------------------------------------------------
(* The cluster: a Recreate rollout stops the old pod before it starts the   *)
(* new one; a certificate is renewed; a collector Job marks and sweeps.     *)

\* Mutant: the old pod's status counts.
RolledOutAnyPod == pod.up

\* What setReadOnly waits for: the one ready pod is the current template's.
RolledOut == pod.up /\ pod.mode = config /\ pod.stamp = stamp

PodStops ==
    /\ pod.up
    /\ pod.mode # config \/ pod.stamp # stamp
    /\ pod' = [pod EXCEPT !.up = FALSE, !.cache = {}]
    /\ run' = Touched
    /\ UNCHANGED <<config, stamp, secret, diskVars, runs, jobs, outcomes, record, seen, faults,
                   budget>>

PodStarts ==
    /\ ~pod.up
    /\ pod' = [up |-> TRUE, mode |-> config, stamp |-> stamp, cert |-> secret, cache |-> {}]
    /\ run' = Touched
    /\ UNCHANGED <<config, stamp, secret, diskVars, runs, jobs, outcomes, record, seen, faults,
                   budget>>

CertificateRenewed ==
    /\ "renew" \in faults
    /\ secret < MaxCert
    /\ secret' = secret + 1
    /\ UNCHANGED <<config, stamp, pod, diskVars, gcVars, seen, faults, budget>>

\* garbage-collect reads every manifest, and then removes the other blobs.
Mark(r) ==
    /\ jobs[r].state = "starting"
    /\ jobs' = [jobs EXCEPT ![r].state = "marked", ![r].marked = manifests]
    /\ UNCHANGED <<deployVars, diskVars, run, runs, outcomes, record, seen, faults, budget>>

Sweep(r) ==
    /\ jobs[r].state = "marked"
    /\ blobs' = blobs \cap jobs[r].marked
    /\ jobs' = [jobs EXCEPT ![r].state = "swept", ![r].marked = {}]
    /\ UNCHANGED <<deployVars, manifests, pushing, run, runs, outcomes, record, seen, faults,
                   budget>>

\* The collector fails, is out of time, or is killed for its Job was deleted.
JobEnds(r) ==
    /\ jobs[r].state \in {"starting", "marked"}
    /\ jobs' = [jobs EXCEPT ![r].state = "failed", ![r].marked = {}]
    /\ UNCHANGED <<deployVars, diskVars, run, runs, outcomes, record, seen, faults, budget>>

Collecting(r) == jobs[r].state \in {"starting", "marked"}

Collector == \E r \in RunIds : Mark(r) \/ Sweep(r) \/ JobEnds(r)
Rollout == PodStops \/ PodStarts
Cluster == Rollout \/ CertificateRenewed \/ Collector

---------------------------------------------------------------------------
(* RegistryRotation.Check: the stamp follows the certificate.               *)

CheckReads ==
    /\ seen = NoCert
    /\ stamp # secret
    /\ seen' = secret
    /\ UNCHANGED <<deployVars, diskVars, gcVars, faults, budget>>

\* Mutant: a stamp that is there is kept.
CheckPatchesOnce ==
    /\ seen # NoCert
    /\ stamp' = IF stamp = NoCert THEN seen ELSE stamp
    /\ seen' = NoCert
    /\ run' = Touched
    /\ UNCHANGED <<config, secret, pod, diskVars, runs, jobs, outcomes, record, faults, budget>>

\* A patch of that annotation alone, without a resourceVersion.
CheckPatches ==
    /\ seen # NoCert
    /\ stamp' = seen
    /\ seen' = NoCert
    /\ run' = IF stamp = seen THEN run ELSE Touched
    /\ UNCHANGED <<config, secret, pod, diskVars, runs, jobs, outcomes, record, faults, budget>>

Rotation == CheckReads \/ CheckPatches

---------------------------------------------------------------------------
(* RegistryGC.Trigger and run.                                              *)

At(pc) == run.pc = pc
Goto(pc) == run' = [run EXCEPT !.pc = pc]
gcRest == <<diskVars, runs, seen, faults>>

\* setReadOnly(true) of a run; the flag "running" is the process's own.
Trigger ==
    /\ ~Running
    /\ runs < MaxRuns
    /\ runs' = runs + 1
    /\ run' = [pc |-> "get", to |-> "ro", fresh |-> TRUE, ok |-> TRUE]
    /\ UNCHANGED <<deployVars, diskVars, jobs, outcomes, record, seen, faults, budget>>

\* run returned: running is reset, and then the outcome is recorded.
Ends(ok) ==
    /\ run' = NoRun
    /\ outcomes' = outcomes \cup {[run |-> runs, ok |-> ok]}

\* The deferred setReadOnly(false), whatever happened since the first one.
Restore(ok) ==
    /\ run' = [pc |-> "get", to |-> "rw", fresh |-> TRUE, ok |-> ok]
    /\ outcomes' = outcomes

\* An error of setReadOnly(true) is returned before the defer; one of
\* setReadOnly(false) is the run's outcome.
SetFails == Ends(FALSE)

GetDeployment ==
    /\ At("get")
    /\ run' = [run EXCEPT !.pc = IF config = run.to THEN "rollout" ELSE "update",
                          !.fresh = TRUE]
    /\ UNCHANGED <<deployVars, gcRest, jobs, outcomes, record, budget>>

\* Update carries the resourceVersion that was read; a conflict is an error.
UpdateDeployment ==
    /\ At("update")
    /\ IF run.fresh
         THEN config' = run.to /\ Goto("rollout") /\ outcomes' = outcomes
         ELSE config' = config /\ SetFails
    /\ UNCHANGED <<stamp, secret, pod, gcRest, jobs, record, budget>>

WaitRollout ==
    /\ At("rollout")
    /\ RolledOut
    /\ IF run.to = "ro" THEN Goto("node") /\ outcomes' = outcomes ELSE Ends(run.ok)
    /\ UNCHANGED <<deployVars, gcRest, jobs, record, budget>>

\* registryNode: the collector runs on the node of the running pod.
FindNode ==
    /\ At("node")
    /\ IF pod.up THEN Goto("create") /\ outcomes' = outcomes ELSE Restore(FALSE)
    /\ UNCHANGED <<deployVars, gcRest, jobs, record, budget>>

\* Mutant: the run does not wait for the Job.
CreateJobUnwaited ==
    /\ At("create")
    /\ jobs' = [jobs EXCEPT ![runs].state = "starting"]
    /\ Restore(TRUE)
    /\ UNCHANGED <<deployVars, gcRest, record, budget>>

CreateJob ==
    /\ At("create")
    /\ jobs' = [jobs EXCEPT ![runs].state = "starting"]
    /\ Goto("wait")
    /\ UNCHANGED <<deployVars, gcRest, outcomes, record, budget>>

WaitJob ==
    /\ At("wait")
    /\ jobs[runs].state \in {"swept", "failed"}
    /\ run' = [run EXCEPT !.pc = "delete", !.ok = jobs[runs].state = "swept"]
    /\ UNCHANGED <<deployVars, gcRest, jobs, outcomes, record, budget>>

\* The deferred Delete, in the background: the collector's pod may go on, and
\* ends some time later (JobEnds), as it does when the call fails.
DeleteJob ==
    /\ At("delete")
    /\ Restore(run.ok)
    /\ UNCHANGED <<deployVars, gcRest, jobs, record, budget>>

Collection ==
    \/ GetDeployment \/ UpdateDeployment \/ WaitRollout
    \/ FindNode \/ CreateJob \/ WaitJob \/ DeleteJob

\* A call fails, the rollout takes more than 5 minutes, or the hour is over.
CallFails ==
    /\ Fault("call")
    /\ \/ run.pc \in {"get", "update", "rollout"} /\ SetFails
       \/ run.pc \in {"node", "create", "delete"} /\ Restore(run.ok /\ At("delete"))
       \/ At("wait") /\ run' = [run EXCEPT !.pc = "delete", !.ok = FALSE] /\ outcomes' = outcomes
    /\ UNCHANGED <<deployVars, gcRest, jobs, record>>

\* record: the ConfigMap the API and the CLI show.
Record ==
    \E o \in outcomes :
        /\ outcomes' = outcomes \ {o}
        /\ record' = o
        /\ UNCHANGED <<deployVars, diskVars, run, runs, jobs, seen, faults, budget>>

RecordFails ==
    /\ Fault("call")
    /\ \E o \in outcomes : outcomes' = outcomes \ {o}
    /\ UNCHANGED <<deployVars, diskVars, run, runs, jobs, record, seen, faults>>

\* The process dies: nothing of the run is resumed, its Job goes on.
Crash ==
    /\ Fault("crash")
    /\ run' = NoRun
    /\ outcomes' = {}
    /\ seen' = NoCert
    /\ UNCHANGED <<deployVars, diskVars, runs, jobs, record, faults>>

Next ==
    \/ Clients \/ Cluster \/ Rotation
    \/ Trigger \/ Collection \/ Record
    \/ CallFails \/ RecordFails \/ Crash

\* The cluster, the rotation and a collection that has begun go on.
Fairness ==
    /\ WF_vars(Rollout) /\ WF_vars(Collector)
    /\ WF_vars(CheckReads) /\ WF_vars(CheckPatches)
    /\ WF_vars(Collection) /\ WF_vars(Record)

Spec == Init /\ [][Next]_vars
FairSpec == Spec /\ Fairness

---------------------------------------------------------------------------
(* Properties.                                                              *)

TypeOK ==
    /\ config \in Modes /\ stamp \in {NoCert} \cup Certs /\ secret \in Certs
    /\ pod \in Pod
    /\ blobs \subseteq Images /\ manifests \subseteq Images /\ pushing \subseteq Images
    /\ run \in Run /\ runs \in 0..MaxRuns
    /\ jobs \in [RunIds -> Job]
    /\ outcomes \subseteq [run : RunIds, ok : BOOLEAN]
    /\ record \in [run : 0..MaxRuns, ok : BOOLEAN]
    /\ seen \in {NoCert} \cup Certs
    /\ faults \subseteq Faults /\ budget \in 0..Budget

CollectorAlone == \A r \in RunIds : Collecting(r) => ~Writable

\* Unless a call fails or the process dies, the collector never runs beside a
\* writable registry, renewals of the certificate that restart it included.
UninterruptedAlone == faults \cap {"call", "crash"} = {} => CollectorAlone

\* And no image loses its layers: a blob a client was told is there, and whose
\* manifest it pushes after the collection, was not swept in between.
UninterruptedComplete == faults \cap {"call", "crash"} = {} => manifests \subseteq blobs

\* Whatever collections, failures and crashes happen, the registry ends up
\* serving the renewed certificate.
ServesRenewedCertificate == <>[](pod.up /\ pod.cert = secret)

=============================================================================
