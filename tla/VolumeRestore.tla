--------------------------- MODULE VolumeRestore --------------------------
(***************************************************************************)
(* Restoring a Volume in place from a snapshot (internal/controller):      *)
(* the API handler writes a request, an annotation pair, on the Volume;    *)
(* the Volume controller reports Restoring, deletes the claim once no pod  *)
(* uses it, creates it again from the snapshot and clears the request; the *)
(* App controller stops and starts the process that mounts the volume.     *)
(*                                                                         *)
(* The three work from copies: both controllers read the Volume, the claim *)
(* and the pods from informer caches that lag, the handler patches what it *)
(* read a moment ago, and only the status patch is under optimistic lock.  *)
(***************************************************************************)
EXTENDS Naturals

CONSTANTS
    Snapshots,    \* names of the volume's snapshots
    NoSnap,       \* no snapshot
    Original,     \* the disk's content before any restore
    Blank,        \* a freshly formatted disk
    MaxRequests,  \* bound: restore requests, and so restore ids
    Budget        \* bound: snapshots taken or deleted, failures and crashes

ASSUME ConstantsAssumption ==
    /\ NoSnap # Original /\ NoSnap # Blank /\ Original # Blank
    /\ Snapshots \cap {NoSnap, Original, Blank} = {}
    /\ MaxRequests \in Nat
    /\ Budget \in Nat

VARIABLES
    vol,          \* the Volume in the API server
    cachedVol,    \* the informer's copy of it
    claim,        \* its PersistentVolumeClaim
    cachedClaim,  \* the informer's copy of it
    snapshots,    \* state of each VolumeSnapshot
    replicas,     \* of the Deployment whose process mounts the volume
    appWants,     \* replicas the App controller is about to write; Nothing
    pod,          \* the process's pod
    cachedPod,    \* the informer lists a pod using the claim
    request,      \* the restore handler in progress
    nextId,       \* restore ids are unique (a timestamp)
    job,          \* the Volume reconcile in progress
    queued,       \* the Volume's key is in the work queue
    faults,       \* the kinds of faults this run of the system meets
    budget

volumeVars == <<vol, cachedVol, claim, cachedClaim, snapshots>>
appVars == <<replicas, appWants, pod, cachedPod>>
apiVars == <<request, nextId>>
vars == <<volumeVars, appVars, apiVars, job, queued, faults, budget>>

VolumePhases == {"Pending", "Bound", "Restoring", "Failed"}
Contents == Snapshots \cup {Original, Blank}
Nothing == 2
Faults == {"call", "crash", "delete"}

\* snap and id are the annotations restore-from and restore-id (0: none),
\* from is status.restoredFrom.
Volume == [rv : Nat, snap : Snapshots \cup {NoSnap}, id : Nat,
           phase : VolumePhases, from : Snapshots \cup {NoSnap}]
Claim == [from : Contents \cup {NoSnap}, id : Nat, deleting : BOOLEAN, bound : BOOLEAN]
Request == [pc : {"idle", "patch"}, snap : Snapshots \cup {NoSnap}, id : Nat,
            seen : Snapshots \cup {NoSnap}]
Job == [pc : {"idle", "snapshot", "restore", "claim", "patch", "clear"}, vol : Volume]

NoClaim == [from |-> NoSnap, id |-> 0, deleting |-> FALSE, bound |-> FALSE]
NewClaim(content, id) == [from |-> content, id |-> id, deleting |-> FALSE, bound |-> FALSE]

\* The Volume is bound and mounted by a running process.
Mounted == [rv |-> 1, snap |-> NoSnap, id |-> 0, phase |-> "Bound", from |-> NoSnap]
NoRequest == [pc |-> "idle", snap |-> NoSnap, id |-> 0, seen |-> NoSnap]
NoJob == [pc |-> "idle", vol |-> Mounted]

Init ==
    /\ vol = Mounted
    /\ cachedVol = vol
    /\ claim = [NewClaim(Original, 0) EXCEPT !.bound = TRUE]
    /\ cachedClaim = claim
    /\ snapshots \in [Snapshots -> {"absent", "ready"}]
    /\ replicas = 1
    /\ appWants = Nothing
    /\ pod = "running"
    /\ cachedPod = TRUE
    /\ request = NoRequest
    /\ nextId = 1
    /\ job = NoJob
    /\ queued = FALSE
    /\ faults \in SUBSET Faults
    /\ budget = Budget

Spend == budget > 0 /\ budget' = budget - 1
Fault(kind) == kind \in faults /\ Spend

\* A write to the Volume that changes it gets a new resourceVersion.
Write(new) == vol' = IF new = vol THEN vol ELSE [new EXCEPT !.rv = vol.rv + 1]

---------------------------------------------------------------------------
(* The API: pkg/api/snapshots.go.                                           *)

\* createSnapshot: of a bound volume; a deleted name may be taken again.
TakeSnapshot(s) ==
    /\ Spend
    /\ vol.phase = "Bound"
    /\ snapshots[s] = "absent"
    /\ snapshots' = [snapshots EXCEPT ![s] = "taking"]
    /\ UNCHANGED <<vol, cachedVol, claim, cachedClaim, appVars, apiVars, job, queued, faults>>

\* deleteSnapshot.  A snapshot some claim is being provisioned from stays
\* (the snapshot controller's finalizer).
DeleteSnapshot(s) ==
    /\ Fault("delete")
    /\ snapshots[s] # "absent"
    /\ ~(claim.from = s /\ ~claim.bound)
    /\ snapshots' = [snapshots EXCEPT ![s] = "absent"]
    /\ UNCHANGED <<vol, cachedVol, claim, cachedClaim, appVars, apiVars, job, queued, faults>>

\* restoreVolume, in place: the handler reads the Volume and the snapshot...
AcceptRestore(s) ==
    /\ request.pc = "idle"
    /\ nextId <= MaxRequests
    /\ snapshots[s] = "ready"
    /\ vol.phase # "Restoring"
    /\ request' = [pc |-> "patch", snap |-> s, id |-> nextId, seen |-> vol.snap]
    /\ nextId' = nextId + 1
    /\ UNCHANGED <<volumeVars, appVars, job, queued, faults, budget>>

\* ... and sends what differs from what it read, without a resourceVersion.
PatchRequest ==
    /\ request.pc = "patch"
    /\ Write([vol EXCEPT !.snap = IF request.seen = request.snap THEN @ ELSE request.snap,
                         !.id = request.id])
    /\ request' = NoRequest
    /\ UNCHANGED <<cachedVol, claim, cachedClaim, snapshots, appVars, nextId, job, queued,
                   faults, budget>>

Api ==
    \/ \E s \in Snapshots : TakeSnapshot(s) \/ DeleteSnapshot(s) \/ AcceptRestore(s)
    \/ PatchRequest

---------------------------------------------------------------------------
(* The cluster: watches, the CSI driver, the Deployment controller.         *)

SyncVolume ==
    /\ cachedVol # vol
    /\ cachedVol' = vol
    /\ queued' = TRUE
    /\ UNCHANGED <<vol, claim, cachedClaim, snapshots, appVars, apiVars, job, faults, budget>>

SyncClaim ==
    /\ cachedClaim # claim
    /\ cachedClaim' = claim
    /\ queued' = TRUE
    /\ UNCHANGED <<vol, cachedVol, claim, snapshots, appVars, apiVars, job, faults, budget>>

\* Pods are read from the cache but not watched by the Volume controller.
SyncPod ==
    /\ cachedPod # (pod # "none")
    /\ cachedPod' = (pod # "none")
    /\ UNCHANGED <<volumeVars, replicas, appWants, pod, apiVars, job, queued, faults, budget>>

SnapshotReady(s) ==
    /\ snapshots[s] = "taking"
    /\ snapshots' = [snapshots EXCEPT ![s] = "ready"]
    /\ UNCHANGED <<vol, cachedVol, claim, cachedClaim, appVars, apiVars, job, queued, faults,
                   budget>>

Provisionable == claim.from \in Snapshots => snapshots[claim.from] = "ready"

\* The disk is created: at once, or when the first pod mounts the claim.
ClaimBinds ==
    /\ claim # NoClaim /\ ~claim.bound /\ ~claim.deleting
    /\ Provisionable
    /\ claim' = [claim EXCEPT !.bound = TRUE]
    /\ UNCHANGED <<vol, cachedVol, cachedClaim, snapshots, appVars, apiVars, job, queued,
                   faults, budget>>

\* A deleted claim goes once no running pod uses it (pvc-protection).
ClaimGoes ==
    /\ claim.deleting
    /\ pod # "running"
    /\ claim' = NoClaim
    /\ UNCHANGED <<vol, cachedVol, cachedClaim, snapshots, appVars, apiVars, job, queued,
                   faults, budget>>

PodCreated ==
    /\ replicas = 1 /\ pod = "none"
    /\ pod' = "pending"
    /\ UNCHANGED <<volumeVars, replicas, appWants, cachedPod, apiVars, job, queued, faults,
                   budget>>

PodStarts ==
    /\ pod = "pending"
    /\ claim.bound /\ ~claim.deleting
    /\ pod' = "running"
    /\ UNCHANGED <<volumeVars, replicas, appWants, cachedPod, apiVars, job, queued, faults,
                   budget>>

PodStops ==
    /\ replicas = 0 /\ pod # "none"
    /\ pod' = "none"
    /\ UNCHANGED <<volumeVars, replicas, appWants, cachedPod, apiVars, job, queued, faults,
                   budget>>

Cluster ==
    \/ SyncVolume \/ SyncClaim \/ SyncPod
    \/ \E s \in Snapshots : SnapshotReady(s)
    \/ ClaimBinds \/ ClaimGoes
    \/ PodCreated \/ PodStarts \/ PodStops

---------------------------------------------------------------------------
(* The App controller: resolveMounts and applyMounts.                       *)

\* A process runs unless its volume is being restored.
Wanted == IF cachedVol.phase = "Restoring" \/ cachedVol.snap # NoSnap THEN 0 ELSE 1

AppReads ==
    /\ appWants = Nothing
    /\ Wanted # replicas
    /\ appWants' = Wanted
    /\ UNCHANGED <<volumeVars, replicas, pod, cachedPod, apiVars, job, queued, faults, budget>>

AppWrites ==
    /\ appWants # Nothing
    /\ replicas' = appWants
    /\ appWants' = Nothing
    /\ UNCHANGED <<volumeVars, pod, cachedPod, apiVars, job, queued, faults, budget>>

AppController == AppReads \/ AppWrites

---------------------------------------------------------------------------
(* The Volume controller: VolumeReconciler.                                 *)

At(pc) == job.pc = pc
ToPatch(v) == job' = [pc |-> "patch", vol |-> v]
Waits == ToPatch([job.vol EXCEPT !.phase = "Restoring"])
Fails == ToPatch([job.vol EXCEPT !.phase = "Failed"])

\* Mutant: a restore is done only when its claim is bound.
RestoredFromThisBound(c, v) == c.from = v.snap /\ c.id = v.id /\ c.bound

\* The claim of this request: same snapshot and the same request id.
RestoredFromThis(c, v) == c.from = v.snap /\ c.id = v.id

Begin ==
    /\ At("idle") /\ queued
    /\ queued' = FALSE
    /\ job' = [pc |-> IF cachedVol.snap = NoSnap THEN "claim" ELSE "snapshot",
               vol |-> cachedVol]
    /\ UNCHANGED <<volumeVars, appVars, apiVars, faults, budget>>

\* restoreInPlace reads the snapshot (not from the cache).
ReadSnapshot ==
    /\ At("snapshot")
    /\ \/ snapshots[job.vol.snap] = "ready" /\ job' = [job EXCEPT !.pc = "restore"]
       \/ snapshots[job.vol.snap] = "taking" /\ Waits
    /\ UNCHANGED <<volumeVars, appVars, apiVars, queued, faults, budget>>

\* The snapshot is gone: clearRestore, at once, then an error.
CancelRestore ==
    /\ At("snapshot")
    /\ snapshots[job.vol.snap] = "absent"
    /\ Write([vol EXCEPT !.snap = NoSnap, !.id = 0])
    /\ ToPatch([job.vol EXCEPT !.phase = "Failed", !.snap = NoSnap, !.id = 0])
    /\ UNCHANGED <<cachedVol, claim, cachedClaim, snapshots, appVars, apiVars, queued, faults,
                   budget>>

\* The same when the write that clears it fails: only the copy forgets it.
CancelFails ==
    /\ At("snapshot")
    /\ snapshots[job.vol.snap] = "absent"
    /\ Fault("call")
    /\ ToPatch([job.vol EXCEPT !.phase = "Failed", !.snap = NoSnap, !.id = 0])
    /\ UNCHANGED <<volumeVars, appVars, apiVars, queued, faults>>

\* The old claim is gone: the new one is created from the snapshot, unless
\* there is one the cache does not show yet.
RecreateClaim ==
    /\ At("restore")
    /\ cachedClaim = NoClaim
    /\ IF claim = NoClaim
         THEN claim' = NewClaim(job.vol.snap, job.vol.id) /\ Waits
         ELSE claim' = claim /\ Fails
    /\ UNCHANGED <<vol, cachedVol, cachedClaim, snapshots, appVars, apiVars, queued, faults,
                   budget>>

\* The new claim carries the snapshot: the restore is done.
RestoreDone ==
    /\ At("restore")
    /\ cachedClaim # NoClaim
    /\ RestoredFromThis(cachedClaim, job.vol)
    /\ ToPatch([job.vol EXCEPT !.from = job.vol.snap,
                               !.phase = IF cachedClaim.bound THEN "Bound" ELSE "Pending"])
    /\ UNCHANGED <<volumeVars, appVars, apiVars, queued, faults, budget>>

\* The old claim: wait for its users to stop, then delete it, by name.
ReplaceClaim ==
    /\ At("restore")
    /\ cachedClaim # NoClaim
    /\ ~RestoredFromThis(cachedClaim, job.vol)
    /\ claim' = IF cachedPod \/ cachedClaim.deleting \/ claim = NoClaim THEN claim
                ELSE [claim EXCEPT !.deleting = TRUE]
    /\ Waits
    /\ UNCHANGED <<vol, cachedVol, cachedClaim, snapshots, appVars, apiVars, queued, faults,
                   budget>>

\* No request: the claim exists, blank if it has to be created, and the
\* status tells what it is.
EnsureClaim ==
    /\ At("claim")
    /\ IF cachedClaim = NoClaim
         THEN IF claim = NoClaim
                THEN /\ claim' = NewClaim(Blank, 0)
                     /\ ToPatch([job.vol EXCEPT !.phase = "Pending"])
                ELSE claim' = claim /\ Fails
         ELSE /\ claim' = claim
              /\ ToPatch([job.vol EXCEPT
                   !.phase = IF cachedClaim.bound THEN "Bound" ELSE "Pending",
                   !.from = IF cachedClaim.from \in Snapshots THEN cachedClaim.from ELSE @])
    /\ UNCHANGED <<vol, cachedVol, cachedClaim, snapshots, appVars, apiVars, queued, faults,
                   budget>>

\* Mutant: the request is cleared once any status is written.
PatchStatusClears ==
    /\ At("patch")
    /\ IF job.vol.rv # vol.rv
         THEN vol' = vol /\ queued' = TRUE /\ job' = NoJob
         ELSE /\ Write([vol EXCEPT !.phase = job.vol.phase, !.from = job.vol.from])
              /\ queued' = (queued \/ job.vol.phase \in {"Failed", "Restoring"})
              /\ job' = IF job.vol.snap # NoSnap THEN [job EXCEPT !.pc = "clear"] ELSE NoJob
    /\ UNCHANGED <<cachedVol, claim, cachedClaim, snapshots, appVars, apiVars, faults, budget>>

\* Mutant: a volume being restored is not looked at again by itself.
PatchStatusWaits ==
    /\ At("patch")
    /\ IF job.vol.rv # vol.rv
         THEN vol' = vol /\ queued' = TRUE /\ job' = NoJob
         ELSE /\ Write([vol EXCEPT !.phase = job.vol.phase, !.from = job.vol.from])
              /\ queued' = (queued \/ job.vol.phase = "Failed")
              /\ job' = IF /\ job.vol.snap # NoSnap
                           /\ job.vol.phase # "Restoring"
                           /\ job.vol.from = job.vol.snap
                          THEN [job EXCEPT !.pc = "clear"] ELSE NoJob
    /\ UNCHANGED <<cachedVol, claim, cachedClaim, snapshots, appVars, apiVars, faults, budget>>

\* Status().Patch with optimistic lock; then, when the status says the
\* restore is over, the request is cleared.
PatchStatus ==
    /\ At("patch")
    /\ IF job.vol.rv # vol.rv
         THEN vol' = vol /\ queued' = TRUE /\ job' = NoJob
         ELSE /\ Write([vol EXCEPT !.phase = job.vol.phase, !.from = job.vol.from])
              /\ queued' = (queued \/ job.vol.phase \in {"Failed", "Restoring"})
              /\ job' = IF /\ job.vol.snap # NoSnap
                           /\ job.vol.phase # "Restoring"
                           /\ job.vol.from = job.vol.snap
                          THEN [job EXCEPT !.pc = "clear"] ELSE NoJob
    /\ UNCHANGED <<cachedVol, claim, cachedClaim, snapshots, appVars, apiVars, faults, budget>>

\* clearRestore: a merge patch that removes both annotations, unlocked.
ClearRestore ==
    /\ At("clear")
    /\ Write([vol EXCEPT !.snap = NoSnap, !.id = 0])
    /\ job' = NoJob
    /\ UNCHANGED <<cachedVol, claim, cachedClaim, snapshots, appVars, apiVars, queued, faults,
                   budget>>

Reconcile ==
    \/ Begin \/ ReadSnapshot \/ CancelRestore \/ RecreateClaim \/ RestoreDone
    \/ ReplaceClaim \/ EnsureClaim \/ PatchStatus \/ ClearRestore

\* A call of reconcile fails: phase Failed, retried in 30 s.
ReconcileFails ==
    /\ job.pc \in {"snapshot", "restore", "claim"}
    /\ Fault("call")
    /\ Fails
    /\ UNCHANGED <<volumeVars, appVars, apiVars, queued, faults>>

\* The status patch fails (retried), or clearRestore does (only logged).
PatchFails ==
    /\ job.pc \in {"patch", "clear"}
    /\ Fault("call")
    /\ queued' = (queued \/ At("patch"))
    /\ job' = NoJob
    /\ UNCHANGED <<volumeVars, appVars, apiVars, faults>>

\* The process dies, with the handler and the reconcile in it; the next one
\* lists everything.
Crash ==
    /\ Fault("crash")
    /\ cachedVol' = vol
    /\ cachedClaim' = claim
    /\ cachedPod' = (pod # "none")
    /\ queued' = TRUE
    /\ job' = NoJob
    /\ request' = NoRequest
    /\ appWants' = Nothing
    /\ UNCHANGED <<vol, claim, snapshots, replicas, pod, nextId, faults>>

Failure == ReconcileFails \/ CancelFails \/ PatchFails \/ Crash

Next == Api \/ Cluster \/ AppController \/ Reconcile \/ Failure

\* The controllers, the watches and the cluster keep working; requests, their
\* handler included, and failures are not owed.
Fairness ==
    /\ WF_vars(Reconcile)
    /\ WF_vars(AppReads) /\ WF_vars(AppWrites)
    /\ WF_vars(SyncVolume) /\ WF_vars(SyncClaim) /\ WF_vars(SyncPod)
    /\ WF_vars(\E s \in Snapshots : SnapshotReady(s))
    /\ WF_vars(ClaimBinds) /\ WF_vars(ClaimGoes)
    /\ WF_vars(PodCreated) /\ WF_vars(PodStarts) /\ WF_vars(PodStops)

Spec == Init /\ [][Next]_vars
FairSpec == Spec /\ Fairness

---------------------------------------------------------------------------
(* Properties.                                                              *)

TypeOK ==
    /\ vol \in Volume /\ cachedVol \in Volume
    /\ claim \in Claim /\ cachedClaim \in Claim
    /\ snapshots \in [Snapshots -> {"absent", "taking", "ready"}]
    /\ replicas \in {0, 1} /\ appWants \in {0, 1, Nothing}
    /\ pod \in {"none", "pending", "running"} /\ cachedPod \in BOOLEAN
    /\ request \in Request /\ nextId \in 1..(MaxRequests + 1)
    /\ job \in Job /\ queued \in BOOLEAN
    /\ faults \subseteq Faults /\ budget \in 0..Budget

\* A disk restored for a request, which the process may have written to since,
\* is never deleted for that request again, nor for an earlier one, however
\* stale the caches: the delete is by name.
RestoredDiskKept ==
    [][claim'.deleting /\ ~claim.deleting => job.vol.id > claim.id]_vars

\* A restore that meets no second request, no failing call and no deletion of
\* its snapshot.
Undisturbed == nextId <= 2 /\ faults \cap {"call", "delete"} = {}

\* Such a restore never loses the disk: between deleting the old claim and
\* creating the new one no crash and no stale cache forgets the request, after
\* which the volume would be created again, blank.
UndisturbedNeverBlank == Undisturbed => claim.from # Blank

\* However requests race the restore, and whatever call fails, unless a snapshot
\* a restore needs is deleted under it, the volume ends bound with no request
\* left and the process running: it is not left stopped, and nobody waits for
\* a disk the other side waits to release.
Serving == pod = "running" /\ vol.snap = NoSnap /\ vol.phase = "Bound"
EventuallyServing == "delete" \notin faults => <>[]Serving

=============================================================================
