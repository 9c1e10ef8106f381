------------------------ MODULE VolumeRestoreProofs -------------------------
(***************************************************************************)
(* What VolumeRestore promises for any snapshots, any number of requests   *)
(* and any faults: a disk restored for a request is not deleted for that   *)
(* request or an older one, and a restore that nothing disturbs never ends *)
(* with a blank disk.                                                      *)
(***************************************************************************)
EXTENDS VolumeRestore, TLAPS

\* A copy of the Volume that asks for a restore.
Live(v) == v.snap # NoSnap

\* The cached claim is the claim itself, a moment ago, or one of the two is
\* not there: a claim is only created by who sees none, so the cache never
\* shows an earlier claim beside a later one.
CacheOfClaim ==
    \/ claim = NoClaim \/ cachedClaim = NoClaim
    \/ cachedClaim.from = claim.from /\ cachedClaim.id = claim.id

\* Request ids only grow, from the handler through the Volume and its cached
\* copy to the reconcile and the claim: whoever still asks for a restore asks
\* for one at least as late as what is further down.
IdsInOrder ==
    /\ Live(vol) => cachedVol.id <= vol.id /\ job.vol.id <= vol.id /\ claim.id <= vol.id
    /\ Live(cachedVol) => job.vol.id <= cachedVol.id /\ claim.id <= cachedVol.id
    /\ job.pc \in {"snapshot", "restore"} => Live(job.vol) /\ claim.id <= job.vol.id

\* The ids given out are below nextId, that of the request under way is above
\* all others, and who asks for a restore has one.
IdsGiven ==
    /\ vol.id < nextId /\ cachedVol.id < nextId /\ job.vol.id < nextId /\ claim.id < nextId
    /\ request.pc = "patch" =>
         /\ request.id < nextId /\ request.snap \in Snapshots
         /\ vol.id < request.id /\ cachedVol.id < request.id
         /\ job.vol.id < request.id /\ claim.id < request.id
    /\ Live(vol) => vol.id > 0
    /\ Live(cachedVol) => cachedVol.id > 0
    /\ Live(job.vol) => job.vol.id > 0

\* An id stands for one snapshot: two copies with the same id ask for the same,
\* and a claim with that id holds it.
SameRequest(v, w) == Live(v) /\ Live(w) /\ v.id = w.id => v.snap = w.snap
ClaimOf(v) == Live(v) /\ claim.id = v.id => claim.from = v.snap
IdsMeanOneSnapshot ==
    /\ SameRequest(vol, cachedVol) /\ SameRequest(vol, job.vol)
    /\ SameRequest(cachedVol, job.vol)
    /\ ClaimOf(vol) /\ ClaimOf(cachedVol) /\ ClaimOf(job.vol)

RestoreInv == TypeOK /\ CacheOfClaim /\ IdsInOrder /\ IdsGiven /\ IdsMeanOneSnapshot

\* The snapshot of a restore nothing disturbs is there.
SnapshotsStay ==
    /\ Live(vol) => snapshots[vol.snap] # "absent"
    /\ Live(cachedVol) => snapshots[cachedVol.snap] # "absent"
    /\ Live(job.vol) => snapshots[job.vol.snap] # "absent"
    /\ request.pc = "patch" => snapshots[request.snap] # "absent"

\* Until the claim is the restored one no status says the restore is over, so
\* nothing clears the request; and when the old claim is going or gone,
\* whoever reads the Volume sees the request.
NotYetRestored ==
    /\ claim.from \notin Snapshots
    /\ cachedClaim.id = 0 /\ cachedClaim.from \notin Snapshots
    /\ vol.from = NoSnap /\ cachedVol.from = NoSnap /\ job.vol.from = NoSnap
    /\ job.pc # "clear"
    /\ Live(job.vol) => Live(cachedVol)
    /\ Live(cachedVol) => Live(vol)
    /\ claim.deleting \/ claim = NoClaim => Live(cachedVol) /\ job.pc # "claim"

NeverBlank ==
    /\ claim.from # Blank
    /\ SnapshotsStay
    /\ claim.id > 0 => claim.from \in Snapshots /\ ~claim.deleting
    /\ claim.id = 0 => NotYetRestored

BlankInv == Undisturbed => NeverBlank

---------------------------------------------------------------------------
(* What a write and a reconcile's conclusion leave in the Volume.            *)

\* A write stores what it was given, under a new resourceVersion if that is new.
LEMMA WriteStores ==
    ASSUME vol \in Volume, NEW v \in Volume, Write(v)
    PROVE  /\ vol' \in Volume
           /\ vol'.snap = v.snap /\ vol'.id = v.id
           /\ vol'.phase = v.phase /\ vol'.from = v.from
  <1>1. CASE v = vol
    BY <1>1 DEF Write
  <1>2. CASE v # vol
    <2>1. vol' = [v EXCEPT !.rv = vol.rv + 1]
      BY <1>2 DEF Write
    <2>2. vol.rv + 1 \in Nat
      BY DEF Volume
    <2> QED BY <2>1, <2>2 DEF Volume
  <1> QED BY <1>1, <1>2

\* clearRestore's write, and the status patch's.
LEMMA ClearStores ==
    ASSUME vol \in Volume, Write([vol EXCEPT !.snap = NoSnap, !.id = 0])
    PROVE  vol' \in Volume /\ vol'.snap = NoSnap /\ vol'.id = 0 /\ vol'.from = vol.from
  <1> DEFINE v == [vol EXCEPT !.snap = NoSnap, !.id = 0]
  <1>1. v \in Volume /\ v.snap = NoSnap /\ v.id = 0 /\ v.from = vol.from
    BY DEF Volume
  <1>2. Write(v)
    OBVIOUS
  <1> HIDE DEF v
  <1> QED BY <1>1, <1>2, WriteStores

LEMMA StatusStores ==
    ASSUME vol \in Volume, NEW u \in Volume,
           vol' = vol \/ Write([vol EXCEPT !.phase = u.phase, !.from = u.from])
    PROVE  /\ vol' \in Volume /\ vol'.snap = vol.snap /\ vol'.id = vol.id
           /\ vol'.from \in {vol.from, u.from}
  <1> DEFINE v == [vol EXCEPT !.phase = u.phase, !.from = u.from]
  <1>1. v \in Volume /\ v.snap = vol.snap /\ v.id = vol.id /\ v.from = u.from
    BY DEF Volume
  <1>2. vol' = vol \/ Write(v)
    OBVIOUS
  <1> HIDE DEF v
  <1> QED BY <1>1, <1>2, WriteStores

\* Reporting a phase changes nothing else in the reconcile's copy.
LEMMA PhaseOnly ==
    ASSUME NEW v \in Volume, NEW p \in VolumePhases
    PROVE  /\ [v EXCEPT !.phase = p] \in Volume
           /\ [v EXCEPT !.phase = p].snap = v.snap /\ [v EXCEPT !.phase = p].id = v.id
           /\ [v EXCEPT !.phase = p].from = v.from /\ [v EXCEPT !.phase = p].phase = p
  BY DEF Volume

LEMMA WaitsKeeps ==
    ASSUME job \in Job, Waits
    PROVE  /\ job' \in Job /\ job'.pc = "patch"
           /\ job'.vol.snap = job.vol.snap /\ job'.vol.id = job.vol.id
           /\ job'.vol.from = job.vol.from /\ job'.vol.phase = "Restoring"
  <1>1. job.vol \in Volume /\ "Restoring" \in VolumePhases
    BY DEF Job, VolumePhases
  <1>2. job' = [pc |-> "patch", vol |-> [job.vol EXCEPT !.phase = "Restoring"]]
    BY DEF Waits, ToPatch
  <1> QED BY <1>1, <1>2, PhaseOnly DEF Job

LEMMA FailsKeeps ==
    ASSUME job \in Job, Fails
    PROVE  /\ job' \in Job /\ job'.pc = "patch"
           /\ job'.vol.snap = job.vol.snap /\ job'.vol.id = job.vol.id
           /\ job'.vol.from = job.vol.from /\ job'.vol.phase = "Failed"
  <1>1. job.vol \in Volume /\ "Failed" \in VolumePhases
    BY DEF Job, VolumePhases
  <1>2. job' = [pc |-> "patch", vol |-> [job.vol EXCEPT !.phase = "Failed"]]
    BY DEF Fails, ToPatch
  <1> QED BY <1>1, <1>2, PhaseOnly DEF Job

\* The reconcile whose snapshot is gone forgets the request in its copy.
LEMMA ForgetsKeeps ==
    ASSUME job \in Job,
           ToPatch([job.vol EXCEPT !.phase = "Failed", !.snap = NoSnap, !.id = 0])
    PROVE  /\ job' \in Job /\ job'.pc = "patch"
           /\ job'.vol.snap = NoSnap /\ job'.vol.id = 0
           /\ job'.vol.from = job.vol.from
  <1> DEFINE v == [job.vol EXCEPT !.phase = "Failed", !.snap = NoSnap, !.id = 0]
  <1>1. v \in Volume /\ v.snap = NoSnap /\ v.id = 0 /\ v.from = job.vol.from
    BY DEF Job, Volume, VolumePhases
  <1>2. job' = [pc |-> "patch", vol |-> v]
    BY DEF ToPatch
  <1> HIDE DEF v
  <1> QED BY <1>1, <1>2 DEF Job

\* NoJob and its copy of the Volume, which asks for nothing.
LEMMA NoJobAsksNothing ==
    /\ NoJob \in Job /\ Mounted \in Volume
    /\ NoJob.pc = "idle" /\ NoJob.vol = Mounted
    /\ Mounted.snap = NoSnap /\ Mounted.id = 0 /\ Mounted.from = NoSnap
  BY DEF NoJob, Mounted, Job, Volume, VolumePhases

LEMMA ClaimShapes ==
    /\ NoClaim \in Claim /\ NoClaim.id = 0 /\ NoClaim.from = NoSnap /\ NoClaim.deleting = FALSE
    /\ \A content \in Contents, id \in Nat :
         /\ NewClaim(content, id) \in Claim
         /\ NewClaim(content, id).id = id /\ NewClaim(content, id).from = content
         /\ NewClaim(content, id).deleting = FALSE
         /\ content # NoSnap => NewClaim(content, id) # NoClaim
  BY DEF NoClaim, NewClaim, Claim

---------------------------------------------------------------------------
(* RestoreInv is inductive.                                                 *)

LEMMA InitRestoreInv == Init => RestoreInv
  <1> SUFFICES ASSUME Init PROVE RestoreInv
    OBVIOUS
  <1>1. claim.id = 0 /\ claim.from = Original /\ claim.deleting = FALSE /\ claim \in Claim
    BY DEF Init, NewClaim, Claim, Contents
  <1>2. TypeOK
    <2>1. /\ vol \in Volume /\ cachedVol \in Volume /\ job \in Job
          /\ claim \in Claim /\ cachedClaim \in Claim
      BY <1>1, NoJobAsksNothing DEF Init
    <2>2. request \in Request
      BY DEF Init, NoRequest, Request
    <2>3. snapshots \in [Snapshots -> {"absent", "taking", "ready"}]
      BY DEF Init
    <2>4. cachedPod \in BOOLEAN /\ queued \in BOOLEAN
      BY Zenon DEF Init
    <2>5. faults \subseteq Faults /\ budget \in 0..Budget /\ nextId \in 1..(MaxRequests + 1)
      BY ConstantsAssumption DEF Init
    <2> QED BY <2>1, <2>2, <2>3, <2>4, <2>5 DEF Init, TypeOK
  <1>3. CacheOfClaim /\ IdsInOrder /\ IdsGiven /\ IdsMeanOneSnapshot
    BY <1>1, NoJobAsksNothing, ConstantsAssumption
    DEF Init, CacheOfClaim, IdsInOrder, IdsGiven, IdsMeanOneSnapshot, SameRequest, ClaimOf,
        Live, NoRequest, NoJob
  <1> QED BY <1>2, <1>3 DEF RestoreInv

\* The parts of the type invariant a leaf needs of the three copies.
LEMMA Copies ==
    ASSUME TypeOK
    PROVE  /\ vol \in Volume /\ cachedVol \in Volume /\ job.vol \in Volume /\ job \in Job
           /\ vol.id \in Nat /\ cachedVol.id \in Nat /\ job.vol.id \in Nat
           /\ claim.id \in Nat /\ cachedClaim.id \in Nat /\ nextId \in Nat
           /\ request.id \in Nat
  BY ConstantsAssumption DEF TypeOK, Volume, Claim, Job, Request

\* A step that leaves what the ids are read from alone.
LEMMA IdsAside ==
    ASSUME RestoreInv, TypeOK', cachedVol' = cachedVol, nextId' = nextId, request' = request,
           vol'.snap = vol.snap, vol'.id = vol.id,
           job'.vol.snap = job.vol.snap, job'.vol.id = job.vol.id,
           \/ job'.pc = job.pc \/ job'.pc \in {"patch", "clear"}
           \/ job.pc = "snapshot" /\ job'.pc = "restore",
           claim'.id = claim.id, claim'.from = claim.from,
           CacheOfClaim'
    PROVE  RestoreInv'
  BY DEF RestoreInv, IdsInOrder, IdsGiven, IdsMeanOneSnapshot, SameRequest, ClaimOf, Live

\* A reconcile that ends, or forgets the request, asks for nothing.
LEMMA IdsJobForgets ==
    ASSUME RestoreInv, TypeOK', cachedVol' = cachedVol, claim' = claim,
           cachedClaim' = cachedClaim, nextId' = nextId, request' = request,
           \/ vol'.snap = vol.snap /\ vol'.id = vol.id
           \/ vol'.snap = NoSnap /\ vol'.id = 0,
           ~Live(job.vol)', job'.vol.id = 0, job'.pc \notin {"snapshot", "restore"}
    PROVE  RestoreInv'
  <1> USE Copies DEF RestoreInv
  <1>1. CacheOfClaim'
    BY DEF CacheOfClaim
  <1>2. IdsInOrder'
    BY DEF IdsInOrder, Live
  <1>3. IdsGiven'
    BY DEF IdsGiven, Live
  <1>4. IdsMeanOneSnapshot'
    BY DEF IdsMeanOneSnapshot, SameRequest, ClaimOf, Live
  <1> QED BY <1>1, <1>2, <1>3, <1>4

LEMMA ApiInv == RestoreInv /\ Api => RestoreInv'
  <1> SUFFICES ASSUME RestoreInv, Api PROVE RestoreInv'
    OBVIOUS
  <1> USE DEF RestoreInv
  <1>1. ASSUME NEW s \in Snapshots, TakeSnapshot(s) \/ DeleteSnapshot(s) PROVE RestoreInv'
    <2>1. UNCHANGED <<vol, cachedVol, claim, cachedClaim, appVars, apiVars, job, queued, faults>>
      BY <1>1 DEF TakeSnapshot, DeleteSnapshot
    <2>2. snapshots' \in [Snapshots -> {"absent", "taking", "ready"}] /\ budget' \in 0..Budget
      BY <1>1, ConstantsAssumption DEF TakeSnapshot, DeleteSnapshot, Fault, Spend, TypeOK
    <2>3. TypeOK'
      BY <2>1, <2>2 DEF TypeOK, appVars, apiVars
    <2>4. CacheOfClaim'
      BY <2>1 DEF CacheOfClaim
    <2> QED BY <2>1, <2>3, <2>4, IdsAside DEF apiVars
  <1>2. ASSUME NEW s \in Snapshots, AcceptRestore(s) PROVE RestoreInv'
    <2>1. /\ UNCHANGED <<volumeVars, appVars, job, queued, faults, budget>>
          /\ request' = [pc |-> "patch", snap |-> s, id |-> nextId, seen |-> vol.snap]
          /\ nextId' = nextId + 1 /\ nextId <= MaxRequests
      BY <1>2 DEF AcceptRestore
    <2>2. TypeOK'
      BY <2>1, ConstantsAssumption DEF TypeOK, volumeVars, appVars, Request, Volume
    <2>3. IdsGiven'
      BY <2>1, Copies DEF IdsGiven, volumeVars, Live
    <2>4. CacheOfClaim' /\ IdsInOrder' /\ IdsMeanOneSnapshot'
      BY <2>1 DEF volumeVars, CacheOfClaim, IdsInOrder, IdsMeanOneSnapshot, SameRequest,
                  ClaimOf, Live
    <2> QED BY <2>2, <2>3, <2>4
  <1>3. CASE PatchRequest
    <2> DEFINE new == [vol EXCEPT !.snap = IF request.seen = request.snap THEN @
                                            ELSE request.snap,
                                  !.id = request.id]
    <2>1. /\ request.pc = "patch" /\ Write(new) /\ request' = NoRequest
          /\ UNCHANGED <<cachedVol, claim, cachedClaim, snapshots, appVars, nextId, job,
                         queued, faults, budget>>
      BY <1>3 DEF PatchRequest
    <2>2. /\ request.snap \in Snapshots /\ request.id < nextId
          /\ vol.id < request.id /\ cachedVol.id < request.id
          /\ job.vol.id < request.id /\ claim.id < request.id
      BY <2>1 DEF IdsGiven
    <2>3. new \in Volume /\ new.id = request.id
      BY <2>2, Copies DEF Volume
    <2> HIDE DEF new
    <2>4. vol' \in Volume /\ vol'.id = request.id
      BY <2>1, <2>3, WriteStores, Copies
    <2>5. TypeOK'
      BY <2>1, <2>4 DEF TypeOK, appVars, NoRequest, Request
    <2>6. IdsInOrder' /\ IdsGiven'
      BY <2>1, <2>2, <2>4, Copies DEF IdsInOrder, IdsGiven, Live, NoRequest
    <2>7. IdsMeanOneSnapshot' /\ CacheOfClaim'
      BY <2>1, <2>2, <2>4, Copies
      DEF IdsMeanOneSnapshot, SameRequest, ClaimOf, Live, CacheOfClaim
    <2> QED BY <2>5, <2>6, <2>7
  <1> QED BY <1>1, <1>2, <1>3 DEF Api

LEMMA ClusterInv == RestoreInv /\ Cluster => RestoreInv'
  <1> SUFFICES ASSUME RestoreInv, Cluster PROVE RestoreInv'
    OBVIOUS
  <1> USE DEF RestoreInv
  <1>1. CASE SyncVolume
    <2>1. /\ cachedVol' = vol /\ queued' = TRUE
          /\ UNCHANGED <<vol, claim, cachedClaim, snapshots, appVars, apiVars, job, faults, budget>>
      BY <1>1 DEF SyncVolume
    <2>2. TypeOK'
      BY <2>1 DEF TypeOK, appVars, apiVars
    <2>3. IdsInOrder' /\ IdsGiven'
      BY <2>1, Copies DEF IdsInOrder, IdsGiven, Live, apiVars
    <2>4. IdsMeanOneSnapshot' /\ CacheOfClaim'
      BY <2>1 DEF IdsMeanOneSnapshot, SameRequest, ClaimOf, Live, CacheOfClaim
    <2> QED BY <2>2, <2>3, <2>4
  <1>2. CASE SyncClaim
    <2>1. /\ cachedClaim' = claim /\ queued' = TRUE
          /\ UNCHANGED <<vol, cachedVol, claim, snapshots, appVars, apiVars, job, faults, budget>>
      BY <1>2 DEF SyncClaim
    <2>2. TypeOK'
      BY <2>1 DEF TypeOK, appVars, apiVars
    <2>3. CacheOfClaim'
      BY <2>1 DEF CacheOfClaim
    <2> QED BY <2>1, <2>2, <2>3, IdsAside DEF apiVars
  <1>3. CASE ClaimGoes
    <2>1. /\ claim' = NoClaim
          /\ UNCHANGED <<vol, cachedVol, cachedClaim, snapshots, appVars, apiVars, job, queued,
                         faults, budget>>
      BY <1>3 DEF ClaimGoes
    <2>2. TypeOK'
      BY <2>1, ClaimShapes DEF TypeOK, appVars, apiVars
    <2>3. CacheOfClaim'
      BY <2>1 DEF CacheOfClaim
    <2>4. IdsInOrder' /\ IdsGiven'
      BY <2>1, ClaimShapes, Copies DEF IdsInOrder, IdsGiven, Live, apiVars
    <2>5. IdsMeanOneSnapshot'
      BY <2>1, ClaimShapes DEF IdsMeanOneSnapshot, SameRequest, ClaimOf, Live, IdsGiven
    <2> QED BY <2>2, <2>3, <2>4, <2>5
  <1>4. CASE ClaimBinds
    <2>1. /\ claim' = [claim EXCEPT !.bound = TRUE] /\ claim # NoClaim
          /\ UNCHANGED <<vol, cachedVol, cachedClaim, snapshots, appVars, apiVars, job, queued,
                         faults, budget>>
      BY <1>4 DEF ClaimBinds
    <2>2. claim' \in Claim /\ claim'.id = claim.id /\ claim'.from = claim.from
      BY <2>1 DEF TypeOK, Claim
    <2>3. TypeOK'
      BY <2>1, <2>2 DEF TypeOK, appVars, apiVars
    <2>4. CacheOfClaim'
      BY <2>1, <2>2 DEF CacheOfClaim
    <2> QED BY <2>1, <2>2, <2>3, <2>4, IdsAside DEF apiVars
  <1>5. ASSUME \/ SyncPod \/ PodCreated \/ PodStarts \/ PodStops
               \/ \E s \in Snapshots : SnapshotReady(s)
        PROVE  RestoreInv'
    <2>1. UNCHANGED <<vol, cachedVol, claim, cachedClaim, replicas, appWants, apiVars, job,
                      queued, faults, budget>>
      BY <1>5 DEF SyncPod, PodCreated, PodStarts, PodStops, SnapshotReady, volumeVars, appVars
    <2>2. /\ snapshots' \in [Snapshots -> {"absent", "taking", "ready"}]
          /\ pod' \in {"none", "pending", "running"} /\ cachedPod' \in BOOLEAN
      BY <1>5 DEF SyncPod, PodCreated, PodStarts, PodStops, SnapshotReady, volumeVars, appVars,
                  TypeOK
    <2>3. TypeOK'
      BY <2>1, <2>2 DEF TypeOK, apiVars
    <2>4. CacheOfClaim'
      BY <2>1 DEF CacheOfClaim
    <2> QED BY <2>1, <2>3, <2>4, IdsAside DEF apiVars
  <1> QED BY <1>1, <1>2, <1>3, <1>4, <1>5 DEF Cluster

LEMMA AppControllerInv == RestoreInv /\ AppController => RestoreInv'
  <1> SUFFICES ASSUME RestoreInv, AppController PROVE RestoreInv'
    OBVIOUS
  <1>1. UNCHANGED <<volumeVars, apiVars, job, queued, faults, budget, pod, cachedPod>>
    BY DEF AppController, AppReads, AppWrites
  <1>2. replicas' \in {0, 1} /\ appWants' \in {0, 1, Nothing}
    BY DEF AppController, AppReads, AppWrites, RestoreInv, TypeOK, Wanted, Nothing
  <1>3. TypeOK'
    BY <1>1, <1>2 DEF RestoreInv, TypeOK, volumeVars, apiVars
  <1>4. CacheOfClaim'
    BY <1>1 DEF RestoreInv, CacheOfClaim, volumeVars
  <1> QED BY <1>1, <1>3, <1>4, IdsAside DEF volumeVars, apiVars

\* What a reconcile can do to claim and copies, action by action.
LEMMA ReconcileInv == RestoreInv /\ Reconcile => RestoreInv'
  <1> SUFFICES ASSUME RestoreInv, Reconcile PROVE RestoreInv'
    OBVIOUS
  <1>0. TypeOK /\ CacheOfClaim /\ IdsInOrder /\ IdsGiven /\ IdsMeanOneSnapshot
    BY DEF RestoreInv
  <1>1. CASE Begin
    <2>1. /\ job' = [pc |-> IF cachedVol.snap = NoSnap THEN "claim" ELSE "snapshot",
                     vol |-> cachedVol]
          /\ queued' = FALSE
          /\ UNCHANGED <<volumeVars, appVars, apiVars, faults, budget>>
      BY <1>1 DEF Begin
    <2>2. /\ job' \in Job /\ job'.vol = cachedVol
          /\ job'.pc \in {"claim", "snapshot"} /\ (job'.pc = "snapshot" => Live(cachedVol))
      BY <2>1, <1>0, Copies DEF Job, Live
    <2>3. TypeOK'
      BY <1>0, <2>1, <2>2 DEF TypeOK, volumeVars, appVars, apiVars
    <2>4. CacheOfClaim' /\ IdsMeanOneSnapshot'
      BY <1>0, <2>1, <2>2 DEF CacheOfClaim, IdsMeanOneSnapshot, SameRequest, ClaimOf, Live,
                              volumeVars
    <2>5. IdsInOrder' /\ IdsGiven'
      BY <1>0, <2>1, <2>2, Copies DEF IdsInOrder, IdsGiven, Live, volumeVars, apiVars
    <2> QED BY <2>3, <2>4, <2>5 DEF RestoreInv
  <1>2. CASE ReadSnapshot
    <2>1. UNCHANGED <<volumeVars, appVars, apiVars, queued, faults, budget>>
      BY <1>2 DEF ReadSnapshot
    <2>2. /\ job' \in Job /\ job'.vol.snap = job.vol.snap /\ job'.vol.id = job.vol.id
          /\ job.pc = "snapshot" /\ job'.pc \in {"restore", "patch"}
      <3>1. CASE job' = [job EXCEPT !.pc = "restore"]
        BY <1>2, <3>1, <1>0, Copies DEF ReadSnapshot, At, Job
      <3>2. CASE Waits
        BY <1>2, <3>2, <1>0, Copies, WaitsKeeps DEF ReadSnapshot, At
      <3> QED BY <1>2, <3>1, <3>2 DEF ReadSnapshot
    <2>3. TypeOK' /\ CacheOfClaim'
      BY <1>0, <2>1, <2>2 DEF TypeOK, CacheOfClaim, volumeVars, appVars, apiVars
    <2> QED BY <2>1, <2>2, <2>3, IdsAside DEF volumeVars, apiVars
  <1>3. CASE CancelRestore
    <2>1. /\ Write([vol EXCEPT !.snap = NoSnap, !.id = 0])
          /\ ToPatch([job.vol EXCEPT !.phase = "Failed", !.snap = NoSnap, !.id = 0])
          /\ UNCHANGED <<cachedVol, claim, cachedClaim, snapshots, appVars, apiVars, queued,
                         faults, budget>>
      BY <1>3 DEF CancelRestore
    <2>2. vol' \in Volume /\ vol'.snap = NoSnap /\ vol'.id = 0
      BY <1>0, <2>1, Copies, ClearStores
    <2>3. /\ job' \in Job /\ job'.pc = "patch"
          /\ job'.vol.snap = NoSnap /\ job'.vol.id = 0
      BY <1>0, <2>1, Copies, ForgetsKeeps
    <2>4. TypeOK'
      BY <1>0, <2>1, <2>2, <2>3 DEF TypeOK, appVars, apiVars
    <2> QED BY <2>1, <2>2, <2>3, <2>4, IdsJobForgets DEF apiVars, Live
  <1>4. CASE RecreateClaim
    <2>1. /\ job.pc = "restore" /\ cachedClaim = NoClaim
          /\ UNCHANGED <<vol, cachedVol, cachedClaim, snapshots, appVars, apiVars, queued,
                         faults, budget>>
      BY <1>4 DEF RecreateClaim, At
    <2>2. CacheOfClaim'
      BY <2>1 DEF CacheOfClaim
    <2>3. CASE claim = NoClaim
      <3>1. claim' = NewClaim(job.vol.snap, job.vol.id) /\ Waits
        BY <1>4, <2>3 DEF RecreateClaim
      <3>2. Live(job.vol) /\ job.vol.snap \in Contents
        BY <1>0, <2>1, Copies DEF IdsInOrder, Live, Volume, Contents
      <3>3. claim' \in Claim /\ claim'.id = job.vol.id /\ claim'.from = job.vol.snap
        BY <1>0, <3>1, <3>2, ClaimShapes, Copies
      <3>4. /\ job' \in Job /\ job'.pc = "patch"
            /\ job'.vol.snap = job.vol.snap /\ job'.vol.id = job.vol.id
        BY <1>0, <3>1, Copies, WaitsKeeps
      <3>5. TypeOK'
        BY <1>0, <2>1, <3>3, <3>4 DEF TypeOK, appVars, apiVars
      <3>6. IdsInOrder' /\ IdsGiven'
        BY <1>0, <2>1, <3>3, <3>4, Copies DEF IdsInOrder, IdsGiven, Live, apiVars
      <3>7. IdsMeanOneSnapshot'
        BY <1>0, <2>1, <3>2, <3>3, <3>4 DEF IdsMeanOneSnapshot, SameRequest, ClaimOf, Live
      <3> QED BY <2>2, <3>5, <3>6, <3>7 DEF RestoreInv
    <2>4. CASE claim # NoClaim
      <3>1. claim' = claim /\ Fails
        BY <1>4, <2>4 DEF RecreateClaim
      <3>2. /\ job' \in Job /\ job'.pc = "patch"
            /\ job'.vol.snap = job.vol.snap /\ job'.vol.id = job.vol.id
        BY <1>0, <3>1, Copies, FailsKeeps
      <3>3. TypeOK'
        BY <1>0, <2>1, <3>1, <3>2 DEF TypeOK, appVars, apiVars
      <3> QED BY <2>1, <2>2, <3>1, <3>2, <3>3, IdsAside DEF apiVars
    <2> QED BY <2>3, <2>4
  <1>5. CASE RestoreDone
    <2>1. UNCHANGED <<volumeVars, appVars, apiVars, queued, faults, budget>>
      BY <1>5 DEF RestoreDone
    <2>2. /\ job' \in Job /\ job'.pc = "patch"
          /\ job'.vol.snap = job.vol.snap /\ job'.vol.id = job.vol.id
      BY <1>5, <1>0, Copies DEF RestoreDone, ToPatch, Job, Volume, VolumePhases
    <2>3. TypeOK' /\ CacheOfClaim'
      BY <1>0, <2>1, <2>2 DEF TypeOK, CacheOfClaim, volumeVars, appVars, apiVars
    <2> QED BY <2>1, <2>2, <2>3, IdsAside DEF volumeVars, apiVars
  <1>6. CASE ReplaceClaim
    <2>1. /\ Waits
          /\ \/ claim' = claim
             \/ claim # NoClaim /\ claim' = [claim EXCEPT !.deleting = TRUE]
          /\ UNCHANGED <<vol, cachedVol, cachedClaim, snapshots, appVars, apiVars, queued,
                         faults, budget>>
      BY <1>6 DEF ReplaceClaim
    <2>2. claim' \in Claim /\ claim'.id = claim.id /\ claim'.from = claim.from
      BY <1>0, <2>1 DEF TypeOK, Claim
    <2>3. /\ job' \in Job /\ job'.pc = "patch"
          /\ job'.vol.snap = job.vol.snap /\ job'.vol.id = job.vol.id
      BY <1>0, <2>1, Copies, WaitsKeeps
    <2>4. TypeOK'
      BY <1>0, <2>1, <2>2, <2>3 DEF TypeOK, appVars, apiVars
    <2>5. CacheOfClaim'
      BY <1>0, <2>1, <2>2 DEF CacheOfClaim
    <2> QED BY <2>1, <2>2, <2>3, <2>4, <2>5, IdsAside DEF apiVars
  <1>7. CASE EnsureClaim
    <2>1. /\ job.pc = "claim"
          /\ UNCHANGED <<vol, cachedVol, cachedClaim, snapshots, appVars, apiVars, queued,
                         faults, budget>>
      BY <1>7 DEF EnsureClaim, At
    <2>2. /\ job' \in Job /\ job'.pc = "patch"
          /\ job'.vol.snap = job.vol.snap /\ job'.vol.id = job.vol.id
      <3>1. CASE Fails
        BY <1>0, <3>1, Copies, FailsKeeps
      <3>2. CASE ToPatch([job.vol EXCEPT !.phase = "Pending"])
        BY <1>0, <3>2, Copies DEF ToPatch, Job, Volume, VolumePhases
      <3>3. CASE ToPatch([job.vol EXCEPT
                   !.phase = IF cachedClaim.bound THEN "Bound" ELSE "Pending",
                   !.from = IF cachedClaim.from \in Snapshots THEN cachedClaim.from ELSE @])
        BY <1>0, <3>3, Copies DEF ToPatch, Job, Volume, VolumePhases
      <3> QED BY <1>7, <3>1, <3>2, <3>3 DEF EnsureClaim
    <2>3. CASE claim' = claim
      <3>1. TypeOK' /\ CacheOfClaim'
        BY <1>0, <2>1, <2>2, <2>3 DEF TypeOK, CacheOfClaim, appVars, apiVars
      <3> QED BY <2>1, <2>2, <2>3, <3>1, IdsAside DEF apiVars
    <2>4. CASE cachedClaim = NoClaim /\ claim' = NewClaim(Blank, 0)
      <3>1. claim' \in Claim /\ claim'.id = 0
        BY <2>4, ClaimShapes DEF Contents
      <3>2. TypeOK' /\ CacheOfClaim'
        BY <1>0, <2>1, <2>2, <2>4, <3>1 DEF TypeOK, CacheOfClaim, appVars, apiVars
      <3>3. IdsInOrder' /\ IdsGiven'
        BY <1>0, <2>1, <2>2, <3>1, Copies DEF IdsInOrder, IdsGiven, Live, apiVars
      <3>4. IdsMeanOneSnapshot'
        BY <1>0, <2>1, <2>2, <3>1
        DEF IdsMeanOneSnapshot, SameRequest, ClaimOf, Live, IdsGiven
      <3> QED BY <3>2, <3>3, <3>4 DEF RestoreInv
    <2> QED BY <1>7, <2>3, <2>4 DEF EnsureClaim
  <1>8. CASE PatchStatus
    <2>1. UNCHANGED <<cachedVol, claim, cachedClaim, snapshots, appVars, apiVars, faults, budget>>
      BY <1>8 DEF PatchStatus
    <2>2. /\ vol' \in Volume /\ vol'.snap = vol.snap /\ vol'.id = vol.id
          /\ queued' \in BOOLEAN
      BY <1>0, <1>8, StatusStores, Copies DEF PatchStatus, TypeOK
    <2>3. \/ job' = NoJob
          \/ job' = [job EXCEPT !.pc = "clear"]
      BY <1>8 DEF PatchStatus
    <2>4. job' \in Job
      BY <1>0, <2>3, Copies, NoJobAsksNothing DEF Job
    <2>5. TypeOK' /\ CacheOfClaim'
      BY <1>0, <2>1, <2>2, <2>4 DEF TypeOK, CacheOfClaim, appVars, apiVars
    <2>6. CASE job' = NoJob
      BY <2>1, <2>2, <2>5, <2>6, IdsJobForgets, NoJobAsksNothing DEF apiVars, Live
    <2>7. CASE job' = [job EXCEPT !.pc = "clear"]
      <3>1. job'.pc = "clear" /\ job'.vol = job.vol
        BY <1>0, <2>7, Copies DEF Job
      <3> QED BY <2>1, <2>2, <2>5, <3>1, IdsAside DEF apiVars
    <2> QED BY <2>3, <2>6, <2>7
  <1>9. CASE ClearRestore
    <2>1. /\ Write([vol EXCEPT !.snap = NoSnap, !.id = 0]) /\ job' = NoJob
          /\ UNCHANGED <<cachedVol, claim, cachedClaim, snapshots, appVars, apiVars, queued,
                         faults, budget>>
      BY <1>9 DEF ClearRestore
    <2>2. vol' \in Volume /\ vol'.snap = NoSnap /\ vol'.id = 0
      BY <1>0, <2>1, Copies, ClearStores
    <2>3. TypeOK'
      BY <1>0, <2>1, <2>2, NoJobAsksNothing DEF TypeOK, appVars, apiVars
    <2> QED BY <2>1, <2>2, <2>3, IdsJobForgets, NoJobAsksNothing DEF apiVars, Live
  <1> QED BY <1>1, <1>2, <1>3, <1>4, <1>5, <1>6, <1>7, <1>8, <1>9 DEF Reconcile

LEMMA FailureInv == RestoreInv /\ Failure => RestoreInv'
  <1> SUFFICES ASSUME RestoreInv, Failure PROVE RestoreInv'
    OBVIOUS
  <1>0. TypeOK /\ CacheOfClaim /\ IdsInOrder /\ IdsGiven /\ IdsMeanOneSnapshot
    BY DEF RestoreInv
  <1>a. budget' \in 0..Budget
    BY <1>0, ConstantsAssumption
    DEF Failure, ReconcileFails, CancelFails, PatchFails, Crash, Fault, Spend, TypeOK
  <1>1. CASE ReconcileFails
    <2>1. Fails /\ UNCHANGED <<volumeVars, appVars, apiVars, queued, faults>>
      BY <1>1 DEF ReconcileFails
    <2>2. /\ job' \in Job /\ job'.pc = "patch"
          /\ job'.vol.snap = job.vol.snap /\ job'.vol.id = job.vol.id
      BY <1>0, <2>1, Copies, FailsKeeps
    <2>3. TypeOK' /\ CacheOfClaim'
      BY <1>0, <1>a, <2>1, <2>2 DEF TypeOK, CacheOfClaim, volumeVars, appVars, apiVars
    <2> QED BY <2>1, <2>2, <2>3, IdsAside DEF volumeVars, apiVars
  <1>2. CASE CancelFails
    <2>1. /\ ToPatch([job.vol EXCEPT !.phase = "Failed", !.snap = NoSnap, !.id = 0])
          /\ UNCHANGED <<volumeVars, appVars, apiVars, queued, faults>>
      BY <1>2 DEF CancelFails
    <2>2. /\ job' \in Job /\ job'.pc = "patch"
          /\ job'.vol.snap = NoSnap /\ job'.vol.id = 0
      BY <1>0, <2>1, Copies, ForgetsKeeps
    <2>3. TypeOK'
      BY <1>0, <1>a, <2>1, <2>2 DEF TypeOK, volumeVars, appVars, apiVars
    <2> QED BY <2>1, <2>2, <2>3, IdsJobForgets DEF volumeVars, apiVars, Live
  <1>3. CASE PatchFails
    <2>1. /\ job' = NoJob /\ UNCHANGED <<volumeVars, appVars, apiVars, faults>>
          /\ queued' = (queued \/ At("patch"))
      BY <1>3 DEF PatchFails
    <2>2. queued' \in BOOLEAN
      BY <1>0, <2>1 DEF TypeOK, At
    <2>3. TypeOK'
      BY <1>0, <1>a, <2>1, <2>2, NoJobAsksNothing DEF TypeOK, volumeVars, appVars, apiVars
    <2> QED BY <2>1, <2>3, IdsJobForgets, NoJobAsksNothing DEF volumeVars, apiVars, Live
  <1>4. CASE Crash
    <2>1. /\ cachedVol' = vol /\ cachedClaim' = claim /\ cachedPod' = (pod # "none")
          /\ queued' = TRUE /\ job' = NoJob /\ request' = NoRequest /\ appWants' = Nothing
          /\ UNCHANGED <<vol, claim, snapshots, replicas, pod, nextId, faults>>
      BY <1>4 DEF Crash
    <2>2. TypeOK'
      BY <1>0, <1>a, <2>1, NoJobAsksNothing DEF TypeOK, NoRequest, Request, Nothing
    <2>3. CacheOfClaim'
      BY <2>1 DEF CacheOfClaim
    <2>4. IdsInOrder' /\ IdsGiven'
      BY <1>0, <2>1, NoJobAsksNothing, Copies
      DEF IdsInOrder, IdsGiven, Live, NoRequest
    <2>5. IdsMeanOneSnapshot'
      BY <1>0, <2>1, NoJobAsksNothing DEF IdsMeanOneSnapshot, SameRequest, ClaimOf, Live
    <2> QED BY <2>2, <2>3, <2>4, <2>5 DEF RestoreInv
  <1> QED BY <1>1, <1>2, <1>3, <1>4 DEF Failure

LEMMA StepRestoreInv == RestoreInv /\ [Next]_vars => RestoreInv'
  <1> SUFFICES ASSUME RestoreInv, [Next]_vars PROVE RestoreInv'
    OBVIOUS
  <1>1. CASE UNCHANGED vars
    <2>1. TypeOK'
      BY <1>1 DEF vars, volumeVars, appVars, apiVars, RestoreInv, TypeOK
    <2>2. CacheOfClaim'
      BY <1>1 DEF vars, volumeVars, RestoreInv, CacheOfClaim
    <2> QED BY <1>1, <2>1, <2>2, IdsAside DEF vars, volumeVars, appVars, apiVars
  <1> QED BY <1>1, ApiInv, ClusterInv, AppControllerInv, ReconcileInv, FailureInv DEF Next

THEOREM RestoreInvHolds == Spec => []RestoreInv
  BY InitRestoreInv, StepRestoreInv, PTL DEF Spec

---------------------------------------------------------------------------
(* Deletions.                                                               *)

\* Only ReplaceClaim deletes, and it deletes what an earlier request, or none,
\* left.
LEMMA NoLateDelete ==
    RestoreInv /\ [Next]_vars => (claim'.deleting /\ ~claim.deleting => job.vol.id > claim.id)
  <1> SUFFICES ASSUME RestoreInv, [Next]_vars, claim'.deleting, ~claim.deleting
               PROVE  job.vol.id > claim.id
    OBVIOUS
  <1>0. /\ TypeOK /\ CacheOfClaim /\ IdsInOrder /\ IdsMeanOneSnapshot
        /\ claim \in Claim /\ claim' # claim
    BY DEF RestoreInv, TypeOK
  <1>1. CASE ReplaceClaim
    <2>1. /\ job.pc = "restore" /\ cachedClaim # NoClaim
          /\ ~RestoredFromThis(cachedClaim, job.vol)
          /\ claim # NoClaim
      BY <1>0, <1>1 DEF ReplaceClaim, At
    <2>2. cachedClaim.from = claim.from /\ cachedClaim.id = claim.id
      BY <1>0, <2>1 DEF CacheOfClaim
    <2>3. Live(job.vol) /\ claim.id <= job.vol.id
      BY <1>0, <2>1 DEF IdsInOrder
    <2>4. claim.id # job.vol.id
      BY <1>0, <2>1, <2>2, <2>3 DEF RestoredFromThis, IdsMeanOneSnapshot, ClaimOf
    <2> QED BY <1>0, <2>3, <2>4, Copies
  <1>2. CASE Api \/ AppController \/ Failure \/ UNCHANGED vars
    BY <1>0, <1>2
    DEF Api, TakeSnapshot, DeleteSnapshot, AcceptRestore, PatchRequest, AppController, AppReads,
        AppWrites, Failure, ReconcileFails, CancelFails, PatchFails, Crash, volumeVars, vars
  <1>3. CASE Cluster
    <2>1. \/ claim' = claim \/ claim' = NoClaim \/ claim' = [claim EXCEPT !.bound = TRUE]
      BY <1>3 DEF Cluster, SyncVolume, SyncClaim, SyncPod, SnapshotReady, ClaimBinds, ClaimGoes,
                  PodCreated, PodStarts, PodStops, volumeVars
    <2>2. CASE claim' = [claim EXCEPT !.bound = TRUE]
      <3>1. claim'.deleting = claim.deleting
        BY <1>0, <2>2 DEF Claim
      <3> QED BY <3>1, Zenon
    <2>3. CASE claim' = NoClaim
      BY <2>3, Zenon DEF NoClaim
    <2> QED BY <1>0, <2>1, <2>2, <2>3
  <1>4. CASE Reconcile /\ ~ReplaceClaim
    <2>1. \/ claim' = NewClaim(job.vol.snap, job.vol.id) \/ claim' = NewClaim(Blank, 0)
      BY <1>0, <1>4 DEF Reconcile, Begin, ReadSnapshot, CancelRestore, RecreateClaim,
                        RestoreDone, EnsureClaim, PatchStatus, ClearRestore, volumeVars
    <2>2. claim'.deleting = FALSE
      BY <2>1 DEF NewClaim
    <2> QED BY <2>2, Zenon
  <1> QED BY <1>1, <1>2, <1>3, <1>4 DEF Next

\* A disk restored for a request is never deleted for that request again, nor
\* for an earlier one, however stale the caches.
THEOREM DiskKept == Spec => RestoredDiskKept
  <1>1. RestoreInv /\ [Next]_vars
        => [claim'.deleting /\ ~claim.deleting => job.vol.id > claim.id]_vars
    BY NoLateDelete
  <1> QED BY <1>1, RestoreInvHolds, PTL DEF Spec, RestoredDiskKept

---------------------------------------------------------------------------
(* The undisturbed restore.                                                 *)

LEMMA InitBlankInv == Init => BlankInv
  <1> SUFFICES ASSUME Init PROVE NeverBlank
    BY DEF BlankInv
  <1>1. /\ claim.id = 0 /\ claim.from = Original /\ claim.deleting = FALSE
        /\ cachedClaim.id = 0 /\ cachedClaim.from = Original /\ claim # NoClaim
    BY ConstantsAssumption DEF Init, NewClaim, NoClaim
  <1>2. /\ vol.snap = NoSnap /\ cachedVol.snap = NoSnap /\ job.vol.snap = NoSnap
        /\ vol.from = NoSnap /\ cachedVol.from = NoSnap /\ job.vol.from = NoSnap
        /\ job.pc = "idle" /\ request.pc = "idle"
    BY NoJobAsksNothing DEF Init, NoRequest
  <1>3. ~claim.deleting
    BY <1>1, Zenon
  <1> QED BY <1>1, <1>2, <1>3, ConstantsAssumption
          DEF NeverBlank, SnapshotsStay, NotYetRestored, Live

\* A step that leaves the Volume and the claim alone, and after which the
\* reconcile asks for nothing new and is not about to clear or create.
LEMMA BlankAside ==
    ASSUME NeverBlank, cachedVol' = cachedVol, request' = request,
           cachedClaim' = cachedClaim,
           vol'.snap = vol.snap, vol'.from = vol.from,
           claim'.from = claim.from, claim'.id = claim.id, claim'.deleting <=> claim.deleting,
           claim' = NoClaim => claim = NoClaim,
           job'.vol.snap \in {job.vol.snap, NoSnap},
           job'.vol.from = job.vol.from \/ claim.id # 0,
           job'.pc = job.pc \/ job'.pc \notin {"claim", "clear"},
           \A s \in Snapshots : snapshots'[s] = snapshots[s] \/ snapshots'[s] # "absent",
           Live(vol) => vol.snap \in Snapshots,
           Live(cachedVol) => cachedVol.snap \in Snapshots,
           Live(job.vol) => job.vol.snap \in Snapshots,
           request.pc = "patch" => request.snap \in Snapshots
    PROVE  NeverBlank'
  <1>1. SnapshotsStay'
    BY DEF NeverBlank, SnapshotsStay, Live
  <1>2. claim.id = 0 => NotYetRestored'
    BY DEF NeverBlank, NotYetRestored, Live
  <1> QED BY <1>1, <1>2 DEF NeverBlank

LEMMA LiveAsks ==
    ASSUME RestoreInv
    PROVE  /\ Live(vol) => vol.snap \in Snapshots
           /\ Live(cachedVol) => cachedVol.snap \in Snapshots
           /\ Live(job.vol) => job.vol.snap \in Snapshots
           /\ request.pc = "patch" => request.snap \in Snapshots
  <1>1. /\ vol \in Volume /\ cachedVol \in Volume /\ job.vol \in Volume /\ IdsGiven
    BY Copies DEF RestoreInv
  <1> QED BY <1>1 DEF Volume, Live, IdsGiven


\* A step of a system in which nothing is disturbed, before and after it.
LEMMA StepNeverBlank ==
    ASSUME RestoreInv, RestoreInv', NeverBlank, Undisturbed, Undisturbed', Next
    PROVE  NeverBlank'
  <1>0. /\ TypeOK /\ CacheOfClaim /\ IdsInOrder /\ IdsGiven /\ IdsMeanOneSnapshot
        /\ SnapshotsStay /\ claim.from # Blank /\ claim \in Claim
        /\ claim.id > 0 => claim.from \in Snapshots /\ ~claim.deleting
        /\ claim.id = 0 => NotYetRestored
        /\ claim.id \in Nat
    BY Copies DEF RestoreInv, NeverBlank, TypeOK
  <1>a. /\ "call" \notin faults /\ "delete" \notin faults
        /\ nextId <= 2 /\ nextId' <= 2
    BY DEF Undisturbed
  <1>b. NoSnap \notin Snapshots /\ Blank \notin Snapshots /\ Blank # NoSnap
    BY ConstantsAssumption
  <1>1. ASSUME NEW s \in Snapshots, TakeSnapshot(s) \/ AcceptRestore(s) PROVE NeverBlank'
    <2>1. /\ UNCHANGED <<vol, cachedVol, claim, cachedClaim, job>>
          /\ \A t \in Snapshots : snapshots'[t] = snapshots[t] \/ snapshots'[t] # "absent"
          /\ request' = request \/ (request'.snap = s /\ snapshots'[s] # "absent")
      <3>1. CASE TakeSnapshot(s)
        BY <1>0, <3>1 DEF TakeSnapshot, apiVars, TypeOK
      <3>2. CASE AcceptRestore(s)
        BY <3>2 DEF AcceptRestore, volumeVars
      <3> QED BY <1>1, <3>1, <3>2
    <2>2. SnapshotsStay'
      BY <1>0, <2>1, LiveAsks DEF SnapshotsStay, Live
    <2>3. claim.id = 0 => NotYetRestored'
      BY <1>0, <2>1 DEF NotYetRestored, Live
    <2> QED BY <1>0, <2>1, <2>2, <2>3 DEF NeverBlank
  <1>2. CASE PatchRequest
    <2>1. /\ request.pc = "patch" /\ request.snap \in Snapshots /\ request'.pc = "idle"
          /\ UNCHANGED <<cachedVol, claim, cachedClaim, snapshots, job>>
      BY <1>0, <1>2 DEF PatchRequest, IdsGiven, NoRequest
    <2>2. vol'.snap \in {vol.snap, request.snap} /\ vol'.from = vol.from
      <3> DEFINE new == [vol EXCEPT !.snap = IF request.seen = request.snap THEN @
                                              ELSE request.snap,
                                    !.id = request.id]
      <3>1. Write(new)
        BY <1>2 DEF PatchRequest
      <3>2. new \in Volume /\ new.snap \in {vol.snap, request.snap} /\ new.from = vol.from
        BY <1>0, <2>1, Copies DEF Volume
      <3> HIDE DEF new
      <3> QED BY <1>0, <3>1, <3>2, WriteStores, Copies
    <2>3. SnapshotsStay'
      BY <1>0, <2>1, <2>2, <1>b DEF SnapshotsStay, Live
    <2>4. claim.id = 0 => NotYetRestored'
      BY <1>0, <2>1, <2>2, <1>b DEF NotYetRestored, Live
    <2> QED BY <1>0, <2>1, <2>3, <2>4 DEF NeverBlank
  <1>3. CASE SyncVolume
    <2>1. /\ cachedVol' = vol /\ UNCHANGED <<vol, claim, cachedClaim, snapshots, request, job>>
      BY <1>3 DEF SyncVolume, apiVars
    <2>2. SnapshotsStay'
      BY <1>0, <2>1 DEF SnapshotsStay, Live
    <2>3. claim.id = 0 => NotYetRestored'
      BY <1>0, <2>1 DEF NotYetRestored, Live
    <2> QED BY <1>0, <2>1, <2>2, <2>3 DEF NeverBlank
  <1>4. CASE SyncClaim
    <2>1. /\ cachedClaim' = claim
          /\ UNCHANGED <<vol, cachedVol, claim, snapshots, request, job>>
      BY <1>4 DEF SyncClaim, apiVars
    <2>2. SnapshotsStay'
      BY <1>0, <2>1 DEF SnapshotsStay, Live
    <2>3. claim.id = 0 => NotYetRestored'
      BY <1>0, <2>1 DEF NotYetRestored, Live
    <2> QED BY <1>0, <2>1, <2>2, <2>3 DEF NeverBlank
  <1>5. CASE ClaimGoes
    <2>1. /\ claim' = NoClaim /\ claim.deleting
          /\ UNCHANGED <<vol, cachedVol, cachedClaim, snapshots, request, job>>
      BY <1>5 DEF ClaimGoes, apiVars
    <2>2. SnapshotsStay'
      BY <1>0, <2>1 DEF SnapshotsStay, Live
    <2>3. claim.id = 0
      BY <1>0, <2>1
    <2>4. NotYetRestored'
      BY <1>0, <1>b, <2>1, <2>3, ClaimShapes DEF NotYetRestored, Live
    <2> QED BY <1>b, <2>1, <2>2, <2>4, ClaimShapes DEF NeverBlank
  <1>6. CASE ClaimBinds
    <2>1. /\ claim' = [claim EXCEPT !.bound = TRUE] /\ claim # NoClaim
          /\ UNCHANGED <<vol, cachedVol, cachedClaim, snapshots, request, job>>
      BY <1>6 DEF ClaimBinds, apiVars
    <2>2. /\ claim'.from = claim.from /\ claim'.id = claim.id
          /\ claim'.deleting <=> claim.deleting
      BY <1>0, <2>1 DEF Claim
    <2>3. claim' = NoClaim => claim = NoClaim
      BY <1>0, <2>1 DEF Claim, NoClaim
    <2> QED BY <2>1, <2>2, <2>3, BlankAside, LiveAsks
  <1>7. CASE \/ SyncPod \/ PodCreated \/ PodStarts \/ PodStops \/ AppController
             \/ \E s \in Snapshots : SnapshotReady(s)
    <2>1. /\ UNCHANGED <<vol, cachedVol, claim, cachedClaim, request, job>>
          /\ \A s \in Snapshots : snapshots'[s] = snapshots[s] \/ snapshots'[s] # "absent"
      BY <1>0, <1>7 DEF SyncPod, PodCreated, PodStarts, PodStops, AppController, AppReads,
                        AppWrites, SnapshotReady, volumeVars, apiVars, TypeOK
    <2> QED BY <2>1, BlankAside, LiveAsks
  <1>8. CASE Begin
    <2>1. /\ UNCHANGED <<vol, cachedVol, claim, cachedClaim, snapshots, request>>
          /\ job'.vol = cachedVol /\ job'.pc \in {"claim", "snapshot"}
          /\ job'.pc = "claim" => ~Live(cachedVol)
      BY <1>8 DEF Begin, volumeVars, apiVars, Live
    <2>2. SnapshotsStay'
      BY <1>0, <2>1 DEF SnapshotsStay, Live
    <2>3. claim.id = 0 => NotYetRestored'
      BY <1>0, <2>1 DEF NotYetRestored, Live
    <2> QED BY <1>0, <2>1, <2>2, <2>3 DEF NeverBlank
  <1>9. CASE ReadSnapshot
    <2>1. /\ UNCHANGED <<vol, cachedVol, claim, cachedClaim, snapshots, request>>
          /\ job'.pc \in {"restore", "patch"}
          /\ job'.vol.snap = job.vol.snap /\ job'.vol.from = job.vol.from
      <3>1. CASE job' = [job EXCEPT !.pc = "restore"]
        BY <1>9, <3>1, <1>0, Copies DEF ReadSnapshot, Job, volumeVars, apiVars
      <3>2. CASE Waits
        BY <1>9, <3>2, <1>0, Copies, WaitsKeeps DEF ReadSnapshot, volumeVars, apiVars
      <3> QED BY <1>9, <3>1, <3>2 DEF ReadSnapshot
    <2> QED BY <2>1, BlankAside, LiveAsks
  <1>10. ASSUME CancelRestore \/ CancelFails PROVE FALSE
    <2>1. job.pc = "snapshot" /\ snapshots[job.vol.snap] = "absent"
      BY <1>10 DEF CancelRestore, CancelFails, At
    <2>2. Live(job.vol)
      BY <1>0, <2>1 DEF IdsInOrder
    <2> QED BY <1>0, <2>1, <2>2 DEF SnapshotsStay
  <1>11. CASE RecreateClaim
    <2>1. /\ job.pc = "restore" /\ Live(job.vol)
          /\ UNCHANGED <<vol, cachedVol, cachedClaim, snapshots, request>>
      BY <1>0, <1>11 DEF RecreateClaim, At, apiVars, IdsInOrder
    <2>2. /\ job'.pc = "patch" /\ job'.vol.snap = job.vol.snap
          /\ job'.vol.from = job.vol.from
      BY <1>0, <1>11, Copies, WaitsKeeps, FailsKeeps DEF RecreateClaim
    <2>3. CASE claim = NoClaim
      <3>1. claim' = NewClaim(job.vol.snap, job.vol.id)
        BY <1>11, <2>3 DEF RecreateClaim
      <3>2. job.vol.snap \in Snapshots /\ job.vol.id > 0 /\ job.vol.id \in Nat
        BY <1>0, <2>1, LiveAsks, Copies DEF IdsGiven
      <3>3. /\ claim'.id = job.vol.id /\ claim'.from = job.vol.snap
            /\ claim'.deleting = FALSE
        BY <3>1, <3>2, ClaimShapes DEF Contents
      <3>4. ~claim'.deleting
        BY <3>3, Zenon
      <3>5. SnapshotsStay'
        BY <1>0, <2>1, <2>2 DEF SnapshotsStay, Live
      <3> QED BY <1>b, <3>2, <3>3, <3>4, <3>5 DEF NeverBlank
    <2>4. CASE claim # NoClaim
      <3>1. claim' = claim
        BY <1>11, <2>4 DEF RecreateClaim
      <3> QED BY <2>1, <2>2, <3>1, BlankAside, LiveAsks
    <2> QED BY <2>3, <2>4
  <1>12. CASE RestoreDone
    <2>1. /\ job.pc = "restore" /\ Live(job.vol) /\ cachedClaim.id = job.vol.id
          /\ UNCHANGED <<vol, cachedVol, claim, cachedClaim, snapshots, request>>
      BY <1>0, <1>12 DEF RestoreDone, At, volumeVars, apiVars, IdsInOrder, RestoredFromThis
    <2>2. job'.pc = "patch" /\ job'.vol.snap = job.vol.snap
      BY <1>0, <1>12, Copies DEF RestoreDone, ToPatch, Job, Volume
    <2>3. claim.id # 0
      BY <1>0, <2>1, Copies DEF IdsGiven, NotYetRestored
    <2> QED BY <2>1, <2>2, <2>3, BlankAside, LiveAsks
  <1>13. CASE ReplaceClaim
    <2>1. /\ job.pc = "restore" /\ Live(job.vol) /\ Waits
          /\ UNCHANGED <<vol, cachedVol, cachedClaim, snapshots, request>>
          /\ \/ claim' = claim
             \/ claim # NoClaim /\ claim' = [claim EXCEPT !.deleting = TRUE]
      BY <1>0, <1>13 DEF ReplaceClaim, At, apiVars, IdsInOrder
    <2>2. /\ job'.pc = "patch" /\ job'.vol.snap = job.vol.snap
          /\ job'.vol.from = job.vol.from
      BY <1>0, <2>1, Copies, WaitsKeeps
    <2>3. claim'.from = claim.from /\ claim'.id = claim.id
      BY <1>0, <2>1 DEF Claim
    <2>4. SnapshotsStay'
      BY <1>0, <2>1, <2>2 DEF SnapshotsStay, Live
    <2>5. CASE claim.id = 0
      <3>1. NotYetRestored'
        BY <1>0, <2>1, <2>2, <2>3, <2>5 DEF NotYetRestored, Live
      <3> QED BY <1>0, <2>3, <2>4, <2>5, <3>1 DEF NeverBlank
    <2>6. CASE claim.id > 0
      <3>1. ~claim'.deleting
        <4> SUFFICES ASSUME claim'.deleting PROVE FALSE
          OBVIOUS
        <4>1. job.vol.id > claim.id
          BY <1>0, <2>6, NoLateDelete
        <4> QED BY <1>0, <1>a, <2>6, <4>1, Copies DEF IdsGiven
      <3> QED BY <1>0, <2>3, <2>4, <2>6, <3>1 DEF NeverBlank
    <2> QED BY <1>0, <2>5, <2>6
  <1>14. CASE EnsureClaim
    <2>1. /\ job.pc = "claim"
          /\ UNCHANGED <<vol, cachedVol, cachedClaim, snapshots, request>>
      BY <1>14 DEF EnsureClaim, At, apiVars
    <2>2. claim # NoClaim
      BY <1>0, <2>1, ClaimShapes DEF NotYetRestored
    <2>3. claim' = claim
      BY <1>14, <2>2 DEF EnsureClaim
    <2>4. /\ job'.pc = "patch" /\ job'.vol.snap = job.vol.snap
          /\ job'.vol.from = job.vol.from \/ cachedClaim.from \in Snapshots
      <3>1. CASE Fails
        BY <1>0, <3>1, Copies, FailsKeeps
      <3>2. CASE ToPatch([job.vol EXCEPT
                   !.phase = IF cachedClaim.bound THEN "Bound" ELSE "Pending",
                   !.from = IF cachedClaim.from \in Snapshots THEN cachedClaim.from ELSE @])
        BY <1>0, <3>2, Copies DEF ToPatch, Job, Volume
      <3> QED BY <1>14, <2>2, <3>1, <3>2 DEF EnsureClaim
    <2>5. job'.vol.from = job.vol.from \/ claim.id # 0
      BY <1>0, <2>4 DEF NotYetRestored
    <2> QED BY <2>1, <2>3, <2>4, <2>5, BlankAside, LiveAsks
  <1>15. CASE PatchStatus
    <2>1. UNCHANGED <<cachedVol, claim, cachedClaim, snapshots, request>>
      BY <1>15 DEF PatchStatus, apiVars
    <2>2. vol'.snap = vol.snap /\ vol'.from \in {vol.from, job.vol.from}
      BY <1>0, <1>15, StatusStores, Copies DEF PatchStatus
    <2>3. \/ job' = NoJob
          \/ /\ job' = [job EXCEPT !.pc = "clear"]
             /\ Live(job.vol) /\ job.vol.from = job.vol.snap
      BY <1>15 DEF PatchStatus, Live
    <2>4. /\ job'.vol.snap \in {job.vol.snap, NoSnap}
          /\ job'.vol.from \in {job.vol.from, NoSnap}
          /\ job'.pc \in {"idle", "clear"}
          /\ job'.pc = "clear" => Live(job.vol) /\ job.vol.from = job.vol.snap
      BY <1>0, <2>3, Copies, NoJobAsksNothing DEF Job
    <2>5. SnapshotsStay'
      BY <1>0, <2>1, <2>2, <2>4 DEF SnapshotsStay, Live
    <2>6. claim.id = 0 => NotYetRestored'
      BY <1>0, <2>1, <2>2, <2>4 DEF NotYetRestored, Live
    <2> QED BY <1>0, <2>1, <2>5, <2>6 DEF NeverBlank
  <1>16. CASE ClearRestore
    <2>1. /\ job.pc = "clear" /\ job' = NoJob
          /\ UNCHANGED <<cachedVol, claim, cachedClaim, snapshots, request>>
          /\ Write([vol EXCEPT !.snap = NoSnap, !.id = 0])
      BY <1>16 DEF ClearRestore, At, apiVars
    <2>2. vol'.snap = NoSnap
      BY <1>0, <2>1, Copies, ClearStores
    <2>3. claim.id # 0
      BY <1>0, <2>1 DEF NotYetRestored
    <2>4. SnapshotsStay'
      BY <1>0, <2>1, <2>2, NoJobAsksNothing DEF SnapshotsStay, Live
    <2> QED BY <1>0, <2>1, <2>3, <2>4 DEF NeverBlank
  <1>17. CASE Crash
    <2>1. /\ cachedVol' = vol /\ cachedClaim' = claim /\ job' = NoJob /\ request' = NoRequest
          /\ UNCHANGED <<vol, claim, snapshots>>
      BY <1>17 DEF Crash
    <2>2. SnapshotsStay'
      BY <1>0, <2>1, NoJobAsksNothing DEF SnapshotsStay, Live, NoRequest
    <2>3. claim.id = 0 => NotYetRestored'
      BY <1>0, <2>1, NoJobAsksNothing DEF NotYetRestored, Live
    <2> QED BY <1>0, <2>1, <2>2, <2>3 DEF NeverBlank
  <1>18. /\ ~ReconcileFails /\ ~PatchFails
         /\ \A s \in Snapshots : ~DeleteSnapshot(s)
    BY <1>a DEF ReconcileFails, PatchFails, DeleteSnapshot, Fault
  <1> QED BY <1>1, <1>2, <1>3, <1>4, <1>5, <1>6, <1>7, <1>8, <1>9, <1>10, <1>11, <1>12, <1>13,
             <1>14, <1>15, <1>16, <1>17, <1>18 DEF Next, Api, Cluster, Reconcile, Failure

\* What disturbs a restore stays: requests are numbered upwards, and the kinds
\* of faults a system meets are given.
LEMMA OnceDisturbed ==
    RestoreInv /\ RestoreInv' /\ [Next]_vars => (Undisturbed' => Undisturbed)
  <1>1. RestoreInv /\ RestoreInv' => nextId \in Nat /\ nextId' \in Nat
    BY ConstantsAssumption DEF RestoreInv, TypeOK
  <1> SUFFICES ASSUME RestoreInv, RestoreInv', [Next]_vars
               PROVE  faults' = faults /\ nextId <= nextId'
    BY <1>1 DEF Undisturbed
  <1>2. CASE UNCHANGED vars
    BY <1>1, <1>2 DEF vars, apiVars
  <1>3. CASE Api
    BY <1>1, <1>3 DEF Api, TakeSnapshot, DeleteSnapshot, AcceptRestore, PatchRequest, apiVars
  <1>4. CASE Cluster \/ AppController
    BY <1>1, <1>4 DEF Cluster, SyncVolume, SyncClaim, SyncPod, SnapshotReady, ClaimBinds,
                      ClaimGoes, PodCreated, PodStarts, PodStops, AppController, AppReads,
                      AppWrites, apiVars
  <1>5. CASE Reconcile \/ Failure
    BY <1>1, <1>5 DEF Reconcile, Begin, ReadSnapshot, CancelRestore, RecreateClaim, RestoreDone,
                      ReplaceClaim, EnsureClaim, PatchStatus, ClearRestore, Failure,
                      ReconcileFails, CancelFails, PatchFails, Crash, apiVars
  <1> QED BY <1>2, <1>3, <1>4, <1>5 DEF Next

LEMMA StepBlankInv ==
    RestoreInv /\ RestoreInv' /\ BlankInv /\ [Next]_vars => BlankInv'
  <1> SUFFICES ASSUME RestoreInv, RestoreInv', BlankInv, [Next]_vars, Undisturbed'
               PROVE  NeverBlank'
    BY DEF BlankInv
  <1>1. Undisturbed /\ NeverBlank
    BY OnceDisturbed DEF BlankInv
  <1>2. CASE Next
    BY <1>1, <1>2, StepNeverBlank
  <1>3. CASE UNCHANGED vars
    BY <1>1, <1>3 DEF vars, volumeVars, apiVars, NeverBlank, SnapshotsStay, NotYetRestored, Live
  <1> QED BY <1>2, <1>3

\* A restore that meets no second request, no failing call and no deletion of
\* its snapshot never leaves a blank disk in the place of the volume's own,
\* whatever crashes and however stale the caches are.
THEOREM NeverBlankHolds == Spec => []UndisturbedNeverBlank
  <1>1. BlankInv => UndisturbedNeverBlank
    BY DEF BlankInv, NeverBlank, UndisturbedNeverBlank
  <1> QED BY <1>1, InitBlankInv, StepBlankInv, RestoreInvHolds, PTL DEF Spec

=============================================================================
