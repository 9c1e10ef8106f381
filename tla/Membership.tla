----------------------------- MODULE Membership ----------------------------
(***************************************************************************)
(* Who sees a change of teams, grants and people, and when: the handlers   *)
(* that write them to the control-plane store (pkg/api/members.go), the    *)
(* snapshot each replica caches to answer requests (pkg/authz) and the     *)
(* mirror of the store in Kubernetes RBAC that the leader keeps            *)
(* (internal/controller/membership_controller.go).                         *)
(*                                                                         *)
(* What the store holds is told apart by the number of writes it has had.  *)
(* A reader reads teams, then grants, then people, with writes in between; *)
(* it is known by the version at its first read: everything in it is at    *)
(* least that new.                                                         *)
(***************************************************************************)
EXTENDS Naturals

CONSTANTS
    Replicas,    \* of the server
    Asked,       \* bound: the replicas that get requests
    NoReplica,
    Projects,    \* slugs of projects, each with a namespace
    Cluster,     \* the cluster-wide bindings of platform roles
    Budget       \* bound: users' operations, failures and crashes, together

ASSUME ConstantsAssumption ==
    /\ NoReplica \notin Replicas
    /\ Asked \subseteq Replicas
    /\ Cluster \notin Projects
    /\ Budget \in Nat

VARIABLES
    version,   \* writes to teams, grants and people so far
    projects,  \* state of each project's namespace
    handlers,  \* handlers that have written, or will, and have not returned
    snaps,     \* the cached snapshot of each replica
    loads,     \* version at the first read of a replica's load in progress
    told,      \* newest change whose handler dropped the replica's cache
    leader,    \* the replica that runs the controllers
    channel,   \* a notification waits in the channel of each replica
    queued,    \* the mirror's key is in the leader's work queue
    timer,     \* and will be in 2 minutes
    pass,      \* the mirror pass in progress
    bindings,  \* version the RBAC of each target was written from
    notified,  \* newest change the leader was notified of
    budget

storeVars == <<version, projects>>
cacheVars == <<snaps, loads, told>>
mirrorVars == <<leader, channel, queued, timer, pass, bindings, notified>>
vars == <<storeVars, handlers, cacheVars, mirrorVars, budget>>

Targets == Projects \cup {Cluster}
None == 0
Versions == Nat \ {None}

NoSnapshot == [from |-> None, fresh |-> FALSE, people |-> FALSE]
NoPass == [pc |-> "idle", from |-> None, left |-> {}]

Handler == [replica : Replicas, version : Versions, pc : {"grants", "invalidate", "notify"}]
Snapshot == {NoSnapshot} \cup [from : Versions, fresh : BOOLEAN, people : BOOLEAN]
Pass == {NoPass} \cup [pc : {"list"}, from : Versions, left : {{}}]
                \cup [pc : {"write"}, from : Versions, left : SUBSET Targets]

Init ==
    /\ version = 1
    /\ projects \in [Projects -> {"none", "live"}]
    /\ handlers = {}
    /\ snaps = [r \in Replicas |-> NoSnapshot]
    /\ loads = [r \in Replicas |-> None]
    /\ told = [r \in Replicas |-> None]
    /\ leader = NoReplica
    /\ channel = [r \in Replicas |-> FALSE]
    /\ queued = FALSE
    /\ timer = FALSE
    /\ pass = NoPass
    /\ bindings = [t \in Targets |-> None]
    /\ notified = None
    /\ budget = Budget

Spend == budget > 0 /\ budget' = budget - 1
Live == {n \in Projects : projects[n] = "live"}
Newer(a, b) == IF a > b THEN a ELSE b

---------------------------------------------------------------------------
(* Handlers: write to the store, then membershipChanged.                    *)

\* putTeam, deleteTeam, addMember, removeMember, setPersonStatus,
\* importWorkspace (its last write).
Change(r) ==
    /\ Spend
    /\ version' = version + 1
    /\ handlers' = handlers \cup {[replica |-> r, version |-> version', pc |-> "invalidate"]}
    /\ UNCHANGED <<projects, cacheVars, mirrorVars>>

\* forgetPerson tells nobody; neither do the first writes of an import.
ForgetPerson ==
    /\ Spend
    /\ version' = version + 1
    /\ UNCHANGED <<projects, handlers, cacheVars, mirrorVars>>

\* deleteApp: the namespace first, which the watch sees, then the project's
\* grants.
DestroyProject(r, n) ==
    /\ Spend
    /\ projects[n] = "live"
    /\ projects' = [projects EXCEPT ![n] = "gone"]
    /\ handlers' = handlers \cup {[replica |-> r, version |-> version, pc |-> "grants"]}
    /\ queued' = (queued \/ leader # NoReplica)
    /\ UNCHANGED <<version, cacheVars, leader, channel, timer, pass, bindings, notified>>

DeleteGrants(h) ==
    /\ h.pc = "grants"
    /\ version' = version + 1
    /\ handlers' = (handlers \ {h}) \cup {[h EXCEPT !.version = version', !.pc = "invalidate"]}
    /\ UNCHANGED <<projects, cacheVars, mirrorVars, budget>>

\* The grants stay, and nobody is told.
DeleteGrantsFails(h) ==
    /\ Spend
    /\ h.pc = "grants"
    /\ handlers' = handlers \ {h}
    /\ UNCHANGED <<storeVars, cacheVars, mirrorVars>>

\* Mutant: the cache is dropped while a load is in progress.
InvalidateUnlocked(h) ==
    /\ h.pc = "invalidate"
    /\ snaps' = [snaps EXCEPT ![h.replica] = NoSnapshot]
    /\ told' = [told EXCEPT ![h.replica] = Newer(@, h.version)]
    /\ handlers' = (handlers \ {h}) \cup {[h EXCEPT !.pc = "notify"]}
    /\ UNCHANGED <<storeVars, loads, mirrorVars, budget>>

\* Resolver.Invalidate waits for the mutex a load holds.
Invalidate(h) ==
    /\ h.pc = "invalidate"
    /\ loads[h.replica] = None
    /\ snaps' = [snaps EXCEPT ![h.replica] = NoSnapshot]
    /\ told' = [told EXCEPT ![h.replica] = Newer(@, h.version)]
    /\ handlers' = (handlers \ {h}) \cup {[h EXCEPT !.pc = "notify"]}
    /\ UNCHANGED <<storeVars, loads, mirrorVars, budget>>

\* Mutant: a notification is dropped while a pass is in progress.
NotifyDropped(h) ==
    /\ h.pc = "notify"
    /\ handlers' = handlers \ {h}
    /\ channel' = [channel EXCEPT ![h.replica] = @ \/ pass = NoPass]
    /\ notified' = IF h.replica = leader THEN Newer(notified, h.version) ELSE notified
    /\ UNCHANGED <<storeVars, cacheVars, leader, queued, timer, pass, bindings, budget>>

\* Notify: a channel of one; whoever is not the leader keeps it for later.
Notify(h) ==
    /\ h.pc = "notify"
    /\ handlers' = handlers \ {h}
    /\ channel' = [channel EXCEPT ![h.replica] = TRUE]
    /\ notified' = IF h.replica = leader THEN Newer(notified, h.version) ELSE notified
    /\ UNCHANGED <<storeVars, cacheVars, leader, queued, timer, pass, bindings, budget>>

\* A project's namespace is created; the watch queues a pass.
CreateProject(n) ==
    /\ projects[n] = "none"
    /\ projects' = [projects EXCEPT ![n] = "live"]
    /\ queued' = (queued \/ leader # NoReplica)
    /\ UNCHANGED <<version, handlers, cacheVars, leader, channel, timer, pass, bindings,
                   notified, budget>>

User ==
    \/ \E r \in Replicas : Change(r) \/ \E n \in Projects : DestroyProject(r, n)
    \/ ForgetPerson
    \/ \E n \in Projects : CreateProject(n)
Handling == \E h \in handlers : DeleteGrants(h) \/ Invalidate(h) \/ Notify(h)

---------------------------------------------------------------------------
(* Resolver: a request that finds no fresh snapshot loads one.              *)

BeginLoad(r) ==
    /\ loads[r] = None
    /\ ~snaps[r].fresh
    /\ loads' = [loads EXCEPT ![r] = version]
    /\ UNCHANGED <<storeVars, handlers, snaps, told, mirrorVars, budget>>

\* The list of people may fail: the snapshot is kept without it.
EndLoad(r) ==
    /\ loads[r] # None
    /\ \E people \in BOOLEAN :
         /\ IF people THEN budget' = budget ELSE Spend
         /\ snaps' = [snaps EXCEPT ![r] = [from |-> loads[r], fresh |-> TRUE,
                                           people |-> people]]
    /\ loads' = [loads EXCEPT ![r] = None]
    /\ UNCHANGED <<storeVars, handlers, told, mirrorVars>>

\* Teams or grants cannot be read: an expired snapshot is used once more.
LoadFails(r) ==
    /\ loads[r] # None
    /\ Spend
    /\ loads' = [loads EXCEPT ![r] = None]
    /\ UNCHANGED <<storeVars, handlers, snaps, told, mirrorVars>>

\* The TTL has passed since the load ended.
Expire(r) ==
    /\ snaps[r].fresh
    /\ snaps' = [snaps EXCEPT ![r].fresh = FALSE]
    /\ UNCHANGED <<storeVars, handlers, loads, told, mirrorVars, budget>>

Resolver == \E r \in Asked : BeginLoad(r) \/ EndLoad(r) \/ LoadFails(r) \/ Expire(r)

---------------------------------------------------------------------------
(* The leader, and MembershipReconciler.                                    *)

\* A manager starts: its watch lists the namespaces of projects.
Acquire(r) ==
    /\ leader = NoReplica
    /\ leader' = r
    /\ queued' = (Live # {})
    /\ UNCHANGED <<storeVars, handlers, cacheVars, channel, timer, pass, bindings, notified,
                   budget>>

\* What its manager had in memory goes with it; the next one of the same
\* process makes a new channel.
ManagerStops(r) ==
    /\ channel' = [channel EXCEPT ![r] = FALSE]
    /\ IF r = leader
         THEN /\ leader' = NoReplica /\ queued' = FALSE /\ timer' = FALSE
              /\ pass' = NoPass /\ notified' = None
         ELSE UNCHANGED <<leader, queued, timer, pass, notified>>
    /\ bindings' = bindings

LoseLease ==
    /\ Spend
    /\ leader # NoReplica
    /\ ManagerStops(leader)
    /\ UNCHANGED <<storeVars, handlers, cacheVars>>

\* A replica dies, with its handlers.
Crash(r) ==
    /\ Spend
    /\ ManagerStops(r)
    /\ handlers' = {h \in handlers : h.replica # r}
    /\ snaps' = [snaps EXCEPT ![r] = NoSnapshot]
    /\ loads' = [loads EXCEPT ![r] = None]
    /\ told' = [told EXCEPT ![r] = None]
    /\ UNCHANGED storeVars

Deliver ==
    /\ leader # NoReplica
    /\ channel[leader]
    /\ channel' = [channel EXCEPT ![leader] = FALSE]
    /\ queued' = TRUE
    /\ UNCHANGED <<storeVars, handlers, cacheVars, leader, timer, pass, bindings, notified,
                   budget>>

Periodic ==
    /\ timer
    /\ timer' = FALSE
    /\ queued' = TRUE
    /\ UNCHANGED <<storeVars, handlers, cacheVars, leader, channel, pass, bindings, notified,
                   budget>>

\* Mutant: a pass works from the snapshot the server has cached.
BeginPassCached ==
    /\ queued /\ pass = NoPass
    /\ queued' = FALSE
    /\ pass' = [pc |-> "list", left |-> {},
                from |-> IF snaps[leader] = NoSnapshot THEN version ELSE snaps[leader].from]
    /\ UNCHANGED <<storeVars, handlers, cacheVars, leader, channel, timer, bindings, notified,
                   budget>>

\* Reconcile: authz.Load ...
BeginPass ==
    /\ queued /\ pass = NoPass
    /\ queued' = FALSE
    /\ pass' = [pc |-> "list", from |-> version, left |-> {}]
    /\ UNCHANGED <<storeVars, handlers, cacheVars, leader, channel, timer, bindings, notified,
                   budget>>

\* ... the namespaces of projects that are not being deleted ...
ListNamespaces ==
    /\ pass.pc = "list"
    /\ pass' = [pass EXCEPT !.pc = "write", !.left = Live \cup {Cluster}]
    /\ UNCHANGED <<storeVars, handlers, cacheVars, leader, channel, queued, timer, bindings,
                   notified, budget>>

\* ... and the bindings of each, the cluster's last.
WriteBindings(t) ==
    /\ t \in pass.left
    /\ t = Cluster => pass.left = {Cluster}
    /\ bindings' = IF t \in Live \cup {Cluster} THEN [bindings EXCEPT ![t] = pass.from]
                   ELSE bindings
    /\ pass' = [pass EXCEPT !.left = @ \ {t}]
    /\ UNCHANGED <<storeVars, handlers, cacheVars, leader, channel, queued, timer, notified,
                   budget>>

\* Mutant: a pass that went well is the last.
EndPassForGood ==
    /\ pass.pc = "write" /\ pass.left = {}
    /\ pass' = NoPass
    /\ UNCHANGED <<storeVars, handlers, cacheVars, leader, channel, queued, timer, bindings,
                   notified, budget>>

EndPass ==
    /\ pass.pc = "write" /\ pass.left = {}
    /\ pass' = NoPass
    /\ timer' = TRUE
    /\ UNCHANGED <<storeVars, handlers, cacheVars, leader, channel, queued, bindings, notified,
                   budget>>

\* An error: the key is queued again.
PassEnds ==
    /\ pass' = NoPass
    /\ queued' = TRUE
    /\ UNCHANGED <<storeVars, handlers, cacheVars, leader, channel, timer, bindings, notified>>

\* A namespace that is going takes no new binding: the pass is done again.
NamespaceRefuses(n) ==
    /\ n \in pass.left
    /\ projects[n] = "gone"
    /\ PassEnds
    /\ UNCHANGED budget

\* The store, or the API server, fails.
PassFails ==
    /\ pass # NoPass
    /\ Spend
    /\ PassEnds

Mirror ==
    \/ Deliver \/ Periodic \/ BeginPass \/ ListNamespaces \/ EndPass
    \/ \E t \in Targets : WriteBindings(t)
    \/ \E n \in Projects : NamespaceRefuses(n)
Leading == \E r \in Replicas : Acquire(r)

Failure ==
    \/ \E h \in handlers : DeleteGrantsFails(h)
    \/ LoseLease \/ PassFails
    \/ \E r \in Replicas : Crash(r)

Next == User \/ Handling \/ Resolver \/ Leading \/ Mirror \/ Failure

\* A handler goes on, time passes, a load ends, somebody holds the lease and
\* its controllers work.  Users, requests and failures are not owed.
Fairness ==
    /\ WF_vars(Handling)
    /\ \A r \in Asked : WF_vars(EndLoad(r)) /\ WF_vars(Expire(r))
    /\ WF_vars(Leading)
    /\ WF_vars(Deliver) /\ WF_vars(Periodic)
    /\ WF_vars(BeginPass) /\ WF_vars(ListNamespaces) /\ WF_vars(EndPass)
    /\ WF_vars(\E t \in Targets : WriteBindings(t))

Spec == Init /\ [][Next]_vars
FairSpec == Spec /\ Fairness

---------------------------------------------------------------------------
(* Properties.                                                              *)

TypeOK ==
    /\ version \in Versions
    /\ projects \in [Projects -> {"none", "live", "gone"}]
    /\ handlers \subseteq Handler
    /\ snaps \in [Replicas -> Snapshot] /\ loads \in [Replicas -> Nat]
    /\ told \in [Replicas -> Nat]
    /\ leader \in Replicas \cup {NoReplica}
    /\ channel \in [Replicas -> BOOLEAN]
    /\ queued \in BOOLEAN /\ timer \in BOOLEAN
    /\ pass \in Pass
    /\ bindings \in [Targets -> Nat] /\ notified \in Nat
    /\ budget \in 0..Budget

\* Once the handler of a change has dropped the cache of its replica, no
\* request there is answered from before that change, even one answered from an
\* expired snapshot because the store fails: no load that began before the
\* change publishes its snapshot afterwards (authz.go:303-339).
OwnChangesSeen ==
    \A r \in Replicas : snaps[r].from # None => snaps[r].from >= told[r]

\* No change the leader was notified of is lost, though notifications that find
\* one waiting are dropped, and passes fail half-way: when nothing is queued
\* the RBAC of every project, and of the cluster, is at least that new.
MirrorHasNotified ==
    /\ leader # NoReplica
    /\ pass = NoPass /\ ~queued /\ ~channel[leader]
    => \A t \in Live \cup {Cluster} : bindings[t] >= notified

\* The mirror never goes back to an older state of the store, whichever
\* replica leads and whatever fails.
MirrorOnlyForward ==
    [][\A t \in Targets : bindings'[t] >= bindings[t]]_vars

\* Once changes and failures stop, RBAC is that of the newest state, changes
\* that reached another replica than the leader or whose handler died before it
\* notified included, provided there is a project:
\* the periodic pass follows an earlier one, and the first one of a leader
\* comes from a project's namespace.
MirrorConverges ==
    <>[](Live # {}) => <>[]\A t \in Live \cup {Cluster} : bindings[t] = version

=============================================================================
