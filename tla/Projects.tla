------------------------------ MODULE Projects -----------------------------
(***************************************************************************)
(* The projects of a workspace: the handlers that make and change them     *)
(* under the workspace's plan (pkg/api/apps.go, sizes.go, domains.go,      *)
(* volumes.go, plan.go), and what the App controller derives from an App   *)
(* beside its release (internal/controller/quota.go, domains.go,           *)
(* desired.go): the ResourceQuota of its namespace, its Ingress and the    *)
(* certificates of its hosts.                                              *)
(*                                                                         *)
(* A handler reads, judges what it read, and writes; other handlers, of    *)
(* this replica or another, come in between.  The API server refuses an    *)
(* update of an object that changed since it was read, but the plan and    *)
(* the hosts are judged on all projects, which no version protects.        *)
(*                                                                         *)
(* The default host of a project can be a custom domain of another.        *)
(* External: ingress-nginx refuses an Ingress with a host another one has. *)
(***************************************************************************)
EXTENDS Integers, FiniteSets

CONSTANTS
    Slugs,        \* the names projects can have: DNS labels
    Handlers,     \* 1..n: requests served at a time, each by the first that is free
    Hosts,
    DefaultHost,  \* of each project: <slug>.<domain>
    Sizes,
    DefaultSize,
    Cost,         \* the CPU (and memory) of an instance of each size
    Replicas,     \* bound: replicas asked for
    VolumeSizes,  \* bound: sizes asked for
    Stateful,     \* bound: the projects that ask for a volume
    Plans,        \* bound: the plans the workspace may get
    MaxChanges,   \* bound: requests, changes of plan and catalog
    MaxFaults,    \* bound: failing reads and writes, crashes
    None

Axes == {"projects", "instances", "cpu", "storage"}

\* 0 is no ceiling (store.Limits).
NoPlan == [x \in Axes |-> 0]

ASSUME PlansAssumption == Plans \subseteq [Axes -> Nat]

ASSUME BoundsAssumption ==
    /\ IsFiniteSet(Slugs)
    /\ DefaultHost \in [Slugs -> Hosts]
    /\ Cost \in [Sizes -> Nat]
    /\ DefaultSize \in Sizes
    /\ VolumeSizes \subseteq Nat \ {0}
    /\ Replicas \subseteq Nat
    /\ Handlers \subseteq Nat
    /\ Stateful \subseteq Slugs
    /\ {MaxChanges, MaxFaults} \subseteq Nat

VARIABLES
    plan,     \* the workspace's limits in the store
    catalog,  \* the sizes in ConfigMap shpyrd-sizes
    apps,     \* the App of each project
    vols,     \* the Volume of each project: what is asked for, and what it has
    job,      \* the request each handler serves
    cache,    \* the controller's informer
    held,     \* tenancy.Addresses: an older plan it remembers for 10 s
    quota,    \* the ResourceQuota of each namespace
    ingress,  \* the hosts in the Ingress of each project
    certs,    \* the hosts with a Certificate
    excused,  \* the axes over the plan for which a reason is known
    changes, faults

projectsVars == <<plan, catalog, apps, vols, job, cache, held, quota, ingress,
                  certs, excused, changes, faults>>

Idle == [at |-> "idle"]
NoVolume == [size |-> 0, capacity |-> 0]

\* quotaHard: instances and projects are the API's to count.
Hard(l) == [x \in {"cpu", "storage"} |-> l[x]]

ProjectsInit ==
    /\ plan \in Plans \ {NoPlan}
    /\ catalog = Sizes
    /\ apps = [p \in Slugs |-> None]
    /\ vols = [p \in Slugs |-> NoVolume]
    /\ job = [h \in Handlers |-> Idle]
    /\ cache = [p \in Slugs |-> None]
    /\ held = None
    /\ quota = [p \in Slugs |-> Hard(NoPlan)]
    /\ ingress = [p \in Slugs |-> {}]
    /\ certs = [p \in Slugs |-> {}]
    /\ excused = {}
    /\ changes = 0 /\ faults = 0

Change == changes < MaxChanges /\ changes' = changes + 1 /\ UNCHANGED faults
Fault == faults < MaxFaults /\ faults' = faults + 1 /\ UNCHANGED changes
Free == UNCHANGED <<changes, faults>>

Derived == <<cache, held, quota, ingress, certs>>
----------------------------------------------------------------------------
(***************************************************************************)
(* Usage and ceilings.                                                     *)
(***************************************************************************)
Existing(as) == {p \in Slugs : as[p] # None}

\* A sum of natural numbers, counted by the units they are made of.
Units(f) == UNION {{x} \X (1 .. f[x]) : x \in DOMAIN f}
Sum(f) == Cardinality(Units(f))

\* addApp: a project with nothing to run is a project and nothing more,
\* an unknown size costs nothing.
Instances(a) == IF a.deployed THEN a.replicas ELSE 0
Cpu(a) == IF a.size \in catalog THEN Instances(a) * Cost[a.size] ELSE 0

\* workspaceUsage.
Usage(as) ==
    [projects  |-> Cardinality(Existing(as)),
     instances |-> Sum([p \in Existing(as) |-> Instances(as[p])]),
     cpu       |-> Sum([p \in Existing(as) |-> Cpu(as[p])]),
     storage   |-> Sum([p \in Slugs |-> vols[p].size])]

Beyond(l, u, axes) == {x \in axes : l[x] > 0 /\ u[x] > l[x]}

Exceeds(l, u, axes) == Beyond(l, u, axes) # {}

Compute == {"instances", "cpu"}

\* The reasons for which a step may leave the workspace over its plan.
Excuse(axes) ==
    excused' = {x \in excused \cup axes : x \in Beyond(plan', Usage(apps)', Axes)}
----------------------------------------------------------------------------
(***************************************************************************)
(* The handlers.                                                           *)
(***************************************************************************)
NewApp(hosts, source) ==
    [deployed |-> source, replicas |-> 1, size |-> DefaultSize, hosts |-> hosts]

\* customDomains: its own default host as a custom domain changes nothing.
Custom(r) ==
    CASE r.kind = "create" -> DefaultHost[r.p] \notin r.hosts
      [] r.kind \in {"add", "remove"} -> r.host # DefaultHost[r.p]
      [] OTHER -> TRUE

Requests ==
    [kind : {"create"}, p : Slugs, hosts : {{}} \cup {{h} : h \in Hosts}, source : BOOLEAN]
    \cup [kind : {"deploy"}, p : Slugs]
    \cup [kind : {"scale"}, p : Slugs, replicas : Replicas]
    \cup [kind : {"resize"}, p : Slugs, size : Sizes]
    \cup [kind : {"add", "remove"}, p : Slugs, host : Hosts]
    \cup [kind : {"volume", "grow"}, p : Stateful, size : VolumeSizes]

OnApp(r) == r.kind \in {"deploy", "scale", "resize", "add", "remove"}

\* What a mutation of mutateApp refuses.
Refuses(a, r) ==
    \/ r.kind = "add" /\ r.host \in a.hosts
    \/ r.kind = "remove" /\ r.host \notin a.hosts

Mutated(a, r) ==
    CASE r.kind = "deploy" -> [a EXCEPT !.deployed = TRUE]
      [] r.kind = "scale"  -> [a EXCEPT !.replicas = r.replicas]
      [] r.kind = "resize" -> [a EXCEPT !.size = r.size]
      [] r.kind = "add"    -> [a EXCEPT !.hosts = @ \cup {r.host}]
      [] r.kind = "remove" -> [a EXCEPT !.hosts = @ \ {r.host}]

\* hostOwner: who serves a host, not who asked for it; nobody when the list fails.
OwnedByOther(p, host) == \E q \in Slugs \ {p} : host \in ingress[q]

\* A request, with what its handler refuses before it reads the project.
Begin(h, r) ==
    /\ job[h].at = "idle" /\ \A g \in Handlers : g < h => job[g].at # "idle"
    /\ r.kind = "resize" => r.size \in catalog
    /\ Custom(r)
    /\ changes < MaxChanges /\ changes' = changes + 1
    /\ IF r.kind = "add" /\ OwnedByOther(r.p, r.host)
       THEN faults < MaxFaults /\ faults' = faults + 1
       ELSE UNCHANGED faults
    /\ job' = [job EXCEPT ![h] = [at |-> "check", req |-> r]]
    /\ UNCHANGED <<plan, catalog, apps, vols, excused, Derived>>

\* The handler goes on to its write; blind are the axes it could not judge.
Passes(h, after, blind) ==
    job' = [job EXCEPT ![h] = [at |-> "write", req |-> job[h].req, after |-> after,
                               blind |-> blind, stale |-> FALSE, raced |-> FALSE]]

Answers(h) == job' = [job EXCEPT ![h] = Idle]

\* planOf: a store that fails is a workspace without a plan.
Judge(h, after, usage, axes, unjudged) ==
    \/ /\ IF Exceeds(plan, usage, axes) THEN Answers(h) ELSE Passes(h, after, unjudged)
       /\ Free
    \/ Passes(h, after, Axes) /\ Fault

\* createApp: only the number of projects.
CheckCreate(h) ==
    LET r == job[h].req
    IN  /\ job[h].at = "check" /\ r.kind = "create"
        /\ Judge(h, NewApp(r.hosts, r.source), [Usage(apps) EXCEPT !.projects = @ + 1],
                 {"projects"}, IF r.source THEN Compute ELSE {})
        /\ UNCHANGED <<plan, catalog, apps, vols, excused, Derived>>

\* mutateApp: Get, the mutation, checkPlan on the App as it would be stored.
CheckApp(h) ==
    LET r == job[h].req
        a == apps[r.p]
    IN  /\ job[h].at = "check" /\ OnApp(r)
        /\ IF a = None \/ Refuses(a, r)
           THEN Answers(h) /\ Free
           ELSE Judge(h, Mutated(a, r), Usage([apps EXCEPT ![r.p] = Mutated(a, r)]), Compute, {})
        /\ UNCHANGED <<plan, catalog, apps, vols, excused, Derived>>

\* Mutant: what is asked for is left out of what it is judged on.
AddedNone(size, v) == 0

\* The size being added, or the growth of a resize.
Added(size, v) == size - v.size

\* volumeFloor: what the claim has.
Floor(v) == IF v.capacity > 0 THEN v.capacity ELSE v.size

\* createVolume and resizeVolume: checkPlanStorage, for which a list of
\* volumes that fails is an empty one.
CheckVolume(h) ==
    LET r == job[h].req
        v == IF r.kind = "volume" THEN NoVolume ELSE vols[r.p]
        judged(storage) == [Usage(apps) EXCEPT !.storage = storage + Added(r.size, v)]
    IN  /\ job[h].at = "check" /\ r.kind \in {"volume", "grow"}
        /\ \/ /\ r.kind = "grow" /\ (v.size = 0 \/ r.size < Floor(v))
              /\ Answers(h) /\ Free
           \/ /\ r.kind = "volume" \/ (v.size > 0 /\ r.size >= Floor(v))
              /\ \/ Judge(h, [v EXCEPT !.size = r.size], judged(Usage(apps).storage), {"storage"}, {})
                 \/ /\ ~Exceeds(plan, judged(0), {"storage"})
                    /\ Passes(h, [v EXCEPT !.size = r.size], Axes) /\ Fault
        /\ UNCHANGED <<plan, catalog, apps, vols, excused, Derived>>

\* Handler h (None: none) is done.  What others read of p is no longer so, nor
\* is what they judged, when the change uses more.
Disturb(h, p, more) ==
    job' = [g \in Handlers |->
              IF g = h THEN Idle
              ELSE IF job[g].at # "write" THEN job[g]
              ELSE [job[g] EXCEPT !.raced = @ \/ more, !.stale = @ \/ job[g].req.p = p]]

\* The create or update.  A changed App is a conflict and tried again, a
\* changed Volume an error.
Write(h) ==
    LET j == job[h]
        p == j.req.p
    IN  /\ j.at = "write" /\ Free
        /\ UNCHANGED <<plan, catalog, Derived>>
        /\ \/ /\ j.stale /\ OnApp(j.req)
              /\ job' = [job EXCEPT ![h] = [at |-> "check", req |-> j.req]]
              /\ UNCHANGED <<apps, vols, excused>>
           \/ /\ \/ j.stale /\ j.req.kind = "grow"
                 \/ j.req.kind = "create" /\ apps[p] # None
                 \/ j.req.kind = "volume" /\ (apps[p] = None \/ vols[p].size > 0)
              /\ Answers(h)
              /\ UNCHANGED <<apps, vols, excused>>
           \/ /\ \/ ~j.stale /\ OnApp(j.req)
                 \/ j.req.kind = "create" /\ apps[p] = None
              /\ apps' = [apps EXCEPT ![p] = j.after]
              /\ Disturb(h, p, TRUE)
              /\ UNCHANGED vols
              /\ Excuse(IF j.raced THEN Axes ELSE j.blind)
           \/ /\ \/ ~j.stale /\ j.req.kind = "grow"
                 \/ j.req.kind = "volume" /\ apps[p] # None /\ vols[p].size = 0
              /\ vols' = [vols EXCEPT ![p] = j.after]
              /\ Disturb(h, p, TRUE)
              /\ UNCHANGED apps
              /\ Excuse(IF j.raced THEN Axes ELSE j.blind)

\* A write that fails; also a handler that is gone with its client.
WriteFails(h) ==
    /\ job[h].at = "write"
    /\ Answers(h)
    /\ Fault
    /\ UNCHANGED <<plan, catalog, apps, vols, excused, Derived>>

\* deleteApp: the namespace, and everything in it.
Destroy(p) ==
    /\ apps[p] # None
    /\ Change
    /\ apps' = [apps EXCEPT ![p] = None]
    /\ vols' = [vols EXCEPT ![p] = NoVolume]
    /\ quota' = [quota EXCEPT ![p] = Hard(NoPlan)]
    /\ ingress' = [ingress EXCEPT ![p] = {}]
    /\ certs' = [certs EXCEPT ![p] = {}]
    /\ Disturb(None, p, FALSE)
    /\ UNCHANGED <<plan, catalog, cache, held>>
    /\ Excuse({})

\* deleteVolume.
RemoveVolume(p) ==
    /\ vols[p].size > 0
    /\ Change
    /\ vols' = [vols EXCEPT ![p] = NoVolume]
    /\ Disturb(None, p, FALSE)
    /\ UNCHANGED <<plan, catalog, apps, Derived>>
    /\ Excuse({})

\* The Volume controller: the claim has grown, or is bound.
Expand(p) ==
    /\ vols[p].capacity < vols[p].size
    /\ vols' = [vols EXCEPT ![p].capacity = vols[p].size]
    /\ Disturb(None, p, FALSE)
    /\ Free
    /\ UNCHANGED <<plan, catalog, apps, excused, Derived>>

\* The cloud layer sets the plan of the workspace, which the controller may remember.
SetPlan(l) ==
    /\ l # plan
    /\ Change
    /\ plan' = l
    /\ held' \in IF held = None THEN {None, plan} ELSE {held}
    /\ Disturb(None, None, TRUE)
    /\ UNCHANGED <<catalog, apps, vols, cache, quota, ingress, certs>>
    /\ Excuse(Axes)

\* putSizes: the catalog is replaced, whoever uses a size of it.
SetCatalog(c) ==
    /\ c # catalog /\ DefaultSize \in c
    /\ Change
    /\ catalog' = c
    /\ Disturb(None, None, TRUE)
    /\ UNCHANGED <<plan, apps, vols, Derived>>
    /\ Excuse({"cpu"})
----------------------------------------------------------------------------
(***************************************************************************)
(* The App controller.  An App is reconciled when it changed, 30 s after a *)
(* reconcile that failed, and again from time to time: here at any time.   *)
(***************************************************************************)
Sync(p) ==
    /\ cache[p] # apps[p]
    /\ cache' = [cache EXCEPT ![p] = apps[p]]
    /\ Free
    /\ UNCHANGED <<plan, catalog, apps, vols, job, held, quota, ingress, certs, excused>>

\* Addresses.Workspace: ten seconds have passed.
Expire ==
    /\ held # None
    /\ held' = None
    /\ Free
    /\ UNCHANGED <<plan, catalog, apps, vols, job, cache, quota, ingress, certs, excused>>

\* domains: the default host, then the custom ones.
Served(p, a) == {DefaultHost[p]} \cup a.hosts

\* reconcileQuota.
QuotaNow(p, l) == Hard(l)

\* Mutant: the rules are set when the Ingress is made, and never after.
RulesOnce(p, a) == IF ingress[p] = {} THEN Served(p, a) ELSE ingress[p]

\* mutateIngress.
Rules(p, a) == Served(p, a)

Taken(p, rules) == \E q \in Slugs \ {p} : ingress[q] \cap rules # {}

\* reconcile: the quota, the workloads, the Ingress, the certificates, by the
\* App of the cache and the plan that is remembered.  A size nobody knows and a
\* refused Ingress end it; it is made again after 30 s.
ReconcileBy(p, l) ==
    LET a == cache[p]
        rules == Rules(p, a)
    IN  /\ quota' = [quota EXCEPT ![p] = QuotaNow(p, l)]
        /\ \/ /\ ~a.deployed
              /\ Free /\ UNCHANGED <<ingress, certs>>
           \/ /\ a.deployed
              /\ a.size \notin catalog \/ Taken(p, rules)
              /\ Free /\ UNCHANGED <<ingress, certs>>
           \/ /\ a.deployed /\ a.size \in catalog /\ ~Taken(p, rules)
              /\ \/ /\ ingress' = [ingress EXCEPT ![p] = rules]
                    /\ certs' = [certs EXCEPT ![p] = Served(p, a)]
                    /\ Free
                 \/ /\ ingress' \in {ingress, [ingress EXCEPT ![p] = rules]}
                    /\ Fault /\ UNCHANGED certs

Reconcile(p) ==
    /\ cache[p] # None /\ apps[p] # None
    /\ ReconcileBy(p, IF held = None THEN plan ELSE held)
    /\ UNCHANGED <<plan, catalog, apps, vols, job, cache, held, excused>>

\* Addresses.Limits when the store does not answer: no plan, not remembered.
ReconcileUnplanned(p) ==
    /\ cache[p] # None /\ apps[p] # None /\ held = None
    /\ quota' = [quota EXCEPT ![p] = QuotaNow(p, NoPlan)]
    /\ Fault
    /\ UNCHANGED <<plan, catalog, apps, vols, job, cache, held, ingress, certs, excused>>

\* The server restarts: its requests are gone, every App is listed again.
Crash ==
    /\ Fault
    /\ job' = [h \in Handlers |-> Idle]
    /\ held' = None
    /\ cache' = apps
    /\ UNCHANGED <<plan, catalog, apps, vols, quota, ingress, certs, excused>>
----------------------------------------------------------------------------
ProjectsNext ==
    \/ \E h \in Handlers :
          \/ \E r \in Requests : Begin(h, r)
          \/ CheckCreate(h) \/ CheckApp(h) \/ CheckVolume(h)
          \/ Write(h) \/ WriteFails(h)
    \/ \E p \in Slugs :
          \/ Destroy(p) \/ RemoveVolume(p) \/ Expand(p)
          \/ Sync(p) \/ Reconcile(p) \/ ReconcileUnplanned(p)
    \/ \E l \in Plans : SetPlan(l)
    \/ \E c \in SUBSET Sizes : SetCatalog(c)
    \/ Expire
    \/ Crash

ProjectsSpec == ProjectsInit /\ [][ProjectsNext]_projectsVars

\* The controller's informer makes progress and every App is reconciled again; time passes.
FairProjectsSpec ==
    /\ ProjectsSpec
    /\ WF_projectsVars(Expire)
    /\ \A p \in Slugs :
          /\ WF_projectsVars(Sync(p))
          /\ WF_projectsVars(Reconcile(p))
----------------------------------------------------------------------------
(***************************************************************************)
(* A workspace is over its plan on an axis only for a reason: a change was *)
(* judged before another one was written, a read failed, the plan shrank,  *)
(* the catalog changed, or a project was created with a source, whose      *)
(* instances createApp does not judge.  Changes handled one at a time stay *)
(* under the plan (plan.go).                                               *)
(***************************************************************************)
OverForAReason == Beyond(plan, Usage(apps), Axes) \subseteq excused

\* The projects whose Ingress ought to have a host.
Claims(host) ==
    {p \in Existing(apps) : apps[p].deployed /\ host \in Served(p, apps[p])}

Settled ==
    /\ \A host \in Hosts : Cardinality(Claims(host)) <= 1
    /\ \A p \in Existing(apps) : apps[p].size \in catalog

\* Projects that each want a host another of them still serves: as an Ingress
\* is refused as a whole, none gives up what it serves.
Crossed ==
    \E ps \in SUBSET Existing(apps) \ {{}} :
        \A p \in ps : \E q \in ps \ {p} : ingress[q] \cap Served(p, apps[p]) # {}

(***************************************************************************)
(* Once no host is claimed twice, every size is known and no projects wait *)
(* for each other's hosts, each host is served, with a certificate, by the *)
(* project that claims it, also when it moved from another project, or a   *)
(* refused Ingress had made its App fail (domains.go, app_controller.go).  *)
(***************************************************************************)
EventuallyServed ==
    <>[](Settled /\ ~Crossed) =>
        \A p \in Slugs, host \in Hosts :
            <>[](p \in Claims(host)) => <>[](host \in ingress[p] /\ host \in certs[p])
=============================================================================
