------------------------------ MODULE Datastore ----------------------------
(***************************************************************************)
(* The data stores of projects.  Databases and their backups: the Postgres *)
(* controller                                                              *)
(* (internal/controller/postgres_controller.go, postgres_backups.go), the  *)
(* ObjectBucket controller (objectbucket_controller.go, pkg/objectstore),  *)
(* and `shpyrd pg` (pkg/ext/postgres).  Redis stores: redis_controller.go  *)
(* and `shpyrd redis` (pkg/ext/redis).  And the bindings that hand the     *)
(* credential of either to an app (bindings.go, pkg/api/resources.go).     *)
(*                                                                         *)
(* A controller works on what is in its queue: every watch puts an item    *)
(* there, and a result with RequeueAfter leaves it there.  A reconcile is  *)
(* one step that ends at the first obstacle, an error of the API server    *)
(* being one; everything else happens between two steps.  CloudNativePG,   *)
(* the garbage collector of Kubernetes and Garage are external.            *)
(*                                                                         *)
(* A dash in a name separates words: a project and a database are named by *)
(* the sequences of their words.                                           *)
(***************************************************************************)
EXTENDS Naturals, Sequences, FiniteSets, FiniteSetsExt

CONSTANTS
    Databases,    \* records [project, name]
    Home,         \* the project of the app
    Creations,    \* bound: the databases users create, records [db, backups, from]
    Caches,       \* the Redis stores of that project
    MaxChanges,   \* bound: changes of users
    MaxFaults,    \* bound: errors of the API server, outages of the store
    None

ASSUME DatabasesAssumption ==
    /\ \A d \in Databases : DOMAIN d = {"project", "name"}
    /\ Creations \subseteq [db : Databases, backups : BOOLEAN, from : Databases \cup {None}]
    /\ MaxChanges \in Nat /\ MaxFaults \in Nat
    /\ None \notin Databases /\ None \notin Nat
    /\ None \notin [keys : SUBSET Nat, archives : SUBSET Databases]
    /\ IsFiniteSet(Databases)
    /\ Databases \cap Caches = {}

VARIABLES
    pg,        \* the Postgres resources
    cluster,   \* the CNPG Clusters, with the credential of Secret <db>-app
    bucket,    \* the ObjectBuckets
    key,       \* the access keys in their Secrets
    store,     \* the Barman ObjectStores
    schedule,  \* the ScheduledBackups, and whether a backup of theirs completed
    garage,    \* the buckets in the object store: keys that open them, archives
    up,        \* the object store answers
    redis,     \* the Redis resources, by phase
    password,  \* the passwords in their Secrets
    server,    \* their StatefulSets, each with its Service
    bindings,  \* spec.bindings of the app
    rendered,  \* the app's bindings Secret
    queue,     \* the work queues of the four controllers
    changes, faults

redisVars == <<redis, password, server>>
vars == <<pg, cluster, bucket, key, store, schedule, garage, up, redisVars, bindings,
          rendered, queue, changes, faults>>

\* ObjectBucket.BucketName, without the words every name has.
BucketName(d) == d.project \o d.name

NoVars == [d \in {} |-> 0]

Init ==
    /\ pg = [d \in Databases |-> None]
    /\ cluster = [d \in Databases |-> None]
    /\ bucket = [d \in Databases |-> None]
    /\ key = [d \in Databases |-> None]
    /\ store = [d \in Databases |-> None]
    /\ schedule = [d \in Databases |-> None]
    /\ garage = [n \in {BucketName(d) : d \in Databases} |-> None]
    /\ up = TRUE
    /\ redis = [r \in Caches |-> None]
    /\ password = [r \in Caches |-> None]
    /\ server = [r \in Caches |-> None]
    /\ bindings = {}
    /\ rendered = NoVars
    /\ queue = [pg |-> {}, bucket |-> {}, redis |-> {}, app |-> FALSE]
    /\ changes = 0 /\ faults = 0

\* boundResourceToApps.
AppsOf(D) == bindings \cap D # {}

\* Events: databases P and buckets B to look at, databases D whose Postgres changed.
Enqueue(P, B, D) ==
    queue' = [queue EXCEPT !.pg = @ \cup P \cup D, !.bucket = @ \cup B,
                           !.app = @ \/ AppsOf(D)]

\* A Redis to look at.
EnqueueRedis(r) == queue' = [queue EXCEPT !.redis = @ \cup {r}]

\* A value no one holds yet.
Another(used) == CHOOSE v \in 1 .. (Cardinality(used) + 1) : v \notin used
----------------------------------------------------------------------------
Change == changes < MaxChanges /\ changes' = changes + 1 /\ UNCHANGED faults
Fault == faults < MaxFaults /\ faults' = faults + 1 /\ UNCHANGED changes
Free == UNCHANGED <<changes, faults>>

External == <<cluster, bucket, key, store, schedule, garage, up, redisVars>>

\* createResource, as the two commands below call it.
Create(d, backups, from) ==
    /\ [db |-> d, backups |-> backups, from |-> from] \in Creations
    /\ pg[d] = None
    /\ Change
    /\ pg' = [pg EXCEPT ![d] = [backups |-> backups, from |-> from,
                                phase |-> "none", last |-> FALSE]]
    /\ Enqueue({}, {}, {d})
    /\ UNCHANGED <<bindings, rendered, External>>

\* `pg create [--backups]`.
PgCreate(d, backups) == Create(d, backups, None)

\* `pg restore --as`: the source exists, in the same project.
PgRestore(d, from) ==
    /\ pg[from] # None /\ from.project = d.project /\ from # d
    /\ Create(d, FALSE, from)

\* `pg backups enable | disable`.
SwitchBackups(d) ==
    /\ pg[d] # None
    /\ Change
    /\ pg' = [pg EXCEPT ![d].backups = ~@]
    /\ Enqueue({}, {}, {d})
    /\ UNCHANGED <<bindings, rendered, External>>

\* deleteResource, with force or because nothing was attached when it looked.
Orphaned(f, d) == IF f[d] = None THEN f ELSE [f EXCEPT ![d].orphan = TRUE]
Delete(d) ==
    /\ pg[d] # None
    /\ Change
    /\ pg' = [pg EXCEPT ![d] = None]
    /\ cluster' = Orphaned(cluster, d)
    /\ bucket' = Orphaned(bucket, d)
    /\ store' = Orphaned(store, d)
    /\ schedule' = Orphaned(schedule, d)
    /\ Enqueue({}, {}, {d})
    /\ UNCHANGED <<key, garage, up, redisVars, bindings, rendered>>

\* `redis create`.
RedisCreate(r) ==
    /\ redis[r] = None
    /\ Change
    /\ redis' = [redis EXCEPT ![r] = "none"]
    /\ queue' = [queue EXCEPT !.redis = @ \cup {r}, !.app = @ \/ AppsOf({r})]
    /\ UNCHANGED <<pg, cluster, bucket, key, store, schedule, garage, up, password, server,
                   bindings, rendered>>

\* `redis delete`, with --force or because nothing was attached when it looked.
RedisDelete(r) ==
    /\ redis[r] # None
    /\ Change
    /\ redis' = [redis EXCEPT ![r] = None]
    /\ password' = Orphaned(password, r)
    /\ server' = Orphaned(server, r)
    /\ queue' = [queue EXCEPT !.redis = @ \cup {r}, !.app = @ \/ AppsOf({r})]
    /\ UNCHANGED <<pg, cluster, bucket, key, store, schedule, garage, up, bindings, rendered>>

\* What the app can be bound to.
There(x) == IF x \in Caches THEN redis[x] # None ELSE x.project = Home /\ pg[x] # None

\* attachResource; the resource may go between its look and its write.
Attach(x) ==
    /\ There(x) /\ x \notin bindings
    /\ Change
    /\ bindings' = bindings \cup {x}
    /\ queue' = [queue EXCEPT !.app = TRUE]
    /\ UNCHANGED <<pg, rendered, External>>

Detach(x) ==
    /\ x \in bindings
    /\ Change
    /\ bindings' = bindings \ {x}
    /\ queue' = [queue EXCEPT !.app = TRUE]
    /\ UNCHANGED <<pg, rendered, External>>
----------------------------------------------------------------------------
(***************************************************************************)
(* The Postgres controller.                                                *)
(***************************************************************************)
\* checkRecoverySource: what stands in the way of a restore from s.
Restorable(s) ==
    IF pg[s] = None THEN store[s] # None ELSE pg[s].backups /\ pg[s].last

\* A base backup of d is in its bucket.
Archived(d) == garage[BucketName(d)] # None /\ d \in garage[BucketName(d)].archives

\* AlreadyOwned: the object still belongs to a deleted database of that name.
Owned(f, d) == f[d] # None /\ f[d].orphan

\* Mutant: the cluster waits for a first base backup.
ObstacleBackup(d, step) ==
    \/ pg[d].backups /\ CASE step = 1 -> Owned(bucket, d)
                          [] step = 2 -> bucket[d] = None \/ bucket[d].phase # "Ready"
                          [] step = 3 -> Owned(store, d)
                          [] step = 4 -> Owned(schedule, d)
                          [] step = 6 -> ~Archived(d)
                          [] OTHER -> FALSE
    \/ step = 5 /\ pg[d].from # None /\ ~Restorable(pg[d].from)

\* reconcileBackups: bucket, its phase, store, schedule; then the source, the cluster.
Obstacle(d, step) ==
    \/ pg[d].backups /\ CASE step = 1 -> Owned(bucket, d)
                          [] step = 2 -> bucket[d] = None \/ bucket[d].phase # "Ready"
                          [] step = 3 -> Owned(store, d)
                          [] step = 4 -> Owned(schedule, d)
                          [] OTHER -> FALSE
    \/ step = 5 /\ pg[d].from # None /\ ~Restorable(pg[d].from)

\* Where a reconcile ends: at an obstacle, at an error of the API server, or past both.
End(d, error) == Min({s \in 1..6 : Obstacle(d, s)} \cup {error})

\* The phase when it got to the end.
Phase(d, c) == IF c # None /\ c.ready THEN "Ready" ELSE "Provisioning"

\* Mutant: the bucket goes with the schedule.
BucketsDropped(d, end) ==
    CASE pg[d].backups /\ end > 1 /\ bucket[d] = None ->
            [bucket EXCEPT ![d] = [phase |-> "Pending", orphan |-> FALSE,
                                   finalizer |-> FALSE, deleting |-> FALSE]]
      [] ~pg[d].backups /\ end > 4 /\ bucket[d] # None -> [bucket EXCEPT ![d].deleting = TRUE]
      [] OTHER -> bucket

\* The bucket of a database with backups; it stays when they are switched off.
Buckets(d, end) ==
    IF pg[d].backups /\ end > 1 /\ bucket[d] = None
    THEN [bucket EXCEPT ![d] = [phase |-> "Pending", orphan |-> FALSE,
                                finalizer |-> FALSE, deleting |-> FALSE]]
    ELSE bucket

\* The Cluster it creates, and what it makes of one that is there.
NewCluster(p) == [cred |-> 0, ready |-> FALSE, from |-> p.from, plugin |-> p.backups,
                  orphan |-> FALSE]
UpdatedCluster(c, p) == [c EXCEPT !.plugin = p.backups]

\* backupStatus: there is a backup to recover from; a list that fails says none.
Recoverable(p, listed, s) == p.backups /\ listed /\ s # None /\ s.done

\* One reconcile: an error at step error (7: none), the Backups listed or not.
ReconcilePostgres(d, error, listed) ==
    /\ d \in queue.pg
    /\ LET p == pg[d]
           end == End(d, error)
           made(f, step, new) == IF p.backups /\ end > step /\ f[d] = None
                                 THEN [f EXCEPT ![d] = new] ELSE f
           status == CASE end = 7 -> [p EXCEPT !.phase = Phase(d, cluster'[d]),
                                               !.last = Recoverable(p, listed, schedule'[d])]
                       [] end = 2 /\ Obstacle(d, 2) -> [p EXCEPT !.phase = "Provisioning"]
                       [] OTHER -> [p EXCEPT !.phase = "Failed"]
       IN  /\ IF error < 7 \/ ~listed THEN Fault ELSE Free
           /\ IF p = None
              THEN /\ queue' = [queue EXCEPT !.pg = @ \ {d}]
                   /\ error = 7 /\ listed
                   /\ UNCHANGED <<pg, cluster, bucket, store, schedule>>
              ELSE /\ bucket' = Buckets(d, end)
                   /\ store' = made(store, 3, [orphan |-> FALSE])
                   /\ schedule' = IF ~p.backups /\ end > 4 THEN [schedule EXCEPT ![d] = None]
                                  ELSE made(schedule, 4, [orphan |-> FALSE, done |-> FALSE])
                   /\ cluster' =
                       IF end < 7 THEN cluster
                       ELSE [cluster EXCEPT ![d] =
                               IF @ = None THEN NewCluster(p) ELSE UpdatedCluster(@, p)]
                   /\ pg' = [pg EXCEPT ![d] = status]
                   /\ LET again == \/ status # p \/ status.phase # "Ready" \/ p.backups
                                   \/ cluster' # cluster
                      IN  queue' = [queue EXCEPT
                                      !.pg = IF again THEN @ ELSE @ \ {d},
                                      !.bucket = @ \cup (IF bucket' # bucket THEN {d} ELSE {}),
                                      !.app = @ \/ (status # p /\ AppsOf({d}))]
    /\ UNCHANGED <<key, garage, up, redisVars, bindings, rendered>>
----------------------------------------------------------------------------
(***************************************************************************)
(* The ObjectBucket controller, on a store it is connected to.             *)
(***************************************************************************)
\* Mutant: a pair that is given is taken to be there.
EnsureUserGiven(b, given, k) == IF given # None THEN b ELSE [b EXCEPT !.keys = @ \cup {k}]

\* Store.EnsureUser: the pair of the Secret kept, imported again when lost, or a new one.
EnsureUser(b, given, k) == [b EXCEPT !.keys = @ \cup {k}]

\* Store.EnsureBucket.
EnsureBucket(b) == IF b = None THEN [keys |-> {}, archives |-> {}] ELSE b

Unreachable(d) ==
    /\ ~up
    /\ bucket' = IF bucket[d].deleting THEN bucket ELSE [bucket EXCEPT ![d].phase = "Failed"]
    /\ UNCHANGED <<key, garage>>

\* The keys the object store and the Secrets hold.
StoredKeys == UNION {garage[n].keys : n \in {m \in DOMAIN garage : garage[m] # None}}
SecretKeys == {key[e].id : e \in {x \in Databases : key[x] # None}}

\* A Secret that cannot be read is taken for none: a new pair is made.
Provide(d, read, written) ==
    /\ up /\ ~bucket[d].deleting
    /\ LET given == IF read /\ key[d] # None THEN key[d].id ELSE None
           k == IF given # None THEN given ELSE Another(StoredKeys \cup SecretKeys)
       IN  /\ garage' = [garage EXCEPT ![BucketName(d)] = EnsureUser(EnsureBucket(@), given, k)]
           /\ key' = IF written THEN [key EXCEPT ![d] = [id |-> k, orphan |-> FALSE]] ELSE key
           /\ bucket' = [bucket EXCEPT ![d].finalizer = TRUE,
                                       ![d].phase = IF written THEN "Ready" ELSE "Failed"]

\* Store.DeleteUser: a key opens no bucket any more.
DeleteUser(b, gone) == IF b = None THEN None ELSE [b EXCEPT !.keys = @ \ gone]

\* Store.DeleteBucket: its objects, and then itself.
DeleteBucket(buckets, d) == [buckets EXCEPT ![BucketName(d)] = None]

\* cleanup: the user, then the bucket with its objects, then the finalizer.
Remove(d, read, emptied) ==
    /\ up /\ bucket[d].deleting
    /\ LET gone == IF read /\ key[d] # None THEN {key[d].id} ELSE {}
           without == [n \in DOMAIN garage |-> DeleteUser(garage[n], gone)]
       IN  /\ garage' = IF emptied THEN DeleteBucket(without, d) ELSE without
           /\ bucket' = IF emptied THEN [bucket EXCEPT ![d] = None] ELSE bucket
           /\ key' = IF emptied /\ key[d] # None THEN [key EXCEPT ![d].orphan = TRUE] ELSE key

ReconcileBucket(d, read, done) ==
    /\ d \in queue.bucket
    /\ IF read /\ done THEN Free ELSE Fault
    /\ \/ bucket[d] = None /\ read /\ done /\ UNCHANGED <<bucket, key, garage>>
       \/ bucket[d] # None /\ read /\ done /\ Unreachable(d)
       \/ bucket[d] # None /\ Provide(d, read, done)
       \/ bucket[d] # None /\ Remove(d, read, done)
    /\ queue' = [queue EXCEPT !.bucket = IF bucket'[d] = None THEN @ \ {d} ELSE @,
                              !.pg = IF bucket' # bucket THEN @ \cup {d} ELSE @]
    /\ UNCHANGED <<pg, cluster, store, schedule, up, redisVars, bindings, rendered>>
----------------------------------------------------------------------------
(***************************************************************************)
(* The Redis controller.                                                   *)
(***************************************************************************)
\* The password Secret, made once; then the Service and the StatefulSet.  The
\* objects of a deleted store of that name are in the way (AlreadyOwned).
RedisObstacle(r, step) ==
    CASE step = 1 -> Owned(password, r)
      [] step = 2 -> Owned(server, r)
      [] OTHER -> FALSE

\* A new password, also when the one of a deleted store was collected.
Password(r) ==
    [value |-> Another({password[x].value : x \in {y \in Caches : password[y] # None}} \cup
                       {server[x].password : x \in {y \in Caches : server[y] # None}} \cup
                       {rendered[x] : x \in DOMAIN rendered \cap Caches}),
     orphan |-> FALSE]

\* podTemplate: the password is in the environment of the pods that start.
NewServer == [password |-> 0, orphan |-> FALSE]

RedisPhase(r) == IF server'[r].password # 0 THEN "Ready" ELSE "Provisioning"

\* One reconcile: an error at step error (3: none).
ReconcileRedis(r, error) ==
    /\ r \in queue.redis
    /\ IF error < 3 THEN Fault ELSE Free
    /\ LET end == Min({s \in 1..2 : RedisObstacle(r, s)} \cup {error})
           made(f, step, new) == IF end > step /\ f[r] = None THEN [f EXCEPT ![r] = new] ELSE f
           status == IF end < 3 THEN "Failed" ELSE RedisPhase(r)
       IN  IF redis[r] = None
           THEN /\ error = 3
                /\ queue' = [queue EXCEPT !.redis = @ \ {r}]
                /\ UNCHANGED redisVars
           ELSE /\ password' = made(password, 1, Password(r))
                /\ server' = made(server, 2, NewServer)
                /\ redis' = [redis EXCEPT ![r] = status]
                /\ LET again == \/ status # "Ready" \/ status # redis[r]
                                \/ password' # password \/ server' # server
                   IN  queue' = [queue EXCEPT !.redis = IF again THEN @ ELSE @ \ {r},
                                              !.app = @ \/ (status # redis[r] /\ AppsOf({r}))]
    /\ UNCHANGED <<pg, cluster, bucket, key, store, schedule, garage, up, bindings, rendered>>
----------------------------------------------------------------------------
(***************************************************************************)
(* Bindings.                                                               *)
(***************************************************************************)
\* PostgresBinder.ConfigVars and RedisBinder.ConfigVars give variables.
ServesDatabase(d) ==
    pg[d] # None /\ pg[d].phase = "Ready" /\ cluster[d] # None /\ cluster[d].cred # 0
ServesRedis(r) == redis[r] = "Ready" /\ password[r] # None
Serves(x) == IF x \in Caches THEN ServesRedis(x) ELSE ServesDatabase(x)

Credential(x) == IF x \in Caches THEN password[x].value ELSE cluster[x].cred

\* reconcileBindings: every binding resolves, or the Secret stays as it is.
ReconcileApp ==
    /\ queue.app
    /\ LET whole == \A x \in bindings : Serves(x)
       IN  /\ rendered' = IF whole THEN [x \in bindings |-> Credential(x)] ELSE rendered
           /\ queue' = [queue EXCEPT !.app = ~whole]
    /\ Free
    /\ UNCHANGED <<pg, bindings, External>>
----------------------------------------------------------------------------
(***************************************************************************)
(* Kubernetes: what a deleted owner leaves is deleted, in any order.       *)
(***************************************************************************)
Dropped(f, d) == [f EXCEPT ![d] = None]

CollectBucket(d) ==
    /\ Owned(bucket, d) /\ ~bucket[d].deleting
    /\ bucket' = IF bucket[d].finalizer THEN [bucket EXCEPT ![d].deleting = TRUE]
                                        ELSE Dropped(bucket, d)
    /\ Enqueue({d}, {d}, {})
    /\ UNCHANGED <<cluster, key, store, schedule>>

Collect(d) ==
    /\ \/ CollectBucket(d)
       \/ /\ Owned(cluster, d) /\ cluster' = Dropped(cluster, d) /\ Enqueue({d}, {}, {})
          /\ UNCHANGED <<bucket, key, store, schedule>>
       \/ /\ Owned(store, d) \/ Owned(schedule, d)
          /\ store' = IF Owned(store, d) THEN Dropped(store, d) ELSE store
          /\ schedule' = IF Owned(schedule, d) THEN Dropped(schedule, d) ELSE schedule
          /\ Enqueue({d}, {}, {})
          /\ UNCHANGED <<cluster, bucket, key>>
       \/ /\ Owned(key, d) /\ key' = Dropped(key, d) /\ Enqueue({}, {d}, {})
          /\ UNCHANGED <<cluster, bucket, store, schedule>>
    /\ Free
    /\ UNCHANGED <<pg, garage, up, redisVars, bindings, rendered>>

CollectRedis(r) ==
    /\ \/ Owned(password, r) /\ password' = Dropped(password, r) /\ UNCHANGED server
       \/ Owned(server, r) /\ server' = Dropped(server, r) /\ UNCHANGED password
    /\ EnqueueRedis(r)
    /\ Free
    /\ UNCHANGED <<pg, cluster, bucket, key, store, schedule, garage, up, redis, bindings, rendered>>

\* A pod of the StatefulSet starts, with the password of the Secret as it is now.
RedisStarts(r) ==
    /\ server[r] # None /\ server[r].password = 0 /\ password[r] # None
    /\ server' = [server EXCEPT ![r].password = password[r].value]
    /\ EnqueueRedis(r)
    /\ Free
    /\ UNCHANGED <<pg, cluster, bucket, key, store, schedule, garage, up, redis, password,
                   bindings, rendered>>

(***************************************************************************)
(* CloudNativePG: a cluster comes up with a credential of its own, from    *)
(* the archive it recovers; a base backup goes where the store points.     *)
(***************************************************************************)
ComesUp(d) ==
    /\ cluster[d] # None /\ ~cluster[d].ready
    /\ cluster[d].from # None => store[cluster[d].from] # None /\ Archived(cluster[d].from)
    /\ LET c == Another({rendered[e] : e \in DOMAIN rendered \cap Databases} \cup
                        {cluster[e].cred : e \in {x \in Databases : cluster[x] # None}})
       IN  cluster' = [cluster EXCEPT ![d].ready = TRUE, ![d].cred = c]
    /\ Enqueue({d}, {}, {})
    /\ Free
    /\ UNCHANGED <<pg, bucket, key, store, schedule, garage, up, redisVars, bindings, rendered>>

BaseBackup(d) ==
    /\ up /\ schedule[d] # None /\ ~schedule[d].done /\ store[d] # None
    /\ cluster[d] # None /\ cluster[d].ready /\ cluster[d].plugin
    /\ key[d] # None /\ garage[BucketName(d)] # None /\ key[d].id \in garage[BucketName(d)].keys
    /\ garage' = [garage EXCEPT ![BucketName(d)].archives = @ \cup {d}]
    /\ schedule' = [schedule EXCEPT ![d].done = TRUE]
    /\ Enqueue({d}, {}, {})
    /\ Free
    /\ UNCHANGED <<pg, cluster, bucket, key, store, up, redisVars, bindings, rendered>>

\* The object store stops answering, and answers again.
Outage ==
    /\ up /\ up' = FALSE /\ Fault
    /\ UNCHANGED <<pg, cluster, bucket, key, store, schedule, garage, redisVars, bindings, rendered,
                   queue>>
Answers ==
    /\ ~up /\ up' = TRUE /\ Free
    /\ UNCHANGED <<pg, cluster, bucket, key, store, schedule, garage, redisVars, bindings, rendered,
                   queue>>
----------------------------------------------------------------------------
Next ==
    \/ \E d \in Databases :
        \/ \E backups \in BOOLEAN : PgCreate(d, backups)
        \/ \E from \in Databases : PgRestore(d, from)
        \/ SwitchBackups(d) \/ Delete(d)
        \/ \E error \in {1, 4, 6} : ReconcilePostgres(d, error, TRUE)
        \/ \E listed \in BOOLEAN : ReconcilePostgres(d, 7, listed)
        \/ \E read, done \in BOOLEAN : ReconcileBucket(d, read, done)
        \/ Collect(d) \/ ComesUp(d) \/ BaseBackup(d)
    \/ \E r \in Caches :
        \/ RedisCreate(r) \/ RedisDelete(r)
        \/ \E error \in 1..3 : ReconcileRedis(r, error)
        \/ CollectRedis(r) \/ RedisStarts(r)
    \/ \E x \in Databases \cup Caches : Attach(x) \/ Detach(x)
    \/ ReconcileApp \/ Outage \/ Answers

Spec == Init /\ [][Next]_vars

(***************************************************************************)
(* Controllers work off their queues, Kubernetes collects, CloudNativePG   *)
(* starts and backs up, pods start, and an outage of the object store ends. *)
(***************************************************************************)
FairSpec ==
    /\ Spec
    /\ \A d \in Databases :
        /\ WF_vars(ReconcilePostgres(d, 7, TRUE)) /\ WF_vars(ReconcileBucket(d, TRUE, TRUE))
        /\ WF_vars(Collect(d)) /\ WF_vars(ComesUp(d)) /\ WF_vars(BaseBackup(d))
    /\ \A r \in Caches :
        WF_vars(ReconcileRedis(r, 3)) /\ WF_vars(CollectRedis(r)) /\ WF_vars(RedisStarts(r))
    /\ WF_vars(ReconcileApp) /\ WF_vars(Answers)
----------------------------------------------------------------------------
(***************************************************************************)
(* A credential Secret works: while an ObjectBucket is Ready, the access   *)
(* key in its Secret opens its bucket in the object store, whether the     *)
(* Secret could not be read, could not be written, was left by a deleted   *)
(* database of that name, or the store was away (Store.EnsureUser keeps    *)
(* the pair, "re-imported if the store lost it").                          *)
(***************************************************************************)
KeyOpensBucket ==
    \A d \in Databases :
        bucket[d] # None /\ bucket[d].phase = "Ready" /\ ~bucket[d].deleting /\ key[d] # None =>
            /\ garage[BucketName(d)] # None
            /\ key[d].id \in garage[BucketName(d)].keys

(***************************************************************************)
(* "the bucket stays with its data until the database is deleted"          *)
(* (reconcileBackups): no step takes the archive of a database away, but   *)
(* the cleanup of a bucket whose database was deleted.                     *)
(***************************************************************************)
ArchiveKept ==
    [][\A d \in Databases :
        Archived(d) /\ ~Archived(d)' => pg[d] = None \/ Owned(bucket, d)]_vars

(***************************************************************************)
(* Apps end up with the stores that are there: once changes and faults     *)
(* end, if everything the app is bound to exists and can be served, the    *)
(* bindings Secret holds exactly the credentials that open them, also when *)
(* one was deleted and created again while its first cluster or server was *)
(* still up (reconcileBindings, boundResourceToApps, PostgresReconciler,   *)
(* RedisReconciler).                                                       *)
(***************************************************************************)
Servable(x) ==
    There(x) /\ (x \in Databases /\ pg[x].from # None => Restorable(pg[x].from))
Opens(x, credential) ==
    IF x \in Caches THEN server[x] # None /\ server[x].password = credential
    ELSE cluster[x] # None /\ cluster[x].cred = credential

EventuallyBound ==
    <>[]((\A x \in bindings : Servable(x))
            => /\ DOMAIN rendered = bindings
               /\ \A x \in bindings : Opens(x, rendered[x]))

============================================================================
