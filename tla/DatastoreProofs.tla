--------------------------- MODULE DatastoreProofs -------------------------
(***************************************************************************)
(* What Datastore promises for any databases, creations and bounds: a      *)
(* Ready bucket opens with the key in its Secret, and archives are not     *)
(* lost.  Both need databases that do not share a bucket: project a-b's    *)
(* database c and project a's database b-c do, since BucketName joins the  *)
(* names with a dash (objectbucket_types.go).                              *)
(***************************************************************************)
EXTENDS Datastore, FiniteSetTheorems, TLAPS

OwnBuckets == \A d, e \in Databases : BucketName(d) = BucketName(e) => d = e

Names == {BucketName(d) : d \in Databases}
Buckets0 == [phase : {"Pending", "Ready", "Failed"}, orphan : BOOLEAN,
             finalizer : BOOLEAN, deleting : BOOLEAN]
Keys == [id : Nat, orphan : BOOLEAN]
Stored == [keys : SUBSET Nat, archives : SUBSET Databases]

\* What is there is well formed, and the keys are finitely many.
TypeInv ==
    /\ bucket = [d \in Databases |-> bucket[d]]
    /\ key = [d \in Databases |-> key[d]]
    /\ garage = [n \in Names |-> garage[n]]
    /\ \A d \in Databases : bucket[d] # None => bucket[d] \in Buckets0
    /\ \A d \in Databases : key[d] # None => key[d] \in Keys
    /\ \A n \in Names : garage[n] # None => garage[n] \in Stored /\ IsFiniteSet(garage[n].keys)

\* No two Secrets hold the same key: deleting a user takes no other's away.
KeysDiffer ==
    \A d, e \in Databases :
        d # e /\ key[d] # None /\ key[e] # None => key[d].id # key[e].id

\* Only buckets whose database was deleted are cleaned up.
DeletingIsOwned ==
    \A d \in Databases : bucket[d] # None /\ bucket[d].deleting => bucket[d].orphan

Inv == TypeInv /\ KeysDiffer /\ DeletingIsOwned /\ KeyOpensBucket

----------------------------------------------------------------------------
LEMMA ImageFinite ==
    ASSUME NEW S, IsFiniteSet(S), NEW f
    PROVE  IsFiniteSet({f[x] : x \in S})
  <1> DEFINE T == {f[x] : x \in S}
             g == [x \in S |-> f[x]]
  <1>1. g \in Surjection(S, T)
    BY DEF Surjection
  <1> HIDE DEF T, g
  <1> QED BY <1>1, FS_Surjection DEF T

\* Another finds a value: more candidates than values that are used.
LEMMA AnotherIsNew ==
    ASSUME NEW used, IsFiniteSet(used)
    PROVE  Another(used) \in Nat /\ Another(used) \notin used
  <1> DEFINE n == Cardinality(used)
             T == 1 .. (n + 1)
  <1>1. n \in Nat
    BY FS_CardinalityType
  <1>2. IsFiniteSet(T) /\ Cardinality(T) = n + 1
    <2>1. 1 \in Int /\ n + 1 \in Int /\ ~(1 > n + 1)
      BY <1>1
    <2>2. IsFiniteSet(T) /\ Cardinality(T) = (n + 1) - 1 + 1
      BY <2>1, FS_Interval
    <2> QED BY <1>1, <2>2
  <1>3. \E v \in T : v \notin used
    <2> SUFFICES ASSUME T \in SUBSET used PROVE FALSE
      OBVIOUS
    <2> HIDE DEF T, n
    <2>1. Cardinality(T) <= Cardinality(used)
      BY FS_Subset
    <2> QED BY <1>1, <1>2, <2>1 DEF n
  <1>4. Another(used) \in T /\ Another(used) \notin used
    BY <1>3 DEF Another
  <1> QED BY <1>1, <1>4

Known == StoredKeys \cup SecretKeys

LEMMA KnownFinite ==
    ASSUME TypeInv
    PROVE  IsFiniteSet(Known)
  <1>1. IsFiniteSet(Databases)
    BY DatabasesAssumption
  <1>2. IsFiniteSet(Names)
    <2> DEFINE f == [d \in Databases |-> BucketName(d)]
    <2>1. Names = {f[d] : d \in Databases}
      BY DEF Names
    <2> HIDE DEF f
    <2> QED BY <1>1, <2>1, ImageFinite
  <1> DEFINE M == {m \in DOMAIN garage : garage[m] # None}
             E == {x \in Databases : key[x] # None}
             g == [n \in M |-> garage[n].keys]
             h == [e \in E |-> key[e].id]
  <1>3. M \in SUBSET Names /\ E \in SUBSET Databases
    BY DEF TypeInv
  <1>4. IsFiniteSet(M) /\ IsFiniteSet(E)
    BY <1>1, <1>2, <1>3, FS_Subset
  <1>5. \A n \in M : IsFiniteSet(g[n])
    BY <1>3 DEF TypeInv
  <1>6. StoredKeys = UNION {g[n] : n \in M} /\ SecretKeys = {h[e] : e \in E}
    BY DEF StoredKeys, SecretKeys
  <1> HIDE DEF M, E, g, h
  <1>7. IsFiniteSet({g[n] : n \in M}) /\ IsFiniteSet({h[e] : e \in E})
    BY <1>4, ImageFinite
  <1>8. \A T \in {g[n] : n \in M} : IsFiniteSet(T)
    BY <1>5
  <1>9. IsFiniteSet(UNION {g[n] : n \in M})
    BY <1>7, <1>8, FS_UNION
  <1>10. IsFiniteSet(StoredKeys) /\ IsFiniteSet(SecretKeys)
    BY <1>6, <1>7, <1>9
  <1> QED BY <1>10, FS_Union DEF Known
----------------------------------------------------------------------------
LEMMA InitInv == Init => Inv
  <1> SUFFICES ASSUME Init PROVE Inv
    OBVIOUS
  <1>1. TypeInv
    BY DEF Init, TypeInv, Names
  <1>2. KeysDiffer /\ DeletingIsOwned /\ KeyOpensBucket
    BY DEF Init, KeysDiffer, DeletingIsOwned, KeyOpensBucket
  <1> QED BY <1>1, <1>2 DEF Inv

\* A step that leaves keys and the object store alone and puts no bucket
\* forward.
LEMMA BucketsOnly ==
    ASSUME Inv, UNCHANGED <<key, garage>>, bucket' = [d \in Databases |-> bucket'[d]],
           \A d \in Databases :
               \/ bucket'[d] = bucket[d]
               \/ /\ bucket'[d] # None => /\ bucket'[d] \in Buckets0
                                          /\ bucket'[d].deleting => bucket'[d].orphan
                                          /\ \/ bucket'[d].phase # "Ready"
                                             \/ bucket'[d].deleting
                                             \/ /\ bucket[d] # None /\ ~bucket[d].deleting
                                                /\ bucket[d].phase = "Ready"
    PROVE  Inv'
  <1>1. TypeInv'
    BY DEF Inv, TypeInv
  <1>2. KeysDiffer'
    BY DEF Inv, KeysDiffer
  <1>3. DeletingIsOwned'
    BY DEF Inv, DeletingIsOwned
  <1>4. KeyOpensBucket'
    BY DEF Inv, KeyOpensBucket
  <1> QED BY <1>1, <1>2, <1>3, <1>4 DEF Inv

LEMMA Stays ==
    ASSUME Inv, UNCHANGED <<bucket, key, garage>>
    PROVE  Inv'
  BY BucketsOnly DEF Inv, TypeInv

LEMMA DeleteInv ==
    ASSUME Inv, NEW d \in Databases, Delete(d)
    PROVE  Inv'
  <1>1. bucket' = Orphaned(bucket, d) /\ UNCHANGED <<key, garage>>
    BY DEF Delete
  <1>2. CASE bucket[d] = None
    BY <1>1, <1>2, Stays DEF Orphaned
  <1>3. CASE bucket[d] # None
    <2>1. bucket' = [bucket EXCEPT ![d].orphan = TRUE] /\ bucket[d] \in Buckets0
      BY <1>1, <1>3 DEF Orphaned, Inv, TypeInv
    <2>2. [bucket[d] EXCEPT !.orphan = TRUE] \in Buckets0
          /\ \A e \in Databases : bucket'[e] = IF e = d THEN [bucket[d] EXCEPT !.orphan = TRUE]
                                               ELSE bucket[e]
      BY <2>1 DEF Buckets0, Inv, TypeInv
    <2>3. bucket' = [e \in Databases |-> bucket'[e]]
      BY <2>1 DEF Inv, TypeInv
    <2>4. /\ [bucket[d] EXCEPT !.orphan = TRUE].orphan
          /\ [bucket[d] EXCEPT !.orphan = TRUE].phase = bucket[d].phase
          /\ [bucket[d] EXCEPT !.orphan = TRUE].deleting = bucket[d].deleting
      BY <2>1 DEF Buckets0
    <2> QED BY <1>1, <1>3, <2>2, <2>3, <2>4, BucketsOnly
  <1> QED BY <1>2, <1>3

LEMMA ReconcilePostgresInv ==
    ASSUME Inv, NEW d \in Databases, NEW error, NEW listed, ReconcilePostgres(d, error, listed)
    PROVE  Inv'
  <1>1. /\ bucket' = bucket \/ \E end : bucket' = Buckets(d, end)
        /\ UNCHANGED <<key, garage>>
    BY DEF ReconcilePostgres
  <1> DEFINE new == [phase |-> "Pending", orphan |-> FALSE, finalizer |-> FALSE, deleting |-> FALSE]
  <1>2. bucket' = bucket \/ bucket' = [bucket EXCEPT ![d] = new]
    BY <1>1 DEF Buckets
  <1>3. new \in Buckets0 /\ new.phase = "Pending" /\ ~new.deleting
    BY DEF Buckets0
  <1> HIDE DEF new
  <1> QED BY <1>1, <1>2, <1>3, BucketsOnly DEF Inv, TypeInv

LEMMA CollectInv ==
    ASSUME Inv, NEW d \in Databases, Collect(d)
    PROVE  Inv'
  <1>1. UNCHANGED garage
    BY DEF Collect
  <1>2. CASE CollectBucket(d)
    <2>1. UNCHANGED key /\ bucket[d] # None /\ bucket[d].orphan /\ bucket[d] \in Buckets0
      BY <1>2 DEF CollectBucket, Owned, Inv, TypeInv
    <2>2. bucket' = [bucket EXCEPT ![d].deleting = TRUE] \/ bucket' = [bucket EXCEPT ![d] = None]
      BY <1>2 DEF CollectBucket, Dropped
    <2> DEFINE new == [bucket[d] EXCEPT !.deleting = TRUE]
    <2>3. new \in Buckets0 /\ new.deleting /\ new.orphan
      BY <2>1 DEF Buckets0
    <2>4. bucket' = [bucket EXCEPT ![d] = new] \/ bucket' = [bucket EXCEPT ![d] = None]
      BY <2>2
    <2> HIDE DEF new
    <2> QED BY <1>1, <2>1, <2>3, <2>4, BucketsOnly DEF Inv, TypeInv
  <1>3. CASE UNCHANGED <<bucket, key>>
    BY <1>1, <1>3, Stays
  <1>4. CASE key' = Dropped(key, d) /\ UNCHANGED bucket
    <2>1. key' = [key EXCEPT ![d] = None]
      BY <1>4 DEF Dropped
    <2> QED BY <1>1, <1>4, <2>1 DEF Inv, TypeInv, KeysDiffer, DeletingIsOwned, KeyOpensBucket
  <1> QED BY <1>2, <1>3, <1>4 DEF Collect

LEMMA BaseBackupInv ==
    ASSUME Inv, NEW d \in Databases, BaseBackup(d)
    PROVE  Inv'
  <1> DEFINE n == BucketName(d)
             new == [garage[n] EXCEPT !.archives = @ \cup {d}]
  <1>1. /\ garage' = [garage EXCEPT ![n] = new] /\ garage[n] # None
        /\ UNCHANGED <<bucket, key>>
    BY DEF BaseBackup
  <1>2. n \in Names /\ garage[n] \in Stored /\ IsFiniteSet(garage[n].keys)
    BY <1>1 DEF Names, Inv, TypeInv
  <1>3. new \in Stored /\ new.keys = garage[n].keys
    BY <1>2 DEF Stored
  <1>4. TypeInv'
    <2> HIDE DEF n, new
    <2> QED BY <1>1, <1>2, <1>3 DEF Inv, TypeInv
  <1>5. KeyOpensBucket'
    <2>1. new # None
      BY <1>3, DatabasesAssumption DEF Stored
    <2> HIDE DEF n, new
    <2> QED BY <1>1, <1>2, <1>3, <2>1 DEF Inv, KeyOpensBucket, TypeInv, Names
  <1>6. KeysDiffer' /\ DeletingIsOwned'
    BY <1>1 DEF Inv, KeysDiffer, DeletingIsOwned
  <1> QED BY <1>4, <1>5, <1>6 DEF Inv
\* What a reconcile puts in the object store and in the Secret: a key no other
\* Secret has, that opens the bucket.
Provides(d, done, k, stored, record, secret) ==
    /\ garage' = [garage EXCEPT ![BucketName(d)] = stored]
    /\ key' = IF done THEN [key EXCEPT ![d] = secret] ELSE key
    /\ bucket' = [bucket EXCEPT ![d] = record] /\ (record.phase = "Ready" => done)
    /\ record \in Buckets0 /\ ~record.deleting
    /\ secret \in Keys /\ secret.id = k
    /\ \A e \in Databases : e # d /\ key[e] # None => key[e].id # k
    /\ stored \in Stored /\ IsFiniteSet(stored.keys) /\ k \in stored.keys /\ stored # None
    /\ garage[BucketName(d)] # None => stored.archives = garage[BucketName(d)].archives

LEMMA ProvideFacts ==
    ASSUME Inv, NEW d \in Databases, NEW read, NEW done, bucket[d] # None, Provide(d, read, done)
    PROVE  \E k, stored, record, secret : Provides(d, done, k, stored, record, secret)
  <1> DEFINE n == BucketName(d)
  <1>0. n \in Names
    BY DEF Names
  <1> DEFINE given == IF read /\ key[d] # None THEN key[d].id ELSE None
             k == IF given # None THEN given ELSE Another(Known)
             stored == EnsureUser(EnsureBucket(garage[n]), given, k)
             row == [bucket[d] EXCEPT !.finalizer = TRUE, !.phase = IF done THEN "Ready" ELSE "Failed"]
             secret == [id |-> k, orphan |-> FALSE]
  <1>1. /\ garage' = [garage EXCEPT ![n] = stored]
        /\ key' = IF done THEN [key EXCEPT ![d] = secret] ELSE key
        /\ bucket' = [bucket EXCEPT ![d].finalizer = TRUE,
                                    ![d].phase = IF done THEN "Ready" ELSE "Failed"]
        /\ ~bucket[d].deleting
    BY DEF Provide, Known
  <1>2. /\ k \in Nat
        /\ \A e \in Databases : e # d /\ key[e] # None => key[e].id # k
    <2>1. CASE given = None
      <3>1. k \in Nat /\ k \notin Known
        BY <2>1, KnownFinite, AnotherIsNew DEF Inv
      <3>2. ASSUME NEW e \in Databases, key[e] # None PROVE key[e].id \in Known
        <4>1. key[e].id \in SecretKeys
          BY <3>2 DEF SecretKeys
        <4> QED BY <4>1 DEF Known
      <3> QED BY <3>1, <3>2
    <2>2. CASE given # None
      <3>1. key[d] # None /\ k = key[d].id
        BY <2>2
      <3> QED BY <3>1 DEF Inv, TypeInv, KeysDiffer, Keys
    <2> QED BY <2>1, <2>2
  <1> HIDE DEF k, given
  <1>3. /\ stored \in Stored /\ IsFiniteSet(stored.keys) /\ k \in stored.keys /\ stored # None
        /\ garage[n] # None => stored.archives = garage[n].archives
    <2> DEFINE b == EnsureBucket(garage[n])
    <2>1. b \in Stored /\ IsFiniteSet(b.keys) /\ (garage[n] # None => b = garage[n])
      <3>1. CASE garage[n] = None
        <4>1. b = [keys |-> {}, archives |-> {}]
          BY <3>1 DEF EnsureBucket
        <4>2. b \in Stored /\ b.keys = {}
          BY <4>1 DEF Stored
        <4> HIDE DEF b
        <4> QED BY <3>1, <4>2, FS_EmptySet
      <3>2. CASE garage[n] # None
        <4>1. b = garage[n]
          BY <3>2 DEF EnsureBucket
        <4> HIDE DEF b, n
        <4> QED BY <1>0, <3>2, <4>1 DEF Inv, TypeInv
      <3> QED BY <3>1, <3>2
    <2> HIDE DEF b
    <2>2. stored = [b EXCEPT !.keys = @ \cup {k}]
      BY DEF EnsureUser, b
    <2>3. stored \in Stored /\ stored.keys = b.keys \cup {k} /\ stored.archives = b.archives
      BY <1>2, <2>1, <2>2 DEF Stored
    <2> HIDE DEF stored
    <2>4. IsFiniteSet(stored.keys)
      BY <2>1, <2>3, FS_AddElement
    <2> QED BY <2>1, <2>3, <2>4, DatabasesAssumption DEF Stored
  <1>4. bucket[d] \in Buckets0
    BY DEF Inv, TypeInv
  <1>5. row \in Buckets0 /\ row.deleting = bucket[d].deleting
    BY <1>4 DEF Buckets0
  <1>6. bucket' = [bucket EXCEPT ![d] = row] /\ (row.phase = "Ready" => done)
    BY <1>1, <1>4 DEF Buckets0
  <1>7. secret \in Keys /\ secret.id = k
    BY <1>2 DEF Keys
  <1> HIDE DEF row, secret, stored, n
  <1>8. Provides(d, done, k, stored, row, secret)
    BY <1>1, <1>2, <1>3, <1>5, <1>6, <1>7 DEF Provides, n
  <1> QED BY <1>8

\* What a cleanup takes away: the key of this Secret everywhere, and the bucket.
Removes(d, done, without) ==
    /\ \A m \in Names :
          /\ garage'[m] = IF done /\ m = BucketName(d) THEN None ELSE without[m]
          /\ without[m] # None => without[m] \in Stored /\ IsFiniteSet(without[m].keys)
          /\ garage[m] # None =>
               /\ without[m] # None /\ without[m].archives = garage[m].archives
               /\ \A e \in Databases :
                    e # d /\ key[e] # None /\ key[e].id \in garage[m].keys => key[e].id \in without[m].keys
    /\ \A e \in Databases :
          /\ key'[e] # None /\ key[e] # None => key'[e] \in Keys /\ key'[e].id = key[e].id
          /\ key[e] = None => key'[e] = None
    /\ garage' = [m \in Names |-> garage'[m]] /\ key' = [e \in Databases |-> key'[e]]
    /\ bucket' = IF done THEN [bucket EXCEPT ![d] = None] ELSE bucket
    /\ bucket[d].deleting

LEMMA RemoveFacts ==
    ASSUME Inv, NEW d \in Databases, NEW read, NEW done, bucket[d] # None, Remove(d, read, done)
    PROVE  \E without : Removes(d, done, without)
  <1> DEFINE n == BucketName(d)
  <1> DEFINE gone == IF read /\ key[d] # None THEN {key[d].id} ELSE {}
             without == [m \in Names |->
                           IF garage[m] = None THEN None ELSE [garage[m] EXCEPT !.keys = @ \ gone]]
  <1>1. /\ garage' = IF done THEN [without EXCEPT ![n] = None] ELSE without
        /\ bucket' = IF done THEN [bucket EXCEPT ![d] = None] ELSE bucket
        /\ key' = IF done /\ key[d] # None THEN [key EXCEPT ![d].orphan = TRUE] ELSE key
        /\ bucket[d].deleting
    BY DEF Remove, DeleteUser, DeleteBucket, Inv, TypeInv
  <1>2. \A m \in Names :
           /\ without[m] # None => /\ garage[m] # None /\ without[m] \in Stored
                                   /\ IsFiniteSet(without[m].keys)
           /\ garage[m] # None => without[m] # None /\ without[m].archives = garage[m].archives
                               /\ without[m].keys = garage[m].keys \ gone
    <2> SUFFICES ASSUME NEW m \in Names, garage[m] # None
                 PROVE  /\ without[m] # None /\ without[m] \in Stored
                        /\ without[m].keys = garage[m].keys \ gone
                        /\ without[m].archives = garage[m].archives
                        /\ IsFiniteSet(without[m].keys)
      OBVIOUS
    <2>1. garage[m] \in Stored /\ IsFiniteSet(garage[m].keys)
      BY DEF Inv, TypeInv
    <2>2. without[m] = [garage[m] EXCEPT !.keys = @ \ gone]
      OBVIOUS
    <2> HIDE DEF without, gone
    <2>3. without[m] \in Stored /\ without[m].keys = garage[m].keys \ gone
          /\ without[m].archives = garage[m].archives
      BY <2>1, <2>2 DEF Stored
    <2>4. IsFiniteSet(garage[m].keys \ gone)
      BY <2>1, FS_Subset
    <2> QED BY <2>3, <2>4, DatabasesAssumption DEF Stored
  <1>3. \A e \in Databases : e # d /\ key[e] # None => key[e].id \notin gone
    BY DEF Inv, KeysDiffer
  <1>4. \A e \in Databases :
           /\ key'[e] # None /\ key[e] # None => key'[e] \in Keys /\ key'[e].id = key[e].id
           /\ key[e] = None => key'[e] = None
    <2>1. CASE key' = key
      BY <2>1 DEF Inv, TypeInv
    <2>2. CASE key' = [key EXCEPT ![d].orphan = TRUE] /\ key[d] # None
      <3>1. key[d] \in Keys
        BY <2>2 DEF Inv, TypeInv
      <3>2. [key[d] EXCEPT !.orphan = TRUE] \in Keys /\ [key[d] EXCEPT !.orphan = TRUE].id = key[d].id
        BY <3>1 DEF Keys
      <3>3. \A e \in Databases : key'[e] = IF e = d THEN [key[d] EXCEPT !.orphan = TRUE] ELSE key[e]
        BY <2>2 DEF Inv, TypeInv
      <3> QED BY <2>2, <3>2, <3>3 DEF Inv, TypeInv
    <2> QED BY <1>1, <2>1, <2>2
  <1>5. /\ garage' = [m \in Names |-> garage'[m]] /\ key' = [e \in Databases |-> key'[e]]
        /\ bucket' = [e \in Databases |-> bucket'[e]]
    BY <1>1 DEF Inv, TypeInv
  <1>6. \A m \in Names : garage'[m] = IF done /\ m = n THEN None ELSE without[m]
    BY <1>1
  <1> HIDE DEF without, gone, n
  <1>7. Removes(d, done, without)
    BY <1>1, <1>2, <1>3, <1>4, <1>5, <1>6 DEF Removes, n
  <1> QED BY <1>7

LEMMA ReconcileBucketInv ==
    ASSUME OwnBuckets, Inv, NEW d \in Databases, NEW read \in BOOLEAN, NEW done \in BOOLEAN,
           ReconcileBucket(d, read, done)
    PROVE  Inv'
  <1> DEFINE n == BucketName(d)
  <1>0. /\ n \in Names
        /\ \A e \in Databases : e # d => BucketName(e) \in Names /\ BucketName(e) # n
    BY DEF OwnBuckets, Names
  <1>1. CASE bucket[d] = None
    BY <1>1, Stays DEF ReconcileBucket
  <1>2. CASE bucket[d] # None /\ Unreachable(d)
    <2> DEFINE new == [bucket[d] EXCEPT !.phase = "Failed"]
    <2>1. /\ \/ bucket' = bucket
             \/ bucket' = [bucket EXCEPT ![d] = new] /\ ~bucket[d].deleting
          /\ UNCHANGED <<key, garage>>
      BY <1>2 DEF Unreachable
    <2>2. bucket[d] \in Buckets0
      BY <1>2 DEF Inv, TypeInv
    <2>3. new \in Buckets0 /\ new.phase = "Failed" /\ new.deleting = bucket[d].deleting
      BY <2>2 DEF Buckets0
    <2> HIDE DEF new
    <2> QED BY <1>2, <2>1, <2>3, BucketsOnly DEF Inv, TypeInv
  <1>3. CASE bucket[d] # None /\ Provide(d, read, done)
    <2>1. PICK k, stored, record, secret : Provides(d, done, k, stored, record, secret)
      BY <1>3, ProvideFacts
    <2> USE DEF Provides
    <2> HIDE DEF n
    <2>8. TypeInv'
      BY <1>0, <2>1 DEF Inv, TypeInv
    <2>9. KeysDiffer'
      BY <2>1 DEF Inv, TypeInv, KeysDiffer
    <2>10. DeletingIsOwned'
      BY <2>1 DEF Inv, TypeInv, DeletingIsOwned
    <2>11. KeyOpensBucket'
      BY <1>0, <2>1 DEF Inv, TypeInv, KeyOpensBucket, n
    <2> QED BY <2>8, <2>9, <2>10, <2>11 DEF Inv
  <1>4. CASE bucket[d] # None /\ Remove(d, read, done)
    <2>1. PICK without : Removes(d, done, without)
      BY <1>4, RemoveFacts
    <2> USE DEF Removes
    <2> HIDE DEF n
    <2>7. \A e \in Databases : bucket'[e] \in {bucket[e], None}
      BY <2>1 DEF Inv, TypeInv
    <2>8. TypeInv'
      BY <2>1, <2>7 DEF Inv, TypeInv
    <2>9. KeysDiffer'
      BY <2>1 DEF Inv, KeysDiffer
    <2>10. DeletingIsOwned'
      BY <2>7 DEF Inv, DeletingIsOwned
    <2>11. KeyOpensBucket'
      <3> SUFFICES ASSUME NEW e \in Databases, bucket'[e] # None, bucket'[e].phase = "Ready",
                          ~bucket'[e].deleting, key'[e] # None
                   PROVE  garage'[BucketName(e)] # None /\ key'[e].id \in garage'[BucketName(e)].keys
        BY DEF KeyOpensBucket
      <3>1. bucket'[e] = bucket[e] /\ e # d /\ key[e] # None
        BY <2>1, <2>7
      <3>2. garage[BucketName(e)] # None /\ key[e].id \in garage[BucketName(e)].keys
        BY <3>1 DEF Inv, KeyOpensBucket
      <3>3. BucketName(e) \in Names /\ BucketName(e) # n
        BY <1>0, <3>1
      <3> QED BY <2>1, <3>1, <3>2, <3>3 DEF n
    <2> QED BY <2>8, <2>9, <2>10, <2>11 DEF Inv
  <1> QED BY <1>1, <1>2, <1>3, <1>4 DEF ReconcileBucket

\* The actions that leave the buckets, their keys and the object store alone.
OtherOfDatabase(d) ==
    \/ \E backups \in BOOLEAN : PgCreate(d, backups)
    \/ \E from \in Databases : PgRestore(d, from)
    \/ SwitchBackups(d) \/ ComesUp(d)

OtherOfProject ==
    \/ \E r \in Caches :
        \/ RedisCreate(r) \/ RedisDelete(r)
        \/ \E error \in 1..3 : ReconcileRedis(r, error)
        \/ CollectRedis(r) \/ RedisStarts(r)
    \/ \E x \in Databases \cup Caches : Attach(x) \/ Detach(x)
    \/ ReconcileApp \/ Outage \/ Answers

LEMMA RedisAside ==
    ASSUME NEW r \in Caches,
           \/ RedisCreate(r) \/ RedisDelete(r)
           \/ \E error \in 1..3 : ReconcileRedis(r, error)
           \/ CollectRedis(r) \/ RedisStarts(r)
    PROVE  UNCHANGED <<bucket, key, garage>>
  BY DEF RedisCreate, RedisDelete, ReconcileRedis, CollectRedis, RedisStarts

LEMMA NextInv ==
    ASSUME OwnBuckets
    PROVE  Inv /\ [Next]_vars => Inv'
  <1> SUFFICES ASSUME Inv, [Next]_vars PROVE Inv'
    OBVIOUS
  <1>1. ASSUME NEW d \in Databases, OtherOfDatabase(d)
        PROVE  UNCHANGED <<bucket, key, garage>>
    BY <1>1 DEF OtherOfDatabase, PgCreate, PgRestore, Create, SwitchBackups, External, ComesUp
  <1>2. ASSUME OtherOfProject
        PROVE  UNCHANGED <<bucket, key, garage>>
    BY <1>2, RedisAside DEF OtherOfProject, Attach, Detach, External, ReconcileApp, Outage, Answers
  <1>3. UNCHANGED vars => UNCHANGED <<bucket, key, garage>>
    BY DEF vars
  <1> QED BY <1>1, <1>2, <1>3, Stays, DeleteInv, ReconcilePostgresInv, ReconcileBucketInv, CollectInv,
             BaseBackupInv DEF Next, OtherOfDatabase, OtherOfProject

\* The access key in the Secret of a Ready bucket opens it.
THEOREM KeyHolds ==
    ASSUME OwnBuckets
    PROVE  Spec => []KeyOpensBucket
  <1>1. Inv => KeyOpensBucket
    BY DEF Inv
  <1>2. Inv /\ [Next]_vars => Inv'
    BY NextInv
  <1> QED BY <1>1, <1>2, InitInv, PTL DEF Spec

\* The archive of a database that was not deleted stays.
THEOREM ArchiveHolds ==
    ASSUME OwnBuckets
    PROVE  Spec => ArchiveKept
  <1>1. Inv /\ [Next]_vars =>
          [\A d \in Databases :
             Archived(d) /\ ~Archived(d)' => pg[d] = None \/ Owned(bucket, d)]_vars
    <2> SUFFICES ASSUME Inv, Next, NEW d \in Databases, Archived(d), ~Archived(d)'
                 PROVE  Owned(bucket, d)
      BY DEF vars
    <2> DEFINE n == BucketName(d)
    <2>0. /\ n \in Names /\ garage[n] # None /\ garage[n] \in Stored /\ d \in garage[n].archives
          /\ garage = [m \in Names |-> garage[m]]
          /\ ~(garage'[n] # None /\ d \in garage'[n].archives)
      BY DEF Archived, Names, Inv, TypeInv
    <2>a. garage' # garage
      BY <2>0
    <2>b. ASSUME NEW e \in Databases, BaseBackup(e)
          PROVE  FALSE
      <3> DEFINE new == [garage[BucketName(e)] EXCEPT !.archives = @ \cup {e}]
      <3>1. garage' = [garage EXCEPT ![BucketName(e)] = new]
        BY <2>b DEF BaseBackup
      <3>2. BucketName(e) # n
        <4> SUFFICES ASSUME BucketName(e) = n PROVE FALSE
          OBVIOUS
        <4> HIDE DEF n
        <4>1. garage'[n] = [garage[n] EXCEPT !.archives = @ \cup {e}]
          BY <2>0, <3>1
        <4>2. garage'[n] \in Stored /\ d \in garage'[n].archives
          BY <2>0, <4>1 DEF Stored
        <4> QED BY <2>0, <4>2, DatabasesAssumption DEF Stored
      <3> HIDE DEF new, n
      <3> QED BY <2>0, <3>1, <3>2
    <2>c. ASSUME NEW e \in Databases, NEW read \in BOOLEAN, NEW done \in BOOLEAN, bucket[e] # None,
                 Provide(e, read, done)
          PROVE  FALSE
      <3>1. PICK k, stored, record, secret : Provides(e, done, k, stored, record, secret)
        BY <2>c, ProvideFacts
      <3> HIDE DEF n
      <3>2. CASE BucketName(e) = n
        BY <2>0, <3>1, <3>2 DEF Provides
      <3>3. CASE BucketName(e) # n
        BY <2>0, <3>1, <3>3 DEF Provides
      <3> QED BY <3>2, <3>3
    <2>d. ASSUME NEW e \in Databases, NEW read \in BOOLEAN, NEW done \in BOOLEAN, bucket[e] # None,
                 Remove(e, read, done)
          PROVE  Owned(bucket, d)
      <3>1. PICK without : Removes(e, done, without)
        BY <2>d, RemoveFacts
      <3> HIDE DEF n
      <3>2. done /\ BucketName(e) = n
        BY <2>0, <3>1 DEF Removes
      <3>3. e = d
        BY <3>2 DEF n, OwnBuckets
      <3>4. bucket[e].deleting
        BY <3>1 DEF Removes
      <3> QED BY <2>d, <3>3, <3>4 DEF Inv, DeletingIsOwned, Owned
    <2>1. ASSUME NEW e \in Databases,
                 \/ OtherOfDatabase(e) \/ Delete(e) \/ Collect(e)
                 \/ \E error, listed : ReconcilePostgres(e, error, listed)
          PROVE  UNCHANGED garage
      BY <2>1 DEF OtherOfDatabase, PgCreate, PgRestore, Create, SwitchBackups, External, ComesUp,
         Delete, Collect, ReconcilePostgres
    <2>2. OtherOfProject => UNCHANGED garage
      BY RedisAside DEF OtherOfProject, Attach, Detach, External, ReconcileApp, Outage, Answers
    <2>3. ASSUME NEW e \in Databases, NEW read \in BOOLEAN, NEW done \in BOOLEAN,
                 ReconcileBucket(e, read, done)
          PROVE  \/ UNCHANGED garage
                 \/ bucket[e] # None /\ (Provide(e, read, done) \/ Remove(e, read, done))
      BY <2>3 DEF ReconcileBucket, Unreachable
    <2> HIDE DEF n
    <2> QED BY <2>a, <2>b, <2>c, <2>d, <2>1, <2>2, <2>3 DEF Next, OtherOfDatabase, OtherOfProject
  <1>2. Inv /\ [Next]_vars => Inv'
    BY NextInv
  <1> QED BY <1>1, <1>2, InitInv, PTL DEF Spec, ArchiveKept

============================================================================
