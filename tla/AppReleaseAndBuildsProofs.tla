-------------------- MODULE AppReleaseAndBuildsProofs ---------------------
(***************************************************************************)
(* What AppRelease promises for every number of users' operations and      *)
(* failures and every history length: its types, the soundness of the      *)
(* optimistic lock, what phase Running and a quiet controller mean, and    *)
(* that the durable release history implements ReleaseLog.                 *)
(* Before it, what Builds promises for every number of changes, faults,    *)
(* registries and kept Jobs: a build is called done of what the App asks.  *)
(***************************************************************************)
EXTENDS AppRelease, Builds, SequenceTheorems, TLAPS

---------------------------------------------------------------------------
(* The builds: what their state is made of.                                *)

\* What an App asks for.
Asked ==
    [source : Sources \cup {None}, strategy : {"dockerfile", "buildpacks"}, rebuild : Nat]

BuiltImage ==
    [source : Sources \cup {None}, rebuild : Nat, registry : Registries \cup {0, 1}]

BuildJob ==
    [key : (Sources \cup {None}) \X Nat, state : {"running", "succeeded", "failed"},
     pushes : BuiltImage, image : BuiltImage \cup {None}, failure : BOOLEAN]

KpackImage ==
    [source : Sources \cup {None}, registry : Registries \cup {0, 1}, asked : Nat,
     observed : BOOLEAN, ready : {"Unknown", "True", "False"}, image : BuiltImage \cup {None},
     newest : BuiltImage, building : BOOLEAN, again : BOOLEAN]

\* A Job pushes what its key says, and no other image.
SoundJob(j) ==
    /\ j \in BuildJob
    /\ j.key = <<j.pushes.source, j.pushes.rebuild>>
    /\ j.image \in {None, j.pushes}

\* Build Jobs by number, as a version of the list has them.
JobList(js) ==
    /\ js = [n \in DOMAIN js |-> js[n]]
    /\ DOMAIN js \subseteq Nat \ {0}
    /\ DOMAIN js # {} => \E m \in DOMAIN js : \A n \in DOMAIN js : n <= m
    /\ \A n \in DOMAIN js : SoundJob(js[n])

\* A version b that is not older than a has numbers as high as a's.
NoOlder(a, b) == \A n \in DOMAIN a : \E m \in DOMAIN b : n <= m

\* The versions that the cache has or will have.
Versions == {jobsSeen} \cup {events[i] : i \in 1 .. Len(events)}

BuildsTypes ==
    /\ spec \in Asked /\ seen \in Asked
    /\ current \in BOOLEAN
    /\ kpack \in KpackImage \cup {None}
    /\ registry \in Registries \cup {0, 1}

\* A number stands for one build in every version.
SameBuild ==
    \A v \in Versions : \A n \in DOMAIN v \cap DOMAIN jobs : v[n].pushes = jobs[n].pushes

\* A Job that is deleted is older than the newest one in the cache, so that
\* its number is not given again.
GoneAreOld ==
    \A v \in Versions : \A n \in DOMAIN v \ DOMAIN jobs : \E m \in DOMAIN jobsSeen : n < m

InOrder ==
    /\ \A v \in Versions : NoOlder(jobsSeen, v) /\ NoOlder(v, jobs)
    /\ \A i, j \in 1 .. Len(events) : i <= j => NoOlder(events[i], events[j])

JobsInv ==
    /\ events \in Seq(Range(events))
    /\ JobList(jobs)
    /\ \A v \in Versions : JobList(v)
    /\ SameBuild /\ GoneAreOld /\ InOrder

CurrentIsSeen == current => seen = spec

\* kpack calls an Image ready with an image of its source only.
ReadyIsOfSource ==
    kpack # None /\ kpack.observed /\ kpack.ready = "True" =>
        kpack.image.source = kpack.source

BuildsInv == BuildsTypes /\ JobsInv /\ CurrentIsSeen /\ ReadyIsOfSource
---------------------------------------------------------------------------
\* The newest number of a list is its highest.
LEMMA NewestIsHighest ==
    ASSUME NEW js, JobList(js)
    PROVE  /\ Newest(js) \in Nat
           /\ \A n \in DOMAIN js : n <= Newest(js)
           /\ DOMAIN js # {} => Newest(js) \in DOMAIN js
           /\ DOMAIN js = {} => Newest(js) = 0
  <1> DEFINE S == {0} \cup DOMAIN js
  <1>1. S \subseteq Nat
    BY DEF JobList
  <1>2. PICK m \in S : /\ \A n \in S : m >= n
                       /\ m = 0 => DOMAIN js = {}
    <2>1. CASE DOMAIN js = {}
      BY <2>1
    <2>2. CASE DOMAIN js # {}
      BY <2>2 DEF JobList
    <2> QED BY <2>1, <2>2
  <1>3. Newest(js) \in S /\ \A n \in S : Newest(js) >= n
    <2> HIDE DEF S
    <2>1. Max(S) \in S /\ \A n \in S : Max(S) >= n
      BY <1>2 DEF Max
    <2> QED BY <2>1 DEF Newest, S
  <1> HIDE DEF S
  <1>4. Newest(js) = m
    <2>1. Newest(js) \in Nat /\ m \in Nat /\ m >= Newest(js)
      BY <1>1, <1>2, <1>3
    <2>2. Newest(js) >= m
      BY <1>2, <1>3
    <2> QED BY <2>1, <2>2
  <1> QED BY <1>1, <1>2, <1>3, <1>4 DEF S

LEMMA NoOlderThanItself ==
    ASSUME NEW js, JobList(js)
    PROVE  NoOlder(js, js)
  BY DEF NoOlder, JobList

LEMMA NoOlderInTurn ==
    ASSUME NEW a, NEW b, NEW c, JobList(a), JobList(b), JobList(c), NoOlder(a, b), NoOlder(b, c)
    PROVE  NoOlder(a, c)
  <1> SUFFICES ASSUME NEW n \in DOMAIN a
               PROVE  \E m \in DOMAIN c : n <= m
    BY DEF NoOlder
  <1>1. PICK k \in DOMAIN b : n <= k
    BY DEF NoOlder
  <1>2. PICK m \in DOMAIN c : k <= m
    BY DEF NoOlder
  <1> QED BY <1>1, <1>2 DEF JobList

\* A write of the Jobs that gives no number twice and deletes old ones only.
LEMMA SetJobsKeepsInv ==
    ASSUME JobsInv, NEW js, JobList(js), SetJobs(js), jobsSeen' = jobsSeen,
           \A n \in DOMAIN js \cap DOMAIN jobs : js[n].pushes = jobs[n].pushes,
           \A n \in DOMAIN js \ DOMAIN jobs : \A v \in Versions : n \notin DOMAIN v,
           \A n \in DOMAIN jobs \ DOMAIN js : \E m \in DOMAIN jobsSeen : n < m,
           NoOlder(jobs, js)
    PROVE  JobsInv'
  <1>1. CASE js = jobs
    <2>1. jobs' = jobs /\ events' = events
      BY <1>1 DEF SetJobs
    <2> QED BY <2>1 DEF JobsInv, Versions, SameBuild, GoneAreOld, InOrder
  <1>2. CASE js # jobs
    <2>1. jobs' = js /\ events' = Append(events, js)
      BY <1>2 DEF SetJobs
    <2> DEFINE R == Range(events) \cup {js}
               n0 == Len(events)
    <2>2. events \in Seq(R) /\ js \in R
      <3>1. events \in Seq(Range(events))
        BY DEF JobsInv
      <3> QED BY <3>1
    <2>3. /\ n0 \in Nat /\ Len(events') = n0 + 1 /\ events' \in Seq(R)
          /\ events'[n0 + 1] = js
          /\ \A i \in 1 .. n0 : events'[i] = events[i]
          /\ DOMAIN events = 1 .. n0 /\ DOMAIN events' = 1 .. n0 + 1
      <3> HIDE DEF R
      <3> QED BY <2>1, <2>2
    <2> HIDE DEF n0
    <2>4. events' \in Seq(Range(events'))
      <3>1. \A i \in 1 .. Len(events') : events'[i] \in Range(events')
        BY <2>3 DEF Range
      <3>2. Range(events') \subseteq R
        BY <2>3 DEF Range, n0
      <3> HIDE DEF R
      <3> QED BY <2>3, <3>1
    <2>5. Versions' = Versions \cup {js}
      <3>1. Versions' = {jobsSeen} \cup {events'[i] : i \in 1 .. n0 + 1}
        BY <2>3 DEF Versions
      <3>2. {events'[i] : i \in 1 .. n0 + 1} = {events'[i] : i \in 1 .. n0} \cup {events'[n0 + 1]}
        <4>1. 1 .. n0 + 1 = (1 .. n0) \cup {n0 + 1}
          BY <2>3
        <4> QED BY <4>1, Zenon
      <3>3. {events'[i] : i \in 1 .. n0} = {events[i] : i \in 1 .. n0}
        BY <2>3
      <3> QED BY <2>3, <3>1, <3>2, <3>3 DEF Versions, n0
    <2>6. JobList(jobs)' /\ (\A v \in Versions : JobList(v))'
      BY <2>1, <2>5 DEF JobsInv
    <2>7. SameBuild'
      <3> SUFFICES ASSUME NEW v \in Versions \cup {js}, NEW n \in DOMAIN v \cap DOMAIN js
                   PROVE  v[n].pushes = js[n].pushes
        BY <2>1, <2>5 DEF SameBuild
      <3> QED BY DEF JobsInv, SameBuild
    <2>8. GoneAreOld'
      <3> SUFFICES ASSUME NEW v \in Versions \cup {js}, NEW n \in DOMAIN v \ DOMAIN js
                   PROVE  \E m \in DOMAIN jobsSeen : n < m
        BY <2>1, <2>5 DEF GoneAreOld
      <3> QED BY DEF JobsInv, GoneAreOld
    <2>9. \A v \in Versions \cup {js} : NoOlder(v, js)
      BY NoOlderThanItself, NoOlderInTurn DEF JobsInv, InOrder
    <2>10. jobsSeen \in Versions
      BY DEF Versions
    <2>11. InOrder'
      <3>1. \A v \in Versions \cup {js} : NoOlder(jobsSeen, v)
        BY <2>9, <2>10 DEF JobsInv, InOrder
      <3>2. ASSUME NEW i \in 1 .. n0 + 1, NEW j \in 1 .. n0 + 1, i <= j
            PROVE  NoOlder(events'[i], events'[j])
        <4>1. CASE j = n0 + 1
          <5>1. events'[i] \in Versions \cup {js}
            BY <2>3 DEF Versions, n0
          <5> QED BY <2>3, <2>9, <4>1, <5>1
        <4>2. CASE j # n0 + 1
          <5>1. i \in 1 .. n0 /\ j \in 1 .. n0
            BY <2>3, <3>2, <4>2
          <5> QED BY <2>3, <3>2, <5>1 DEF JobsInv, InOrder, n0
        <4> QED BY <4>1, <4>2
      <3> QED BY <2>1, <2>3, <2>5, <2>9, <3>1, <3>2 DEF InOrder
    <2> QED BY <2>4, <2>6, <2>7, <2>8, <2>11 DEF JobsInv
  <1> QED BY <1>1, <1>2

\* A reconcile that settles the newest Job and deletes the old ones.
LEMMA KeepsInv ==
    ASSUME JobsInv, DOMAIN jobsSeen # {}, NEW j, SetJobs(Keep(j)), jobsSeen' = jobsSeen,
           Newest(jobsSeen) \in DOMAIN jobs =>
               SoundJob(j) /\ j.pushes = jobs[Newest(jobsSeen)].pushes
    PROVE  JobsInv'
  <1> DEFINE n == Newest(jobsSeen)
             js == Keep(j)
  <1>1. JobList(jobs) /\ JobList(jobsSeen) /\ NoOlder(jobsSeen, jobs)
    BY DEF JobsInv, InOrder, Versions
  <1>2. n \in DOMAIN jobsSeen /\ n \in Nat /\ \A k \in DOMAIN jobsSeen : k <= n
    BY <1>1, NewestIsHighest
  <1>3. PrunedJobs(jobsSeen) \subseteq DOMAIN jobsSeen \ {n}
    BY DEF PrunedJobs, Beyond
  <1>4. \A k \in PrunedJobs(jobsSeen) : k \in Nat /\ k < n
    BY <1>1, <1>2, <1>3 DEF JobList
  <1>5. PICK top \in DOMAIN jobs : n <= top
    BY <1>1, <1>2 DEF NoOlder
  <1>6. /\ DOMAIN js = DOMAIN jobs \ PrunedJobs(jobsSeen)
        /\ \A k \in DOMAIN js : js[k] = IF k = n THEN j ELSE jobs[k]
        /\ js = [k \in DOMAIN js |-> js[k]]
    BY DEF Keep
  <1> HIDE DEF js, n
  <1>7. \A k \in DOMAIN jobs : k <= n \/ k \in DOMAIN js
    BY <1>1, <1>2, <1>4, <1>6 DEF JobList
  <1>8. \E m \in DOMAIN jobs : m \in DOMAIN js /\ n <= m /\ \A k \in DOMAIN jobs : k <= m
    <2>1. PICK m \in DOMAIN jobs : \A k \in DOMAIN jobs : k <= m
      BY <1>1, <1>5 DEF JobList
    <2>2. n <= m
      BY <1>1, <1>2, <1>5, <2>1 DEF JobList
    <2>3. m \notin PrunedJobs(jobsSeen)
      BY <1>1, <1>2, <1>4, <2>2 DEF JobList
    <2> QED BY <1>6, <2>1, <2>2, <2>3
  <1>9. JobList(js)
    <2>1. \A k \in DOMAIN js : SoundJob(js[k])
      BY <1>1, <1>6 DEF JobList, n
    <2> QED BY <1>1, <1>6, <1>8, <2>1 DEF JobList
  <1>10. NoOlder(jobs, js)
    BY <1>8 DEF NoOlder
  <1>11. \A k \in DOMAIN jobs \ DOMAIN js : \E m \in DOMAIN jobsSeen : k < m
    BY <1>2, <1>4, <1>6
  <1>12. \A k \in DOMAIN js \cap DOMAIN jobs : js[k].pushes = jobs[k].pushes
    BY <1>6 DEF n
  <1>13. DOMAIN js \ DOMAIN jobs = {}
    BY <1>6
  <1>14. SetJobs(js)
    BY DEF js
  <1> QED BY <1>9, <1>10, <1>11, <1>12, <1>13, <1>14, SetJobsKeepsInv

\* A reconcile that makes a Job, with the number after the newest it has seen.
LEMMA MakesInv ==
    ASSUME JobsInv, NEW j, SoundJob(j), jobsSeen' = jobsSeen,
           SetJobs([k \in DOMAIN jobs \cup {Newest(jobsSeen) + 1} |->
                       IF k \in DOMAIN jobs THEN jobs[k] ELSE j])
    PROVE  JobsInv'
  <1> DEFINE n == Newest(jobsSeen) + 1
             js == [k \in DOMAIN jobs \cup {n} |-> IF k \in DOMAIN jobs THEN jobs[k] ELSE j]
  <1>1. JobList(jobs) /\ JobList(jobsSeen)
    BY DEF JobsInv, Versions
  <1>2. n \in Nat /\ n # 0 /\ \A k \in DOMAIN jobsSeen : k \in Nat /\ k < n
    BY <1>1, NewestIsHighest DEF JobList
  <1>3. /\ DOMAIN js = DOMAIN jobs \cup {n}
        /\ \A k \in DOMAIN js : js[k] = IF k \in DOMAIN jobs THEN jobs[k] ELSE j
        /\ js = [k \in DOMAIN js |-> js[k]]
    OBVIOUS
  <1>4. SetJobs(js)
    OBVIOUS
  <1> HIDE DEF js, n
  <1>5. JobList(js)
    <2>1. \A k \in DOMAIN js : SoundJob(js[k])
      BY <1>1, <1>3 DEF JobList
    <2>2. DOMAIN js \subseteq Nat \ {0}
      BY <1>1, <1>2, <1>3 DEF JobList
    <2>3. \E m \in DOMAIN js : \A k \in DOMAIN js : k <= m
      <3>1. CASE DOMAIN jobs = {}
        BY <1>2, <1>3, <3>1
      <3>2. CASE DOMAIN jobs # {}
        <4>1. PICK m \in DOMAIN jobs : \A k \in DOMAIN jobs : k <= m
          BY <1>1, <3>2 DEF JobList
        <4>2. m \in Nat /\ DOMAIN jobs \subseteq Nat
          BY <1>1 DEF JobList
        <4>3. CASE n <= m
          BY <1>3, <4>1, <4>3
        <4>4. CASE ~(n <= m)
          BY <1>2, <1>3, <4>1, <4>2, <4>4
        <4> QED BY <4>3, <4>4
      <3> QED BY <3>1, <3>2
    <2> QED BY <1>3, <2>1, <2>2, <2>3 DEF JobList
  <1>6. NoOlder(jobs, js)
    BY <1>1, <1>3 DEF NoOlder, JobList
  <1>7. \A k \in DOMAIN js \ DOMAIN jobs : \A v \in Versions : k \notin DOMAIN v
    <2> SUFFICES ASSUME n \notin DOMAIN jobs, NEW v \in Versions, n \in DOMAIN v
                 PROVE  FALSE
      BY <1>3
    <2>1. PICK m \in DOMAIN jobsSeen : n < m
      BY DEF JobsInv, GoneAreOld
    <2> QED BY <1>2, <2>1
  <1>8. /\ \A k \in DOMAIN js \cap DOMAIN jobs : js[k].pushes = jobs[k].pushes
        /\ DOMAIN jobs \ DOMAIN js = {}
    BY <1>3
  <1> QED BY <1>4, <1>5, <1>6, <1>7, <1>8, SetJobsKeepsInv

LEMMA NewJobIsSound ==
    ASSUME NEW a \in Asked, registry \in Registries \cup {0, 1}
    PROVE  SoundJob(NewJob(a))
  <1>1. Built(a.source, a.rebuild, registry) \in BuiltImage
    BY DEF Built, BuiltImage, Asked
  <1>2. NewJob(a).key = <<a.source, a.rebuild>>
    BY DEF NewJob, Key
  <1>3. NewJob(a).key \in (Sources \cup {None}) \X Nat
    BY <1>2 DEF Asked
  <1>4. NewJob(a) \in BuildJob
    <2>1. \A k \in (Sources \cup {None}) \X Nat : \A b \in BuiltImage :
             [key |-> k, state |-> "running", pushes |-> b, image |-> None,
              failure |-> FALSE] \in BuildJob
      BY DEF BuildJob
    <2>2. <<a.source, a.rebuild>> \in (Sources \cup {None}) \X Nat
      BY <1>2, <1>3
    <2>3. NewJob(a) = [key |-> <<a.source, a.rebuild>>, state |-> "running",
                       pushes |-> Built(a.source, a.rebuild, registry),
                       image |-> None, failure |-> FALSE]
      BY DEF NewJob, Key
    <2> QED BY <1>1, <2>1, <2>2, <2>3
  <1>5. NewJob(a).pushes = Built(a.source, a.rebuild, registry) /\ NewJob(a).image = None
    BY DEF NewJob
  <1>6. /\ NewJob(a).pushes.source = a.source
        /\ NewJob(a).pushes.rebuild = a.rebuild
    BY <1>5 DEF Built
  <1> QED BY <1>2, <1>4, <1>5, <1>6 DEF SoundJob

\* What a reconcile reports under the version it read.
LEMMA ReportKeeps ==
    ASSUME NEW ready, NEW img, Report(ready, img), BuildsTypes, CurrentIsSeen
    PROVE  /\ spec' = spec /\ seen' = seen /\ registry' = registry
           /\ current' \in BOOLEAN
           /\ current' => current
           /\ CurrentIsSeen'
           /\ status' # status => current /\ status' = [ready |-> ready, image |-> img]
  <1>1. CASE current
    BY <1>1 DEF Report, CurrentIsSeen
  <1>2. CASE ~current
    BY <1>2 DEF Report, CurrentIsSeen, BuildsTypes
  <1> QED BY <1>1, <1>2

\* The builds of one step are of what the App asks for.
DoneStep ==
    status' # status /\ status'.ready = "True" =>
        /\ status'.image.source = spec.source
        /\ spec.strategy = "dockerfile" => status'.image.rebuild = spec.rebuild

LEMMA ReportIsDone ==
    ASSUME NEW ready, NEW img, Report(ready, img), BuildsTypes, CurrentIsSeen,
           ready = "True" => /\ img.source = seen.source
                             /\ seen.strategy = "dockerfile" => img.rebuild = seen.rebuild
    PROVE  DoneStep
  <1> SUFFICES ASSUME status' # status, status'.ready = "True"
               PROVE  /\ status'.image.source = spec.source
                      /\ spec.strategy = "dockerfile" => status'.image.rebuild = spec.rebuild
    BY DEF DoneStep
  <1>1. current /\ status' = [ready |-> ready, image |-> img]
    BY ReportKeeps
  <1>2. seen = spec
    BY <1>1 DEF CurrentIsSeen
  <1>3. ready = "True" /\ status'.image = img
    BY <1>1
  <1> QED BY <1>2, <1>3

\* Only the App moves, and its version with it.
LEMMA OthersStay ==
    ASSUME JobsInv, UNCHANGED Dockerfile
    PROVE  JobsInv'
  BY DEF JobsInv, Dockerfile, Versions, SameBuild, GoneAreOld, InOrder

LEMMA ChangeKeeps ==
    ASSUME BuildsInv, NEW a \in Asked, Change(a)
    PROVE  BuildsInv' /\ DoneStep
  <1>1. JobsInv'
    BY OthersStay DEF Change, BuildsInv
  <1> QED BY <1>1 DEF Change, BuildsInv, BuildsTypes, CurrentIsSeen, ReadyIsOfSource, DoneStep

LEMMA DeployBuilds ==
    ASSUME BuildsInv, NEW d \in Deploys, Deploy(d)
    PROVE  BuildsInv' /\ DoneStep
  <1>1. /\ d.source \in Sources /\ d.strategy \in {"dockerfile", "buildpacks"}
        /\ spec \in Asked
    BY BoundsAssumption DEF BuildsInv, BuildsTypes
  <1>2. [spec EXCEPT !.source = d.source, !.strategy = d.strategy] \in Asked
    BY <1>1 DEF Asked
  <1> QED BY <1>2, ChangeKeeps DEF Deploy

LEMMA RebuildKeeps ==
    ASSUME BuildsInv, Rebuild
    PROVE  BuildsInv' /\ DoneStep
  <1>1. [spec EXCEPT !.rebuild = @ + 1] \in Asked
    BY DEF BuildsInv, BuildsTypes, Asked
  <1> QED BY <1>1, ChangeKeeps DEF Rebuild

LEMMA SyncSpecKeeps ==
    ASSUME BuildsInv, SyncSpec
    PROVE  BuildsInv' /\ DoneStep
  <1>1. JobsInv'
    BY OthersStay DEF SyncSpec, BuildsInv
  <1> QED BY <1>1 DEF SyncSpec, BuildsInv, BuildsTypes, CurrentIsSeen, ReadyIsOfSource, DoneStep

\* The cache takes the next version: none of the later ones is older.
LEMMA SyncJobsKeeps ==
    ASSUME BuildsInv, SyncJobs
    PROVE  BuildsInv' /\ DoneStep
  <1> DEFINE n0 == Len(events)
  <1>1. /\ n0 \in Nat /\ n0 >= 1 /\ Len(events') = n0 - 1
        /\ \A i \in 1 .. n0 - 1 : events'[i] = events[i + 1]
        /\ jobsSeen' = events[1] /\ events' \in Seq(Range(events))
        /\ jobs' = jobs
    <2>1. events \in Seq(Range(events)) /\ events # <<>>
      BY DEF BuildsInv, JobsInv, SyncJobs
    <2> QED BY <2>1 DEF SyncJobs
  <1>2. events' \in Seq(Range(events'))
    <2>1. DOMAIN events' = 1 .. Len(events')
      BY <1>1
    <2>2. \A i \in 1 .. Len(events') : events'[i] \in Range(events')
      BY <2>1 DEF Range
    <2> QED BY <1>1, <2>2
  <1> HIDE DEF n0
  <1>3. Versions' \subseteq Versions
    <2> SUFFICES ASSUME NEW v \in Versions'
                 PROVE  v \in Versions
      OBVIOUS
    <2>1. v = events[1] \/ \E i \in 1 .. n0 - 1 : v = events[i + 1]
      BY <1>1 DEF Versions
    <2>2. \E i \in 1 .. n0 : v = events[i]
      BY <1>1, <2>1
    <2> QED BY <2>2 DEF Versions, n0
  <1>4. events[1] \in Versions
    BY <1>1 DEF Versions, n0
  <1>5. JobsInv
    BY DEF BuildsInv
  <1>6. SameBuild'
    BY <1>1, <1>3, <1>5 DEF JobsInv, SameBuild
  <1>7. GoneAreOld'
    <2> SUFFICES ASSUME NEW v \in Versions, NEW n \in DOMAIN v \ DOMAIN jobs
                 PROVE  \E m \in DOMAIN events[1] : n < m
      BY <1>1, <1>3 DEF GoneAreOld
    <2>1. PICK k \in DOMAIN jobsSeen : n < k
      BY <1>5 DEF JobsInv, GoneAreOld
    <2>2. PICK m \in DOMAIN events[1] : k <= m
      BY <1>4, <1>5 DEF JobsInv, InOrder, NoOlder
    <2>3. n \in Nat /\ k \in Nat /\ m \in Nat
      <3>1. jobsSeen \in Versions
        BY DEF Versions
      <3> QED BY <1>4, <1>5, <3>1 DEF JobsInv, JobList
    <2> QED BY <2>1, <2>2, <2>3
  <1>8. InOrder'
    <2>1. \A i, j \in 1 .. n0 : i <= j => NoOlder(events[i], events[j])
      BY <1>5 DEF JobsInv, InOrder, n0
    <2>2. ASSUME NEW v \in Versions' PROVE NoOlder(events[1], v)
      <3>1. PICK i \in 1 .. n0 : v = events[i]
        <4>1. v = events[1] \/ \E i \in 1 .. n0 - 1 : v = events[i + 1]
          BY <1>1 DEF Versions
        <4> QED BY <1>1, <4>1
      <3>2. 1 \in 1 .. n0 /\ 1 <= i
        BY <1>1
      <3> QED BY <2>1, <3>1, <3>2
    <2>3. \A v \in Versions' : NoOlder(v, jobs)
      BY <1>3, <1>5 DEF JobsInv, InOrder
    <2>4. ASSUME NEW i \in 1 .. n0 - 1, NEW j \in 1 .. n0 - 1, i <= j
          PROVE  NoOlder(events'[i], events'[j])
      <3>1. i + 1 \in 1 .. n0 /\ j + 1 \in 1 .. n0 /\ i + 1 <= j + 1
        BY <1>1, <2>4
      <3> QED BY <1>1, <2>1, <3>1
    <2> QED BY <1>1, <2>2, <2>3, <2>4 DEF InOrder
  <1>9. JobsInv'
    BY <1>1, <1>2, <1>3, <1>5, <1>6, <1>7, <1>8 DEF JobsInv
  <1> QED BY <1>9 DEF SyncJobs, BuildsInv, BuildsTypes, CurrentIsSeen, ReadyIsOfSource, DoneStep

\* A Job that fits is for what the App in the cache asks for.
LEMMA FittingJob ==
    ASSUME JobsInv, Fits(jobsSeen, seen)
    PROVE  LET n == Newest(jobsSeen)
               j == jobsSeen[n]
           IN  /\ n \in DOMAIN jobsSeen /\ DOMAIN jobsSeen # {}
               /\ SoundJob(j)
               /\ j.pushes.source = seen.source /\ j.pushes.rebuild = seen.rebuild
               /\ n \in DOMAIN jobs => SoundJob(jobs[n]) /\ jobs[n].pushes = j.pushes
  <1> DEFINE n == Newest(jobsSeen)
             j == jobsSeen[n]
  <1>1. JobList(jobs) /\ JobList(jobsSeen) /\ jobsSeen \in Versions
    BY DEF JobsInv, Versions
  <1>2. n \in DOMAIN jobsSeen /\ DOMAIN jobsSeen # {}
    BY <1>1, NewestIsHighest DEF Fits
  <1>3. SoundJob(j) /\ j.key = <<seen.source, seen.rebuild>>
    BY <1>1, <1>2 DEF Fits, Key, JobList
  <1>4. j.pushes.source = seen.source /\ j.pushes.rebuild = seen.rebuild
    <2>1. <<j.pushes.source, j.pushes.rebuild>> = <<seen.source, seen.rebuild>>
      BY <1>3 DEF SoundJob
    <2> QED BY <2>1
  <1>5. n \in DOMAIN jobs => SoundJob(jobs[n]) /\ jobs[n].pushes = j.pushes
    BY <1>1, <1>2 DEF JobList, JobsInv, SameBuild
  <1> QED BY <1>2, <1>3, <1>4, <1>5

\* The build of a Job is noted on it.
LEMMA NotedJob ==
    ASSUME NEW j, SoundJob(j)
    PROVE  /\ SoundJob([j EXCEPT !.image = j.pushes])
           /\ [j EXCEPT !.image = j.pushes].pushes = j.pushes
           /\ SoundJob([j EXCEPT !.failure = TRUE])
           /\ [j EXCEPT !.failure = TRUE].pushes = j.pushes
  <1>1. j \in BuildJob
    BY DEF SoundJob
  <1>2. /\ [j EXCEPT !.image = j.pushes] \in BuildJob
        /\ [j EXCEPT !.failure = TRUE] \in BuildJob
    BY <1>1 DEF BuildJob
  <1>3. /\ [j EXCEPT !.image = j.pushes].key = j.key
        /\ [j EXCEPT !.image = j.pushes].pushes = j.pushes
        /\ [j EXCEPT !.image = j.pushes].image = j.pushes
        /\ [j EXCEPT !.failure = TRUE].key = j.key
        /\ [j EXCEPT !.failure = TRUE].pushes = j.pushes
        /\ [j EXCEPT !.failure = TRUE].image = j.image
    BY <1>1 DEF BuildJob
  <1> QED BY <1>2, <1>3 DEF SoundJob

LEMMA ReconcileDockerfileKeeps ==
    ASSUME BuildsInv, ReconcileDockerfile
    PROVE  BuildsInv' /\ DoneStep
  <1> DEFINE n == Newest(jobsSeen)
             j == jobsSeen[n]
             noted == jobs[n]
             last == LastImage(jobsSeen, n)
             settled == j.image # None \/ j.failure
             made == [k \in DOMAIN jobs \cup {n + 1} |->
                         IF k \in DOMAIN jobs THEN jobs[k] ELSE NewJob(seen)]
             Ready == {"Unknown", "True", "False"}
  <1>1. BuildsTypes /\ JobsInv /\ CurrentIsSeen /\ kpack' = None /\ jobsSeen' = jobsSeen
    BY DEF BuildsInv, ReconcileDockerfile
  <1>2. ASSUME NEW ready, NEW img, Report(ready, img), JobsInv',
               ready = "True" => /\ img.source = seen.source
                                 /\ img.rebuild = seen.rebuild
        PROVE  BuildsInv' /\ DoneStep
    <2>1. DoneStep
      BY <1>1, <1>2, ReportIsDone
    <2>2. BuildsTypes' /\ CurrentIsSeen'
      <3>1. /\ spec' = spec /\ seen' = seen /\ registry' = registry
            /\ current' \in BOOLEAN /\ CurrentIsSeen'
        BY <1>1, <1>2, ReportKeeps
      <3> QED BY <1>1, <3>1 DEF BuildsTypes
    <2>3. ReadyIsOfSource'
      BY <1>1 DEF ReadyIsOfSource
    <2> QED BY <1>2, <2>1, <2>2, <2>3 DEF BuildsInv
  <1>3. CASE ~Fits(jobsSeen, seen)
    <2>1. SetJobs(made) /\ Report("Unknown", LastImage(jobsSeen, n + 1))
      BY <1>3 DEF ReconcileDockerfile
    <2>2. SoundJob(NewJob(seen))
      BY <1>1, NewJobIsSound DEF BuildsTypes
    <2>3. JobsInv'
      BY <1>1, <2>1, <2>2, MakesInv
    <2> QED BY <1>2, <2>1, <2>3
  <1>4. CASE Fits(jobsSeen, seen)
    <2>1. /\ DOMAIN jobsSeen # {}
          /\ SoundJob(j)
          /\ j.pushes.source = seen.source /\ j.pushes.rebuild = seen.rebuild
          /\ n \in DOMAIN jobs => SoundJob(noted) /\ noted.pushes = j.pushes
      BY <1>1, <1>4, FittingJob
    <2>2. ASSUME SetJobs(Keep(noted)) PROVE JobsInv'
      BY <1>1, <2>1, <2>2, KeepsInv
    <2>3. CASE SetJobs(Keep(noted)) /\ Report("True", j.image) /\ j.image # None
      <3>1. j.image = j.pushes
        BY <2>1, <2>3 DEF SoundJob
      <3> QED BY <1>2, <2>1, <2>2, <2>3, <3>1
    <2>4. CASE SetJobs(Keep(noted)) /\ (Report("False", last) \/ Report("Unknown", last))
      BY <1>2, <2>2, <2>4
    <2>5. CASE SetJobs(Keep([noted EXCEPT !.image = j.pushes])) /\ Report("True", j.pushes)
      <3>1. n \in DOMAIN jobs =>
               /\ SoundJob([noted EXCEPT !.image = j.pushes])
               /\ [noted EXCEPT !.image = j.pushes].pushes = noted.pushes
        BY <2>1, NotedJob
      <3>2. JobsInv'
        BY <1>1, <2>1, <2>5, <3>1, KeepsInv
      <3> QED BY <1>2, <2>1, <2>5, <3>2
    <2>6. CASE SetJobs(Keep([noted EXCEPT !.failure = TRUE])) /\ Report("False", last)
      <3>1. n \in DOMAIN jobs =>
               /\ SoundJob([noted EXCEPT !.failure = TRUE])
               /\ [noted EXCEPT !.failure = TRUE].pushes = noted.pushes
        BY <2>1, NotedJob
      <3>2. JobsInv'
        BY <1>1, <2>1, <2>6, <3>1, KeepsInv
      <3> QED BY <1>2, <2>6, <3>2
    <2> QED BY <1>4, <2>3, <2>4, <2>5, <2>6 DEF ReconcileDockerfile
  <1> QED BY <1>3, <1>4

LEMMA DockerfileFailsKeeps ==
    ASSUME BuildsInv, DockerfileFails
    PROVE  BuildsInv' /\ DoneStep
  <1>1. BuildsTypes /\ JobsInv /\ CurrentIsSeen /\ ReadyIsOfSource
    BY DEF BuildsInv
  <1>2. /\ jobsSeen' = jobsSeen /\ kpack' = kpack
        /\ spec' = spec /\ seen' = seen /\ current' = current /\ registry' = registry
        /\ status' = status
    BY DEF DockerfileFails, Fails
  <1>3. JobsInv'
    <2>1. CASE Fits(jobsSeen, seen)
      <3>1. SetJobs(Keep(jobs[Newest(jobsSeen)]))
        BY <2>1 DEF DockerfileFails
      <3>2. /\ DOMAIN jobsSeen # {}
            /\ Newest(jobsSeen) \in DOMAIN jobs => SoundJob(jobs[Newest(jobsSeen)])
        BY <1>1, <2>1, FittingJob
      <3> QED BY <1>1, <1>2, <3>1, <3>2, KeepsInv
    <2>2. CASE ~Fits(jobsSeen, seen)
      <3>1. PICK made \in BOOLEAN :
               SetJobs(IF made /\ Newest(jobsSeen) = Newest(jobs)
                       THEN [k \in DOMAIN jobs \cup {Newest(jobs) + 1} |->
                               IF k \in DOMAIN jobs THEN jobs[k] ELSE NewJob(seen)]
                       ELSE jobs)
        BY <2>2 DEF DockerfileFails
      <3>2. CASE made /\ Newest(jobsSeen) = Newest(jobs)
        <4>1. SetJobs([k \in DOMAIN jobs \cup {Newest(jobsSeen) + 1} |->
                         IF k \in DOMAIN jobs THEN jobs[k] ELSE NewJob(seen)])
          BY <3>1, <3>2
        <4>2. SoundJob(NewJob(seen))
          BY <1>1, NewJobIsSound DEF BuildsTypes
        <4> QED BY <1>1, <1>2, <4>1, <4>2, MakesInv
      <3>3. CASE ~(made /\ Newest(jobsSeen) = Newest(jobs))
        <4>1. jobs' = jobs /\ events' = events
          BY <3>1, <3>3 DEF SetJobs
        <4> QED BY <1>1, <1>2, <4>1, OthersStay DEF Dockerfile
      <3> QED BY <3>2, <3>3
    <2> QED BY <2>1, <2>2
  <1> QED BY <1>1, <1>2, <1>3
          DEF BuildsInv, BuildsTypes, CurrentIsSeen, ReadyIsOfSource, DoneStep

LEMMA JobEndsKeeps ==
    ASSUME BuildsInv, NEW n \in DOMAIN jobs, JobEnds(n)
    PROVE  BuildsInv' /\ DoneStep
  <1>1. JobsInv /\ JobList(jobs) /\ jobsSeen' = jobsSeen
    BY DEF BuildsInv, JobsInv, JobEnds
  <1>2. PICK state \in {"succeeded", "failed"} : SetJobs([jobs EXCEPT ![n].state = state])
    BY DEF JobEnds
  <1> DEFINE j == [jobs[n] EXCEPT !.state = state]
             js == [jobs EXCEPT ![n] = j]
  <1>3. SetJobs(js)
    BY <1>2
  <1>4. SoundJob(j) /\ j.pushes = jobs[n].pushes
    <2>1. jobs[n] \in BuildJob /\ SoundJob(jobs[n])
      BY <1>1 DEF JobList, SoundJob
    <2>2. /\ j \in BuildJob /\ j.pushes = jobs[n].pushes /\ j.key = jobs[n].key
          /\ j.image = jobs[n].image
      BY <2>1 DEF BuildJob
    <2> QED BY <2>1, <2>2 DEF SoundJob
  <1> HIDE DEF j
  <1>5. /\ DOMAIN js = DOMAIN jobs /\ js = [k \in DOMAIN js |-> js[k]]
        /\ \A k \in DOMAIN jobs : js[k] = IF k = n THEN j ELSE jobs[k]
    OBVIOUS
  <1> HIDE DEF js
  <1>6. JobList(js)
    BY <1>1, <1>4, <1>5 DEF JobList
  <1>7. NoOlder(jobs, js)
    BY <1>1, <1>5 DEF NoOlder, JobList
  <1>8. JobsInv'
    <2>1. /\ \A k \in DOMAIN js \cap DOMAIN jobs : js[k].pushes = jobs[k].pushes
          /\ DOMAIN js \ DOMAIN jobs = {} /\ DOMAIN jobs \ DOMAIN js = {}
      BY <1>4, <1>5
    <2> QED BY <1>1, <1>3, <1>6, <1>7, <2>1, SetJobsKeepsInv
  <1> QED BY <1>8
          DEF JobEnds, BuildsInv, BuildsTypes, CurrentIsSeen, ReadyIsOfSource, DoneStep

\* An Image that an App asks for.
LEMMA UpdatedImage ==
    ASSUME NEW i \in KpackImage, NEW a \in Asked
    PROVE  LET u == Updated(i, a)
           IN  /\ u \in KpackImage
               /\ u.source = a.source /\ u.ready = i.ready /\ u.image = i.image
               /\ u.observed => i.observed /\ i.source = a.source
               /\ [i EXCEPT !.again = u.again] \in KpackImage
               /\ [i EXCEPT !.again = u.again].source = i.source
               /\ [i EXCEPT !.again = u.again].observed = i.observed
               /\ [i EXCEPT !.again = u.again].ready = i.ready
               /\ [i EXCEPT !.again = u.again].image = i.image
  <1> DEFINE trigger == a.rebuild # 0 /\ i.asked # a.rebuild
             observed == i.observed /\ i.source = a.source
             asked == IF trigger THEN a.rebuild ELSE i.asked
             again == i.again \/ (trigger /\ i.newest # NoBuild)
  <1>1. /\ a.source \in Sources \cup {None} /\ a.rebuild \in Nat
        /\ i.asked \in Nat
    BY DEF Asked, KpackImage
  <1>2. observed \in BOOLEAN /\ again \in BOOLEAN
    <2>1. i.observed \in BOOLEAN /\ i.again \in BOOLEAN
      BY DEF KpackImage
    <2> QED BY <2>1
  <1>3. asked \in Nat
    BY <1>1
  <1>4. Updated(i, a) = [i EXCEPT !.source = a.source, !.observed = observed,
                                  !.asked = asked, !.again = again]
    BY DEF Updated
  <1>5. observed => i.observed /\ i.source = a.source
    OBVIOUS
  <1> HIDE DEF trigger, observed, asked, again
  <1>6. /\ Updated(i, a) \in KpackImage
        /\ Updated(i, a).source = a.source /\ Updated(i, a).ready = i.ready
        /\ Updated(i, a).image = i.image /\ Updated(i, a).observed = observed
        /\ Updated(i, a).again = again
    BY <1>1, <1>2, <1>3, <1>4 DEF KpackImage
  <1>7. /\ [i EXCEPT !.again = again] \in KpackImage
        /\ [i EXCEPT !.again = again].source = i.source
        /\ [i EXCEPT !.again = again].observed = i.observed
        /\ [i EXCEPT !.again = again].ready = i.ready
        /\ [i EXCEPT !.again = again].image = i.image
    BY <1>2 DEF KpackImage
  <1> QED BY <1>5, <1>6, <1>7

LEMMA NewImageIsSound ==
    ASSUME NEW a \in Asked, registry \in Registries \cup {0, 1}
    PROVE  NewImage(a) \in KpackImage /\ NewImage(a).source = a.source /\ ~NewImage(a).observed
  <1>1. NoBuild \in BuiltImage
    BY DEF NoBuild, Built, BuiltImage
  <1>2. a.source \in Sources \cup {None}
    BY DEF Asked
  <1>3. ASSUME NEW b \in BuiltImage, NEW s \in Sources \cup {None}
        PROVE  [source |-> s, registry |-> registry, asked |-> 0,
                observed |-> FALSE, ready |-> "Unknown", image |-> None,
                newest |-> b, building |-> FALSE, again |-> FALSE] \in KpackImage
    BY DEF KpackImage
  <1> QED BY <1>1, <1>2, <1>3 DEF NewImage

\* An Image as kpack leaves it.
KpackSound(i) ==
    /\ i \in KpackImage \cup {None}
    /\ i # None /\ i.observed /\ i.ready = "True" => i.image.source = i.source

\* A step of kpack alone.
LEMMA KpackStep ==
    ASSUME BuildsInv, KpackSound(kpack'),
           UNCHANGED <<spec, seen, current, Dockerfile, registry, status>>
    PROVE  BuildsInv' /\ DoneStep
  <1>1. JobsInv'
    BY OthersStay DEF BuildsInv
  <1>2. BuildsTypes' /\ ReadyIsOfSource'
    BY DEF KpackSound, BuildsInv, BuildsTypes, ReadyIsOfSource
  <1> QED BY <1>1, <1>2 DEF BuildsInv, CurrentIsSeen, DoneStep

LEMMA ReconcileKpackKeeps ==
    ASSUME BuildsInv, ReconcileKpack
    PROVE  BuildsInv' /\ DoneStep
  <1>1. BuildsTypes /\ JobsInv /\ CurrentIsSeen /\ ReadyIsOfSource
    BY DEF BuildsInv
  <1>2. /\ Report(StateOf(kpack'), kpack'.image) /\ UNCHANGED Dockerfile
        /\ seen.strategy = "buildpacks" /\ seen \in Asked
    BY <1>1 DEF ReconcileKpack, BuildsTypes
  <1>3. /\ kpack' \in KpackImage /\ kpack'.source = seen.source
        /\ kpack'.observed /\ kpack'.ready = "True" => kpack'.image.source = kpack'.source
    <2>1. CASE kpack = None \/ (kpack # None /\ kpack.registry # registry)
      <3>1. kpack' = NewImage(seen)
        BY <2>1 DEF ReconcileKpack
      <3> QED BY <1>1, <1>2, <3>1, NewImageIsSound DEF BuildsTypes
    <2>2. CASE ~(kpack = None \/ (kpack # None /\ kpack.registry # registry))
      <3>1. kpack' = Updated(kpack, seen) /\ kpack # None /\ kpack \in KpackImage
        BY <1>1, <2>2 DEF ReconcileKpack, BuildsTypes
      <3>2. /\ kpack' \in KpackImage
            /\ kpack'.source = seen.source /\ kpack'.ready = kpack.ready
            /\ kpack'.image = kpack.image
            /\ kpack'.observed => kpack.observed /\ kpack.source = seen.source
        BY <1>2, <3>1, UpdatedImage
      <3> QED BY <1>1, <3>1, <3>2 DEF ReadyIsOfSource
    <2> QED BY <2>1, <2>2
  <1>4. StateOf(kpack') = "True" => kpack'.image.source = seen.source
    <2> SUFFICES ASSUME StateOf(kpack') = "True"
                 PROVE  kpack'.image.source = seen.source
      OBVIOUS
    <2>1. kpack'.observed /\ kpack'.ready = "True"
      BY DEF StateOf
    <2> QED BY <1>3, <2>1
  <1>5. DoneStep
    BY <1>1, <1>2, <1>4, ReportIsDone
  <1>6. /\ spec' = spec /\ seen' = seen /\ registry' = registry
        /\ current' \in BOOLEAN /\ CurrentIsSeen'
    BY <1>1, <1>2, ReportKeeps
  <1>7. JobsInv'
    BY <1>1, <1>2, OthersStay
  <1>8. BuildsTypes' /\ ReadyIsOfSource'
    BY <1>1, <1>3, <1>6 DEF BuildsTypes, ReadyIsOfSource
  <1> QED BY <1>5, <1>6, <1>7, <1>8 DEF BuildsInv

LEMMA KpackFailsKeeps ==
    ASSUME BuildsInv, KpackFails
    PROVE  BuildsInv' /\ DoneStep
  <1>1. UNCHANGED <<spec, seen, current, Dockerfile, registry, status>>
    BY DEF KpackFails, Fails
  <1>2. KpackSound(kpack) /\ seen \in Asked
    BY DEF BuildsInv, BuildsTypes, ReadyIsOfSource, KpackSound
  <1>3. CASE kpack' = kpack \/ kpack' = None
    BY <1>1, <1>2, <1>3, KpackStep DEF KpackSound
  <1>4. CASE kpack # None /\ kpack' = [kpack EXCEPT !.again = Updated(kpack, seen).again]
    <2>1. kpack \in KpackImage
      BY <1>2, <1>4 DEF KpackSound
    <2>2. /\ kpack' \in KpackImage /\ kpack'.source = kpack.source
          /\ kpack'.observed = kpack.observed /\ kpack'.ready = kpack.ready
          /\ kpack'.image = kpack.image
      BY <1>2, <1>4, <2>1, UpdatedImage
    <2>3. KpackSound(kpack')
      BY <1>2, <1>4, <2>2 DEF KpackSound
    <2> QED BY <1>1, <2>3, KpackStep
  <1> QED BY <1>3, <1>4 DEF KpackFails

LEMMA KpackBuildsKeeps ==
    ASSUME BuildsInv, KpackBuilds
    PROVE  BuildsInv' /\ DoneStep
  <1>1. kpack \in KpackImage
    BY DEF BuildsInv, BuildsTypes, KpackBuilds
  <1> DEFINE b == Built(kpack.source, kpack.asked, kpack.registry)
  <1>2. b \in BuiltImage
    BY <1>1 DEF Built, BuiltImage, KpackImage
  <1>3. kpack' = [kpack EXCEPT !.newest = b, !.building = TRUE, !.again = FALSE,
                               !.observed = TRUE, !.ready = "Unknown"]
    BY DEF KpackBuilds
  <1> HIDE DEF b
  <1>4. kpack' \in KpackImage /\ kpack'.ready = "Unknown"
    BY <1>1, <1>2, <1>3 DEF KpackImage
  <1>5. KpackSound(kpack')
    BY <1>4 DEF KpackSound
  <1> QED BY <1>5, KpackStep DEF KpackBuilds

LEMMA KpackObservesKeeps ==
    ASSUME BuildsInv, KpackObserves
    PROVE  BuildsInv' /\ DoneStep
  <1>1. kpack \in KpackImage /\ kpack.newest.source = kpack.source
    BY DEF BuildsInv, BuildsTypes, KpackObserves, Needed
  <1> DEFINE r == IF kpack.image = kpack.newest THEN "True" ELSE "False"
  <1>2. kpack' = [kpack EXCEPT !.observed = TRUE, !.ready = r]
    BY DEF KpackObserves
  <1>3. r \in {"True", "False"} /\ (r = "True" => kpack.image = kpack.newest)
    OBVIOUS
  <1> HIDE DEF r
  <1>4. /\ kpack' \in KpackImage /\ kpack'.ready = r /\ kpack'.source = kpack.source
        /\ kpack'.image = kpack.image
    BY <1>1, <1>2, <1>3 DEF KpackImage
  <1>5. KpackSound(kpack')
    BY <1>1, <1>3, <1>4 DEF KpackSound
  <1> QED BY <1>5, KpackStep DEF KpackObserves

LEMMA KpackEndsKeeps ==
    ASSUME BuildsInv, KpackEnds
    PROVE  BuildsInv' /\ DoneStep
  <1>1. kpack \in KpackImage
    BY DEF BuildsInv, BuildsTypes, KpackEnds
  <1>2. PICK done \in BOOLEAN :
          kpack' = [kpack EXCEPT !.building = FALSE, !.observed = TRUE,
                                 !.image = IF done THEN kpack.newest ELSE @,
                                 !.ready = IF Needed(kpack) THEN "Unknown"
                                           ELSE IF done THEN "True" ELSE "False"]
    BY DEF KpackEnds
  <1> DEFINE img == IF done THEN kpack.newest ELSE kpack.image
             r == IF Needed(kpack) THEN "Unknown" ELSE IF done THEN "True" ELSE "False"
  <1>3. kpack' = [kpack EXCEPT !.building = FALSE, !.observed = TRUE, !.image = img, !.ready = r]
    BY <1>2
  <1>4. img \in BuiltImage \cup {None} /\ r \in {"Unknown", "True", "False"}
    BY <1>1 DEF KpackImage
  <1>5. r = "True" => img.source = kpack.source
    BY DEF Needed
  <1> HIDE DEF img, r
  <1>6. /\ kpack' \in KpackImage /\ kpack'.ready = r /\ kpack'.source = kpack.source
        /\ kpack'.image = img
    BY <1>1, <1>3, <1>4 DEF KpackImage
  <1>7. KpackSound(kpack')
    BY <1>5, <1>6 DEF KpackSound
  <1> QED BY <1>7, KpackStep DEF KpackEnds

\* The caches are filled anew: the versions in between are not seen any more.
LEMMA BuildsRestart ==
    ASSUME BuildsInv, NEW reg \in Registries, Restart(reg)
    PROVE  BuildsInv' /\ DoneStep
  <1>1. /\ jobs' = jobs /\ jobsSeen' = jobs /\ events' = <<>>
        /\ spec' = spec /\ seen' = spec /\ current' = TRUE
        /\ registry' = reg /\ kpack' = kpack /\ status' = status
    BY DEF Restart
  <1>2. BuildsTypes /\ JobList(jobs) /\ ReadyIsOfSource
    BY DEF BuildsInv, JobsInv
  <1>3. Versions' = {jobs}
    BY <1>1 DEF Versions
  <1>4. events' \in Seq(Range(events')) /\ Len(events') = 0
    BY <1>1
  <1>5. InOrder'
    BY <1>1, <1>2, <1>3, <1>4, NoOlderThanItself DEF InOrder
  <1>6. JobsInv'
    BY <1>1, <1>2, <1>3, <1>4, <1>5 DEF JobsInv, SameBuild, GoneAreOld
  <1> QED BY <1>1, <1>2, <1>6
          DEF BuildsInv, BuildsTypes, CurrentIsSeen, ReadyIsOfSource, DoneStep

---------------------------------------------------------------------------
LEMMA BuildsInitially == BuildsInit => BuildsInv
  <1> SUFFICES ASSUME BuildsInit PROVE BuildsInv
    OBVIOUS
  <1>1. /\ DOMAIN jobs = {} /\ jobs = [n \in DOMAIN jobs |-> jobs[n]] /\ jobsSeen = jobs
        /\ events = <<>> /\ Len(events) = 0
    BY DEF BuildsInit
  <1>2. Versions = {jobs}
    BY <1>1 DEF Versions
  <1>3. JobList(jobs)
    BY <1>1 DEF JobList
  <1>4. InOrder
    BY <1>1, <1>2, <1>3, NoOlderThanItself DEF InOrder
  <1>5. JobsInv
    BY <1>1, <1>2, <1>3, <1>4 DEF JobsInv, SameBuild, GoneAreOld
  <1>6. BuildsTypes /\ CurrentIsSeen /\ ReadyIsOfSource
    BY DEF BuildsInit, BuildsTypes, Asked, CurrentIsSeen, ReadyIsOfSource
  <1> QED BY <1>5, <1>6 DEF BuildsInv

LEMMA BuildsStep == BuildsInv /\ [BuildsNext]_buildsVars => BuildsInv' /\ DoneStep
  <1> SUFFICES ASSUME BuildsInv, [BuildsNext]_buildsVars
               PROVE  BuildsInv' /\ DoneStep
    OBVIOUS
  <1>1. CASE \E d \in Deploys : Deploy(d)
    BY <1>1, DeployBuilds
  <1>2. CASE Rebuild
    BY <1>2, RebuildKeeps
  <1>3. CASE SyncSpec
    BY <1>3, SyncSpecKeeps
  <1>4. CASE SyncJobs
    BY <1>4, SyncJobsKeeps
  <1>5. CASE ReconcileDockerfile
    BY <1>5, ReconcileDockerfileKeeps
  <1>6. CASE DockerfileFails
    BY <1>6, DockerfileFailsKeeps
  <1>7. CASE ReconcileKpack
    BY <1>7, ReconcileKpackKeeps
  <1>8. CASE KpackFails
    BY <1>8, KpackFailsKeeps
  <1>9. CASE \E n \in DOMAIN jobs : JobEnds(n)
    BY <1>9, JobEndsKeeps
  <1>10. CASE KpackBuilds
    BY <1>10, KpackBuildsKeeps
  <1>11. CASE KpackObserves
    BY <1>11, KpackObservesKeeps
  <1>12. CASE KpackEnds
    BY <1>12, KpackEndsKeeps
  <1>13. CASE \E reg \in Registries : reg \in {registry, registry + 1} /\ Restart(reg)
    BY <1>13, BuildsRestart
  <1>14. CASE UNCHANGED buildsVars
    <2>1. JobsInv'
      BY <1>14, OthersStay DEF BuildsInv, buildsVars, Dockerfile
    <2> QED BY <1>14, <2>1 DEF buildsVars, BuildsInv, BuildsTypes, CurrentIsSeen,
                               ReadyIsOfSource, DoneStep
  <1> QED BY <1>1, <1>2, <1>3, <1>4, <1>5, <1>6, <1>7, <1>8, <1>9, <1>10, <1>11, <1>12,
             <1>13, <1>14 DEF BuildsNext

(***************************************************************************)
(* A number stands for one build Job in every version of the list that     *)
(* the controller has read or will read, and no number is given again      *)
(* after its Job was deleted: what is read from a stale list is what was   *)
(* built under that number (reconcileDockerfileBuild, pruneBuildJobs).     *)
(***************************************************************************)
THEOREM BuildsInvHolds == BuildsSpec => []BuildsInv
  <1>1. BuildsInv /\ [BuildsNext]_buildsVars => BuildsInv'
    BY BuildsStep
  <1> QED BY <1>1, BuildsInitially, PTL DEF BuildsSpec

(***************************************************************************)
(* The status calls a build done only with an image of what the App asks   *)
(* for, however stale the Jobs and the Image were that the controller read *)
(* (reconcile, readBuildState).                                            *)
(***************************************************************************)
THEOREM DoneHolds == BuildsSpec => DoneIsOfSource
  <1>1. BuildsInv /\ [BuildsNext]_buildsVars => [DoneStep]_buildsVars
    BY BuildsStep
  <1>2. BuildsSpec => [][DoneStep]_buildsVars
    BY <1>1, BuildsInvHolds, PTL DEF BuildsSpec
  <1> QED BY <1>2 DEF DoneIsOfSource, DoneStep

---------------------------------------------------------------------------
(* AppRelease. *)

USE ConstantsAssumption

---------------------------------------------------------------------------
(* Lemmas about histories.                                                  *)

\* A history with a release appended: what it is made of.
LEMMA AppendedShape ==
    ASSUME NEW rels \in Seq(Release), NEW image \in Images, NEW config \in Configs,
           Len(rels) <= MaxReleases
    PROVE  LET new == Appended(rels, image, config)
               drop == IF Len(rels) = MaxReleases THEN 1 ELSE 0
           IN  /\ new \in Seq(Release)
               /\ Len(new) = Len(rels) + 1 - drop
               /\ new # <<>>
               /\ Current(new) = [num |-> NextNumber(rels), image |-> image, config |-> config]
               /\ \A i \in 1..(Len(new) - 1) : new[i] = rels[i + drop]
  <1> DEFINE r == [num |-> NextNumber(rels), image |-> image, config |-> config]
             all == Append(rels, r)
             new == Appended(rels, image, config)
             drop == IF Len(rels) = MaxReleases THEN 1 ELSE 0
  <1>1. Len(rels) \in Nat
    BY LenProperties
  <1>2. rels # <<>> => Current(rels) \in Release
    <2> SUFFICES ASSUME rels # <<>> PROVE Current(rels) \in Release
      OBVIOUS
    <2>1. Len(rels) \in 1..Len(rels)
      BY <1>1, EmptySeq
    <2> QED BY <2>1, ElementOfSeq DEF Current
  <1>3. r \in Release
    BY <1>2 DEF NextNumber, Release
  <1>4. /\ all \in Seq(Release)
        /\ Len(all) = Len(rels) + 1
        /\ \A i \in 1..Len(rels) : all[i] = rels[i]
        /\ all[Len(rels) + 1] = r
    BY <1>3, AppendProperties
  <1>5. CASE Len(rels) = MaxReleases
    <2>1. new = SubSeq(all, 2, Len(all))
      BY <1>1, <1>4, <1>5 DEF Appended
    <2>2. \A i \in 2..Len(all) : all[i] \in Release
      BY <1>1, <1>4, ElementOfSeq
    <2>3. /\ new \in Seq(Release)
          /\ Len(new) = Len(rels)
          /\ \A i \in 1..Len(rels) : new[i] = all[i + 1]
      <3>1. /\ SubSeq(all, 2, Len(all)) \in Seq(Release)
            /\ Len(SubSeq(all, 2, Len(all))) = IF 2 <= Len(all) THEN Len(all) - 2 + 1 ELSE 0
            /\ \A i \in 1..Len(all) - 2 + 1 : SubSeq(all, 2, Len(all))[i] = all[2 + i - 1]
        BY <1>1, <1>4, <2>2, SubSeqProperties
      <3> QED BY <1>1, <1>4, <1>5, <2>1, <3>1
    <2>4. Len(rels) >= 1
      BY <1>5
    <2> QED BY <1>1, <1>4, <1>5, <2>3, <2>4, EmptySeq DEF Current
  <1>6. CASE Len(rels) # MaxReleases
    <2>1. new = all
      BY <1>1, <1>4, <1>6 DEF Appended
    <2> QED BY <1>1, <1>4, <1>6, <2>1, EmptySeq DEF Current
  <1> QED BY <1>5, <1>6

\* Appending what the current release is not keeps a history well formed.
LEMMA AppendedWellFormed ==
    ASSUME NEW rels \in Seq(Release), NEW image \in Images, NEW config \in Configs,
           WellFormed(rels), ~SameRelease(rels, image, config)
    PROVE  /\ Appended(rels, image, config) \in Seq(Release)
           /\ WellFormed(Appended(rels, image, config))
           /\ Extends(Appended(rels, image, config), rels)
  <1> DEFINE new == Appended(rels, image, config)
             drop == IF Len(rels) = MaxReleases THEN 1 ELSE 0
  <1>1. Len(rels) <= MaxReleases
    BY DEF WellFormed
  <1>2. /\ new \in Seq(Release)
        /\ Len(new) = Len(rels) + 1 - drop
        /\ new # <<>>
        /\ Current(new) = [num |-> NextNumber(rels), image |-> image, config |-> config]
        /\ \A i \in 1..(Len(new) - 1) : new[i] = rels[i + drop]
    BY <1>1, AppendedShape
  <1>3. Len(rels) \in Nat /\ Len(new) \in Nat
    BY <1>2, LenProperties
  <1>4. ASSUME NEW i \in 1..(Len(new) - 1)
        PROVE  /\ new[i + 1].num = new[i].num + 1
               /\ <<new[i].image, new[i].config>> # <<new[i + 1].image, new[i + 1].config>>
    <2>1. new[i] = rels[i + drop] /\ i + drop \in 1..Len(rels)
      BY <1>1, <1>2, <1>3
    <2>2. CASE i + 1 = Len(new)
      <3>1. i + drop = Len(rels) /\ rels # <<>>
        BY <1>2, <1>3, <2>1, <2>2, EmptySeq
      <3>2. new[i] = Current(rels) /\ new[i + 1] = Current(new)
        BY <2>1, <2>2, <3>1 DEF Current
      <3>3. Current(new).num = Current(rels).num + 1
        BY <1>2, <3>1 DEF NextNumber
      <3>4. Current(rels).image # image \/ Current(rels).config # config
        BY <3>1 DEF SameRelease
      <3> QED BY <1>2, <3>2, <3>3, <3>4
    <2>3. CASE i + 1 # Len(new)
      <3>1. i + 1 \in 1..(Len(new) - 1) /\ i + drop \in 1..(Len(rels) - 1)
        BY <1>1, <1>2, <1>3, <2>3
      <3>2. new[i + 1] = rels[i + drop + 1]
        BY <1>2, <1>3, <3>1
      <3> QED BY <2>1, <3>1, <3>2 DEF WellFormed
    <2> QED BY <2>2, <2>3
  <1>5. WellFormed(new)
    BY <1>1, <1>2, <1>3, <1>4 DEF WellFormed
  <1>6. Extends(new, rels)
    BY <1>2 DEF Extends
  <1> QED BY <1>2, <1>5, <1>6

\* The current release of a history that has one.
LEMMA CurrentType ==
    ASSUME NEW rels \in Seq(Release), rels # <<>>
    PROVE  Current(rels) \in Release
  <1>1. Len(rels) \in 1..Len(rels)
    BY EmptySeq, LenProperties
  <1> QED BY <1>1, ElementOfSeq DEF Current

\* The images of a history are images.
LEMMA ImagesOfType ==
    ASSUME NEW rels \in Seq(Release)
    PROVE  ImagesOf(rels) \subseteq Images
  <1>1. \A i \in 1..Len(rels) : rels[i] \in Release
    BY ElementOfSeq
  <1>2. \A i \in 1..Len(rels) : rels[i].image \in Images
    BY <1>1 DEF Release
  <1> QED BY <1>2 DEF ImagesOf

---------------------------------------------------------------------------
(* Type correctness.                                                        *)

\* A history within maxReleases, wherever the controller keeps one; and what a
\* job that records or prunes has in hand.
Bounded ==
    /\ Len(app.releases) <= MaxReleases
    /\ Len(cached.releases) <= MaxReleases
    /\ Len(job.app.releases) <= MaxReleases
    /\ job.pc \in {"release", "prune"} => job.image \in Images

TypeInv == TypeOK /\ Bounded

LEMMA InitType == Init => TypeInv
  <1> SUFFICES ASSUME Init PROVE TypeInv
    OBVIOUS
  <1>1. NewApp \in App /\ Len(NewApp.releases) <= MaxReleases
    BY EmptySeq DEF NewApp, App, Phases
  <1>2. NoJob \in Job /\ NoJob.app = NewApp /\ NoJob.pc = "idle"
    BY <1>1 DEF NoJob, Job, Readiness, Rollouts
  <1>3. NewSecret \in Secret
    BY DEF NewSecret, Secret
  <1> QED BY <1>1, <1>2, <1>3 DEF Init, TypeInv, TypeOK, Bounded, Readiness, Rollouts

\* A write of an App of the right type.
LEMMA WriteType ==
    ASSUME app \in App, NEW new \in App, Write(new)
    PROVE  /\ app' \in App
           /\ app' = app \/ app'.rv = app.rv + 1
           /\ app'.releases = new.releases
  <1>1. CASE new = app
    BY <1>1 DEF Write
  <1>2. CASE new # app
    <2>1. app' = [new EXCEPT !.rv = app.rv + 1]
      BY <1>2 DEF Write
    <2>2. app.rv + 1 \in Nat
      BY DEF App
    <2> QED BY <2>1, <2>2 DEF App
  <1> QED BY <1>1, <1>2

LEMMA WriteSpecType ==
    ASSUME app \in App, NEW new \in App, WriteSpec(new)
    PROVE  /\ app' \in App
           /\ app' = app \/ app'.rv = app.rv + 1
           /\ app'.releases = new.releases
  <1>1. CASE new = app
    BY <1>1, WriteType DEF WriteSpec
  <1>2. CASE new # app
    <2> DEFINE next == [new EXCEPT !.gen = app.gen + 1]
    <2>1. Write(next)
      BY <1>2 DEF WriteSpec
    <2>2. app.gen + 1 \in Nat
      BY DEF App
    <2>3. next \in App /\ next.releases = new.releases
      BY <2>2 DEF App
    <2> HIDE DEF next
    <2> QED BY <2>1, <2>3, WriteType
  <1> QED BY <1>1, <1>2

\* What a finished reconcile hands to the status patch.
LEMMA ToPatchType ==
    ASSUME NEW a \in App, NEW requeue \in BOOLEAN, NEW clear \in BOOLEAN,
           ToPatch(a, requeue, clear)
    PROVE  job' \in Job /\ job'.app = a /\ job'.pc = "patch"
  BY DEF ToPatch, NoJob, Job, Readiness, Rollouts

LEMMA NoJobType ==
    /\ NoJob \in Job
    /\ NoJob.pc = "idle"
    /\ NoJob.app.releases = <<>>
    /\ Len(NoJob.app.releases) = 0
  BY EmptySeq DEF NoJob, Job, NewApp, App, Phases, Readiness, Rollouts

\* The release recorded in memory.
LEMMA RecordedType ==
    ASSUME TypeInv, job.pc = "release"
    PROVE  /\ Recorded \in App
           /\ Len(Recorded.releases) <= MaxReleases
           /\ Recorded.releases = Appended(job.app.releases, job.image, job.config)
           /\ Recorded.releases # <<>>
           /\ Current(Recorded.releases).config = job.config
           /\ Current(Recorded.releases).num \in Nat \ {0}
  <1> DEFINE kept == Appended(job.app.releases, job.image, job.config)
  <1>1. /\ job.app \in App /\ job.app.releases \in Seq(Release)
        /\ job.image \in Images /\ job.config \in Configs
        /\ Len(job.app.releases) <= MaxReleases
    BY DEF TypeInv, TypeOK, Bounded, Job, App
  <1>2. /\ kept \in Seq(Release)
        /\ kept # <<>>
        /\ Current(kept) = [num |-> NextNumber(job.app.releases), image |-> job.image,
                            config |-> job.config]
        /\ Len(kept) <= MaxReleases
    <2> DEFINE drop == IF Len(job.app.releases) = MaxReleases THEN 1 ELSE 0
    <2>1. /\ kept \in Seq(Release)
          /\ Len(kept) = Len(job.app.releases) + 1 - drop
          /\ kept # <<>>
          /\ Current(kept) = [num |-> NextNumber(job.app.releases), image |-> job.image,
                              config |-> job.config]
      BY <1>1, AppendedShape
    <2> QED BY <1>1, <2>1, LenProperties
  <1>3. Current(kept) \in Release
    BY <1>2, CurrentType
  <1>4. job.app.stale \cup Unreferenced(job.app.releases, kept) \in SUBSET Images
    BY <1>1, <1>2, ImagesOfType DEF Unreferenced, App
  <1>5. /\ Recorded = [job.app EXCEPT !.releases = kept,
                          !.stale = @ \cup Unreferenced(job.app.releases, kept)]
    BY DEF Recorded
  <1>6. Recorded \in App /\ Recorded.releases = kept
    BY <1>1, <1>2, <1>4, <1>5 DEF App
  <1> QED BY <1>2, <1>3, <1>6 DEF Release

\* Every step keeps the types.
LEMMA StepType == TypeInv /\ [Next]_vars => TypeInv'
  <1> SUFFICES ASSUME TypeInv, [Next]_vars PROVE TypeInv'
    OBVIOUS
  <1> USE DEF TypeInv
  <1>0. /\ app \in App /\ cached \in App /\ job \in Job /\ job.app \in App
        /\ env \in Secret /\ cachedEnv \in Secret /\ budget \in 0..Budget
        /\ app.releases \in Seq(Release) /\ job.app.releases \in Seq(Release)
    BY DEF TypeOK, Job, App
  <1>s. Spend => budget' \in 0..Budget
    BY <1>0 DEF Spend
  <1>e. ASSUME NEW c \in Configs, WriteEnv(c) PROVE env' \in Secret
    BY <1>0, <1>e DEF WriteEnv, Secret
  <1>r. Retry => /\ job' \in Job /\ queued' \in BOOLEAN
                 /\ Len(job'.app.releases) <= MaxReleases
                 /\ job'.pc = "idle"
    BY NoJobType DEF Retry
  <1>f. ASSUME NEW a \in App, Len(a.releases) <= MaxReleases, FailTo(a)
        PROVE  job' \in Job /\ job'.app.releases = a.releases /\ job'.pc = "patch"
    <2> DEFINE failed == [a EXCEPT !.phase = "Failed"]
    <2>1. failed \in App /\ failed.releases = a.releases
      BY DEF App, Phases
    <2>2. ToPatch(failed, TRUE, FALSE)
      BY <1>f DEF FailTo
    <2> HIDE DEF failed
    <2> QED BY <2>1, <2>2, ToPatchType
  <1>1. CASE UNCHANGED vars
    BY <1>1 DEF vars, TypeOK, Bounded
  <1>2. ASSUME NEW c \in Configs, SetConfig(c) PROVE TypeInv'
    BY <1>2, <1>e, <1>s DEF SetConfig, TypeOK, Bounded
  <1>3. ASSUME NEW i \in Images, DeployImage(i) PROVE TypeInv'
    <2> DEFINE new == [app EXCEPT !.pin = i]
    <2>1. new \in App /\ new.releases = app.releases
      BY <1>0 DEF App
    <2>2. WriteSpec(new)
      BY <1>3 DEF DeployImage
    <2> HIDE DEF new
    <2>3. app' \in App /\ app'.releases = app.releases
      BY <1>0, <2>1, <2>2, WriteSpecType
    <2> QED BY <1>3, <1>s, <2>3 DEF DeployImage, TypeOK, Bounded
  <1>4. CASE DeploySource
    <2> DEFINE new == [app EXCEPT !.pin = NoImage, !.source = @ + 1]
    <2>1. new \in App /\ new.releases = app.releases
      <3>1. app.source \in Nat
        BY <1>0 DEF App
      <3>2. app.source + 1 \in Nat
        BY <3>1
      <3> QED BY <1>0, <3>2 DEF App
    <2>2. WriteSpec(new)
      BY <1>4 DEF DeploySource
    <2> HIDE DEF new
    <2>3. app' \in App /\ app'.releases = app.releases
      BY <1>0, <2>1, <2>2, WriteSpecType
    <2> QED BY <1>4, <1>s, <2>3 DEF DeploySource, TypeOK, Bounded
  <1>5. ASSUME NEW n \in Numbers(app.releases), Rollback(n) PROVE TypeInv'
    <2> DEFINE image == ReleaseByNumber(app.releases, n).image
               new == [app EXCEPT !.rollbackTo = n, !.pin = image]
    <2>1. PICK k \in 1..Len(app.releases) : app.releases[k].num = n
      BY DEF Numbers
    <2>2. ReleaseByNumber(app.releases, n) \in Release
      BY <1>0, <2>1, ElementOfSeq DEF ReleaseByNumber
    <2>3. n \in Nat
      <3>1. app.releases[k] \in Release
        BY <1>0, <2>1, ElementOfSeq
      <3> QED BY <2>1, <3>1 DEF Release
    <2>4. new \in App /\ new.releases = app.releases
      BY <1>0, <2>2, <2>3 DEF App, Release
    <2>5. Write(new) \/ WriteSpec(new)
      BY <1>5 DEF Rollback
    <2> HIDE DEF new
    <2>6. app' \in App /\ app'.releases = app.releases
      BY <1>0, <2>4, <2>5, WriteType, WriteSpecType
    <2> QED BY <1>5, <1>s, <2>6 DEF Rollback, TypeOK, Bounded
  <1>6. CASE SyncApp
    BY <1>6 DEF SyncApp, TypeOK, Bounded
  <1>7. CASE SyncEnv
    BY <1>7 DEF SyncEnv, TypeOK, Bounded
  <1>8. ASSUME NEW i \in Images, BuildDone(i) PROVE TypeInv'
    BY <1>8 DEF BuildDone, TypeOK, Bounded, Readiness
  <1>9. CASE BuildFails
    BY <1>9, <1>s DEF BuildFails, TypeOK, Bounded, Readiness
  <1>10. CASE RolloutDone
    BY <1>10 DEF RolloutDone, TypeOK, Bounded, Rollouts
  <1>11. CASE RolloutFails
    BY <1>11, <1>s DEF RolloutFails, TypeOK, Bounded, Rollouts
  <1>12. CASE Begin
    <2>1. job' \in Job /\ job'.app = cached /\ job'.pc = "config"
      BY <1>0, <1>12, NoJobType DEF Begin, Job
    <2> QED BY <1>12, <2>1 DEF Begin, TypeOK, Bounded
  <1>13. CASE RestoreConfig
    <2>1. PICK s \in snaps :
             IF s.config # cachedEnv.config /\ cachedEnv # env
               THEN Retry /\ env' = env
               ELSE /\ IF s.config = cachedEnv.config THEN env' = env ELSE WriteEnv(s.config)
                    /\ job' = [job EXCEPT !.pc = "build", !.config = s.config]
                    /\ queued' = queued
      BY <1>13 DEF RestoreConfig
    <2>2. s.config \in Configs
      BY DEF TypeOK
    <2>3. CASE s.config # cachedEnv.config /\ cachedEnv # env
      BY <1>13, <1>r, <2>1, <2>3 DEF RestoreConfig, TypeOK, Bounded
    <2>4. CASE ~(s.config # cachedEnv.config /\ cachedEnv # env)
      <3>1. job' \in Job /\ job'.app = job.app /\ job'.pc = "build"
        BY <1>0, <2>1, <2>2, <2>4 DEF Job
      <3>2. env' \in Secret /\ queued' = queued
        BY <1>0, <1>e, <2>1, <2>2, <2>4
      <3> QED BY <1>13, <3>1, <3>2 DEF RestoreConfig, TypeOK, Bounded
    <2> QED BY <2>3, <2>4
  <1>14. CASE ReadConfig
    <2>1. job' \in Job /\ job'.app = job.app /\ job'.pc = "build"
      BY <1>0, <1>14 DEF ReadConfig, Job, Secret
    <2> QED BY <1>14, <2>1 DEF ReadConfig, TypeOK, Bounded
  <1>15. CASE ConfigFails
    <2>1. CASE FailTo(job.app) /\ queued' = queued
      BY <1>0, <1>15, <1>f, <1>s, <2>1 DEF ConfigFails, TypeOK, Bounded
    <2>2. CASE Retry
      BY <1>15, <1>r, <1>s, <2>2 DEF ConfigFails, TypeOK, Bounded
    <2>3. CASE /\ ToPatch([job.app EXCEPT !.phase = "Pending"], TRUE, FALSE)
               /\ queued' = queued
      <3> DEFINE a == [job.app EXCEPT !.phase = "Pending"]
      <3>1. a \in App /\ a.releases = job.app.releases
        BY <1>0 DEF App, Phases
      <3>2. ToPatch(a, TRUE, FALSE) /\ queued' = queued
        BY <2>3
      <3> HIDE DEF a
      <3>3. job' \in Job /\ job'.app = a /\ job'.pc = "patch"
        BY <3>1, <3>2, ToPatchType
      <3> QED BY <1>15, <1>s, <3>1, <3>2, <3>3 DEF ConfigFails, TypeOK, Bounded
    <2> QED BY <1>15, <2>1, <2>2, <2>3 DEF ConfigFails
  <1>16. CASE ReadBuild
    <2>1. /\ build' \in [source : Nat, ready : Readiness, image : Images \cup {NoImage}]
          /\ build.image \in Images \cup {NoImage}
      BY <1>0, <1>16 DEF ReadBuild, TypeOK, App, Readiness
    <2>2. job' \in Job /\ job'.app = job.app /\ job'.pc = "workloads"
      BY <1>0, <1>16, <2>1 DEF ReadBuild, Job, App, Readiness
    <2> QED BY <1>16, <2>1, <2>2 DEF ReadBuild, TypeOK, Bounded
  <1>17. CASE NothingToRun
    <2> DEFINE phase == IF job.app.source = 0 THEN "Pending"
                        ELSE IF job.ready = "False" THEN "Failed" ELSE "Building"
               a == [job.app EXCEPT !.phase = phase]
    <2>1. a \in App /\ a.releases = job.app.releases
      BY <1>0 DEF App, Phases
    <2>2. ToPatch(a, phase = "Building", FALSE)
      BY <1>17 DEF NothingToRun
    <2>3. (phase = "Building") \in BOOLEAN
      OBVIOUS
    <2> HIDE DEF a, phase
    <2>4. job' \in Job /\ job'.app = a /\ job'.pc = "patch"
      BY <2>1, <2>2, <2>3, ToPatchType
    <2> QED BY <1>17, <2>1, <2>4 DEF NothingToRun, TypeOK, Bounded
  <1>18. CASE Workloads
    <2>1. deployed' \in [image : Images \cup {NoImage}, config : Configs, rollout : Rollouts]
      BY <1>0, <1>18 DEF Workloads, TypeOK, Job, Rollouts
    <2>2. /\ job' \in Job /\ job'.app = job.app /\ job'.pc = "release"
          /\ job'.image \in Images
      BY <1>0, <1>18, <2>1 DEF Workloads, Job
    <2> QED BY <1>18, <2>1, <2>2 DEF Workloads, TypeOK, Bounded
  <1>19. CASE WorkloadsFail
    <2>1. CASE FailTo(job.app) /\ queued' = queued
      BY <1>0, <1>19, <1>f, <1>s, <2>1 DEF WorkloadsFail, TypeOK, Bounded
    <2>2. CASE Retry
      BY <1>19, <1>r, <1>s, <2>2 DEF WorkloadsFail, TypeOK, Bounded
    <2> QED BY <1>19, <2>1, <2>2 DEF WorkloadsFail
  <1>20. CASE RecordRelease
    <2>1. /\ Recorded \in App
          /\ Len(Recorded.releases) <= MaxReleases
          /\ Current(Recorded.releases).num \in Nat \ {0}
      BY <1>20, RecordedType DEF RecordRelease, At
    <2>2. job.image \in Images /\ job.config \in Configs
      BY <1>0, <1>20 DEF RecordRelease, At, Bounded, Job
    <2>3. job' = [job EXCEPT !.app = Recorded, !.pc = "prune"]
      BY <1>20 DEF RecordRelease
    <2>4. job' \in Job /\ job'.app = Recorded /\ job'.pc = "prune" /\ job'.image = job.image
      BY <1>0, <2>1, <2>3 DEF Job
    <2>5. /\ snaps' \subseteq [num : Nat \ {0}, config : Configs]
          /\ budget' \in 0..Budget
      <3> DEFINE new == Current(Recorded.releases)
                 dropped == {s \in snaps : s.num \notin Numbers(Recorded.releases)}
      <3>1. PICK left \in SUBSET dropped :
              /\ IF left = {} THEN budget' = budget ELSE Spend
              /\ snaps' = {s \in snaps \ dropped : s.num # new.num} \cup left
                             \cup {[num |-> new.num, config |-> job.config]}
        BY <1>20 DEF RecordRelease
      <3>2. [num |-> new.num, config |-> job.config] \in [num : Nat \ {0}, config : Configs]
        BY <2>1, <2>2
      <3>3. dropped \subseteq snaps /\ snaps \subseteq [num : Nat \ {0}, config : Configs]
        BY DEF TypeOK
      <3> HIDE DEF new, dropped
      <3> QED BY <1>0, <1>s, <3>1, <3>2, <3>3
    <2> QED BY <1>20, <2>1, <2>2, <2>4, <2>5 DEF RecordRelease, TypeOK, Bounded
  <1>21. CASE SnapshotFails
    <2>1. Recorded \in App /\ Len(Recorded.releases) <= MaxReleases
      BY <1>21, RecordedType DEF SnapshotFails, At
    <2>2. job' \in Job /\ job'.app.releases = Recorded.releases /\ job'.pc = "patch"
      BY <1>21, <1>f, <2>1 DEF SnapshotFails
    <2> QED BY <1>21, <1>s, <2>1, <2>2 DEF SnapshotFails, TypeOK, Bounded
  <1>22. CASE NoNewRelease
    <2>1. /\ job' \in Job /\ job'.app = job.app /\ job'.pc = "prune"
          /\ job'.image = job.image /\ job.image \in Images
      BY <1>0, <1>22 DEF NoNewRelease, At, Job, Bounded
    <2> QED BY <1>22, <2>1 DEF NoNewRelease, TypeOK, Bounded
  <1>23. CASE PruneImages
    <2>1. PICK kept \in SUBSET job.app.stale :
            /\ IF kept = {} THEN budget' = budget ELSE Spend
            /\ deleted' = deleted \cup (job.app.stale \ kept)
            /\ ToPatch([job.app EXCEPT !.stale = kept, !.phase = PhaseNow],
                       job.rollout = "failing" \/ PhaseNow \in {"Building", "Deploying"},
                       ConsumesNote)
      BY <1>23 DEF PruneImages
    <2> DEFINE a == [job.app EXCEPT !.stale = kept, !.phase = PhaseNow]
               req == job.rollout = "failing" \/ PhaseNow \in {"Building", "Deploying"}
    <2>2. PhaseNow \in Phases
      BY DEF PhaseNow, Phases
    <2>3. a \in App /\ a.releases = job.app.releases
      BY <1>0, <2>2 DEF App
    <2>4. req \in BOOLEAN /\ ConsumesNote \in BOOLEAN
      BY DEF ConsumesNote
    <2>5. ToPatch(a, req, ConsumesNote)
      BY <2>1
    <2> HIDE DEF a, req
    <2>6. job' \in Job /\ job'.app = a /\ job'.pc = "patch"
      BY <2>3, <2>4, <2>5, ToPatchType
    <2>7. deleted' \subseteq Images /\ budget' \in 0..Budget
      BY <1>0, <1>s, <2>1 DEF TypeOK, App
    <2> QED BY <1>23, <2>3, <2>6, <2>7 DEF PruneImages, TypeOK, Bounded
  <1>24. CASE PatchStatus
    <2>1. CASE job.app.rv # app.rv
      BY <1>24, <1>r, <2>1 DEF PatchStatus, TypeOK, Bounded
    <2>2. CASE job.app.rv = app.rv
      <3> DEFINE new == [app EXCEPT !.releases = job.app.releases, !.stale = job.app.stale,
                                    !.phase = job.app.phase, !.observed = job.app.gen]
      <3>1. new \in App /\ new.releases = job.app.releases
        BY <1>0 DEF App
      <3>2. /\ Write(new)
            /\ queued' = (queued \/ job.requeue)
            /\ job' = IF job.clear THEN [NoJob EXCEPT !.pc = "clear"] ELSE NoJob
        BY <1>24, <2>2 DEF PatchStatus
      <3> HIDE DEF new
      <3>3. app' \in App /\ app'.releases = job.app.releases
        BY <1>0, <3>1, <3>2, WriteType
      <3>4. /\ job' \in Job /\ job'.pc \in {"idle", "clear"}
            /\ Len(job'.app.releases) <= MaxReleases
        BY <3>2, NoJobType DEF Job
      <3>5. queued' \in BOOLEAN
        BY <3>2 DEF TypeOK
      <3> QED BY <1>24, <3>3, <3>4, <3>5 DEF PatchStatus, TypeOK, Bounded
    <2> QED BY <2>1, <2>2
  <1>25. CASE PatchFails
    BY <1>25, <1>r, <1>s DEF PatchFails, TypeOK, Bounded
  <1>26. CASE ClearNote
    <2> DEFINE new == [app EXCEPT !.rollbackTo = 0]
    <2>1. new \in App /\ new.releases = app.releases
      BY <1>0 DEF App
    <2>2. Write(new) /\ job' = NoJob
      BY <1>26 DEF ClearNote
    <2> HIDE DEF new
    <2>3. app' \in App /\ app'.releases = app.releases
      BY <1>0, <2>1, <2>2, WriteType
    <2> QED BY <1>26, <2>2, <2>3, NoJobType DEF ClearNote, TypeOK, Bounded
  <1>27. CASE ClearNoteFails
    BY <1>27, <1>s, NoJobType DEF ClearNoteFails, TypeOK, Bounded
  <1>28. CASE Crash
    BY <1>28, <1>r, <1>s DEF Crash, TypeOK, Bounded
  <1> QED
    BY <1>1, <1>2, <1>3, <1>4, <1>5, <1>6, <1>7, <1>8, <1>9, <1>10, <1>11, <1>12, <1>13,
       <1>14, <1>15, <1>16, <1>17, <1>18, <1>19, <1>20, <1>21, <1>22, <1>23, <1>24, <1>25,
       <1>26, <1>27, <1>28
       DEF Next, User, Cluster, Reconcile, Failure

\* Type correctness for every history length and every number of operations
\* and failures: in particular the API server and the informers never hold a
\* history longer than maxReleases.
THEOREM TypeCorrect == Spec => []TypeInv
  <1>1. Init => TypeInv
    BY InitType
  <1>2. TypeInv /\ [Next]_vars => TypeInv'
    BY StepType
  <1> QED BY <1>1, <1>2, PTL DEF Spec

THEOREM TypesHold == Spec => []TypeOK
  <1>1. TypeInv => TypeOK
    BY DEF TypeInv
  <1> QED BY <1>1, TypeCorrect, PTL

---------------------------------------------------------------------------
(* The optimistic lock and the history.                                     *)

Working == job.pc \notin {"idle", "clear"}
Unrecorded == job.pc \in {"config", "build", "workloads", "release"}

\* What a reconcile holds, relative to the App in the API server.  Until it
\* records a release its App is the one it read; afterwards that App has at
\* most one release more.
JobSound ==
    Working =>
        /\ job.app.rv <= app.rv
        /\ WellFormed(job.app.releases)
        /\ job.app.rv = app.rv /\ Unrecorded => job.app = app
        /\ job.app.rv = app.rv =>
             /\ job.app.pin = app.pin /\ job.app.source = app.source /\ job.app.gen = app.gen
             /\ Extends(job.app.releases, app.releases)

\* The inductive invariant.  HistoryWellFormed alone is not inductive: a patch
\* writes the history of the reconcile, which is well formed, and one release
\* more than the durable one, only because of where the reconcile began.
LockInv ==
    /\ cached.rv <= app.rv
    /\ cached.rv = app.rv => cached = app
    /\ WellFormed(app.releases)
    /\ WellFormed(cached.releases)
    /\ JobSound

LEMMA InitLock == Init => LockInv
  <1> SUFFICES ASSUME Init PROVE LockInv
    OBVIOUS
  <1>1. WellFormed(NewApp.releases)
    BY EmptySeq DEF WellFormed, NewApp
  <1> QED BY <1>1 DEF Init, LockInv, JobSound, Working, NoJob, NewApp

\* A write to the App that keeps its history: every older copy becomes old.
LEMMA WriteLock ==
    ASSUME TypeInv, LockInv, app' = app \/ app'.rv = app.rv + 1,
           app'.releases = app.releases,
           cached' = cached, job' = job \/ job'.pc \in {"idle", "clear"}
    PROVE  LockInv'
  <1>1. app.rv \in Nat /\ cached.rv \in Nat /\ job.app.rv \in Nat
    BY DEF TypeInv, TypeOK, App, Job
  <1>2. CASE app' = app
    BY <1>2 DEF LockInv, JobSound, Working, Unrecorded
  <1>3. CASE app'.rv = app.rv + 1
    BY <1>1, <1>3 DEF LockInv, JobSound, Working, Unrecorded
  <1> QED BY <1>2, <1>3

\* A step of the reconcile that has not recorded a release and keeps its App,
\* or hands it to the status patch with other status fields.
LEMMA KeepLock ==
    ASSUME LockInv, Working, Unrecorded,
           app' = app, cached' = cached,
           job'.app.rv = job.app.rv, job'.app.releases = job.app.releases,
           job'.app.pin = job.app.pin, job'.app.source = job.app.source,
           job'.app.gen = job.app.gen,
           job'.pc \in {"prune", "patch"} \/ job'.app = job.app
    PROVE  LockInv'
  BY DEF LockInv, JobSound, Working, Unrecorded

\* A reconcile that ends without writing.
LEMMA DropLock ==
    ASSUME LockInv, app' = app, cached' = cached \/ cached' = app,
           job'.pc = "idle", TypeInv
    PROVE  LockInv'
  <1>1. app.rv \in Nat
    BY DEF TypeInv, TypeOK, App
  <1> QED BY <1>1 DEF LockInv, JobSound, Working

\* Recording a release, in memory.
LEMMA RecordLock ==
    ASSUME TypeInv, LockInv, job.pc = "release", ~Unchanged,
           app' = app, cached' = cached,
           job'.app.rv = job.app.rv, job'.app.releases = Recorded.releases,
           job'.app.pin = job.app.pin, job'.app.source = job.app.source,
           job'.app.gen = job.app.gen, job'.pc \in {"prune", "patch"}
    PROVE  LockInv'
  <1>1. /\ Working /\ Unrecorded /\ WellFormed(job.app.releases)
        /\ job.app.rv = app.rv => job.app = app
    BY DEF Working, Unrecorded, LockInv, JobSound
  <1>2. /\ job.app.releases \in Seq(Release) /\ job.image \in Images /\ job.config \in Configs
    BY DEF TypeInv, TypeOK, Bounded, Job, App
  <1>3. Recorded.releases = Appended(job.app.releases, job.image, job.config)
    BY RecordedType
  <1>4. WellFormed(Recorded.releases) /\ Extends(Recorded.releases, job.app.releases)
    BY <1>1, <1>2, <1>3, AppendedWellFormed DEF Unchanged
  <1> QED BY <1>1, <1>4 DEF LockInv, JobSound, Working, Unrecorded

\* What users do leaves the history and every reconcile alone.
LEMMA UserKeeps ==
    ASSUME TypeInv, User
    PROVE  /\ app' = app \/ app'.rv = app.rv + 1
           /\ app'.releases = app.releases
           /\ cached' = cached /\ job' = job
  <1>0. app \in App
    BY DEF TypeInv, TypeOK
  <1> DEFINE Kept == /\ app' = app \/ app'.rv = app.rv + 1
                     /\ app'.releases = app.releases
                     /\ cached' = cached /\ job' = job
  <1>1. ASSUME NEW c \in Configs, SetConfig(c) PROVE Kept
    BY <1>1 DEF SetConfig
  <1>2. ASSUME NEW i \in Images, DeployImage(i) PROVE Kept
    <2> DEFINE new == [app EXCEPT !.pin = i]
    <2>1. new \in App /\ new.releases = app.releases
      BY <1>0 DEF App
    <2>2. WriteSpec(new)
      BY <1>2 DEF DeployImage
    <2> HIDE DEF new
    <2> QED BY <1>0, <1>2, <2>1, <2>2, WriteSpecType DEF DeployImage
  <1>3. CASE DeploySource
    <2> DEFINE new == [app EXCEPT !.pin = NoImage, !.source = @ + 1]
    <2>1. app.source + 1 \in Nat
      BY <1>0 DEF App
    <2>2. new \in App /\ new.releases = app.releases
      BY <1>0, <2>1 DEF App
    <2>3. WriteSpec(new)
      BY <1>3 DEF DeploySource
    <2> HIDE DEF new
    <2> QED BY <1>0, <1>3, <2>2, <2>3, WriteSpecType DEF DeploySource
  <1>4. ASSUME NEW n \in Numbers(app.releases), Rollback(n) PROVE Kept
    <2> DEFINE new == [app EXCEPT !.rollbackTo = n,
                                  !.pin = ReleaseByNumber(app.releases, n).image]
    <2>1. PICK k \in 1..Len(app.releases) : app.releases[k].num = n
      BY DEF Numbers
    <2>2. app.releases \in Seq(Release)
      BY <1>0 DEF App
    <2>3. ReleaseByNumber(app.releases, n) \in Release /\ n \in Nat
      <3>1. app.releases[k] \in Release
        BY <2>1, <2>2, ElementOfSeq
      <3>2. ReleaseByNumber(app.releases, n) \in Release
        BY <2>1, <2>2, ElementOfSeq DEF ReleaseByNumber
      <3> QED BY <2>1, <3>1, <3>2 DEF Release
    <2>4. new \in App /\ new.releases = app.releases
      BY <1>0, <2>3 DEF App, Release
    <2>5. Write(new) \/ WriteSpec(new)
      BY <1>4 DEF Rollback
    <2> HIDE DEF new
    <2> QED BY <1>0, <1>4, <2>4, <2>5, WriteType, WriteSpecType DEF Rollback
  <1> QED BY <1>1, <1>2, <1>3, <1>4 DEF User

\* Every step keeps the invariant, and extends the durable history.
LEMMA StepLock ==
    TypeInv /\ LockInv /\ [Next]_vars => LockInv' /\ Extends(app'.releases, app.releases)
  <1> SUFFICES ASSUME TypeInv, LockInv, [Next]_vars
               PROVE  LockInv' /\ Extends(app'.releases, app.releases)
    OBVIOUS
  <1>0. app \in App /\ job \in Job /\ job.app \in App
    BY DEF TypeInv, TypeOK, Job
  <1>x. app'.releases = app.releases => Extends(app'.releases, app.releases)
    BY DEF Extends
  <1>r. Retry => job'.pc = "idle"
    BY NoJobType DEF Retry
  <1>t. ASSUME NEW a, NEW requeue, NEW clear, ToPatch(a, requeue, clear)
        PROVE  job'.app = a /\ job'.pc = "patch"
    BY <1>t DEF ToPatch, NoJob
  <1>f. ASSUME NEW a \in App, FailTo(a)
        PROVE  /\ job'.pc = "patch"
               /\ job'.app.rv = a.rv /\ job'.app.releases = a.releases
               /\ job'.app.pin = a.pin /\ job'.app.source = a.source /\ job'.app.gen = a.gen
    <2>1. job'.app = [a EXCEPT !.phase = "Failed"] /\ job'.pc = "patch"
      BY <1>f, <1>t DEF FailTo
    <2> QED BY <2>1 DEF App
  <1>1. CASE UNCHANGED vars
    BY <1>1, <1>x DEF vars, LockInv, JobSound, Working, Unrecorded
  <1>2. CASE User
    BY <1>x, <1>2, UserKeeps, WriteLock
  <1>3. CASE SyncApp
    BY <1>3, <1>x DEF SyncApp, LockInv, JobSound, Working, Unrecorded, TypeInv, TypeOK, App
  <1>4. CASE Cluster /\ ~SyncApp
    <2>1. app' = app /\ cached' = cached /\ job' = job
      BY <1>4 DEF Cluster, SyncEnv, BuildDone, BuildFails, RolloutDone, RolloutFails
    <2> QED BY <1>x, <2>1, WriteLock
  <1>5. CASE Begin
    <2>1. job'.app = cached /\ job'.pc = "config" /\ app' = app /\ cached' = cached
      BY <1>5 DEF Begin, NoJob
    <2> QED BY <1>x, <2>1 DEF LockInv, JobSound, Working, Unrecorded, Extends
  <1>6. CASE RestoreConfig
    <2>1. /\ Working /\ Unrecorded /\ app' = app /\ cached' = cached
          /\ Retry \/ (job'.app = job.app /\ job'.pc = "build")
      BY <1>0, <1>6 DEF RestoreConfig, At, Working, Unrecorded, Job
    <2> QED BY <1>r, <1>x, <2>1, DropLock, KeepLock
  <1>7. CASE ReadConfig \/ ReadBuild \/ Workloads
    <2>1. /\ Working /\ Unrecorded /\ app' = app /\ cached' = cached /\ job'.app = job.app
      BY <1>0, <1>7 DEF ReadConfig, ReadBuild, Workloads, At, Working, Unrecorded, Job
    <2> QED BY <1>x, <2>1, KeepLock
  <1>8. CASE NoNewRelease
    <2>1. /\ Working /\ Unrecorded /\ app' = app /\ cached' = cached /\ job'.app = job.app
      BY <1>0, <1>8 DEF NoNewRelease, At, Working, Unrecorded, Job
    <2> QED BY <1>x, <2>1, KeepLock
  <1>9. CASE NothingToRun
    <2> DEFINE phase == IF job.app.source = 0 THEN "Pending"
                        ELSE IF job.ready = "False" THEN "Failed" ELSE "Building"
    <2>1. /\ Working /\ Unrecorded /\ app' = app /\ cached' = cached
          /\ job'.app = [job.app EXCEPT !.phase = phase] /\ job'.pc = "patch"
      BY <1>9, <1>t DEF NothingToRun, At, Working, Unrecorded
    <2> HIDE DEF phase
    <2> QED BY <1>0, <1>x, <2>1, KeepLock DEF App
  <1>10. CASE ConfigFails
    <2>1. /\ Working /\ Unrecorded /\ app' = app /\ cached' = cached
      BY <1>10 DEF ConfigFails, Working, Unrecorded
    <2>2. CASE Retry
      BY <1>r, <1>x, <2>1, <2>2, DropLock
    <2>3. CASE FailTo(job.app)
      BY <1>0, <1>f, <1>x, <2>1, <2>3, KeepLock
    <2>4. CASE ToPatch([job.app EXCEPT !.phase = "Pending"], TRUE, FALSE)
      <3>1. job'.app = [job.app EXCEPT !.phase = "Pending"] /\ job'.pc = "patch"
        BY <1>t, <2>4
      <3> QED BY <1>0, <1>x, <2>1, <3>1, KeepLock DEF App
    <2> QED BY <1>10, <2>2, <2>3, <2>4 DEF ConfigFails
  <1>11. CASE WorkloadsFail
    <2>1. /\ Working /\ Unrecorded /\ app' = app /\ cached' = cached
      BY <1>11 DEF WorkloadsFail, At, Working, Unrecorded
    <2>2. CASE Retry
      BY <1>r, <1>x, <2>1, <2>2, DropLock
    <2>3. CASE FailTo(job.app)
      BY <1>0, <1>f, <1>x, <2>1, <2>3, KeepLock
    <2> QED BY <1>11, <2>2, <2>3 DEF WorkloadsFail
  <1>12. CASE RecordRelease \/ SnapshotFails
    <2>1. /\ job.pc = "release" /\ ~Unchanged /\ app' = app /\ cached' = cached
          /\ FailTo(Recorded) \/ job' = [job EXCEPT !.app = Recorded, !.pc = "prune"]
      BY <1>12 DEF RecordRelease, SnapshotFails, At
    <2>2. /\ Recorded \in App
          /\ Recorded.rv = job.app.rv /\ Recorded.pin = job.app.pin
          /\ Recorded.source = job.app.source /\ Recorded.gen = job.app.gen
      BY <1>0, <2>1, RecordedType DEF Recorded, App
    <2>3. /\ job'.app.rv = job.app.rv /\ job'.app.releases = Recorded.releases
          /\ job'.app.pin = job.app.pin /\ job'.app.source = job.app.source
          /\ job'.app.gen = job.app.gen /\ job'.pc \in {"prune", "patch"}
      BY <1>0, <1>f, <2>1, <2>2 DEF Job
    <2> QED BY <1>x, <2>1, <2>3, RecordLock
  <1>13. CASE PruneImages
    <2>1. PICK kept \in SUBSET job.app.stale :
            ToPatch([job.app EXCEPT !.stale = kept, !.phase = PhaseNow],
                    job.rollout = "failing" \/ PhaseNow \in {"Building", "Deploying"},
                    ConsumesNote)
      BY <1>13 DEF PruneImages
    <2>2. /\ job'.app = [job.app EXCEPT !.stale = kept, !.phase = PhaseNow]
          /\ job'.pc = "patch" /\ job.pc = "prune" /\ app' = app /\ cached' = cached
      BY <1>13, <1>t, <2>1 DEF PruneImages, At
    <2>3. /\ job'.app.rv = job.app.rv /\ job'.app.releases = job.app.releases
          /\ job'.app.pin = job.app.pin /\ job'.app.source = job.app.source
          /\ job'.app.gen = job.app.gen
      BY <1>0, <2>2 DEF App
    <2> QED BY <1>x, <2>2, <2>3 DEF LockInv, JobSound, Working, Unrecorded
  <1>14. CASE PatchStatus
    <2>1. CASE job.app.rv # app.rv
      BY <1>14, <1>r, <1>x, <2>1, DropLock DEF PatchStatus
    <2>2. CASE job.app.rv = app.rv
      <3> DEFINE new == [app EXCEPT !.releases = job.app.releases, !.stale = job.app.stale,
                                    !.phase = job.app.phase, !.observed = job.app.gen]
      <3>1. new \in App /\ new.releases = job.app.releases
        BY <1>0 DEF App
      <3>2. Write(new) /\ cached' = cached /\ job'.pc \in {"idle", "clear"}
        BY <1>14, <2>2, NoJobType DEF PatchStatus, NoJob
      <3> HIDE DEF new
      <3>3. /\ app' = app \/ app'.rv = app.rv + 1
            /\ app'.releases = job.app.releases
        BY <1>0, <3>1, <3>2, WriteType
      <3>4. WellFormed(job.app.releases) /\ Extends(job.app.releases, app.releases)
        BY <1>14, <2>2 DEF PatchStatus, At, LockInv, JobSound, Working
      <3>5. app.rv \in Nat /\ cached.rv \in Nat
        BY DEF TypeInv, TypeOK, App
      <3> QED BY <3>2, <3>3, <3>4, <3>5 DEF LockInv, JobSound, Working
    <2> QED BY <2>1, <2>2
  <1>15. CASE PatchFails
    BY <1>15, <1>r, <1>x, DropLock DEF PatchFails
  <1>16. CASE ClearNote
    <2> DEFINE new == [app EXCEPT !.rollbackTo = 0]
    <2>1. new \in App /\ new.releases = app.releases
      BY <1>0 DEF App
    <2>2. Write(new) /\ job' = NoJob /\ cached' = cached
      BY <1>16 DEF ClearNote
    <2> HIDE DEF new
    <2>3. /\ app' = app \/ app'.rv = app.rv + 1
          /\ app'.releases = app.releases
      BY <1>0, <2>1, <2>2, WriteType
    <2> QED BY <1>x, <2>2, <2>3, NoJobType, WriteLock
  <1>17. CASE ClearNoteFails
    BY <1>17, <1>x, NoJobType, DropLock DEF ClearNoteFails
  <1>18. CASE Crash
    BY <1>18, <1>r, <1>x, DropLock DEF Crash
  <1> QED
    BY <1>1, <1>2, <1>3, <1>4, <1>5, <1>6, <1>7, <1>8, <1>9, <1>10, <1>11, <1>12, <1>13,
       <1>14, <1>15, <1>16, <1>17, <1>18 DEF Next, Reconcile, Failure

\* The inductive invariant holds in every reachable state.
THEOREM LockInvHolds == Spec => [](TypeInv /\ LockInv)
  <1>1. Init => TypeInv /\ LockInv
    BY InitType, InitLock
  <1>2. TypeInv /\ LockInv /\ [Next]_vars => (TypeInv /\ LockInv)'
    BY StepType, StepLock
  <1> QED BY <1>1, <1>2, PTL DEF Spec

\* A cached App, and a reconcile, at the newest resourceVersion work from the
\* newest App, for every interleaving of users, watches and failures.
THEOREM LockHolds == Spec => []LockSound
  <1>1. LockInv => LockSound
    BY DEF LockInv, JobSound, Working, LockSound
  <1> QED BY <1>1, LockInvHolds, PTL

\* The durable history is consecutive, bounded and repeats nothing, for every
\* maxReleases and every number of operations and failures.
THEOREM HistoryHolds == Spec => []HistoryWellFormed
  <1>1. LockInv => HistoryWellFormed
    BY DEF LockInv, HistoryWellFormed
  <1> QED BY <1>1, LockInvHolds, PTL

\* No step rewrites the durable history: it grows by one release or stays.
THEOREM HistoryOnlyGrows == Spec => HistoryAppendOnly
  <1>1. TypeInv /\ LockInv /\ [Next]_vars => [Extends(app'.releases, app.releases)]_vars
    BY StepLock
  <1> QED BY <1>1, LockInvHolds, PTL DEF Spec, HistoryAppendOnly

---------------------------------------------------------------------------
(* What phase Running says.                                                 *)

HasImage(rels, i) == rels # <<>> /\ Current(rels).image = i

\* RunningIsReleased with what it rests on: the image a reconcile computed is
\* the one its App pins, what it prunes after is a history that ends in that
\* image, and no status is ahead of the generation it speaks of.
RunInv ==
    /\ app.observed <= app.gen
    /\ app.phase = "Running" /\ app.observed = app.gen /\ app.pin # NoImage
         => HasImage(app.releases, app.pin)
    /\ job.pc \in {"workloads", "release", "prune"} /\ job.app.pin # NoImage
         => job.image = job.app.pin
    /\ job.pc = "prune" => SameRelease(job.app.releases, job.image, job.config)
    /\ job.pc = "patch" /\ job.app.phase = "Running" /\ job.app.pin # NoImage
         => HasImage(job.app.releases, job.app.pin)

LEMMA InitRun == Init => RunInv
  BY DEF Init, RunInv, NewApp, NoJob

\* A write of the App of a user: what it leaves of the other fields.
LEMMA WriteFields ==
    ASSUME app \in App, NEW new \in App, Write(new)
    PROVE  /\ app' = app \/ app'.rv = app.rv + 1
           /\ app'.releases = new.releases /\ app'.pin = new.pin /\ app'.source = new.source
           /\ app'.gen = new.gen /\ app'.observed = new.observed /\ app'.phase = new.phase
  <1>1. CASE new = app
    BY <1>1 DEF Write
  <1>2. CASE new # app
    <2>1. app' = [new EXCEPT !.rv = app.rv + 1]
      BY <1>2 DEF Write
    <2>2. app.rv \in Nat
      BY DEF App
    <2> QED BY <2>1, <2>2 DEF App
  <1> QED BY <1>1, <1>2

LEMMA WriteSpecFields ==
    ASSUME app \in App, NEW new \in App, new.gen = app.gen, new.observed = app.observed,
           new.rv = app.rv, WriteSpec(new)
    PROVE  \/ app' = app
           \/ /\ app'.rv = app.rv + 1
              /\ app'.gen = app.gen + 1 /\ app'.observed = app.observed
  <1>1. CASE new = app
    BY <1>1 DEF WriteSpec, Write
  <1>2. CASE new # app
    <2> DEFINE next == [new EXCEPT !.gen = app.gen + 1]
    <2>1. app.gen \in Nat /\ app.gen + 1 \in Nat /\ app.rv \in Nat
      BY DEF App
    <2>2. Write(next) /\ next.gen = app.gen + 1 /\ next.observed = app.observed
      BY <1>2, <2>1 DEF WriteSpec, App
    <2>3. next \in App
      BY <2>1 DEF App
    <2> HIDE DEF next
    <2>4. next # app
      BY <2>1, <2>2
    <2>5. app' = [next EXCEPT !.rv = app.rv + 1]
      BY <2>2, <2>4 DEF Write
    <2> QED BY <2>1, <2>2, <2>3, <2>5 DEF App
  <1> QED BY <1>1, <1>2

\* What a user's write does to an App: nothing, or a later generation, or (a
\* rollback to the image already pinned) a note that changes nothing else.
LEMMA UserWrites ==
    ASSUME TypeInv, User
    PROVE  /\ job' = job /\ cached' = cached
           /\ \/ app' = app
              \/ /\ app'.rv = app.rv + 1
                 /\ app'.gen = app.gen + 1 /\ app'.observed = app.observed
              \/ /\ app'.rv = app.rv + 1
                 /\ app'.gen = app.gen /\ app'.observed = app.observed
                 /\ app'.pin = app.pin /\ app'.source = app.source
                 /\ app'.releases = app.releases /\ app'.phase = app.phase
  <1> DEFINE Later == /\ app'.rv = app.rv + 1
                      /\ app'.gen = app.gen + 1 /\ app'.observed = app.observed
             Noted == /\ app'.rv = app.rv + 1
                      /\ app'.gen = app.gen /\ app'.observed = app.observed
                      /\ app'.pin = app.pin /\ app'.source = app.source
                      /\ app'.releases = app.releases /\ app'.phase = app.phase
  <1>0. app \in App
    BY DEF TypeInv, TypeOK
  <1>1. ASSUME NEW c \in Configs, SetConfig(c)
        PROVE  job' = job /\ cached' = cached /\ app' = app
    BY <1>1 DEF SetConfig
  <1>2. ASSUME NEW i \in Images, DeployImage(i)
        PROVE  job' = job /\ cached' = cached /\ (app' = app \/ Later)
    <2> DEFINE new == [app EXCEPT !.pin = i]
    <2>1. new \in App /\ new.gen = app.gen /\ new.observed = app.observed /\ new.rv = app.rv
      BY <1>0 DEF App
    <2>2. WriteSpec(new) /\ job' = job /\ cached' = cached
      BY <1>2 DEF DeployImage
    <2> HIDE DEF new
    <2> QED BY <1>0, <2>1, <2>2, WriteSpecFields
  <1>3. CASE DeploySource
    <2> DEFINE new == [app EXCEPT !.pin = NoImage, !.source = @ + 1]
    <2>1. app.source + 1 \in Nat
      BY <1>0 DEF App
    <2>2. new \in App /\ new.gen = app.gen /\ new.observed = app.observed /\ new.rv = app.rv
      BY <1>0, <2>1 DEF App
    <2>3. WriteSpec(new) /\ job' = job /\ cached' = cached
      BY <1>3 DEF DeploySource
    <2> HIDE DEF new
    <2> QED BY <1>0, <2>2, <2>3, WriteSpecFields
  <1>4. ASSUME NEW n \in Numbers(app.releases), Rollback(n)
        PROVE  job' = job /\ cached' = cached /\ (app' = app \/ Later \/ Noted)
    <2> DEFINE image == ReleaseByNumber(app.releases, n).image
               new == [app EXCEPT !.rollbackTo = n, !.pin = image]
    <2>1. PICK k \in 1..Len(app.releases) : app.releases[k].num = n
      BY DEF Numbers
    <2>2. app.releases \in Seq(Release)
      BY <1>0 DEF App
    <2>3. image \in Images /\ n \in Nat
      <3>1. app.releases[k] \in Release
        BY <2>1, <2>2, ElementOfSeq
      <3>2. ReleaseByNumber(app.releases, n) \in Release
        BY <2>1, <2>2, ElementOfSeq DEF ReleaseByNumber
      <3> QED BY <2>1, <3>1, <3>2 DEF Release
    <2>4. new \in App /\ new.gen = app.gen /\ new.observed = app.observed /\ new.rv = app.rv
          /\ new.pin = image /\ new.source = app.source /\ new.releases = app.releases
          /\ new.phase = app.phase
      BY <1>0, <2>3 DEF App
    <2>5. /\ IF image = app.pin THEN Write(new) ELSE WriteSpec(new)
          /\ job' = job /\ cached' = cached
      BY <1>4 DEF Rollback
    <2> HIDE DEF new, image
    <2>6. CASE image = app.pin
      BY <1>0, <2>4, <2>5, <2>6, WriteFields
    <2>7. CASE image # app.pin
      BY <1>0, <2>4, <2>5, <2>7, WriteSpecFields
    <2> QED BY <2>6, <2>7
  <1> QED BY <1>1, <1>2, <1>3, <1>4 DEF User

\* The status patch, accepted: what it writes.
LEMMA PatchFields ==
    ASSUME TypeInv, PatchStatus, job.app.rv = app.rv
    PROVE  /\ app' = app \/ app'.rv = app.rv + 1
           /\ app'.releases = job.app.releases /\ app'.phase = job.app.phase
           /\ app'.observed = job.app.gen
           /\ app'.pin = app.pin /\ app'.gen = app.gen /\ app'.source = app.source
  <1> DEFINE new == [app EXCEPT !.releases = job.app.releases, !.stale = job.app.stale,
                                !.phase = job.app.phase, !.observed = job.app.gen]
  <1>0. app \in App /\ job.app \in App
    BY DEF TypeInv, TypeOK, Job
  <1>1. /\ new \in App /\ new.releases = job.app.releases /\ new.phase = job.app.phase
        /\ new.observed = job.app.gen /\ new.pin = app.pin /\ new.gen = app.gen
        /\ new.source = app.source
    BY <1>0 DEF App
  <1>2. Write(new)
    BY DEF PatchStatus
  <1> HIDE DEF new
  <1> QED BY <1>0, <1>1, <1>2, WriteFields

\* The rollback note removed: nothing else changes.
LEMMA ClearFields ==
    ASSUME TypeInv, ClearNote
    PROVE  /\ app' = app \/ app'.rv = app.rv + 1
           /\ app'.releases = app.releases /\ app'.phase = app.phase
           /\ app'.observed = app.observed
           /\ app'.pin = app.pin /\ app'.gen = app.gen /\ app'.source = app.source
  <1> DEFINE new == [app EXCEPT !.rollbackTo = 0]
  <1>0. app \in App
    BY DEF TypeInv, TypeOK
  <1>1. /\ new \in App /\ new.releases = app.releases /\ new.phase = app.phase
        /\ new.observed = app.observed /\ new.pin = app.pin /\ new.gen = app.gen
        /\ new.source = app.source
    BY <1>0 DEF App
  <1>2. Write(new)
    BY DEF ClearNote
  <1> HIDE DEF new
  <1> QED BY <1>0, <1>1, <1>2, WriteFields

\* Every way a reconcile gives up: it starts again, or patches phase Failed or
\* Pending and is polled.
GivesUp(a) ==
    \/ Retry
    \/ FailTo(a) /\ queued' = queued
    \/ ToPatch([a EXCEPT !.phase = "Pending"], TRUE, FALSE) /\ queued' = queued

LEMMA GaveUp ==
    ASSUME NEW a \in App, GivesUp(a)
    PROVE  \/ queued' /\ job'.pc = "idle"
           \/ job'.pc = "patch" /\ job'.requeue /\ job'.app.phase # "Running"
  <1>1. CASE Retry
    BY <1>1, NoJobType DEF Retry
  <1>2. CASE FailTo(a)
    <2>1. job' = [NoJob EXCEPT !.pc = "patch", !.app = [a EXCEPT !.phase = "Failed"],
                               !.requeue = TRUE, !.clear = FALSE]
      BY <1>2 DEF FailTo, ToPatch
    <2> QED BY <2>1 DEF NoJob, App
  <1>3. CASE ToPatch([a EXCEPT !.phase = "Pending"], TRUE, FALSE)
    BY <1>3 DEF ToPatch, NoJob, App
  <1> QED BY <1>1, <1>2, <1>3 DEF GivesUp

\* A failing step writes neither the App, the config vars nor the Deployments,
\* and leaves the key queued, the reconcile polled, or (the rollback note) as is.
LEMMA Failures ==
    ASSUME TypeInv, Failure \/ (PatchStatus /\ job.app.rv # app.rv)
    PROVE  /\ app' = app /\ env' = env /\ build' = build /\ deployed' = deployed
           /\ cachedEnv' = cachedEnv \/ cachedEnv' = env
           /\ \/ queued' /\ job'.pc = "idle"
              \/ job'.pc = "patch" /\ job'.requeue /\ job'.app.phase # "Running"
              \/ /\ job.pc = "clear" /\ job'.pc = "idle"
                 /\ queued' = queued /\ cached' = cached /\ cachedEnv' = cachedEnv
  <1>0. job.app \in App
    BY DEF TypeInv, TypeOK, Job
  <1>1. CASE ConfigFails
    <2>1. GivesUp(job.app)
      BY <1>1 DEF ConfigFails, GivesUp
    <2> QED BY <1>0, <1>1, <2>1, GaveUp DEF ConfigFails
  <1>2. CASE WorkloadsFail
    <2>1. GivesUp(job.app)
      BY <1>2 DEF WorkloadsFail, GivesUp
    <2> QED BY <1>0, <1>2, <2>1, GaveUp DEF WorkloadsFail
  <1>3. CASE SnapshotFails
    <2>1. GivesUp(Recorded) /\ Recorded \in App
      BY <1>3, RecordedType DEF SnapshotFails, GivesUp, At
    <2> QED BY <1>3, <2>1, GaveUp DEF SnapshotFails
  <1>4. CASE PatchFails \/ (PatchStatus /\ job.app.rv # app.rv)
    BY <1>4, NoJobType DEF PatchFails, PatchStatus, Retry
  <1>5. CASE ClearNoteFails
    BY <1>5, NoJobType DEF ClearNoteFails, At
  <1>6. CASE Crash
    BY <1>6, NoJobType DEF Crash, Retry
  <1> QED BY <1>1, <1>2, <1>3, <1>4, <1>5, <1>6 DEF Failure

\* What pruning hands to the status patch.
LEMMA Pruned ==
    ASSUME TypeInv, PruneImages
    PROVE  /\ job.pc = "prune" /\ job'.pc = "patch"
           /\ job'.app.rv = job.app.rv /\ job'.app.releases = job.app.releases
           /\ job'.app.pin = job.app.pin /\ job'.app.source = job.app.source
           /\ job'.app.gen = job.app.gen
  <1>1. PICK kept \in SUBSET job.app.stale :
          ToPatch([job.app EXCEPT !.stale = kept, !.phase = PhaseNow],
                  job.rollout = "failing" \/ PhaseNow \in {"Building", "Deploying"},
                  ConsumesNote)
    BY DEF PruneImages
  <1>2. job'.app = [job.app EXCEPT !.stale = kept, !.phase = PhaseNow] /\ job'.pc = "patch"
    BY <1>1 DEF ToPatch, NoJob
  <1>3. job.app \in App
    BY DEF TypeInv, TypeOK, Job
  <1> QED BY <1>2, <1>3 DEF PruneImages, At, App

\* The history after recording ends in what the reconcile deployed.
LEMMA RecordedIsSame ==
    ASSUME TypeInv, job.pc = "release"
    PROVE  /\ SameRelease(Recorded.releases, job.image, job.config)
           /\ Recorded.rv = job.app.rv /\ Recorded.pin = job.app.pin
           /\ Recorded.source = job.app.source
  <1>1. /\ job.app.releases \in Seq(Release) /\ job.image \in Images
        /\ job.config \in Configs /\ Len(job.app.releases) <= MaxReleases
        /\ job.app \in App
    BY DEF TypeInv, TypeOK, Bounded, Job, App
  <1>2. /\ Appended(job.app.releases, job.image, job.config) # <<>>
        /\ Current(Appended(job.app.releases, job.image, job.config))
             = [num |-> NextNumber(job.app.releases), image |-> job.image, config |-> job.config]
    BY <1>1, AppendedShape
  <1>3. Recorded.releases = Appended(job.app.releases, job.image, job.config)
    BY RecordedType
  <1>4. Recorded.rv = job.app.rv /\ Recorded.pin = job.app.pin /\ Recorded.source = job.app.source
    BY <1>1 DEF Recorded, App
  <1> QED BY <1>2, <1>3, <1>4 DEF SameRelease

\* Every step keeps what phase Running says.
LEMMA StepRun == TypeInv /\ LockInv /\ RunInv /\ [Next]_vars => RunInv'
  <1> SUFFICES ASSUME TypeInv, LockInv, RunInv, [Next]_vars PROVE RunInv'
    OBVIOUS
  <1>0. /\ job \in Job /\ job.app \in App /\ app \in App
        /\ app.gen \in Nat /\ app.observed \in Nat
    BY DEF TypeInv, TypeOK, Job, App
  <1>1. CASE UNCHANGED vars
    BY <1>1 DEF vars, RunInv
  <1>2. CASE User
    BY <1>0, <1>2, UserWrites DEF RunInv
  <1>3. CASE Cluster
    <2>1. app' = app /\ job' = job
      BY <1>3 DEF Cluster, SyncApp, SyncEnv, BuildDone, BuildFails, RolloutDone, RolloutFails
    <2> QED BY <2>1 DEF RunInv
  <1>4. CASE Begin
    BY <1>4 DEF Begin, NoJob, RunInv
  <1>5. CASE RestoreConfig
    <2>1. app' = app /\ job'.pc \in {"idle", "build"}
      BY <1>0, <1>5, NoJobType DEF RestoreConfig, Retry, Job
    <2> QED BY <2>1 DEF RunInv
  <1>6. CASE ReadConfig
    <2>1. app' = app /\ job'.pc = "build"
      BY <1>0, <1>6 DEF ReadConfig, Job
    <2> QED BY <2>1 DEF RunInv
  <1>7. CASE ReadBuild
    <2>1. /\ app' = app /\ job'.pc = "workloads" /\ job'.app = job.app
          /\ job.app.pin # NoImage => job'.image = job.app.pin
      BY <1>0, <1>7 DEF ReadBuild, Job
    <2> QED BY <2>1 DEF RunInv
  <1>8. CASE NothingToRun
    <2>1. app' = app /\ job'.pc = "patch" /\ job'.app.phase # "Running"
      BY <1>0, <1>8 DEF NothingToRun, ToPatch, NoJob, App
    <2> QED BY <2>1 DEF RunInv
  <1>9. CASE Workloads
    <2>1. /\ app' = app /\ job.pc = "workloads" /\ job'.pc = "release"
          /\ job'.app = job.app /\ job'.image = job.image
      BY <1>0, <1>9 DEF Workloads, At, Job
    <2> QED BY <2>1 DEF RunInv
  <1>10. CASE RecordRelease
    <2>1. /\ app' = app /\ job.pc = "release" /\ job'.pc = "prune" /\ job'.app = Recorded
          /\ job'.image = job.image /\ job'.config = job.config
      BY <1>0, <1>10 DEF RecordRelease, At, Job
    <2> QED BY <2>1, RecordedIsSame DEF RunInv
  <1>11. CASE NoNewRelease
    <2>1. /\ app' = app /\ job.pc = "release" /\ job'.pc = "prune" /\ job'.app = job.app
          /\ job'.image = job.image /\ job'.config = job.config
          /\ SameRelease(job.app.releases, job.image, job.config)
      BY <1>0, <1>11 DEF NoNewRelease, At, Job, Unchanged
    <2> QED BY <2>1 DEF RunInv
  <1>12. CASE PruneImages
    <2>1. app' = app
      BY <1>12 DEF PruneImages
    <2> QED BY <1>12, <2>1, Pruned DEF RunInv, HasImage, SameRelease
  <1>13. CASE PatchStatus /\ job.app.rv = app.rv
    <2>1. job.pc = "patch" /\ job'.pc \in {"idle", "clear"}
      BY <1>13, NoJobType DEF PatchStatus, At, NoJob
    <2>2. job.app.pin = app.pin /\ job.app.gen = app.gen
      BY <1>13, <2>1 DEF LockInv, JobSound, Working
    <2> QED BY <1>0, <1>13, <2>1, <2>2, PatchFields DEF RunInv
  <1>14. CASE ClearNote
    <2>1. job'.pc = "idle"
      BY <1>14, NoJobType DEF ClearNote
    <2> QED BY <1>14, <2>1, ClearFields DEF RunInv
  <1>15. CASE Failure \/ (PatchStatus /\ job.app.rv # app.rv)
    BY <1>15, Failures DEF RunInv
  <1> QED
    BY <1>1, <1>2, <1>3, <1>4, <1>5, <1>6, <1>7, <1>8, <1>9, <1>10, <1>11, <1>12, <1>13,
       <1>14, <1>15 DEF Next, Reconcile

THEOREM RunInvHolds == Spec => [](TypeInv /\ LockInv /\ RunInv)
  <1>1. Init => RunInv
    BY InitRun
  <1>2. TypeInv /\ LockInv /\ RunInv /\ [Next]_vars => RunInv'
    BY StepRun
  <1> QED BY <1>1, <1>2, LockInvHolds, PTL DEF Spec

\* Phase Running at the App's own generation tells the truth about a pinned
\* image, for every interleaving of users, reconciles, conflicts and crashes.
THEOREM RunningHolds == Spec => []RunningIsReleased
  <1>1. RunInv => RunningIsReleased
    BY DEF RunInv, RunningIsReleased, HasImage
  <1> QED BY <1>1, RunInvHolds, PTL

---------------------------------------------------------------------------
(* What a quiet controller has done.                                        *)

\* The current release, and the Deployments, are what the App asks for.
Delivered(rels) ==
    /\ SameRelease(rels, Wanted, env.config)
    /\ deployed.image = Wanted /\ deployed.config = env.config

\* QuiescentIsCurrent with what it rests on.  A reconcile during which no event
\* arrived (the key is not queued again, and its resourceVersion is the newest)
\* computed what is wanted now; one that neither asks to be polled nor finds
\* anything to write has delivered it.
QuietInv ==
    /\ cachedEnv.rv <= env.rv
    /\ cachedEnv.rv = env.rv => cachedEnv = env
    /\ ~queued /\ ~Working /\ cached = app /\ cachedEnv = env /\ Wanted # NoImage
         => Delivered(app.releases) /\ app.observed = app.gen
    /\ ~queued /\ job.pc \in {"workloads", "release", "prune"} /\ job.app.rv = app.rv
         => job.image = Wanted
    /\ ~queued /\ job.pc \in {"build", "workloads", "release", "prune"} /\ cachedEnv = env
         => job.config = env.config
    /\ job.pc \in {"release", "prune"}
         => deployed.image = job.image /\ deployed.config = job.config
    /\ ~queued /\ job.pc = "patch" /\ ~job.requeue /\ job.app.rv = app.rv
       /\ cachedEnv = env /\ Wanted # NoImage
         => Delivered(job.app.releases)

LEMMA InitQuiet == Init => QuietInv
  BY DEF Init, QuietInv, NewApp, NoJob, NewSecret, Working

\* A write of the config vars leaves the informer's copy behind.
LEMMA SecretOrder ==
    ASSUME TypeInv, QuietInv, NEW c \in Configs, WriteEnv(c), cachedEnv' = cachedEnv
    PROVE  /\ cachedEnv'.rv < env'.rv /\ cachedEnv' # env'
  <1>1. env.rv \in Nat /\ cachedEnv.rv \in Nat
    BY DEF TypeInv, TypeOK, Secret
  <1>2. env'.rv = env.rv + 1
    BY DEF WriteEnv
  <1> QED BY <1>1, <1>2 DEF QuietInv

\* A change of the App or of the config vars that the caches do not have yet
\* leaves nothing to promise.
LEMMA DisturbedQuiet ==
    ASSUME TypeInv, LockInv, QuietInv,
           app' = app \/ app'.rv = app.rv + 1,
           cached' = cached, cachedEnv' = cachedEnv, build' = build, deployed' = deployed,
           job' = job, queued' = queued,
           env' = env \/ \E c \in Configs : WriteEnv(c)
    PROVE  QuietInv'
  <1>0. /\ app.rv \in Nat /\ cached.rv \in Nat /\ job.app.rv \in Nat
    BY DEF TypeInv, TypeOK, Job, App
  <1>1. \/ app' = app
        \/ cached' # app' /\ (Working => job'.app.rv # app'.rv)
    <2>1. CASE app'.rv = app.rv + 1
      BY <1>0, <2>1 DEF LockInv, JobSound
    <2> QED BY <2>1
  <1>2. \/ env' = env
        \/ cachedEnv'.rv < env'.rv /\ cachedEnv' # env'
    BY SecretOrder
  <1>3. env.rv \in Nat /\ cachedEnv.rv \in Nat /\ (env' # env => env'.rv \in Nat)
    BY DEF TypeInv, TypeOK, Secret, WriteEnv
  <1>4. /\ cachedEnv'.rv <= env'.rv
        /\ cachedEnv'.rv = env'.rv => cachedEnv' = env'
    BY <1>2, <1>3 DEF QuietInv
  <1>5. CASE app' = app /\ env' = env
    BY <1>5 DEF QuietInv, Delivered, Wanted, Working
  <1>6. CASE app' # app
    BY <1>1, <1>2, <1>4, <1>6 DEF QuietInv, Working
  <1>7. CASE app' = app /\ env' # env
    BY <1>2, <1>4, <1>7 DEF QuietInv, Delivered, Wanted, Working
  <1> QED BY <1>5, <1>6, <1>7

\* Every step keeps it: what arrives queues the key, what is written is newer
\* than the caches, and the rest is the reconcile's own sequence.
LEMMA StepQuiet ==
    TypeInv /\ LockInv /\ RunInv /\ QuietInv /\ [Next]_vars => QuietInv'
  <1> SUFFICES ASSUME TypeInv, LockInv, RunInv, QuietInv, [Next]_vars PROVE QuietInv'
    OBVIOUS
  <1>0. /\ job \in Job /\ job.app \in App /\ app \in App /\ env \in Secret /\ cachedEnv \in Secret
        /\ app.rv \in Nat /\ cached.rv \in Nat /\ env.rv \in Nat /\ cachedEnv.rv \in Nat
        /\ queued \in BOOLEAN
    BY DEF TypeInv, TypeOK, Job, App, Secret
  <1>1. CASE UNCHANGED vars
    BY <1>1 DEF vars, QuietInv, Delivered, Wanted, Working
  <1>2. CASE User
    <2>1. /\ cachedEnv' = cachedEnv /\ build' = build /\ deployed' = deployed /\ queued' = queued
          /\ env' = env \/ \E c \in Configs : WriteEnv(c)
      BY <1>2 DEF User, SetConfig, DeployImage, DeploySource, Rollback
    <2> QED BY <1>2, <2>1, UserWrites, DisturbedQuiet
  <1>3. CASE Cluster
    <2>1. /\ queued' /\ job' = job /\ env' = env
          /\ cachedEnv' = cachedEnv \/ cachedEnv' = env
          /\ deployed'.image = deployed.image /\ deployed'.config = deployed.config
      BY <1>3 DEF Cluster, SyncApp, SyncEnv, BuildDone, BuildFails, RolloutDone, RolloutFails,
                  TypeInv, TypeOK
    <2> QED BY <1>0, <2>1 DEF QuietInv
  <1>4. CASE Begin
    <2>1. job'.pc = "config" /\ env' = env /\ cachedEnv' = cachedEnv
      BY <1>4 DEF Begin, NoJob
    <2> QED BY <2>1 DEF QuietInv, Working
  <1>5. CASE RestoreConfig
    <2>1. PICK s \in snaps :
            IF s.config # cachedEnv.config /\ cachedEnv # env
              THEN Retry /\ env' = env
              ELSE /\ IF s.config = cachedEnv.config THEN env' = env ELSE WriteEnv(s.config)
                   /\ job' = [job EXCEPT !.pc = "build", !.config = s.config]
                   /\ queued' = queued
      BY <1>5 DEF RestoreConfig
    <2>2. cachedEnv' = cachedEnv /\ s.config \in Configs
      BY <1>5 DEF RestoreConfig, TypeInv, TypeOK
    <2>3. CASE Retry /\ env' = env
      BY <2>2, <2>3, NoJobType DEF QuietInv, Retry
    <2>4. CASE /\ s.config = cachedEnv.config /\ env' = env
               /\ job' = [job EXCEPT !.pc = "build", !.config = s.config]
      <3>1. job'.pc = "build" /\ job'.config = cachedEnv.config
        BY <1>0, <2>4 DEF Job
      <3> QED BY <2>2, <2>4, <3>1 DEF QuietInv, Working
    <2>5. CASE /\ WriteEnv(s.config)
               /\ job' = [job EXCEPT !.pc = "build", !.config = s.config]
      <3>1. job'.pc = "build"
        BY <1>0, <2>5 DEF Job
      <3>2. cachedEnv'.rv < env'.rv /\ cachedEnv' # env'
        BY <2>2, <2>5, SecretOrder
      <3>3. env'.rv \in Nat
        BY <1>0, <2>5 DEF WriteEnv
      <3> QED BY <1>0, <2>2, <3>1, <3>2, <3>3 DEF QuietInv, Working
    <2> QED BY <2>1, <2>3, <2>4, <2>5
  <1>6. CASE ReadConfig
    <2>1. /\ job'.pc = "build" /\ job'.config = cachedEnv.config
          /\ env' = env /\ cachedEnv' = cachedEnv
      BY <1>0, <1>6 DEF ReadConfig, Job
    <2> QED BY <2>1 DEF QuietInv, Working
  <1>7. CASE ReadBuild
    <2>1. /\ job.pc = "build" /\ job'.pc = "workloads" /\ job'.app = job.app
          /\ job'.config = job.config
          /\ job'.image = IF job.app.pin # NoImage THEN job.app.pin
                          ELSE IF job.app.source = 0 THEN NoImage ELSE build.image
          /\ app' = app /\ env' = env /\ cachedEnv' = cachedEnv /\ queued' = queued
      BY <1>0, <1>7 DEF ReadBuild, At, Job
    <2>2. build'.image = build.image
      BY <1>7 DEF ReadBuild, TypeInv, TypeOK
    <2>3. job.app.rv = app.rv => job.app = app
      BY <2>1 DEF LockInv, JobSound, Working, Unrecorded
    <2>4. job'.app.rv = app'.rv => job'.image = Wanted'
      BY <2>1, <2>2, <2>3 DEF Wanted
    <2> QED BY <2>1, <2>4 DEF QuietInv, Working
  <1>8. CASE NothingToRun
    <2>1. /\ job.pc = "workloads" /\ job.image = NoImage /\ job'.pc = "patch"
          /\ job'.app.rv = job.app.rv
          /\ app' = app /\ env' = env /\ cachedEnv' = cachedEnv /\ queued' = queued
          /\ build' = build
      BY <1>0, <1>8 DEF NothingToRun, At, ToPatch, NoJob, App
    <2> QED BY <2>1 DEF QuietInv, Working, Wanted
  <1>9. CASE Workloads
    <2>1. /\ job.pc = "workloads" /\ job'.pc = "release" /\ job'.app = job.app
          /\ job'.image = job.image /\ job'.config = job.config
          /\ app' = app /\ env' = env /\ cachedEnv' = cachedEnv /\ queued' = queued
          /\ build' = build
      BY <1>0, <1>9 DEF Workloads, At, Job
    <2>2. deployed'.image = job.image /\ deployed'.config = job.config
      BY <1>9 DEF Workloads
    <2> QED BY <2>1, <2>2 DEF QuietInv, Working, Wanted
  <1>10. CASE RecordRelease \/ NoNewRelease
    <2>1. /\ job.pc = "release" /\ job'.pc = "prune" /\ job'.app \in {job.app, Recorded}
          /\ job'.image = job.image /\ job'.config = job.config
          /\ app' = app /\ env' = env /\ cachedEnv' = cachedEnv /\ queued' = queued
          /\ build' = build /\ deployed' = deployed
      BY <1>0, <1>10 DEF RecordRelease, NoNewRelease, At, Job
    <2>2. job'.app.rv = job.app.rv
      BY <2>1, RecordedIsSame
    <2> QED BY <2>1, <2>2 DEF QuietInv, Working, Wanted
  <1>11. CASE PruneImages
    <2>1. /\ app' = app /\ env' = env /\ cachedEnv' = cachedEnv /\ queued' = queued
          /\ build' = build /\ deployed' = deployed
      BY <1>11 DEF PruneImages
    <2>2. /\ job.pc = "prune" /\ job'.pc = "patch" /\ job'.app.rv = job.app.rv
          /\ job'.app.releases = job.app.releases
      BY <1>11, Pruned
    <2>3. SameRelease(job.app.releases, job.image, job.config)
      BY <2>2 DEF RunInv
    <2>4. ~queued /\ job.app.rv = app.rv /\ cachedEnv = env => Delivered(job.app.releases)
      BY <2>2, <2>3 DEF QuietInv, Delivered
    <2>5. Delivered(job.app.releases) => Delivered(job.app.releases)'
      BY <2>1, <2>2 DEF Delivered, Wanted
    <2> QED BY <2>1, <2>2, <2>4, <2>5 DEF QuietInv, Working
  <1>12. CASE PatchStatus /\ job.app.rv = app.rv
    <2>1. /\ job.pc = "patch" /\ job'.pc \in {"idle", "clear"}
          /\ queued' = (queued \/ job.requeue)
          /\ cached' = cached /\ env' = env /\ cachedEnv' = cachedEnv
          /\ build' = build /\ deployed' = deployed
      BY <1>12, NoJobType DEF PatchStatus, At, NoJob
    <2>2. cached' = app' => app' = app
      BY <1>0, <1>12, <2>1, PatchFields DEF LockInv
    <2>3. job.app.gen = app.gen
      BY <1>12, <2>1 DEF LockInv, JobSound, Working
    <2>4. app' = app => app.releases = job.app.releases /\ app.observed = app.gen
      BY <1>12, <2>3, PatchFields
    <2>5. ~queued' /\ app' = app /\ cachedEnv = env /\ Wanted # NoImage
            => Delivered(app.releases) /\ app.observed = app.gen
      BY <1>12, <2>1, <2>4 DEF QuietInv
    <2>6. app' = app => (Wanted' = Wanted /\ (Delivered(app.releases) => Delivered(app.releases)'))
      BY <2>1 DEF Wanted, Delivered
    <2> QED BY <2>1, <2>2, <2>5, <2>6 DEF QuietInv, Working
  <1>13. CASE ClearNote
    <2>1. /\ job.pc = "clear" /\ job'.pc = "idle" /\ queued' = queued
          /\ cached' = cached /\ env' = env /\ cachedEnv' = cachedEnv
          /\ build' = build /\ deployed' = deployed
      BY <1>13, NoJobType DEF ClearNote, At
    <2>2. cached' = app' => app' = app
      BY <1>0, <1>13, <2>1, ClearFields DEF LockInv
    <2>3. app' = app => (Wanted' = Wanted /\ (Delivered(app.releases) => Delivered(app.releases)'))
      BY <2>1 DEF Wanted, Delivered
    <2> QED BY <2>1, <2>2, <2>3 DEF QuietInv, Working
  <1>14. CASE Failure \/ (PatchStatus /\ job.app.rv # app.rv)
    <2>1. CASE queued' /\ job'.pc = "idle"
      BY <1>0, <1>14, <2>1, Failures DEF QuietInv
    <2>2. CASE job'.pc = "patch" /\ job'.requeue
      BY <1>0, <1>14, <2>2, Failures DEF QuietInv, Working
    <2>3. CASE /\ job.pc = "clear" /\ job'.pc = "idle"
               /\ queued' = queued /\ cached' = cached /\ cachedEnv' = cachedEnv
      BY <1>14, <2>3, Failures DEF QuietInv, Working, Delivered, Wanted
    <2> QED BY <1>14, <2>1, <2>2, <2>3, Failures
  <1> QED
    BY <1>1, <1>2, <1>3, <1>4, <1>5, <1>6, <1>7, <1>8, <1>9, <1>10, <1>11, <1>12, <1>13,
       <1>14 DEF Next, Reconcile

\* A controller with nothing left to do has done it all, whatever raced the
\* last reconcile: no event is lost, for every number of operations.
THEOREM QuiescentHolds == Spec => []QuiescentIsCurrent
  <1>1. Init => QuietInv
    BY InitQuiet
  <1>2. TypeInv /\ LockInv /\ RunInv /\ QuietInv /\ [Next]_vars => QuietInv'
    BY StepQuiet
  <1>3. QuietInv => QuiescentIsCurrent
    BY DEF QuietInv, QuiescentIsCurrent, Quiescent, Delivered, At, Working
  <1> QED BY <1>1, <1>2, <1>3, RunInvHolds, PTL DEF Spec

---------------------------------------------------------------------------
(* The history as a log.                                                    *)

\* Counted from the newest, so that no induction is needed to compare two.
Numbered(rels) == \A i \in 1..Len(rels) : rels[i].num + (Len(rels) - i) = Current(rels).num

Entries(rels) == {rels[i] : i \in 1..Len(rels)}

LEMMA AppendedNumbered ==
    ASSUME NEW rels \in Seq(Release), NEW image \in Images, NEW config \in Configs,
           Len(rels) <= MaxReleases, Numbered(rels)
    PROVE  Numbered(Appended(rels, image, config))
  <1> DEFINE new == Appended(rels, image, config)
             drop == IF Len(rels) = MaxReleases THEN 1 ELSE 0
  <1>1. /\ new \in Seq(Release)
        /\ Len(new) = Len(rels) + 1 - drop
        /\ Current(new) = [num |-> NextNumber(rels), image |-> image, config |-> config]
        /\ \A i \in 1..(Len(new) - 1) : new[i] = rels[i + drop]
    BY AppendedShape
  <1>2. Len(rels) \in Nat /\ drop \in Nat /\ drop \in {0, 1} /\ Len(new) \in Nat
    BY <1>1, LenProperties
  <1>3. Current(new).num = NextNumber(rels)
    BY <1>1
  <1> HIDE DEF new
  <1>4. ASSUME NEW i \in 1..Len(new) PROVE new[i].num + (Len(new) - i) = Current(new).num
    <2>1. CASE i = Len(new)
      <3>1. Current(new) \in Release
        BY <1>1, <2>1, EmptySeq, CurrentType
      <3> QED BY <1>2, <2>1, <3>1 DEF Current, Release
    <2>2. CASE i # Len(new)
      <3> HIDE DEF drop
      <3>1. i \in 1..(Len(new) - 1) /\ i + drop \in 1..Len(rels)
        BY <1>1, <1>2, <2>2
      <3>2. new[i] = rels[i + drop] /\ rels[i + drop] \in Release
        BY <1>1, <3>1, ElementOfSeq
      <3>3. rels[i + drop].num + (Len(rels) - (i + drop)) = Current(rels).num
        BY <3>1 DEF Numbered
      <3>4. rels # <<>>
        BY <1>2, <3>1, EmptySeq
      <3>5. Current(new).num = Current(rels).num + 1
        BY <1>3, <3>4 DEF NextNumber
      <3>6. new[i].num \in Nat /\ Current(rels).num \in Nat
        BY <3>2, <3>4, CurrentType DEF Release
      <3> DEFINE n == rels[i + drop].num
                 c == Current(rels).num
      <3>7. /\ new[i].num = n /\ n \in Nat /\ c \in Nat /\ i \in Nat
            /\ n + (Len(rels) - (i + drop)) = c /\ Current(new).num = c + 1
            /\ Len(new) = Len(rels) + 1 - drop
        BY <1>1, <1>2, <3>2, <3>3, <3>5, <3>6
      <3> HIDE DEF n, c
      <3> QED BY <1>2, <3>7
    <2> QED BY <2>1, <2>2
  <1> QED BY <1>4 DEF Numbered, new

\* To append to the history is to add to the log: the number that is dropped by
\* position is the one that is too old.
LEMMA AppendedIsAdded ==
    ASSUME NEW rels \in Seq(Release), NEW image \in Images, NEW config \in Configs,
           Len(rels) <= MaxReleases, Numbered(rels), ~SameRelease(rels, image, config)
    PROVE  LET n == NextNumber(rels)
           IN  /\ n \in {1} \cup {r.num + 1 : r \in Entries(rels)}
               /\ \A r \in Entries(rels) :
                    r.num < n /\ (r.num + 1 = n => <<r.image, r.config>> # <<image, config>>)
               /\ Entries(Appended(rels, image, config))
                    = {r \in Entries(rels) : n < r.num + MaxReleases}
                        \cup {[num |-> n, image |-> image, config |-> config]}
  <1> DEFINE n == NextNumber(rels)
             new == Appended(rels, image, config)
             drop == IF Len(rels) = MaxReleases THEN 1 ELSE 0
             r0 == [num |-> n, image |-> image, config |-> config]
  <1>1. /\ new \in Seq(Release)
        /\ Len(new) = Len(rels) + 1 - drop
        /\ Current(new) = r0
        /\ \A i \in 1..(Len(new) - 1) : new[i] = rels[i + drop]
    BY AppendedShape
  <1>2. Len(rels) \in Nat /\ Len(new) \in Nat /\ Len(new) >= 1
    BY <1>1, LenProperties
  <1>3. ASSUME NEW i \in 1..Len(rels)
        PROVE  /\ rels[i] \in Release /\ rels[i].num \in Nat /\ n \in Nat
               /\ rels[i].num + (Len(rels) - i) + 1 = n
    <2>1. rels # <<>> /\ rels[i] \in Release
      BY <1>2, EmptySeq, ElementOfSeq
    <2>2. Current(rels) \in Release
      BY <2>1, CurrentType
    <2>3. n = Current(rels).num + 1
      BY <2>1 DEF NextNumber
    <2>4. rels[i].num + (Len(rels) - i) = Current(rels).num
      BY DEF Numbered
    <2>5. rels[i].num \in Nat /\ Current(rels).num \in Nat
      BY <2>1, <2>2 DEF Release
    <2> HIDE DEF n
    <2> QED BY <1>2, <2>1, <2>3, <2>4, <2>5
  <1>4. n \in {1} \cup {r.num + 1 : r \in Entries(rels)}
    <2>1. CASE rels = <<>>
      BY <2>1 DEF NextNumber
    <2>2. CASE rels # <<>>
      <3>1. Len(rels) \in 1..Len(rels)
        BY <1>2, <2>2, EmptySeq
      <3> QED BY <2>2, <3>1 DEF NextNumber, Current, Entries
    <2> QED BY <2>1, <2>2
  <1>5. ASSUME NEW r \in Entries(rels)
        PROVE  r.num < n /\ (r.num + 1 = n => <<r.image, r.config>> # <<image, config>>)
    <2>1. PICK i \in 1..Len(rels) : r = rels[i]
      BY DEF Entries
    <2>2. r.num < n
      BY <1>2, <1>3, <2>1
    <2>3. ASSUME r.num + 1 = n PROVE <<r.image, r.config>> # <<image, config>>
      <3>1. i = Len(rels)
        BY <1>2, <1>3, <2>1, <2>3
      <3>2. rels # <<>> /\ r = Current(rels)
        BY <1>2, <2>1, <3>1, EmptySeq DEF Current
      <3> QED BY <3>2 DEF SameRelease
    <2> QED BY <2>2, <2>3
  <1>6. ASSUME NEW i \in 1..Len(rels)
        PROVE  n < rels[i].num + MaxReleases <=> drop < i
    <2>1. rels[i].num \in Nat /\ n \in Nat /\ rels[i].num + (Len(rels) - i) + 1 = n
      BY <1>3
    <2> HIDE DEF n
    <2>2. n < rels[i].num + MaxReleases <=> Len(rels) + 1 < i + MaxReleases
      BY <1>2, <2>1
    <2>3. Len(rels) + 1 < i + MaxReleases <=> drop < i
      BY <1>2
    <2> QED BY <2>2, <2>3
  <1>7. Entries(new) = {r \in Entries(rels) : n < r.num + MaxReleases} \cup {r0}
    <2> HIDE DEF n, r0, new
    <2>1. drop \in {0, 1}
      OBVIOUS
    <2> HIDE DEF drop
    <2>2. ASSUME NEW r \in Entries(new)
          PROVE  r \in {s \in Entries(rels) : n < s.num + MaxReleases} \cup {r0}
      <3>1. PICK i \in 1..Len(new) : r = new[i]
        BY DEF Entries
      <3>2. CASE i = Len(new)
        BY <1>1, <3>1, <3>2 DEF Current
      <3>3. CASE i # Len(new)
        <4>1. i \in 1..(Len(new) - 1) /\ i + drop \in 1..Len(rels) /\ drop < i + drop
          BY <1>1, <1>2, <2>1, <3>3
        <4>2. r = rels[i + drop]
          BY <1>1, <3>1, <4>1
        <4> QED BY <1>6, <4>1, <4>2 DEF Entries
      <3> QED BY <3>2, <3>3
    <2>3. ASSUME NEW r \in Entries(rels), n < r.num + MaxReleases
          PROVE  r \in Entries(new)
      <3>1. PICK i \in 1..Len(rels) : r = rels[i]
        BY DEF Entries
      <3>2. drop < i
        BY <1>6, <2>3, <3>1
      <3>3. i - drop \in 1..(Len(new) - 1) /\ (i - drop) + drop = i
        BY <1>1, <1>2, <2>1, <3>2
      <3>4. r = new[i - drop]
        BY <1>1, <3>1, <3>3
      <3>5. i - drop \in 1..Len(new)
        BY <1>2, <3>3
      <3> QED BY <3>4, <3>5 DEF Entries
    <2>4. r0 \in Entries(new)
      BY <1>1, <1>2 DEF Entries, Current
    <2> QED BY <2>2, <2>3, <2>4
  <1> QED BY <1>4, <1>5, <1>7

---------------------------------------------------------------------------
(* The history implements ReleaseLog.                                       *)

\* A release that is due on a history while pin is asked for: not what the
\* history ends in, and of the image asked for.
Due(new, old, pin) ==
    \E image \in Images, config \in Configs :
        /\ new = Appended(old, image, config)
        /\ ~SameRelease(old, image, config)
        /\ pin \in {NoImage, image}

\* What a reconcile at the newest resourceVersion is about to write: nothing
\* new, or the release that is due at this instant.
DueInv ==
    /\ Numbered(app.releases)
    /\ Working /\ job.app.rv = app.rv =>
         \/ job.app.releases = app.releases
         \/ Due(job.app.releases, app.releases, app.pin)

\* What a step does to the history.
DueStep ==
    \/ app'.releases = app.releases
    \/ app'.pin = app.pin /\ Due(app'.releases, app.releases, app.pin)

LEMMA InitDue == Init => DueInv
  <1> SUFFICES ASSUME Init PROVE DueInv
    OBVIOUS
  <1>1. app.releases = <<>> /\ job.pc = "idle"
    BY NoJobType DEF Init, NewApp
  <1>2. Len(app.releases) = 0
    BY <1>1, EmptySeq
  <1> QED BY <1>1, <1>2 DEF DueInv, Numbered, Working

\* A history that is due is numbered.
LEMMA DueNumbered ==
    ASSUME TypeInv, NEW new, NEW pin, Numbered(app.releases), Due(new, app.releases, pin)
    PROVE  Numbered(new)
  <1>1. app.releases \in Seq(Release) /\ Len(app.releases) <= MaxReleases
    BY DEF TypeInv, TypeOK, Bounded, App
  <1> QED BY <1>1, AppendedNumbered DEF Due

\* A write to the App that keeps its history: a reconcile that began before it
\* is not at the newest resourceVersion.
LEMMA WriteDue ==
    ASSUME TypeInv, LockInv, DueInv, app' = app \/ app'.rv = app.rv + 1,
           app'.releases = app.releases, job' = job \/ job'.pc \in {"idle", "clear"}
    PROVE  DueInv' /\ DueStep
  <1>1. app.rv \in Nat /\ job.app.rv \in Nat
    BY DEF TypeInv, TypeOK, App, Job
  <1>2. CASE job'.pc \in {"idle", "clear"}
    BY <1>2 DEF DueInv, DueStep, Working
  <1>3. CASE job' = job /\ app' = app
    BY <1>3 DEF DueInv, DueStep, Working
  <1>4. CASE job' = job /\ app'.rv = app.rv + 1
    <2>1. ~(Working' /\ job'.app.rv = app'.rv)
      BY <1>1, <1>4 DEF LockInv, JobSound, Working
    <2> QED BY <2>1 DEF DueInv, DueStep
  <1> QED BY <1>2, <1>3, <1>4

\* A step of a reconcile that leaves the histories alone.
LEMMA KeepDue ==
    ASSUME DueInv, Working, app' = app, job'.app.rv = job.app.rv,
           job'.app.releases = job.app.releases
    PROVE  DueInv' /\ DueStep
  BY DEF DueInv, DueStep, Working

\* Recording a release: it is due, on the history that was read.
LEMMA RecordDue ==
    ASSUME TypeInv, LockInv, RunInv, DueInv, job.pc = "release", ~Unchanged, app' = app,
           job'.app.rv = job.app.rv, job'.app.releases = Recorded.releases
    PROVE  DueInv' /\ DueStep
  <1>1. job.image \in Images /\ job.config \in Configs
    BY DEF TypeInv, TypeOK, Bounded, Job
  <1>2. job.app.rv = app.rv => job.app = app
    BY DEF LockInv, JobSound, Working, Unrecorded
  <1>3. job.app.rv = app.rv => Due(Recorded.releases, app.releases, app.pin)
    <2> SUFFICES ASSUME job.app.rv = app.rv
                 PROVE  Due(Recorded.releases, app.releases, app.pin)
      OBVIOUS
    <2>1. /\ Recorded.releases = Appended(app.releases, job.image, job.config)
          /\ ~SameRelease(app.releases, job.image, job.config)
      BY <1>2, RecordedType DEF Unchanged
    <2>2. app.pin \in {NoImage, job.image}
      BY <1>2 DEF RunInv
    <2> QED BY <1>1, <2>1, <2>2 DEF Due
  <1> QED BY <1>3 DEF DueInv, DueStep, Working

\* The releases that come and go with a failing step: none.
LEMMA GaveUpDue ==
    ASSUME TypeInv, DueInv, Working, app' = app, GivesUp(job.app)
    PROVE  DueInv' /\ DueStep
  <1>0. job.app \in App
    BY DEF TypeInv, TypeOK, Job
  <1>1. CASE Retry
    BY <1>1, NoJobType DEF Retry, DueInv, DueStep, Working
  <1>2. CASE FailTo(job.app) \/ ToPatch([job.app EXCEPT !.phase = "Pending"], TRUE, FALSE)
    <2>1. \E p \in {"Failed", "Pending"} : job'.app = [job.app EXCEPT !.phase = p]
      BY <1>2 DEF FailTo, ToPatch, NoJob
    <2> QED BY <1>0, <2>1, KeepDue DEF App
  <1> QED BY <1>1, <1>2 DEF GivesUp

\* Every step keeps what is due, and writes nothing else to the history.
LEMMA StepDue ==
    TypeInv /\ LockInv /\ RunInv /\ DueInv /\ [Next]_vars => DueInv' /\ DueStep
  <1> SUFFICES ASSUME TypeInv, LockInv, RunInv, DueInv, [Next]_vars
               PROVE  DueInv' /\ DueStep
    OBVIOUS
  <1>0. job \in Job /\ job.app \in App /\ app \in App
    BY DEF TypeInv, TypeOK, Job
  <1>1. CASE UNCHANGED vars
    BY <1>1, WriteDue DEF vars
  <1>2. CASE User
    BY <1>2, UserKeeps, WriteDue
  <1>3. CASE Cluster
    <2>1. app' = app /\ job' = job
      BY <1>3 DEF Cluster, SyncApp, SyncEnv, BuildDone, BuildFails, RolloutDone, RolloutFails
    <2> QED BY <2>1, WriteDue
  <1>4. CASE Begin
    <2>1. job'.app = cached /\ app' = app
      BY <1>4 DEF Begin, NoJob
    <2>2. job'.app.rv = app'.rv => job'.app = app'
      BY <2>1 DEF LockInv
    <2> QED BY <2>1, <2>2 DEF DueInv, DueStep
  <1>5. CASE RestoreConfig
    <2>1. /\ app' = app /\ Working
          /\ job'.pc = "idle" \/ job'.app = job.app
      BY <1>0, <1>5, NoJobType DEF RestoreConfig, Retry, At, Working, Job
    <2> QED BY <2>1, KeepDue, WriteDue
  <1>6. CASE ReadConfig \/ ReadBuild \/ Workloads \/ NoNewRelease
    <2>1. app' = app /\ Working /\ job'.app = job.app
      BY <1>0, <1>6 DEF ReadConfig, ReadBuild, Workloads, NoNewRelease, At, Working, Job
    <2> QED BY <2>1, KeepDue
  <1>7. CASE NothingToRun
    <2>1. /\ app' = app /\ Working
          /\ \E p \in Phases : job'.app = [job.app EXCEPT !.phase = p]
      BY <1>7 DEF NothingToRun, ToPatch, NoJob, At, Working, Phases
    <2> QED BY <1>0, <2>1, KeepDue DEF App
  <1>8. CASE RecordRelease
    <2>1. /\ job.pc = "release" /\ ~Unchanged /\ app' = app /\ job'.app = Recorded
      BY <1>0, <1>8 DEF RecordRelease, At, Job
    <2> QED BY <2>1, RecordedIsSame, RecordDue
  <1>9. CASE SnapshotFails
    <2>1. /\ job.pc = "release" /\ ~Unchanged /\ app' = app
          /\ job'.app = [Recorded EXCEPT !.phase = "Failed"]
      BY <1>9 DEF SnapshotFails, FailTo, ToPatch, NoJob, At
    <2>2. Recorded \in App /\ Recorded.rv = job.app.rv
      BY <2>1, RecordedType, RecordedIsSame
    <2>3. job'.app.rv = job.app.rv /\ job'.app.releases = Recorded.releases
      BY <2>1, <2>2 DEF App
    <2> QED BY <2>1, <2>3, RecordDue
  <1>10. CASE PruneImages
    <2>1. app' = app /\ Working
      BY <1>10 DEF PruneImages, At, Working
    <2> QED BY <1>10, <2>1, Pruned, KeepDue
  <1>11. CASE PatchStatus /\ job.app.rv = app.rv
    <2>1. job.pc = "patch" /\ job'.pc \in {"idle", "clear"}
      BY <1>11, NoJobType DEF PatchStatus, At, NoJob
    <2>2. /\ app'.releases = job.app.releases /\ app'.pin = app.pin
      BY <1>11, PatchFields
    <2>3. job.app.releases = app.releases \/ Due(job.app.releases, app.releases, app.pin)
      BY <1>11, <2>1 DEF DueInv, Working
    <2>4. Numbered(app.releases)'
      BY <2>2, <2>3, DueNumbered DEF DueInv
    <2> QED BY <2>1, <2>2, <2>3, <2>4 DEF DueInv, DueStep, Working
  <1>12. CASE ClearNote
    <2>1. job'.pc = "idle"
      BY <1>12, NoJobType DEF ClearNote
    <2> QED BY <1>12, <2>1, ClearFields, WriteDue
  <1>13. CASE ConfigFails \/ WorkloadsFail
    <2>1. app' = app /\ Working /\ GivesUp(job.app)
      BY <1>13 DEF ConfigFails, WorkloadsFail, At, Working, GivesUp
    <2> QED BY <2>1, GaveUpDue
  <1>14. CASE PatchFails \/ ClearNoteFails \/ Crash \/ (PatchStatus /\ job.app.rv # app.rv)
    <2>1. app' = app /\ job'.pc = "idle"
      BY <1>14, NoJobType DEF PatchFails, ClearNoteFails, Crash, PatchStatus, Retry
    <2> QED BY <2>1, WriteDue
  <1> QED
    BY <1>1, <1>2, <1>3, <1>4, <1>5, <1>6, <1>7, <1>8, <1>9, <1>10, <1>11, <1>12, <1>13,
       <1>14 DEF Next, Reconcile, Failure

\* What a reconcile is about to write is due, in every reachable state.
THEOREM DueInvHolds == Spec => [](TypeInv /\ LockInv /\ RunInv /\ DueInv)
  <1>1. Init => DueInv
    BY InitDue
  <1>2. TypeInv /\ LockInv /\ RunInv /\ DueInv /\ [Next]_vars => DueInv'
    BY StepDue
  <1> QED BY <1>1, <1>2, RunInvHolds, PTL DEF Spec

\* An App without a history is an empty log.
LEMMA InitLog == Init => Log!Init
  <1> SUFFICES ASSUME Init PROVE Log!Init
    OBVIOUS
  <1>1. app.releases = <<>> /\ app.pin = NoImage
    BY DEF Init, NewApp
  <1>2. {app.releases[i] : i \in 1..Len(app.releases)} = {}
    <2>1. Len(app.releases) = 0
      BY <1>1, EmptySeq
    <2> QED BY <2>1
  <1> QED BY <1>1, <1>2 DEF Log!Init, Log!Gapless

\* A step that writes the history adds to the log what is due; one that writes
\* the pin is an ask.
LEMMA StepLog ==
    TypeInv /\ LockInv /\ RunInv /\ DueInv /\ TypeInv' /\ [Next]_vars
        => [Log!Next]_<<app.pin, Entries(app.releases)>>
  <1> SUFFICES ASSUME TypeInv, LockInv, RunInv, DueInv, TypeInv', [Next]_vars
               PROVE  \/ Log!Next
                      \/ UNCHANGED <<app.pin, Entries(app.releases)>>
    OBVIOUS
  <1>1. DueStep
    BY StepDue
  <1>2. CASE app'.releases = app.releases
    <2>1. app'.pin \in Images \cup {NoImage}
      BY DEF TypeInv, TypeOK, App
    <2>2. Log!Ask(app'.pin)
      BY <1>2 DEF Log!Ask
    <2> QED BY <2>1, <2>2 DEF Log!Next
  <1>3. CASE app'.pin = app.pin /\ Due(app'.releases, app.releases, app.pin)
    <2>1. PICK image \in Images, config \in Configs :
            /\ app'.releases = Appended(app.releases, image, config)
            /\ ~SameRelease(app.releases, image, config)
            /\ app.pin \in {NoImage, image}
      BY <1>3 DEF Due
    <2> DEFINE n == NextNumber(app.releases)
    <2>2. /\ app.releases \in Seq(Release) /\ Len(app.releases) <= MaxReleases
          /\ Numbered(app.releases)
      BY DEF TypeInv, TypeOK, Bounded, App, DueInv
    <2>3. /\ n \in {1} \cup {r.num + 1 : r \in Entries(app.releases)}
          /\ \A r \in Entries(app.releases) :
               r.num < n /\ (r.num + 1 = n => <<r.image, r.config>> # <<image, config>>)
          /\ Entries(app'.releases)
               = {r \in Entries(app.releases) : n < r.num + MaxReleases}
                   \cup {[num |-> n, image |-> image, config |-> config]}
      BY <2>1, <2>2, AppendedIsAdded
    <2> HIDE DEF n
    <2>4. Log!Add(n, image, config)
      BY <1>3, <2>1, <2>3 DEF Log!Add, Entries
    <2> QED BY <2>3, <2>4 DEF Log!Next, Entries
  <1> QED BY <1>1, <1>2, <1>3 DEF DueStep

\* However reconciles race, fail and start again, a reader of the App sees a
\* log: a release takes effect at one instant, with the image that is asked
\* for at that instant, for every history length and number of failures.
THEOREM LogHolds == Spec => ImplementsLog
  <1>1. Init => Log!Init
    BY InitLog
  <1>2. TypeInv /\ LockInv /\ RunInv /\ DueInv /\ TypeInv' /\ [Next]_vars
          => [Log!Next]_<<app.pin, {app.releases[i] : i \in 1..Len(app.releases)}>>
    BY StepLog DEF Entries
  <1> QED BY <1>1, <1>2, DueInvHolds, PTL DEF Spec, ImplementsLog, Log!Spec

\* The log that a reader sees has no gaps and is no longer than it may be.
THEOREM GaplessHolds == Spec => []Log!Gapless
  <1>1. TypeInv /\ DueInv => Log!Gapless
    <2> SUFFICES ASSUME TypeInv, DueInv PROVE Log!Gapless
      OBVIOUS
    <2> DEFINE rels == app.releases
               top == Current(rels).num
    <2>1. /\ rels \in Seq(Release) /\ Len(rels) \in Nat /\ Len(rels) <= MaxReleases
          /\ Numbered(rels)
      BY LenProperties DEF TypeInv, TypeOK, Bounded, App, DueInv
    <2>2. ASSUME NEW i \in 1..Len(rels)
          PROVE  /\ rels[i] \in Release /\ rels[i].num \in Nat /\ top \in Nat
                 /\ rels[i].num + (Len(rels) - i) = top
      <3>1. rels # <<>>
        BY <2>1, EmptySeq
      <3>2. rels[i] \in Release /\ Current(rels) \in Release
        BY <2>1, <3>1, ElementOfSeq, CurrentType
      <3> QED BY <2>1, <3>2 DEF Numbered, Release
    <2> HIDE DEF top
    <2>3. Entries(rels) \subseteq Log!Entry
      BY <2>2 DEF Entries, Log!Entry, Release
    <2>4. ASSUME NEW r \in Entries(rels), NEW s \in Entries(rels)
          PROVE  /\ r.num = s.num => r = s
                 /\ r.num < s.num + MaxReleases
                 /\ \A n \in s.num .. r.num : \E t \in Entries(rels) : t.num = n
      <3>1. PICK i \in 1..Len(rels), j \in 1..Len(rels) : r = rels[i] /\ s = rels[j]
        BY DEF Entries
      <3> DEFINE ri == rels[i].num
                 sj == rels[j].num
      <3>2. /\ ri \in Nat /\ sj \in Nat /\ top \in Nat
            /\ ri + (Len(rels) - i) = top /\ sj + (Len(rels) - j) = top
        BY <2>2
      <3>3. r.num = ri /\ s.num = sj
        BY <3>1
      <3> HIDE DEF ri, sj
      <3>4. ri = sj => i = j
        BY <2>1, <3>2
      <3>5. ri < sj + MaxReleases
        BY <2>1, <3>2
      <3>6. ASSUME NEW n \in sj .. ri PROVE \E t \in Entries(rels) : t.num = n
        <4> DEFINE k == j + (n - sj)
        <4>1. k \in 1..Len(rels) /\ n + (Len(rels) - k) = top /\ n \in Nat
          BY <2>1, <3>2
        <4> HIDE DEF k
        <4>2. rels[k].num \in Nat /\ rels[k].num + (Len(rels) - k) = top
          BY <2>2, <4>1
        <4> DEFINE rk == rels[k].num
        <4>3. rk = n
          <5>1. rk \in Nat /\ rk + (Len(rels) - k) = top
            BY <4>2
          <5> HIDE DEF rk
          <5> QED BY <2>1, <4>1, <5>1
        <4> QED BY <4>1, <4>3 DEF Entries
      <3> QED BY <3>1, <3>3, <3>4, <3>5, <3>6
    <2> HIDE DEF rels
    <2> QED BY <2>3, <2>4 DEF Log!Gapless, Entries, rels
  <1> QED BY <1>1, DueInvHolds, PTL
===========================================================================
