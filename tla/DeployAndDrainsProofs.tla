------------------------ MODULE DeployAndDrainsProofs -----------------------
(***************************************************************************)
(* What LogDrain promises for any drains, header values and bounds: the    *)
(* counters it compares are numbers, and a delivery that is reported took  *)
(* place, whatever Vector's restarts and reloads did to its counters.  And *)
(* what Deploy promises for any processes, sources, images and trouble:    *)
(* "Released" is said of the command's own change, whatever lags.          *)
(***************************************************************************)
EXTENDS LogDrain, Deploy, SequenceTheorems, WellFoundedInduction, TLAPS


Phase == {"", "Pending", "Active", "Failing"}
Status == [headers : BOOLEAN, phase : Phase, sent : Nat, errors : Nat]
Counts == [Drains -> Nat]

\* The types of what the reports read and write.
TypeInv ==
    /\ drain \in [Drains -> Status \cup {None}]
    /\ pod = [from |-> pod.from, env |-> pod.env, loaded |-> pod.loaded,
              sent |-> pod.sent, errors |-> pod.errors]
    /\ pod.sent \in Counts /\ pod.errors \in Counts

\* A drain Vector does not run has delivered nothing, and what Vector counted
\* beyond a drain's status was delivered since its last report, or before the
\* drain was made.  DeliveryIsReal speaks of a step: this is what is true
\* before it.
DeliveryInv ==
    \A d \in Drains :
        /\ d \notin DOMAIN pod.loaded => pod.sent[d] = 0
        /\ drain[d] # None /\ pod.sent[d] > drain[d].sent => d \in fresh \cup inherited

Inv == TypeInv /\ DeliveryInv

---------------------------------------------------------------------------
LEMMA InitInv == Init => Inv
  BY DEF Init, Inv, TypeInv, DeliveryInv, NoPod, Counts

\* A step that leaves the drains, Vector and what it delivered alone.
LEMMA Aside ==
    ASSUME Inv, drain' = drain, pod' = pod, fresh' = fresh, inherited' = inherited
    PROVE  Inv'
  BY DEF Inv, TypeInv, DeliveryInv

\* A step of Vector's own: the drains are not touched.
LEMMA VectorStep ==
    ASSUME Inv, drain' = drain, inherited' = inherited,
           pod' = [from |-> pod'.from, env |-> pod'.env, loaded |-> pod'.loaded,
                   sent |-> pod'.sent, errors |-> pod'.errors],
           pod'.sent \in Counts, pod'.errors \in Counts,
           \A d \in Drains :
               /\ d \notin DOMAIN pod'.loaded => pod'.sent[d] = 0
               /\ d \in fresh => d \in fresh'
               /\ pod'.sent[d] \in {0, pod.sent[d]} \/ d \in fresh'
    PROVE  Inv'
  <1>1. TypeInv'
    BY DEF Inv, TypeInv
  <1>2. ASSUME NEW d \in Drains, drain[d] # None, pod'.sent[d] > drain[d].sent
        PROVE  d \in fresh' \cup inherited
    <2>1. drain[d].sent \in Nat
      BY <1>2 DEF Inv, TypeInv, Status
    <2>2. CASE pod'.sent[d] = 0
      BY <1>2, <2>1, <2>2
    <2>3. CASE pod'.sent[d] = pod.sent[d]
      BY <1>2, <2>3 DEF Inv, DeliveryInv
    <2> QED BY <2>2, <2>3
  <1> QED BY <1>1, <1>2 DEF Inv, DeliveryInv

\* createDrainIn: a new drain counts from zero.
LEMMA CreateInv ==
    ASSUME Inv, NEW d \in Drains, NEW v \in Values \cup {None}, Create(d, v)
    PROVE  Inv'
  <1>1. CASE drain[d] # None
    BY <1>1, Aside DEF Create
  <1>2. CASE drain[d] = None
    <2>1. /\ drain' = [drain EXCEPT ![d] = NewDrain(v # None)]
          /\ fresh' = fresh \ {d}
          /\ inherited' = IF d \in DOMAIN pod.loaded THEN inherited \cup {d} ELSE inherited \ {d}
          /\ pod' = pod
      BY <1>2 DEF Create
    <2>2. NewDrain(v # None) \in Status /\ NewDrain(v # None).sent = 0
      BY DEF NewDrain, Status, Phase
    <2>3. TypeInv'
      BY <2>1, <2>2 DEF Inv, TypeInv
    <2>4. ASSUME NEW e \in Drains
          PROVE  /\ e \notin DOMAIN pod'.loaded => pod'.sent[e] = 0
                 /\ drain'[e] # None /\ pod'.sent[e] > drain'[e].sent
                      => e \in fresh' \cup inherited'
      <3>1. CASE e = d
        <4>1. drain'[e].sent = 0
          BY <2>1, <2>2, <3>1 DEF Inv, TypeInv
        <4> QED BY <2>1, <3>1, <4>1 DEF Inv, DeliveryInv
      <3>2. CASE e # d
        <4>1. drain'[e] = drain[e]
          BY <2>1, <3>2 DEF Inv, TypeInv
        <4> QED BY <2>1, <3>2, <4>1 DEF Inv, DeliveryInv
      <3> QED BY <3>1, <3>2
    <2> QED BY <2>3, <2>4 DEF Inv, DeliveryInv
  <1> QED BY <1>1, <1>2

\* deleteDrainIn, also one whose second call fails.
LEMMA DeleteInv ==
    ASSUME Inv, NEW d \in Drains, Delete(d)
    PROVE  Inv' /\ \A e \in Drains : drain'[e] \in {drain[e], None}
  <1>1. /\ drain' \in {[drain EXCEPT ![d] = None], drain}
        /\ pod' = pod /\ fresh' = fresh /\ inherited' = inherited
    BY DEF Delete
  <1> QED BY <1>1 DEF Inv, TypeInv, DeliveryInv

\* A start of Vector, and a reload, keep no count they should not.
LEMMA StartInv ==
    ASSUME Inv, Start
    PROVE  Inv'
  <1>1. /\ pod' = [from |-> pod'.from, env |-> pod'.env, loaded |-> pod'.loaded,
                   sent |-> pod'.sent, errors |-> pod'.errors]
        /\ pod'.sent = [d \in Drains |-> 0] /\ pod'.errors = [d \in Drains |-> 0]
        /\ drain' = drain /\ fresh' = fresh /\ inherited' = inherited
    BY DEF Start
  <1>2. pod'.sent \in Counts /\ pod'.errors \in Counts
    BY <1>1 DEF Counts
  <1> QED BY <1>1, <1>2, VectorStep

LEMMA ReloadInv ==
    ASSUME Inv, Reload
    PROVE  Inv'
  <1>0. pod.sent \in Counts /\ pod.errors \in Counts
    BY DEF Inv, TypeInv
  <1> DEFINE kept(count) == [d \in Drains |-> IF d \in DOMAIN config THEN count[d] ELSE 0]
  <1>1. /\ pod' = [pod EXCEPT !.loaded = config, !.sent = kept(@), !.errors = kept(@)]
        /\ drain' = drain /\ fresh' = fresh /\ inherited' = inherited
    BY DEF Reload
  <1>2. pod' = [from |-> pod.from, env |-> pod.env, loaded |-> config,
                sent |-> kept(pod.sent), errors |-> kept(pod.errors)]
    BY <1>1 DEF Inv, TypeInv
  <1>3. kept(pod.sent) \in Counts /\ kept(pod.errors) \in Counts
    BY <1>0 DEF Counts
  <1>4. \A d \in Drains :
          /\ d \notin DOMAIN config => kept(pod.sent)[d] = 0
          /\ kept(pod.sent)[d] \in {0, pod.sent[d]}
    OBVIOUS
  <1> HIDE DEF kept
  <1> QED BY <1>1, <1>2, <1>3, <1>4, VectorStep

\* A line delivered is fresh; a line that was not is no delivery.
LEMMA DeliverInv ==
    ASSUME Inv, NEW d \in Drains, Deliver(d)
    PROVE  Inv'
  <1>0. pod.sent \in Counts /\ pod.errors \in Counts
    BY DEF Inv, TypeInv
  <1>1. CASE pod' = [pod EXCEPT !.sent[d] = @ + 1] /\ fresh' = fresh \cup {d}
    <2>1. pod' = [from |-> pod.from, env |-> pod.env, loaded |-> pod.loaded,
                  sent |-> [pod.sent EXCEPT ![d] = @ + 1], errors |-> pod.errors]
      BY <1>1 DEF Inv, TypeInv
    <2>2. [pod.sent EXCEPT ![d] = @ + 1] \in Counts
      BY <1>0 DEF Counts
    <2>3. \A e \in Drains :
            /\ e \notin DOMAIN pod.loaded => [pod.sent EXCEPT ![d] = @ + 1][e] = 0
            /\ [pod.sent EXCEPT ![d] = @ + 1][e] \in {0, pod.sent[e]} \/ e \in fresh'
      BY <1>0, <1>1 DEF Deliver, Inv, DeliveryInv, Counts
    <2>4. drain' = drain /\ inherited' = inherited
      BY DEF Deliver
    <2> QED BY <1>0, <1>1, <2>1, <2>2, <2>3, <2>4, VectorStep
  <1>2. CASE pod' = [pod EXCEPT !.errors[d] = @ + 1] /\ fresh' = fresh
    <2>1. pod' = [from |-> pod.from, env |-> pod.env, loaded |-> pod.loaded,
                  sent |-> pod.sent, errors |-> [pod.errors EXCEPT ![d] = @ + 1]]
      BY <1>2 DEF Inv, TypeInv
    <2>2. [pod.errors EXCEPT ![d] = @ + 1] \in Counts
      BY <1>0 DEF Counts
    <2>3. drain' = drain /\ inherited' = inherited
      BY DEF Deliver
    <2> QED BY <1>0, <1>2, <2>1, <2>2, <2>3, VectorStep DEF Inv, DeliveryInv
  <1> QED BY <1>1, <1>2 DEF Deliver

\* What is told of a drain, and when it is Active or counts more than before.
LEMMA RefreshedType ==
    ASSUME Inv, NEW d \in Drains, drain[d] # None
    PROVE  /\ Refreshed(d) \in Status
           /\ Refreshed(d).sent = pod.sent[d]
           /\ Refreshed(d).phase = "Active" =>
                drain[d].phase = "Active" \/ pod.sent[d] > drain[d].sent
  <1>1. drain[d] \in Status /\ pod.sent[d] \in Nat /\ pod.errors[d] \in Nat
    BY DEF Inv, TypeInv, Counts
  <1> DEFINE phase == IF More(pod.sent[d], drain[d].sent) THEN "Active"
                      ELSE IF pod.errors[d] > drain[d].errors THEN "Failing"
                      ELSE IF drain[d].phase = "" THEN "Pending" ELSE drain[d].phase
  <1>2. Refreshed(d) = [drain[d] EXCEPT !.phase = phase, !.sent = pod.sent[d],
                                        !.errors = pod.errors[d]]
    BY DEF Refreshed
  <1>3. phase \in Phase
    BY <1>1 DEF Status, Phase
  <1>4. phase = "Active" => drain[d].phase = "Active" \/ pod.sent[d] > drain[d].sent
    BY DEF More
  <1> HIDE DEF phase
  <1> QED BY <1>1, <1>2, <1>3, <1>4 DEF Status

\* The report of a drain.
LEMMA ReportInv ==
    ASSUME Inv, NEW answers \in BOOLEAN, Report(answers)
    PROVE  /\ Inv'
           /\ \A d \in Drains :
                drain[d] # None /\ drain'[d] # None /\ drain'[d].phase = "Active"
                /\ (drain[d].phase # "Active" \/ drain'[d].sent > drain[d].sent)
                  => d \in fresh \cup inherited
  <1> DEFINE d == task.req
             polled == task.present /\ d \in DOMAIN task.values \cap DOMAIN pod.loaded /\ answers
             told == CASE ~task.present -> [drain[d] EXCEPT !.phase = "Pending"]
                       [] task.present /\ d \notin DOMAIN task.values
                            -> [drain[d] EXCEPT !.phase = "Failing"]
                       [] polled -> Refreshed(d)
                       [] OTHER -> [drain[d] EXCEPT !.phase = IF @ = "" THEN "Pending" ELSE @]
  <1>0. pod' = pod
    BY DEF Report
  <1>1. CASE drain[d] = None \/ d \notin Drains
    <2>1. CASE drain' = drain /\ fresh' = fresh /\ inherited' = inherited
      BY <1>0, <2>1, Aside DEF Inv, TypeInv, Status
    <2>2. CASE /\ d \notin Drains
               /\ drain' = [drain EXCEPT ![d] = told]
               /\ fresh' \in {fresh, fresh \ {d}} /\ inherited' \in {inherited, inherited \ {d}}
      <3>1. drain' = drain /\ \A e \in Drains : (e \in fresh' <=> e \in fresh)
                                            /\ (e \in inherited' <=> e \in inherited)
        BY <2>2 DEF Inv, TypeInv
      <3> QED BY <1>0, <3>1 DEF Inv, TypeInv, DeliveryInv, Status
    <2>3. CASE drain[d] = None
      BY <2>1, <2>3 DEF Report
    <2>4. CASE drain[d] # None
      <3>1. /\ drain' = [drain EXCEPT ![d] = told]
            /\ fresh' \in {fresh, fresh \ {d}} /\ inherited' \in {inherited, inherited \ {d}}
        BY <2>4 DEF Report
      <3> HIDE DEF told
      <3> QED BY <1>1, <2>2, <2>4, <3>1
    <2> QED BY <2>3, <2>4
  <1>2. CASE drain[d] # None /\ d \in Drains
    <2>1. /\ drain' = [drain EXCEPT ![d] = told]
          /\ fresh' = IF polled THEN fresh \ {d} ELSE fresh
          /\ inherited' = IF polled THEN inherited \ {d} ELSE inherited
      BY <1>2 DEF Report
    <2>2. drain[d] \in Status /\ pod.sent[d] \in Nat
      BY <1>2 DEF Inv, TypeInv, Counts
    <2>3. CASE polled
      <3>1. told = Refreshed(d)
        BY <2>3
      <3>2. /\ told \in Status /\ told.sent = pod.sent[d]
            /\ told.phase = "Active" => drain[d].phase = "Active" \/ pod.sent[d] > drain[d].sent
        BY <1>2, <3>1, RefreshedType
      <3> HIDE DEF told
      <3>3. TypeInv'
        BY <1>0, <2>1, <3>2 DEF Inv, TypeInv
      <3>4. drain'[d] = told /\ \A e \in Drains \ {d} : drain'[e] = drain[e]
        BY <1>2, <2>1 DEF Inv, TypeInv
      <3>5. DeliveryInv'
        BY <1>0, <2>1, <2>2, <2>3, <3>2, <3>4 DEF Inv, DeliveryInv
      <3>6. (drain[d].phase # "Active" \/ told.sent > drain[d].sent) /\ told.phase = "Active"
              => d \in fresh \cup inherited
        BY <1>2, <3>2 DEF Inv, DeliveryInv
      <3>7. \A e \in Drains \ {d} : drain[e] # None => ~(drain[e].sent > drain[e].sent)
        BY DEF Inv, TypeInv, Status
      <3> QED BY <3>3, <3>4, <3>5, <3>6, <3>7 DEF Inv
    <2>4. CASE ~polled
      <3>1. told \in {[drain[d] EXCEPT !.phase = "Pending"], [drain[d] EXCEPT !.phase = "Failing"],
                      [drain[d] EXCEPT !.phase = IF @ = "" THEN "Pending" ELSE @]}
        BY <2>4
      <3> HIDE DEF told
      <3>2. /\ told \in Status /\ told.sent = drain[d].sent
            /\ told.phase = "Active" => drain[d].phase = "Active"
        BY <2>2, <3>1 DEF Status, Phase
      <3>3. drain'[d] = told /\ \A e \in Drains \ {d} : drain'[e] = drain[e]
        BY <1>2, <2>1 DEF Inv, TypeInv
      <3>4. Inv'
        <4>1. TypeInv'
          BY <1>0, <2>1, <3>2 DEF Inv, TypeInv
        <4>2. fresh' = fresh /\ inherited' = inherited
          BY <2>1, <2>4
        <4>3. \A e \in Drains : drain'[e] # None => drain[e] # None /\ drain'[e].sent = drain[e].sent
          BY <1>2, <3>2, <3>3
        <4>4. DeliveryInv'
          BY <1>0, <4>2, <4>3 DEF Inv, DeliveryInv
        <4> QED BY <4>1, <4>4 DEF Inv
      <3>5. \A e \in Drains : drain[e] # None => ~(drain[e].sent > drain[e].sent)
        BY DEF Inv, TypeInv, Status
      <3> QED BY <3>2, <3>3, <3>4, <3>5
    <2> QED BY <2>3, <2>4
  <1> QED BY <1>1, <1>2

\* One step, and what it reports.
LEMMA StepInv ==
    Inv /\ [Next]_vars =>
        /\ Inv'
        /\ [\A d \in Drains :
              /\ drain[d] # None /\ drain'[d] # None
              /\ drain'[d].phase = "Active" /\ (drain[d].phase # "Active" \/ drain'[d].sent > drain[d].sent)
              => d \in fresh \cup inherited]_vars
  <1> SUFFICES ASSUME Inv, [Next]_vars
               PROVE  /\ Inv'
                      /\ \A d \in Drains :
                           /\ drain[d] # None /\ drain'[d] # None
                           /\ drain'[d].phase = "Active"
                           /\ (drain[d].phase # "Active" \/ drain'[d].sent > drain[d].sent)
                           => d \in fresh \cup inherited
    OBVIOUS
  <1>x. ASSUME \A e \in Drains : drain'[e] \in {drain[e], None} \/ drain[e] = None
        PROVE  \A d \in Drains :
                 /\ drain[d] # None /\ drain'[d] # None
                 /\ drain'[d].phase = "Active"
                 /\ (drain[d].phase # "Active" \/ drain'[d].sent > drain[d].sent)
                 => d \in fresh \cup inherited
    <2>1. \A e \in Drains : drain[e] # None => ~(drain[e].sent > drain[e].sent)
      BY DEF Inv, TypeInv, Status
    <2> QED BY <1>x, <2>1
  <1>1. CASE UNCHANGED vars
    BY <1>1, <1>x, Aside DEF vars
  <1>2. ASSUME NEW d \in Drains, NEW v \in Values \cup {None}, Create(d, v)
        PROVE  Inv' /\ \A e \in Drains : drain'[e] = drain[e] \/ drain[e] = None
    BY <1>2, CreateInv DEF Create, Inv, TypeInv
  <1>3. ASSUME NEW d \in Drains, Delete(d)
        PROVE  Inv' /\ \A e \in Drains : drain'[e] \in {drain[e], None}
    BY <1>3, DeleteInv
  <1>4. ASSUME NEW d \in Drains, Deliver(d)
        PROVE  Inv' /\ drain' = drain
    BY <1>4, DeliverInv DEF Deliver
  <1>5. CASE Roll \/ Restart
    BY <1>5, <1>x, StartInv DEF Roll, Restart, Start
  <1>6. CASE Reload
    BY <1>6, <1>x, ReloadInv DEF Reload
  <1>7. ASSUME NEW d \in Drains, NEW unread, Resolve(d, unread)
        PROVE  Inv' /\ drain' = drain
    BY <1>7, Aside DEF Resolve
  <1>8. CASE Install \/ Mirrors \/ Configure \/ PatchEnvFrom \/ Crash
    BY <1>8, <1>x, Aside DEF Install, Mirrors, Configure, PatchEnvFrom, Crash
  <1>9. ASSUME NEW answers \in BOOLEAN, Report(answers)
        PROVE  /\ Inv'
               /\ \A d \in Drains :
                    drain[d] # None /\ drain'[d] # None /\ drain'[d].phase = "Active"
                    /\ (drain[d].phase # "Active" \/ drain'[d].sent > drain[d].sent)
                      => d \in fresh \cup inherited
    BY <1>9, ReportInv
  <1> QED
    BY <1>1, <1>2, <1>3, <1>4, <1>5, <1>6, <1>7, <1>8, <1>9, <1>x DEF Next

\* The counters and the statuses stay well typed, and no drain is credited
\* with lines it did not deliver.
THEOREM InvHolds == Spec => []Inv
  <1>1. Init => Inv
    BY InitInv
  <1>2. Inv /\ [Next]_vars => Inv'
    BY StepInv
  <1> QED BY <1>1, <1>2, PTL DEF Spec

\* A status becomes Active, or counts more, only after a delivery, for any
\* drains, restarts and reloads of Vector and failing calls.
THEOREM DeliveryHolds == Spec => DeliveryIsReal
  <1>1. Inv /\ [Next]_vars =>
          [\A d \in Drains :
            /\ drain[d] # None /\ drain'[d] # None
            /\ drain'[d].phase = "Active" /\ (drain[d].phase # "Active" \/ drain'[d].sent > drain[d].sent)
            => d \in fresh \cup inherited]_vars
    BY StepInv
  <1> QED BY <1>1, InvHolds, PTL DEF Spec, DeliveryIsReal
---------------------------------------------------------------------------
(* Deploy.                                                                  *)

\* The types of what a release is made from.
Image == Pins \cup (Archives \X Nat)
Release == [image : Image, layout : SUBSET Processes]
AppSpec == [gen : Nat, source : Archives \cup {Nothing}, pin : Image \cup {Nothing},
            rebuild : Nat, layout : SUBSET Processes]
AppStatus == [observed : Nat, phase : {"Pending", "Building", "Deploying", "Running", "Failed"},
              build : Nat, releases : Seq(Release)]
BuildRun == [source : Archives, rebuild : Nat, state : {"running", "done", "failed"}]
Pack == [source : Archives \cup {Nothing}, asked : Nat, again : BOOLEAN, ref : Nat]
CommandRecord ==
    [pc : Working, kind : {"source", "image", "rollback", "rebuild"},
     source : Archives \cup {Nothing}, pin : Image \cup {Nothing}, layout : SUBSET Processes,
     before : Archives \cup {Nothing}, build : Nat, settled : BOOLEAN, gen : Nat]

DeployTypes ==
    /\ spec \in AppSpec /\ status \in AppStatus
    /\ copy \in [spec : AppSpec, status : AppStatus]
    /\ latest \in BOOLEAN
    /\ strategy \in Strategies
    /\ made \in Seq(BuildRun) /\ pack \in Pack
    /\ command.pc \in Working => command \in CommandRecord

\* A release of what the App asks for: its pinned image, or an image of its
\* source from some rebuild so far.
Asked(release) ==
    /\ release # Nothing
    /\ release.layout = spec.layout
    /\ IF spec.pin # Nothing THEN release.image = spec.pin
       ELSE \E r \in 0 .. spec.rebuild : release.image = <<spec.source, r>>

\* Nothing is ahead of the App: no status, no copy, no build.  A command that
\* wrote the App waits for the newest generation.
NotAhead ==
    /\ status.observed <= spec.gen
    /\ copy.spec.gen <= spec.gen /\ copy.spec.rebuild <= spec.rebuild
    /\ latest => copy.spec = spec
    /\ \A k \in 1 .. Len(made) : made[k].rebuild <= spec.rebuild
    /\ pack.asked <= spec.rebuild
    /\ command.pc \in {"build", "follow", "running"} => command.gen = spec.gen

\* Running at the newest generation is said of a release the App asks for.
RunningAsAsked ==
    status.phase = "Running" /\ status.observed = spec.gen => Asked(CurrentOf(status.releases))

DeployInv == DeployTypes /\ NotAhead /\ RunningAsAsked
---------------------------------------------------------------------------
LEMMA MaxOfSome ==
    ASSUME NEW n \in Nat, NEW S \in SUBSET (1 .. n), S # {}
    PROVE  Max(S) \in S /\ \A y \in S : Max(S) >= y
  <1> DEFINE Less == {r \in Nat \X Nat : r[1] < r[2]}
             T == {n - k : k \in S}
  <1>1. IsWellFoundedOn(Less, Nat)
    BY NatLessThanWellFounded DEF OpToRel
  <1>2. T \in SUBSET Nat /\ T # {}
    <2>1. \A k \in S : k \in 1 .. n /\ n - k \in Nat
      OBVIOUS
    <2>2. PICK k \in S : TRUE
      OBVIOUS
    <2> QED BY <2>1, <2>2
  <1> HIDE DEF Less, T
  <1>3. PICK m \in T : \A t \in T : ~(<<t, m>> \in Less)
    BY <1>1, <1>2, WFMin
  <1>4. PICK x \in S : m = n - x
    BY DEF T
  <1>5. \A y \in S : x >= y
    <2> TAKE y \in S
    <2>1. n - y \in T /\ n - y \in Nat /\ m \in Nat /\ ~(<<n - y, m>> \in Less)
      BY <1>2, <1>3 DEF T
    <2> QED BY <2>1, <1>4 DEF Less
  <1> QED BY <1>5 DEF Max

\* A changed spec, field by field.
LEMMA ChangedSpec ==
    ASSUME NEW s \in AppSpec, NEW a \in Archives \cup {Nothing}, NEW p \in Image \cup {Nothing},
           NEW l \in SUBSET Processes
    PROVE  /\ [s EXCEPT !.source = a, !.pin = p] \in AppSpec
           /\ [s EXCEPT !.source = a, !.pin = p, !.layout = l] \in AppSpec
           /\ [s EXCEPT !.pin = p, !.layout = l] \in AppSpec
  <1>1. /\ \A t \in AppSpec : [t EXCEPT !.source = a] \in AppSpec
        /\ \A t \in AppSpec : [t EXCEPT !.pin = p] \in AppSpec
        /\ \A t \in AppSpec : [t EXCEPT !.layout = l] \in AppSpec
    BY DEF AppSpec
  <1>2. [s EXCEPT !.source = a, !.pin = p] = [[s EXCEPT !.source = a] EXCEPT !.pin = p]
    OBVIOUS
  <1>3. [s EXCEPT !.source = a, !.pin = p, !.layout = l]
          = [[[s EXCEPT !.source = a] EXCEPT !.pin = p] EXCEPT !.layout = l]
    OBVIOUS
  <1>4. [s EXCEPT !.pin = p, !.layout = l] = [[s EXCEPT !.pin = p] EXCEPT !.layout = l]
    OBVIOUS
  <1> QED BY <1>1, <1>2, <1>3, <1>4

LEMMA LastIn ==
    ASSUME NEW S, NEW s \in Seq(S), s # <<>>
    PROVE  /\ Len(s) \in 1 .. Len(s) /\ Last(s) = s[Len(s)] /\ Last(s) \in S
  BY DEF Last

LEMMA LastOfAppend ==
    ASSUME NEW S, NEW s \in Seq(S), NEW e \in S
    PROVE  /\ Append(s, e) \in Seq(S) /\ Append(s, e) # <<>> /\ Last(Append(s, e)) = e
           /\ Len(Append(s, e)) = Len(s) + 1
           /\ \A k \in 1 .. Len(s) : Append(s, e)[k] = s[k]
           /\ Append(s, e)[Len(s) + 1] = e
  BY DEF Last

LEMMA LastOfConcat ==
    ASSUME NEW S, NEW s \in Seq(S), NEW t \in Seq(S), Len(t) = 1
    PROVE  s \o t \in Seq(S) /\ s \o t # <<>> /\ Last(s \o t) = t[1]
  <1>1. s \o t \in Seq(S) /\ Len(s \o t) = Len(s) + 1 /\ Len(s) \in Nat
    BY ConcatProperties
  <1>2. (s \o t)[Len(s) + 1] = t[1]
    <2>1. Len(s) + 1 \in 1 .. Len(s) + Len(t) /\ ~(Len(s) + 1 <= Len(s))
          /\ Len(s) + 1 - Len(s) = 1
      OBVIOUS
    <2>2. \A i \in 1 .. Len(s) + Len(t) :
             (s \o t)[i] = IF i <= Len(s) THEN s[i] ELSE t[i - Len(s)]
      BY ConcatProperties
    <2> DEFINE n == Len(s) + 1
    <2>3. (s \o t)[n] = t[n - Len(s)]
      <3> HIDE DEF n
      <3> QED BY <2>1, <2>2 DEF n
    <2>4. t[n - Len(s)] = t[1]
      BY <2>1
    <2> QED BY <2>3, <2>4
  <1> QED BY <1>1, <1>2 DEF Last

\* An image comes from a build that was done, and from the newest if that was.
LEMMA ImageOfBuilds ==
    ASSUME NEW bs \in Seq(BuildRun)
    PROVE  /\ NewestImage(bs) \in Image \cup {Nothing}
           /\ bs # <<>> /\ Last(bs).state = "done" => NewestImage(bs) = ImageOf(Last(bs))
  <1> DEFINE done == {k \in DOMAIN bs : bs[k].state = "done"}
  <1>1. done \in SUBSET (1 .. Len(bs)) /\ Len(bs) \in Nat
    OBVIOUS
  <1>2. CASE done = {}
    <2>1. NewestImage(bs) = Nothing
      BY <1>2 DEF NewestImage
    <2>2. ~(bs # <<>> /\ Last(bs).state = "done")
      BY <1>2, LastIn
    <2> QED BY <2>1, <2>2
  <1>3. CASE done # {}
    <2>1. Max(done) \in done /\ \A y \in done : Max(done) >= y
      BY <1>1, <1>3, MaxOfSome
    <2>2. NewestImage(bs) = ImageOf(bs[Max(done)])
      BY <1>3 DEF NewestImage
    <2>3. bs[Max(done)] \in BuildRun
      BY <2>1
    <2>4. NewestImage(bs) \in Image
      BY <2>2, <2>3 DEF ImageOf, Image, BuildRun
    <2>5. ASSUME bs # <<>>, Last(bs).state = "done" PROVE Max(done) = Len(bs)
      <3>1. Len(bs) \in done
        BY <2>5, LastIn
      <3>2. Max(done) \in 1 .. Len(bs) /\ Max(done) >= Len(bs)
        BY <1>1, <2>1, <3>1
      <3> HIDE DEF done
      <3> QED BY <1>1, <3>2
    <2> QED BY <2>2, <2>4, <2>5 DEF Last
  <1> QED BY <1>2, <1>3
---------------------------------------------------------------------------
LEMMA InitDeploy == DeployInit => DeployInv
  <1> SUFFICES ASSUME DeployInit PROVE DeployInv
    OBVIOUS
  <1>1. PICK past \in Pasts : Settled(past)
    BY DEF DeployInit
  <1> DEFINE image == <<past.source, 0>>
             built == IF past.source = Nothing THEN <<>> ELSE <<[image |-> image, layout |-> {1}]>>
             pinned == IF past.pin = Nothing THEN <<>> ELSE <<[image |-> past.pin, layout |-> {1}]>>
             first == [gen |-> 1, source |-> past.source, pin |-> past.pin, rebuild |-> 0, layout |-> {1}]
  <1>2. /\ past.source \in Archives \cup {Nothing} /\ past.pin \in Pins \cup {Nothing}
        /\ {1} \in SUBSET Processes
    BY DeployAssumption
  <1>3. spec = first /\ first \in AppSpec
    BY <1>1, <1>2 DEF Settled, AppSpec, Image
  <1>4. /\ past.source # Nothing => [image |-> image, layout |-> {1}] \in Release
        /\ past.pin # Nothing => [image |-> past.pin, layout |-> {1}] \in Release
    BY <1>2 DEF Release, Image
  <1>5. /\ built \in Seq(Release) /\ pinned \in Seq(Release)
        /\ Len(built) = (IF past.source = Nothing THEN 0 ELSE 1)
        /\ Len(pinned) = (IF past.pin = Nothing THEN 0 ELSE 1)
    BY <1>4
  <1>6. /\ built \o pinned \in Seq(Release)
        /\ past.pin # Nothing => Last(built \o pinned) = [image |-> past.pin, layout |-> {1}]
        /\ past.pin = Nothing /\ past.source # Nothing
             => Last(built \o pinned) = [image |-> image, layout |-> {1}]
        /\ (past.pin = Nothing /\ past.source = Nothing) <=> built \o pinned = <<>>
    <2>1. CASE past.pin # Nothing
      <3>1. /\ Len(pinned) = 1 /\ pinned[1] = [image |-> past.pin, layout |-> {1}]
            /\ Len(built) \in Nat
        BY <1>5, <2>1
      <3> HIDE DEF built, pinned
      <3>2. /\ built \o pinned \in Seq(Release) /\ built \o pinned # <<>>
            /\ Last(built \o pinned) = pinned[1]
        BY <1>5, <3>1, LastOfConcat
      <3> QED BY <2>1, <3>1, <3>2
    <2>2. CASE past.pin = Nothing
      <3>1. built \o pinned = built
        BY <1>5, <2>2
      <3> QED BY <1>5, <2>2, <3>1 DEF Last
    <2> QED BY <2>1, <2>2
  <1>7. /\ status = [observed |-> 1, phase |-> IF built \o pinned = <<>> THEN "Pending" ELSE "Running",
                     build |-> Len(made), releases |-> built \o pinned]
        /\ made = (IF past.source = Nothing THEN <<>>
                   ELSE <<[source |-> past.source, rebuild |-> 0, state |-> "done"]>>)
    BY <1>1 DEF Settled
  <1>8. made \in Seq(BuildRun) /\ \A k \in 1 .. Len(made) : made[k].rebuild = 0
    <2>1. CASE past.source = Nothing
      BY <1>7, <2>1
    <2>2. CASE past.source # Nothing
      <3>1. [source |-> past.source, rebuild |-> 0, state |-> "done"] \in BuildRun
        BY <1>2, <2>2 DEF BuildRun
      <3> QED BY <1>7, <2>2, <3>1
    <2> QED BY <2>1, <2>2
  <1>9. status \in AppStatus /\ Len(made) \in Nat
    BY <1>6, <1>7, <1>8 DEF AppStatus
  <1>10. pack \in Pack /\ pack.asked = 0
    <2>1. pack = [source |-> IF strategy = "buildpacks" THEN past.source ELSE Nothing,
                  asked |-> 0, again |-> FALSE,
                  ref |-> IF strategy = "buildpacks" THEN Len(made) ELSE 0]
      BY <1>1 DEF Settled
    <2> QED BY <1>2, <1>9, <2>1 DEF Pack
  <1>11. DeployTypes
    BY <1>3, <1>8, <1>9, <1>10 DEF DeployInit, DeployTypes, NoCommand, Working
  <1>12. NotAhead
    BY <1>3, <1>7, <1>8, <1>10 DEF DeployInit, NotAhead, NoCommand
  <1>13. RunningAsAsked
    <2> SUFFICES ASSUME status.phase = "Running" PROVE Asked(CurrentOf(status.releases))
      BY DEF RunningAsAsked
    <2>1. status.releases = built \o pinned /\ built \o pinned # <<>>
      BY <1>7
    <2> DEFINE current == Last(built \o pinned)
    <2>2. CurrentOf(status.releases) = current
      BY <2>1 DEF CurrentOf
    <2> HIDE DEF built, pinned
    <2>3. current \in Release /\ current # Nothing
      BY <1>6, <2>1, LastIn, DeployAssumption DEF Release, Image
    <2>4. CASE past.pin # Nothing
      <3>1. current.image = past.pin /\ current.layout = {1}
        BY <1>6, <2>4
      <3> HIDE DEF current
      <3> QED BY <1>3, <2>2, <2>3, <2>4, <3>1 DEF Asked
    <2>5. CASE past.pin = Nothing
      <3>1. current.image = <<past.source, 0>> /\ current.layout = {1}
        BY <1>6, <2>1, <2>5
      <3>2. 0 \in 0 .. spec.rebuild
        BY <1>3
      <3> HIDE DEF current
      <3> QED BY <1>3, <2>2, <2>3, <2>5, <3>1, <3>2 DEF Asked
    <2> QED BY <2>4, <2>5
  <1> QED BY <1>11, <1>12, <1>13 DEF DeployInv

\* A write of the App: a change is a new generation, of which no status says
\* anything yet; without one a rebuild was asked for.
LEMMA WriteDeploy ==
    ASSUME DeployInv, NEW new \in AppSpec, WriteApp(new),
           new.gen = spec.gen, new.rebuild >= spec.rebuild,
           command'.pc \in Working => command' \in CommandRecord,
           command'.pc \in {"build", "follow", "running"} => command'.gen = spec'.gen
    PROVE  DeployInv'
  <1>0. /\ spec \in AppSpec /\ spec.gen \in Nat /\ spec.rebuild \in Nat
        /\ status.observed \in Nat /\ copy.spec.gen \in Nat /\ copy.spec.rebuild \in Nat
        /\ status.observed <= spec.gen /\ copy.spec.gen <= spec.gen
        /\ copy.spec.rebuild <= spec.rebuild
        /\ pack.asked \in Nat /\ pack.asked <= spec.rebuild
    BY DEF DeployInv, DeployTypes, NotAhead, AppSpec, AppStatus, Pack
  <1>1. /\ UNCHANGED <<status, copy, strategy, made, pack>> /\ latest' = FALSE
        /\ spec' = Written(new)
    BY DEF WriteApp, Controller
  <1>2. /\ spec' \in AppSpec /\ spec'.rebuild = new.rebuild /\ spec'.gen \in Nat /\ spec'.rebuild \in Nat
        /\ spec'.rebuild >= spec.rebuild
        /\ \/ spec'.gen = spec.gen + 1
           \/ spec'.gen = spec.gen /\ spec'.source = spec.source /\ spec'.pin = spec.pin
              /\ spec'.layout = spec.layout
    BY <1>0, <1>1 DEF Written, AppSpec
  <1>3. DeployTypes'
    BY <1>1, <1>2 DEF DeployInv, DeployTypes
  <1>4. \A k \in 1 .. Len(made) : made[k].rebuild \in Nat /\ made[k].rebuild <= spec.rebuild
    <2> TAKE k \in 1 .. Len(made)
    <2>1. made[k] \in BuildRun
      BY DEF DeployInv, DeployTypes
    <2> QED BY <2>1 DEF DeployInv, NotAhead, BuildRun
  <1>5. NotAhead'
    BY <1>0, <1>1, <1>2, <1>4 DEF NotAhead
  <1>6. RunningAsAsked'
    <2> SUFFICES ASSUME status'.phase = "Running", status'.observed = spec'.gen
                 PROVE  Asked(CurrentOf(status.releases))'
      BY DEF RunningAsAsked
    <2>1. status.phase = "Running" /\ status.observed = spec.gen /\ spec'.gen = spec.gen
      BY <1>0, <1>1, <1>2
    <2>2. Asked(CurrentOf(status.releases))
      BY <2>1 DEF DeployInv, RunningAsAsked
    <2>3. \A r \in 0 .. spec.rebuild : r \in 0 .. spec'.rebuild
      BY <1>0, <1>2
    <2> QED BY <1>0, <1>1, <1>2, <2>1, <2>2, <2>3 DEF Asked, CurrentOf
  <1> QED BY <1>3, <1>5, <1>6 DEF DeployInv

\* A step that leaves the App, its status and its copies alone.
LEMMA DeployAside ==
    ASSUME DeployInv, UNCHANGED <<spec, status, strategy>>,
           \/ UNCHANGED <<copy, latest>>
           \/ copy' = [spec |-> spec, status |-> status] /\ latest' = TRUE,
           made' \in Seq(BuildRun), \A k \in 1 .. Len(made') : made'[k].rebuild <= spec.rebuild,
           pack' \in Pack, pack'.asked <= spec.rebuild,
           command'.pc \in Working => command' \in CommandRecord,
           command'.pc \in {"build", "follow", "running"} => command'.gen = spec.gen
    PROVE  DeployInv'
  <1>1. spec.gen \in Nat /\ spec.rebuild \in Nat
    BY DEF DeployInv, DeployTypes, AppSpec
  <1>2. DeployTypes'
    <2>1. /\ spec' \in AppSpec /\ status' \in AppStatus /\ strategy' \in Strategies
          /\ latest' \in BOOLEAN
      BY DEF DeployInv, DeployTypes
    <2>2. copy' \in [spec : AppSpec, status : AppStatus]
      BY DEF DeployInv, DeployTypes
    <2> QED BY <2>1, <2>2 DEF DeployTypes
  <1>3. NotAhead'
    BY <1>1 DEF DeployInv, NotAhead
  <1>4. RunningAsAsked'
    BY DEF DeployInv, RunningAsAsked, Asked, CurrentOf
  <1> QED BY <1>2, <1>3, <1>4 DEF DeployInv

LEMMA OtherDeploy == DeployInv /\ Other => DeployInv'
  <1> SUFFICES ASSUME DeployInv, Other PROVE DeployInv'
    OBVIOUS
  <1>1. spec \in AppSpec /\ spec.rebuild \in Nat /\ command = NoCommand /\ command' = NoCommand
    BY DEF Other, DeployInv, DeployTypes, AppSpec
  <1>2. ASSUME NEW a \in Archives, WriteApp([spec EXCEPT !.source = a, !.pin = Nothing])
        PROVE  DeployInv'
    <2> DEFINE new == [spec EXCEPT !.source = a, !.pin = Nothing]
    <2>1. new \in AppSpec
      BY <1>1, ChangedSpec
    <2>2. new.gen = spec.gen /\ new.rebuild >= spec.rebuild
      BY <1>1 DEF AppSpec
    <2> HIDE DEF new
    <2> QED BY <1>1, <1>2, <2>1, <2>2, WriteDeploy DEF new, NoCommand, Working
  <1>3. ASSUME NEW i \in Pins, WriteApp([spec EXCEPT !.pin = i]) PROVE DeployInv'
    <2>1. [spec EXCEPT !.pin = i] \in AppSpec
      BY <1>1 DEF AppSpec, Image
    <2> QED BY <1>1, <1>3, <2>1, WriteDeploy DEF NoCommand, Working, AppSpec
  <1>4. ASSUME WriteApp([spec EXCEPT !.rebuild = @ + 1]) PROVE DeployInv'
    <2>1. [spec EXCEPT !.rebuild = @ + 1] \in AppSpec
      BY <1>1 DEF AppSpec
    <2> QED BY <1>1, <1>4, <2>1, WriteDeploy DEF NoCommand, Working, AppSpec
  <1> QED BY <1>2, <1>3, <1>4 DEF Other

LEMMA WriteCommandDeploy == DeployInv /\ WriteCommand => DeployInv'
  <1> SUFFICES ASSUME DeployInv, WriteCommand PROVE DeployInv'
    OBVIOUS
  <1>1. /\ spec \in AppSpec /\ spec.rebuild \in Nat /\ command \in CommandRecord
        /\ command.pc = "write" /\ WriteApp(Changed)
    BY DEF WriteCommand, DeployInv, DeployTypes, AppSpec, Working
  <1>2. /\ Changed \in AppSpec /\ Changed.gen = spec.gen
        /\ Changed.rebuild >= spec.rebuild /\ Changed.rebuild \in Nat
    <2>1. /\ command.source \in Archives \cup {Nothing} /\ command.pin \in Image \cup {Nothing}
          /\ command.layout \in SUBSET Processes
          /\ command.kind \in {"source", "image", "rollback", "rebuild"}
      BY <1>1 DEF CommandRecord
    <2>2. CASE command.kind = "source"
      <3>1. Changed = [spec EXCEPT !.source = command.source, !.pin = Nothing,
                                   !.layout = command.layout]
        BY <2>2 DEF Changed
      <3>2. Changed \in AppSpec
        BY <1>1, <2>1, <3>1, ChangedSpec
      <3> QED BY <1>1, <3>1, <3>2 DEF AppSpec
    <2>3. CASE command.kind = "image"
      <3>1. Changed = [spec EXCEPT !.pin = command.pin, !.layout = command.layout]
        BY <2>3 DEF Changed
      <3>2. Changed \in AppSpec
        BY <1>1, <2>1, <3>1, ChangedSpec
      <3> QED BY <1>1, <3>1, <3>2 DEF AppSpec
    <2>4. CASE command.kind = "rollback"
      <3>1. Changed = [spec EXCEPT !.pin = command.pin]
        BY <2>4 DEF Changed
      <3> QED BY <1>1, <2>1, <3>1 DEF AppSpec
    <2>5. CASE command.kind = "rebuild"
      <3>1. Changed = [spec EXCEPT !.rebuild = @ + 1]
        BY <2>5 DEF Changed
      <3> QED BY <1>1, <3>1 DEF AppSpec
    <2> QED BY <2>1, <2>2, <2>3, <2>4, <2>5
  <1>3. spec'.gen \in Nat
    BY <1>1, <1>2 DEF WriteApp, Written, AppSpec
  <1>4. command' \in CommandRecord /\ command'.gen = spec'.gen
    BY <1>1, <1>3 DEF WriteCommand, CommandRecord, Working
  <1> QED BY <1>1, <1>2, <1>4, WriteDeploy

\* What a command reads and waits for.
LEMMA CommandDeploy ==
    ASSUME DeployInv,
           StartDeploy \/ StartRollback \/ StartRebuild \/ FindsBuild \/ FindsNone
           \/ FollowsBuild \/ Waits \/ CommandFails
    PROVE  DeployInv'
  <1>0. /\ spec \in AppSpec /\ status \in AppStatus /\ made \in Seq(BuildRun)
        /\ command.pc \in Working => command \in CommandRecord
        /\ command.pc \in {"build", "follow", "running"} => command.gen = spec.gen
    BY DEF DeployInv, DeployTypes, NotAhead
  <1>1. ASSUME NEW kind \in {"source", "image", "rollback", "rebuild"},
               NEW source \in Archives \cup {Nothing}, NEW pin \in Image \cup {Nothing},
               NEW layout \in SUBSET Processes, Starts(kind, source, pin, layout)
        PROVE  DeployInv'
    <2>1. command' \in CommandRecord /\ command'.pc = "write"
      BY <1>0, <1>1 DEF Starts, CommandRecord, AppSpec, AppStatus, Working
    <2>2. UNCHANGED <<spec, latest, status, copy, strategy, made, pack>>
      BY <1>1 DEF Starts, Controller
    <2> QED BY <2>1, <2>2, DeployAside DEF DeployInv, DeployTypes, NotAhead
  <1>2. CASE StartDeploy
    <2>1. \A layout \in Layouts : layout \in SUBSET Processes
      BY DeployAssumption
    <2> QED BY <1>0, <1>1, <1>2, <2>1 DEF StartDeploy, AppSpec, Image
  <1>3. CASE StartRollback
    <2>1. PICK k \in 1 .. Len(status.releases) - 1 :
            Starts("rollback", spec.source, status.releases[k].image, spec.layout)
      BY <1>3 DEF StartRollback
    <2>2. status.releases \in Seq(Release) /\ k \in 1 .. Len(status.releases)
      BY <1>0 DEF AppStatus
    <2>3. status.releases[k] \in Release
      BY <2>2
    <2> QED BY <1>0, <1>1, <2>1, <2>3 DEF Release, AppSpec
  <1>4. CASE StartRebuild
    BY <1>0, <1>1, <1>4 DEF StartRebuild, AppSpec
  <1>5. ASSUME UNCHANGED <<spec, latest, Controller>>,
               \/ command' \in CommandRecord /\ command'.gen = command.gen
                  /\ command.pc \in {"build", "follow", "running"}
               \/ command'.pc \in {"failed", "released"}
        PROVE  DeployInv'
    BY <1>0, <1>5, DeployAside DEF DeployInv, DeployTypes, NotAhead, Controller, Working
  <1>6. CASE FindsBuild
    <2>1. PICK b \in NewBuilds : command' = [command EXCEPT !.pc = "follow", !.build = b]
      BY <1>6 DEF FindsBuild
    <2>2. b \in Nat
      BY <1>0 DEF NewBuilds, AppStatus
    <2> QED BY <1>0, <1>5, <1>6, <2>1, <2>2 DEF FindsBuild, CommandRecord, Working
  <1>7. CASE FollowsBuild
    BY <1>0, <1>5, <1>7 DEF FollowsBuild, CommandRecord, Working, Ended
  <1>8. CASE FindsNone \/ Waits \/ CommandFails
    BY <1>5, <1>8 DEF FindsNone, Waits, CommandFails, Ended
  <1> QED BY <1>2, <1>3, <1>4, <1>6, <1>7, <1>8

\* What becomes of the builds outside the controller.
LEMMA BuildsDeploy ==
    ASSUME DeployInv, PackBuilds \/ BuildEnds \/ OldBuildEnds
    PROVE  DeployInv'
  <1>0. /\ made \in Seq(BuildRun) /\ Len(made) \in Nat /\ pack \in Pack
        /\ pack.asked \in Nat /\ pack.asked <= spec.rebuild
        /\ \A k \in 1 .. Len(made) : made[k] \in BuildRun /\ made[k].rebuild <= spec.rebuild
    BY DEF DeployInv, DeployTypes, NotAhead, Pack
  <1>1. CASE PackBuilds
    <2> DEFINE b == Build(pack.source, pack.asked)
    <2>1. b \in BuildRun /\ b.rebuild = pack.asked
      BY <1>0, <1>1 DEF PackBuilds, Build, Pack, BuildRun
    <2>2. /\ made' = Append(made, b) /\ UNCHANGED <<spec, status, copy, latest, strategy, command>>
          /\ pack' = [pack EXCEPT !.again = FALSE, !.ref = IF pack.again THEN @ ELSE Len(made) + 1]
      BY <1>1 DEF PackBuilds
    <2> HIDE DEF b
    <2>3. /\ made' \in Seq(BuildRun)
          /\ \A k \in 1 .. Len(made') : made'[k].rebuild <= spec.rebuild
      BY <1>0, <2>1, <2>2, LastOfAppend
    <2>4. pack' \in Pack /\ pack'.asked = pack.asked
      <3> DEFINE ref == IF pack.again THEN pack.ref ELSE Len(made) + 1
      <3>1. ref \in Nat
        BY <1>0 DEF Pack
      <3>2. pack' = [source |-> pack.source, asked |-> pack.asked, again |-> FALSE, ref |-> ref]
        BY <1>0, <2>2 DEF Pack
      <3> HIDE DEF ref
      <3> QED BY <1>0, <3>1, <3>2 DEF Pack
    <2> QED BY <1>0, <2>2, <2>3, <2>4, DeployAside DEF DeployInv, DeployTypes, NotAhead
  <1>2. ASSUME NEW k \in 1 .. Len(made), NEW how \in {"done", "failed"},
               made' = [made EXCEPT ![k].state = how]
        PROVE  /\ made' \in Seq(BuildRun)
               /\ \A j \in 1 .. Len(made') : made'[j].rebuild <= spec.rebuild
    <2>1. [made[k] EXCEPT !.state = how] \in BuildRun
      BY <1>0 DEF BuildRun
    <2>2. made' \in Seq(BuildRun) /\ Len(made') = Len(made)
      BY <1>0, <1>2, <2>1
    <2>3. \A j \in 1 .. Len(made) : made'[j].rebuild = made[j].rebuild
      BY <1>0, <1>2 DEF BuildRun
    <2> QED BY <1>0, <2>2, <2>3
  <1>3. CASE BuildEnds
    <2>1. Len(made) \in 1 .. Len(made)
      <3>1. made # <<>>
        BY <1>3 DEF BuildEnds, NewestBuild
      <3> QED BY <1>0, <3>1
    <2>2. /\ UNCHANGED <<spec, status, copy, latest, strategy, command>>
          /\ pack' \in Pack /\ pack'.asked = pack.asked
          /\ \E how \in {"done", "failed"} : made' = [made EXCEPT ![Len(made)].state = how]
      BY <1>0, <1>3 DEF BuildEnds, Pack
    <2> QED BY <1>0, <1>2, <2>1, <2>2, DeployAside DEF DeployInv, DeployTypes, NotAhead
  <1>4. CASE OldBuildEnds
    <2>1. PICK k \in 1 .. Len(made) - 1 :
            /\ made' = [made EXCEPT ![k].state = "done"]
            /\ UNCHANGED <<spec, status, copy, latest, strategy, pack, command>>
      BY <1>4 DEF OldBuildEnds
    <2>2. k \in 1 .. Len(made)
      BY <1>0
    <2> QED BY <1>0, <1>2, <2>1, <2>2, DeployAside DEF DeployInv, DeployTypes, NotAhead
  <1> QED BY <1>1, <1>3, <1>4

\* A build the reconcile calls done is of the source it read, with an image of
\* that source.
LEMMA DoneBuild ==
    ASSUME DeployInv, NEW a \in AppSpec, a.rebuild <= spec.rebuild, a.source # Nothing,
           made' = IF JobMade(a) THEN Append(made, Build(a.source, a.rebuild)) ELSE made,
           pack' = PackOf(a),
           BuildOf(a, made', pack').ready = "True"
    PROVE  \E r \in 0 .. spec.rebuild : BuildOf(a, made', pack').image = <<a.source, r>>
  <1>0. /\ made \in Seq(BuildRun) /\ pack \in Pack /\ strategy \in {"dockerfile", "buildpacks"}
        /\ spec.rebuild \in Nat /\ a.rebuild \in Nat /\ a.source \in Archives
        /\ \A k \in 1 .. Len(made) : made[k].rebuild <= spec.rebuild
    BY DeployAssumption DEF DeployInv, DeployTypes, NotAhead, AppSpec
  <1>1. Build(a.source, a.rebuild) \in BuildRun /\ Build(a.source, a.rebuild).state = "running"
    BY <1>0 DEF Build, BuildRun
  <1>2. made' \in Seq(BuildRun)
    BY <1>0, <1>1, LastOfAppend
  <1> DEFINE newest == IF made' = <<>> THEN NewestBuild ELSE Last(made')
  <1>3. /\ newest.state = "done"
        /\ strategy = "buildpacks" => newest.source = pack'.source
    <2>1. newest.state \in {"none", "running", "done", "failed"}
      <3>1. CASE made' # <<>>
        <4>1. newest = Last(made') /\ newest \in BuildRun
          BY <1>2, <3>1, LastIn
        <4> QED BY <4>1 DEF BuildRun
      <3>2. CASE made' = <<>> /\ made # <<>>
        <4>1. newest = Last(made) /\ newest \in BuildRun
          BY <1>0, <3>2, LastIn DEF NewestBuild
        <4> QED BY <4>1 DEF BuildRun
      <3>3. CASE made' = <<>> /\ made = <<>>
        BY <3>3 DEF NewestBuild
      <3> QED BY <3>1, <3>2, <3>3
    <2> HIDE DEF newest
    <2>2. "True" = IF newest.state \in {"none", "running"}
                      \/ (strategy = "buildpacks" /\ newest.source # pack'.source) THEN "Unknown"
                   ELSE IF newest.state = "done" THEN "True" ELSE "False"
      BY DEF BuildOf, newest
    <2> QED BY <2>1, <2>2
  <1>4. BuildOf(a, made', pack').image = NewestImage(made')
    BY DEF BuildOf
  <1>5. made' # <<>>
    <2>1. made' = <<>> => made = <<>>
      BY <1>0, <1>1, LastOfAppend
    <2> QED BY <1>3, <2>1 DEF NewestBuild
  <1>6. /\ newest = Last(made') /\ Last(made') \in BuildRun
        /\ NewestImage(made') = <<Last(made').source, Last(made').rebuild>>
    BY <1>2, <1>3, <1>5, LastIn, ImageOfBuilds DEF ImageOf
  <1>7. Last(made').source = a.source
    <2>1. CASE strategy = "buildpacks"
      <3>1. pack'.source = a.source
        BY <1>0, <2>1 DEF PackOf, Pack
      <3> QED BY <1>3, <1>6, <2>1, <3>1
    <2>2. CASE strategy = "dockerfile"
      <3>1. ~JobMade(a)
        <4>1. JobMade(a) => Last(made') = Build(a.source, a.rebuild)
          BY <1>0, <1>1, LastOfAppend
        <4> QED BY <1>1, <1>3, <1>6, <4>1
      <3>2. NewestBuild.source = a.source /\ made' = made
        BY <2>2, <3>1 DEF JobMade
      <3> QED BY <1>5, <3>2 DEF NewestBuild
    <2> QED BY <1>0, <2>1, <2>2
  <1>8. Last(made').rebuild \in 0 .. spec.rebuild
    <2>1. \A k \in 1 .. Len(made') : made'[k].rebuild <= spec.rebuild
      <3>1. CASE JobMade(a)
        <4>1. Build(a.source, a.rebuild).rebuild = a.rebuild
          BY DEF Build
        <4> QED BY <1>0, <1>1, <3>1, <4>1, LastOfAppend
      <3>2. CASE ~JobMade(a)
        BY <1>0, <3>2
      <3> QED BY <3>1, <3>2
    <2>2. Last(made').rebuild \in Nat
      BY <1>6 DEF BuildRun
    <2>3. Len(made') \in 1 .. Len(made') /\ Last(made') = made'[Len(made')]
      BY <1>2, <1>5, LastIn
    <2>4. Last(made').rebuild <= spec.rebuild
      BY <2>1, <2>3
    <2> QED BY <1>0, <2>2, <2>4
  <1> QED BY <1>4, <1>6, <1>7, <1>8

\* What a reconcile leaves in the builds and in the kpack Image.
LEMMA ReconcileBuilds ==
    ASSUME DeployInv, ReconcileDeploy
    PROVE  /\ made' \in Seq(BuildRun) /\ \A k \in 1 .. Len(made') : made'[k].rebuild <= spec.rebuild
           /\ pack' \in Pack /\ pack'.asked <= spec.rebuild
           /\ made' = IF JobMade(copy.spec)
                      THEN Append(made, Build(copy.spec.source, copy.spec.rebuild)) ELSE made
           /\ pack' = PackOf(copy.spec)
  <1> DEFINE a == copy.spec
  <1>0. /\ made \in Seq(BuildRun) /\ pack \in Pack /\ a \in AppSpec
        /\ a.rebuild <= spec.rebuild /\ pack.asked <= spec.rebuild
        /\ \A k \in 1 .. Len(made) : made[k].rebuild <= spec.rebuild
    BY DEF DeployInv, DeployTypes, NotAhead
  <1>1. /\ made' = IF JobMade(a) THEN Append(made, Build(a.source, a.rebuild)) ELSE made
        /\ pack' = PackOf(a)
    BY DEF ReconcileDeploy
  <1> HIDE DEF a
  <1>2. ASSUME JobMade(a)
        PROVE  /\ made' \in Seq(BuildRun)
               /\ \A k \in 1 .. Len(made') : made'[k].rebuild <= spec.rebuild
    <2> DEFINE b == Build(a.source, a.rebuild)
    <2>1. b \in BuildRun /\ b.rebuild = a.rebuild
      BY <1>0, <1>2 DEF JobMade, Build, BuildRun, AppSpec
    <2>2. made' = Append(made, b)
      BY <1>1, <1>2
    <2> HIDE DEF b
    <2> QED BY <1>0, <2>1, <2>2, LastOfAppend
  <1>3. made' \in Seq(BuildRun) /\ \A k \in 1 .. Len(made') : made'[k].rebuild <= spec.rebuild
    BY <1>0, <1>1, <1>2
  <1>4. pack' \in Pack /\ pack'.asked <= spec.rebuild
    <2>1. CASE strategy = "buildpacks" /\ a.source # Nothing
      <3> DEFINE again == pack.again \/ (pack.asked # a.rebuild /\ made # <<>>)
      <3>1. pack' = [pack EXCEPT !.source = a.source, !.asked = a.rebuild, !.again = again]
        BY <1>0, <1>1, <2>1 DEF PackOf, Pack
      <3> HIDE DEF again
      <3>2. again \in BOOLEAN
        BY <1>0 DEF again, Pack
      <3>3. /\ pack'.source = a.source /\ pack'.asked = a.rebuild /\ pack'.again = again
            /\ pack'.ref = pack.ref
            /\ pack' = [source |-> pack'.source, asked |-> pack'.asked, again |-> pack'.again,
                        ref |-> pack'.ref]
        BY <1>0, <3>1 DEF Pack
      <3>4. a.source \in Archives \cup {Nothing} /\ a.rebuild \in Nat /\ pack.ref \in Nat
        BY <1>0 DEF AppSpec, Pack
      <3>5. pack' \in Pack
        BY <3>2, <3>3, <3>4 DEF Pack
      <3> QED BY <1>0, <3>3, <3>5
    <2>2. CASE ~(strategy = "buildpacks" /\ a.source # Nothing)
      BY <1>0, <1>1, <2>2 DEF PackOf
    <2> QED BY <2>1, <2>2
  <1> QED BY <1>1, <1>3, <1>4 DEF a

\* The current release after recordRelease.
LEMMA RecordedIsCurrent ==
    ASSUME NEW rs \in Seq(Release), NEW a \in AppSpec, NEW image \in Image
    PROVE  /\ ReleasesWith(rs, a, image) \in Seq(Release)
           /\ CurrentOf(ReleasesWith(rs, a, image)) # Nothing
           /\ CurrentOf(ReleasesWith(rs, a, image)).image = image
           /\ CurrentOf(ReleasesWith(rs, a, image)).layout = a.layout
  <1> DEFINE new == [image |-> image, layout |-> a.layout]
  <1>1. new \in Release /\ new.image = image /\ new.layout = a.layout
    BY DEF Release, AppSpec
  <1>2. new # Nothing
    BY <1>1, DeployAssumption DEF Release, Image
  <1>3. CASE CurrentOf(rs) # Nothing /\ CurrentOf(rs).image = image /\ CurrentOf(rs).layout = a.layout
    BY <1>3 DEF ReleasesWith
  <1>4. CASE ~(CurrentOf(rs) # Nothing /\ CurrentOf(rs).image = image
               /\ CurrentOf(rs).layout = a.layout)
    <2>1. ReleasesWith(rs, a, image) = Append(rs, new)
      BY <1>4 DEF ReleasesWith
    <2> HIDE DEF new
    <2>2. CurrentOf(Append(rs, new)) = new /\ Append(rs, new) \in Seq(Release)
      BY <1>1, LastOfAppend DEF CurrentOf
    <2> QED BY <1>1, <1>2, <2>1, <2>2
  <1> QED BY <1>3, <1>4

\* The status a reconcile patches: if it says Running, of what was read.
LEMMA PatchedDeploy ==
    ASSUME DeployInv, ReconcileDeploy, NEW new \in AppStatus, Patched(new),
           new.observed = copy.spec.gen,
           new.phase = "Running" /\ copy.spec = spec => Asked(CurrentOf(new.releases))
    PROVE  DeployInv'
  <1>0. UNCHANGED <<spec, copy, strategy, command>>
    BY DEF ReconcileDeploy
  <1>1. DeployTypes'
    <2>1. status' \in AppStatus /\ latest' \in BOOLEAN
      BY DEF Patched, DeployInv, DeployTypes
    <2> QED BY <1>0, <2>1, ReconcileBuilds DEF DeployInv, DeployTypes
  <1>2. NotAhead'
    BY <1>0, ReconcileBuilds DEF Patched, DeployInv, NotAhead
  <1>3. RunningAsAsked'
    <2>1. CASE latest
      BY <1>0, <2>1 DEF Patched, DeployInv, NotAhead, RunningAsAsked, Asked, CurrentOf
    <2>2. CASE ~latest
      BY <1>0, <2>2 DEF Patched, DeployInv, RunningAsAsked, Asked, CurrentOf
    <2> QED BY <2>1, <2>2
  <1> QED BY <1>1, <1>2, <1>3 DEF DeployInv

LEMMA ReconcileDeployInv == DeployInv /\ ReconcileDeploy => DeployInv'
  <1> SUFFICES ASSUME DeployInv, ReconcileDeploy PROVE DeployInv'
    OBVIOUS
  <1> DEFINE a == copy.spec
             b == BuildOf(a, made', pack')
             image == IF a.pin # Nothing THEN a.pin ELSE b.image
             base == [copy.status EXCEPT !.observed = a.gen, !.build = b.build]
             ds == [p \in a.layout |-> IF p \in Outdated(a, image) THEN work'[p] ELSE workSeen[p]]
  <1>0. /\ copy.status \in AppStatus /\ a \in AppSpec /\ a.gen \in Nat
        /\ a.rebuild <= spec.rebuild /\ a.pin \in Image \cup {Nothing}
        /\ copy.status.releases \in Seq(Release)
    BY DEF DeployInv, DeployTypes, NotAhead, AppSpec, AppStatus
  <1>1. /\ made' \in Seq(BuildRun) /\ pack' \in Pack
        /\ made' = IF JobMade(a) THEN Append(made, Build(a.source, a.rebuild)) ELSE made
        /\ pack' = PackOf(a)
    BY ReconcileBuilds
  <1>2. b.build \in Nat /\ b.image \in Image \cup {Nothing}
    <2>1. /\ b.build \in {0, Len(made'), pack'.ref}
          /\ b.image \in {Nothing, NewestImage(made')}
      BY DEF BuildOf
    <2>2. Len(made') \in Nat /\ pack'.ref \in Nat /\ NewestImage(made') \in Image \cup {Nothing}
      <3>1. made' \in Seq(BuildRun) /\ pack' \in Pack
        BY <1>1
      <3>2. NewestImage(made') \in Image \cup {Nothing}
        BY <3>1, ImageOfBuilds
      <3>3. Len(made') \in Nat /\ pack'.ref \in Nat
        BY <3>1 DEF Pack
      <3> QED BY <3>2, <3>3
    <2> HIDE DEF b
    <2> QED BY <2>1, <2>2
  <1>3. /\ base \in AppStatus /\ base.observed = a.gen /\ base.releases = copy.status.releases
    <2>1. \A n \in Nat : [copy.status EXCEPT !.observed = a.gen, !.build = n] \in AppStatus
      BY <1>0 DEF AppStatus
    <2> QED BY <1>0, <1>2, <2>1 DEF AppStatus
  <1>4. image \in Image \cup {Nothing}
    BY <1>0, <1>2
  <1>5. \/ Patched([base EXCEPT !.phase = PhaseWithout(a, b)])
        \/ UNCHANGED <<status, latest>>
        \/ /\ image # Nothing
           /\ Patched([base EXCEPT !.phase = PhaseOf(a, b, ds),
                                   !.releases = ReleasesWith(@, a, image)])
    BY DEF ReconcileDeploy
  <1>6. a.pin = Nothing /\ a.source # Nothing /\ b.ready = "True"
          => \E r \in 0 .. spec.rebuild : b.image = <<a.source, r>>
    BY <1>0, <1>1, DoneBuild
  <1>7. a.source = Nothing => b.image = Nothing
    BY DEF BuildOf
  <1>8. b.ready \in {"True", "False", "Unknown"}
    BY DEF BuildOf
  <1> HIDE DEF b, image, base, ds
  <1>9. CASE Patched([base EXCEPT !.phase = PhaseWithout(a, b)])
    <2> DEFINE new == [base EXCEPT !.phase = PhaseWithout(a, b)]
    <2>1. /\ PhaseWithout(a, b) \in {"Pending", "Building", "Deploying", "Running", "Failed"}
          /\ PhaseWithout(a, b) # "Running"
      BY DEF PhaseWithout
    <2>2. new \in AppStatus /\ new.observed = a.gen /\ new.phase # "Running"
      BY <1>3, <2>1 DEF AppStatus
    <2> HIDE DEF new
    <2> QED BY <1>9, <2>2, PatchedDeploy DEF new
  <1>10. CASE UNCHANGED <<status, latest>>
    <2>1. UNCHANGED <<spec, copy, strategy, command>>
      BY DEF ReconcileDeploy
    <2> QED BY <1>10, <2>1, ReconcileBuilds, DeployAside DEF DeployInv, DeployTypes, NotAhead
  <1>11. CASE /\ image # Nothing
              /\ Patched([base EXCEPT !.phase = PhaseOf(a, b, ds),
                                      !.releases = ReleasesWith(@, a, image)])
    <2> DEFINE new == [base EXCEPT !.phase = PhaseOf(a, b, ds),
                                   !.releases = ReleasesWith(@, a, image)]
               rs == ReleasesWith(copy.status.releases, a, image)
    <2>1. image \in Image
      BY <1>4, <1>11
    <2>2. /\ rs \in Seq(Release) /\ CurrentOf(rs) # Nothing
          /\ CurrentOf(rs).image = image /\ CurrentOf(rs).layout = a.layout
      BY <1>0, <2>1, RecordedIsCurrent
    <2>3. PhaseOf(a, b, ds) \in {"Pending", "Building", "Deploying", "Running", "Failed"}
      BY DEF PhaseOf
    <2>4. new = [base EXCEPT !.phase = PhaseOf(a, b, ds), !.releases = rs]
      BY <1>3 DEF AppStatus
    <2> HIDE DEF rs
    <2>5. /\ new \in AppStatus /\ new.observed = a.gen /\ new.phase = PhaseOf(a, b, ds)
          /\ new.releases = rs
      BY <1>3, <2>2, <2>3, <2>4 DEF AppStatus
    <2>6. ASSUME PhaseOf(a, b, ds) = "Running", a = spec PROVE Asked(CurrentOf(rs))
      <3>1. CASE a.pin # Nothing
        BY <2>2, <2>6, <3>1 DEF image, Asked
      <3>2. CASE a.pin = Nothing
        <4>1. image = b.image /\ a.source # Nothing
          BY <1>7, <1>11, <3>2 DEF image
        <4>2. b.ready = "True"
          BY <1>8, <2>6, <3>2, <4>1 DEF PhaseOf
        <4> QED BY <1>6, <2>2, <2>6, <3>2, <4>1, <4>2 DEF Asked
      <3> QED BY <3>1, <3>2
    <2> HIDE DEF new
    <2> QED BY <1>11, <2>5, <2>6, PatchedDeploy DEF new
  <1> QED BY <1>5, <1>9, <1>10, <1>11

LEMMA NextDeploy == DeployInv /\ [DeployNext]_deployVars => DeployInv'
  <1> SUFFICES ASSUME DeployInv, [DeployNext]_deployVars PROVE DeployInv'
    OBVIOUS
  <1>1. CASE UNCHANGED deployVars
    BY <1>1, DeployAside DEF deployVars, DeployInv, DeployTypes, NotAhead
  <1>2. ASSUME NEW p \in Processes, TakesUp(p) \/ InstanceStarts(p) PROVE DeployInv'
    BY <1>2, DeployAside DEF TakesUp, InstanceStarts, DeployInv, DeployTypes, NotAhead
  <1>3. CASE CopyApp \/ CopyWork
    BY <1>3, DeployAside DEF CopyApp, CopyWork, DeployInv, DeployTypes, NotAhead
  <1> QED BY <1>1, <1>2, <1>3, OtherDeploy, WriteCommandDeploy, CommandDeploy, BuildsDeploy,
             ReconcileDeployInv DEF DeployNext, Command

\* No status, copy or build is ahead of the App, and Running at the newest
\* generation is said of a release the App asks for.
THEOREM DeployInvHolds == DeploySpec => []DeployInv
  BY InitDeploy, NextDeploy, PTL DEF DeploySpec

\* A command that says "Released" says it of its own change.
THEOREM ToldHolds == DeploySpec => ToldOfItsOwn
  <1>1. DeployInv /\ [DeployNext]_deployVars =>
          [command.pc = "running" /\ command'.pc = "released" /\ command.kind # "rebuild" =>
             LET release == CurrentOf(status.releases)
             IN  /\ release # Nothing
                 /\ release.layout = spec.layout
                 /\ IF spec.pin # Nothing THEN release.image = spec.pin
                    ELSE \E r \in 0 .. spec.rebuild : release.image = <<spec.source, r>>]_deployVars
    <2> SUFFICES ASSUME DeployInv, DeployNext, command.pc = "running", command'.pc = "released"
                 PROVE  Asked(CurrentOf(status.releases))
      BY DEF Asked
    <2>1. command \in CommandRecord /\ command.gen = spec.gen
      BY DEF DeployInv, DeployTypes, NotAhead, Working
    <2>2. Waits
      <3>1. command' # command /\ command # NoCommand
        BY DEF NoCommand
      <3>2. ~(StartDeploy \/ StartRollback \/ StartRebuild \/ Other)
        BY <3>1 DEF StartDeploy, StartRollback, StartRebuild, Starts, Other
      <3>3. ~(WriteCommand \/ FindsBuild \/ FindsNone \/ FollowsBuild)
        BY DEF WriteCommand, FindsBuild, FindsNone, FollowsBuild
      <3>4. ~CommandFails
        BY DEF CommandFails, Ended
      <3>5. ~(PackBuilds \/ BuildEnds \/ OldBuildEnds)
        BY <3>1 DEF PackBuilds, BuildEnds, OldBuildEnds
      <3>6. \A p \in Processes : ~(TakesUp(p) \/ InstanceStarts(p))
        BY <3>1 DEF TakesUp, InstanceStarts
      <3>7. ~(CopyApp \/ CopyWork \/ ReconcileDeploy)
        BY <3>1 DEF CopyApp, CopyWork, ReconcileDeploy
      <3> QED BY <3>2, <3>3, <3>4, <3>5, <3>6, <3>7 DEF DeployNext, Command
    <2>3. status.phase = "Running" /\ status.observed = spec.gen
      <3>1. status.phase = "Running" /\ status.observed >= command.gen
        BY <2>2 DEF Waits, Observed, Ended
      <3>2. status.observed \in Nat /\ spec.gen \in Nat /\ status.observed <= spec.gen
        BY DEF DeployInv, DeployTypes, NotAhead, AppStatus, AppSpec
      <3> QED BY <2>1, <3>1, <3>2
    <2> QED BY <2>3 DEF DeployInv, RunningAsAsked
  <1> QED BY <1>1, DeployInvHolds, PTL DEF DeploySpec, ToldOfItsOwn
=============================================================================
