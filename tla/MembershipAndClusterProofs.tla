--------------------- MODULE MembershipAndClusterProofs ---------------------
(***************************************************************************)
(* Two components that share nothing.  What Cluster promises for any       *)
(* number of failures, kills and repeated commands: the two ends of a      *)
(* credential agree, an enabled extension stays, and a setting is kept.    *)
(*                                                                         *)
(* What Membership promises for every set of replicas and projects and any *)
(* number of changes and failures: its types, that a replica never answers *)
(* from before a change it served, that no notification of the leader is   *)
(* lost, and that the mirror never goes back.                              *)
(***************************************************************************)
EXTENDS Membership, Cluster, TLAPS

---------------------------------------------------------------------------
(* Cluster: the inductive invariant.                                        *)

\* Types.
Pcs == {"none", "hooks", "make", "replace", "htpasswd", "install", "uninstall", "rollback",
        "upgrade", "installing", "uninstalling", "rolling back", "upgrading", "apply", "wait",
        "record", "remove", "forget", "ok", "failed"}
Statuses == {"none", "pending-install", "pending-upgrade", "pending-rollback", "uninstalling",
             "deployed", "failed"}
AllHooks == {<<>>, <<"registry">>, <<"ca">>, <<"db">>, <<"token", "db">>}
Hooks == [c \in Components |->
            CASE c = "registry-credentials" -> {<<>>, <<"registry">>}
              [] c = "ca-issuers" -> {<<>>, <<"ca">>}
              [] c = "control-plane-db" -> {<<>>, <<"db">>}
              [] c = "shpyrd" -> {<<>>, <<"db">>, <<"token", "db">>}
              [] c \in Charts -> {<<>>}]
Runs == [kind : {"none", "init", "enable", "disable"}, level : 0 .. 4,
         only : SUBSET Components, extensions : SUBSET {"postgres"}, user : BOOLEAN]
SecretNames == {"ca", "registry", "htpasswd", "db", "token", "disabled"}
Servers == [spec : SUBSET {"postgres"}, pods : SUBSET {"postgres"}, token : Nat,
            off : BOOLEAN, old : BOOLEAN]
Records == [there : BOOLEAN, components : SUBSET Components, extensions : SUBSET {"postgres"}]
Values == [value : Nat \ {0}, given : {"no", "set", "flag", "record", "overruled"}]
SettingsType == [release : {1, 2}, run : Values, by : Nat, recorded : Nat \ {0}, override : Nat,
                 applied : Nat, asked : Nat, overruled : BOOLEAN, frozen : BOOLEAN]
Clouds == [phase : {"none", "first", "address", "dns", "all"},
           project : {"gone", "up", "terminating"}, disks : [Namespaces -> {"gone", "bound", "deleted"}],
           running : SUBSET Namespaces, balancer : {"gone", "pending", "up", "terminating"},
           ingress : BOOLEAN, records : SUBSET {"host", "wildcard"}]
ClusterType ==
    /\ run \in Runs
    /\ task \in [Components -> [pc : Pcs, hooks : AllHooks]]
    /\ \A c \in Components : task[c].hooks \in Hooks[c]
    /\ secrets \in [SecretNames -> Nat]
    /\ database \in Nat
    /\ release \in [Charts -> [status : Statuses, version : Nat, deployed : BOOLEAN]]
    /\ record \in Records
    /\ server \in Servers
    /\ enabled \in BOOLEAN /\ misread \in BOOLEAN /\ cut \in BOOLEAN /\ complete \in BOOLEAN
    /\ story \in {"install", "settings", "token", "cloud"}
    /\ settings \in SettingsType
    /\ token \in {"none", "restart"}
    /\ cloud \in Clouds

Resting(c) == task[c].pc \in {"none", "ok"}
Idling == \A c \in Components : Resting(c)

\* One run at a time, and of it one runlevel.
ControlInv ==
    /\ run.kind = "none" => run = NoRun /\ Idling
    /\ \A c \in Components :
         \/ Ended(c)
         \/ Level[c] = run.level
         \/ /\ c = "cnpg" /\ run.kind = "disable" /\ run.level = 0
            /\ task[c].pc \in {"remove", "uninstall", "uninstalling", "forget"}
    /\ run.kind = "disable" =>
         /\ story = "install" /\ run.only = {"shpyrd"} /\ run.extensions = {}
         /\ \A c \in Components : Ended(c) \/ c = "shpyrd" \/ (c = "cnpg" /\ run.level = 0)
    /\ complete \/ token = "restart" => run.kind = "none"
    /\ complete => token = "none"
    /\ run.level = 4 /\ "shpyrd" \in run.only => ~At("shpyrd", "none")
    /\ run.level = 2 /\ "cnpg" \in run.only /\ "postgres" \in run.extensions => ~At("cnpg", "none")
    /\ run.kind # "none" /\ cloud.phase \notin {"first", "address", "dns"} => "shpyrd" \in run.only
    /\ run.kind # "none" /\ "postgres" \in run.extensions => "cnpg" \in run.only
    /\ story # "cloud" => cloud.phase = "none"
    /\ cloud.phase \in {"address", "dns"} => Idling /\ (run.kind = "none" \/ run.level = 4)

HelmPcs == {"install", "uninstall", "rollback", "upgrade", "installing", "uninstalling",
            "rolling back", "upgrading", "remove", "forget"}

\* Who is making a Secret found none, unless a read failed.
MakingInv ==
    \A c \in Components :
        /\ task[c].pc \in {"make", "replace", "htpasswd"} => task[c].hooks # <<>>
        /\ task[c].pc \in HelmPcs => c \in Charts
        /\ task[c].pc \in {"remove", "forget"} => run.level = 0
        /\ At(c, "htpasswd") => c = "registry-credentials"
        /\ At(c, "replace") => misread /\ Hook(c) # "token"
        /\ At(c, "make") /\ Hook(c) \in {"db", "token"} => secrets[Hook(c)] = 0

CredentialInv ==
    /\ ~misread => database \in {0, secrets["db"]}
    /\ ~cut => secrets["htpasswd"] = secrets["registry"] \/ At("registry-credentials", "htpasswd")
    /\ server.token # 0 => secrets["token"] # 0
    /\ ~cut /\ server.token # 0 /\ ~server.old /\ token = "none" =>
         server.token = secrets["token"] /\ server.off = (secrets["disabled"] = 1)
    /\ complete \/ token = "restart" \/ task["shpyrd"].pc \in {"wait", "record", "ok"} =>
         server.token # 0 \/ server.old

ExtensionInv ==
    /\ enabled /\ ~misread => "postgres" \in record.extensions
    /\ enabled /\ ~misread /\ run.kind # "none" => "postgres" \in run.extensions
    /\ ~server.old => server.pods = server.spec
    /\ At("shpyrd", "wait") => server.spec = run.extensions
    /\ run.level = 4 /\ task["shpyrd"].pc \in {"record", "ok"} =>
         server.spec = run.extensions /\ ~server.old
    /\ complete \/ token = "restart" =>
         /\ server.pods = record.extensions /\ server.spec = record.extensions
         /\ enabled /\ ~misread => release["cnpg"].status = "deployed"
    /\ run.level = 2 /\ task["cnpg"].pc \in {"apply", "wait", "record", "ok"} =>
         release["cnpg"].status = "deployed"
    /\ run.level > 2 /\ "postgres" \in run.extensions => release["cnpg"].status = "deployed"

SettingsInv ==
    LET s == settings
    IN  /\ ~misread =>
             /\ s.asked # 0 => /\ s.recorded \in {8, 9} /\ s.override = s.recorded
                               /\ ~s.overruled => s.recorded = s.asked
             /\ s.asked = 0 /\ ~s.frozen => s.recorded = s.by
        /\ run.kind # "none" /\ ~misread =>
             /\ s.run.given = "no" => s.override = 0 /\ s.run.value = s.release
             /\ s.run.given = "overruled" => s.override # 0
             /\ s.run.given \in {"record", "overruled"} =>
                  s.run.value = IF s.override # 0 /\ s.run.value = s.override THEN s.override
                                ELSE s.recorded
        /\ /\ s.run.given = "set" => s.run.value = 8
           /\ s.run.given = "flag" => s.run.value = 9
        /\ complete \/ token = "restart" => s.applied = s.recorded
        /\ At("shpyrd", "wait") \/ (run.level = 4 /\ task["shpyrd"].pc \in {"record", "ok"}) =>
             s.applied = s.run.value

ClusterInv == ControlInv /\ MakingInv /\ CredentialInv /\ ExtensionInv /\ SettingsInv

----------------------------------------------------------------------------
(* Facts about the constants.                                               *)

LEMMA LevelFacts ==
    /\ Components = {"cert-manager", "registry-credentials", "ca-issuers", "cnpg",
                     "control-plane-db", "shpyrd"}
    /\ Level["cert-manager"] = 1 /\ Level["registry-credentials"] = 1
    /\ Level["ca-issuers"] = 2 /\ Level["cnpg"] = 2
    /\ Level["control-plane-db"] = 3 /\ Level["shpyrd"] = 4
    /\ Charts \subseteq Components
    /\ \A c \in Components : Level[c] \in 1 .. 4
  <1>1. Components = {"cert-manager", "registry-credentials", "ca-issuers", "cnpg",
                      "control-plane-db", "shpyrd"}
    BY DEF Components, Level
  <1> QED BY <1>1 DEF Level, Charts

LEMMA HookFacts ==
    /\ \A c \in Components : HooksOf(c) \in Hooks[c] /\ <<>> \in Hooks[c]
    /\ \A c \in Components : \A h \in Hooks[c] :
         h # <<>> =>
           /\ Tail(h) \in Hooks[c]
           /\ Head(h) \in {"registry", "ca", "db", "token"}
           /\ Head(h) = "registry" <=> c = "registry-credentials"
           /\ Head(h) = "db" => c \in {"control-plane-db", "shpyrd"}
           /\ Head(h) = "token" => c = "shpyrd"
  <1>2. /\ Tail(<<"registry">>) = <<>> /\ Tail(<<"ca">>) = <<>> /\ Tail(<<"db">>) = <<>>
        /\ Tail(<<"token", "db">>) = <<"db">>
    OBVIOUS
  <1>3. /\ Head(<<"registry">>) = "registry" /\ Head(<<"ca">>) = "ca" /\ Head(<<"db">>) = "db"
        /\ Head(<<"token", "db">>) = "token"
    OBVIOUS
  <1>4. /\ Hooks["registry-credentials"] = {<<>>, <<"registry">>}
        /\ Hooks["ca-issuers"] = {<<>>, <<"ca">>}
        /\ Hooks["control-plane-db"] = {<<>>, <<"db">>}
        /\ Hooks["shpyrd"] = {<<>>, <<"db">>, <<"token", "db">>}
        /\ Hooks["cert-manager"] = {<<>>} /\ Hooks["cnpg"] = {<<>>}
    BY LevelFacts DEF Hooks, Charts
  <1>5. /\ HooksOf("registry-credentials") = <<"registry">> /\ HooksOf("ca-issuers") = <<"ca">>
        /\ HooksOf("control-plane-db") = <<"db">> /\ HooksOf("shpyrd") = <<"token", "db">>
        /\ HooksOf("cert-manager") = <<>> /\ HooksOf("cnpg") = <<>>
    BY DEF HooksOf
  <1> QED BY LevelFacts, <1>2, <1>3, <1>4, <1>5

LEMMA AllHooksFact == \A c \in Components : Hooks[c] \subseteq AllHooks
  BY LevelFacts DEF Hooks, AllHooks, Charts

\* A value that is not there yet.
LEMMA AnotherFacts ==
    ASSUME NEW s
    PROVE  Another(s) \in 1 .. 3
  <1> DEFINE used == {secrets[s], IF s = "registry" THEN secrets["htpasswd"] ELSE database}
  <1>1. \E v \in 1 .. 3 : v \notin used
    OBVIOUS
  <1>2. Another(s) = CHOOSE v \in 1 .. 3 : v \notin used
    BY DEF Another
  <1> HIDE DEF used
  <1> QED BY <1>1, <1>2

----------------------------------------------------------------------------
(* The tasks.                                                               *)

Tasks == [Components -> [pc : Pcs, hooks : AllHooks]]
TasksType(t) == t \in Tasks /\ \A c \in Components : t[c].hooks \in Hooks[c]

LEMMA GotoFacts ==
    ASSUME ClusterType, NEW c \in Components, NEW pc \in Pcs, Goto(c, pc)
    PROVE  /\ TasksType(task')
           /\ task'[c].pc = pc /\ task'[c].hooks = task[c].hooks
           /\ \A d \in Components : d # c => task'[d] = task[d]
  BY DEF ClusterType, Goto, TasksType, Tasks

LEMMA NextHookFacts ==
    ASSUME ClusterType, NEW c \in Components, NextHook(c), task[c].hooks # <<>>
    PROVE  /\ TasksType(task')
           /\ task'[c].pc = "hooks" /\ task'[c].hooks = Tail(task[c].hooks)
           /\ \A d \in Components : d # c => task'[d] = task[d]
  <1> DEFINE h == Tail(task[c].hooks)
  <1>1. h \in Hooks[c]
    BY HookFacts DEF ClusterType
  <1>2. h \in AllHooks
    BY <1>1, LevelFacts, AllHooksFact
  <1> DEFINE r == [pc |-> "hooks", hooks |-> h]
  <1>3. task' = [task EXCEPT ![c] = r]
    BY DEF NextHook
  <1> HIDE DEF h
  <1>4. r \in [pc : Pcs, hooks : AllHooks] /\ r.pc = "hooks" /\ r.hooks = h
    BY <1>2 DEF Pcs
  <1> HIDE DEF r
  <1>5. /\ task' \in Tasks /\ task'[c] = r
        /\ \A d \in Components : d # c => task'[d] = task[d]
    BY <1>3, <1>4 DEF ClusterType, Tasks
  <1>6. h = Tail(task[c].hooks)
    BY DEF h
  <1>7. \A d \in Components : task'[d].hooks \in Hooks[d]
    BY <1>1, <1>4, <1>5 DEF ClusterType
  <1> QED BY <1>4, <1>5, <1>6, <1>7 DEF TasksType

LEMMA NoTaskFacts ==
    ASSUME task' = [c \in Components |-> NoTask]
    PROVE  /\ TasksType(task')
           /\ \A c \in Components : task'[c].pc = "none" /\ task'[c].hooks = <<>>
  <1>1. NoTask \in [pc : Pcs, hooks : AllHooks] /\ NoTask.pc = "none" /\ NoTask.hooks = <<>>
    <2>1. <<>> \in AllHooks
      BY DEF AllHooks
    <2> QED BY <2>1 DEF NoTask, Pcs
  <1>2. \A c \in Components : <<>> \in Hooks[c]
    BY HookFacts
  <1>3. \A c \in Components : task'[c] = NoTask
    OBVIOUS
  <1> QED BY <1>1, <1>2, <1>3 DEF TasksType, Tasks

\* What a component's step leaves alone.
LEMMA ComponentFrame ==
    ASSUME NEW c \in Components, Component(c) \/ Fail(c)
    PROVE  UNCHANGED <<run, enabled, complete>>
  BY DEF Component, Fail, ReadSecret, MakeSecret, MakeHtpasswd, History, HelmBegins, HelmRefuses,
         HelmEnds, ApplyAll, Wait, Record, Remove, Forget

Chain == {"remove", "uninstall", "uninstalling", "forget"}

\* Where a step of a component leaves the component.
LEMMA Moves ==
    ASSUME ClusterType, MakingInv, NEW c \in Components, Component(c) \/ Fail(c)
    PROVE  /\ ~Ended(c) /\ TasksType(task')
           /\ \A d \in Components : d # c => task'[d] = task[d]
           /\ task'[c].pc # "none"
           /\ run.kind = "disable" /\ task[c].pc \in Chain => task'[c].pc \in Chain \cup {"ok", "failed"}
  <1> USE DEF At, Ended, Chain, Pcs
  <1>1. CASE ReadSecret(c)
    <2>1. CASE NextHook(c) /\ task[c].hooks # <<>>
      BY <1>1, <2>1, NextHookFacts DEF ReadSecret
    <2>2. CASE Goto(c, "make") \/ Goto(c, "replace")
      BY <1>1, <2>2, GotoFacts DEF ReadSecret
    <2> QED BY <1>1, <2>1, <2>2 DEF ReadSecret
  <1>2. CASE MakeSecret(c)
    <2>1. task[c].hooks # <<>> /\ task[c].pc \in {"make", "replace"}
      BY <1>2 DEF MakeSecret, MakingInv
    <2>2. CASE NextHook(c)
      BY <2>1, <2>2, NextHookFacts
    <2>3. CASE Goto(c, "htpasswd")
      BY <2>1, <2>3, GotoFacts
    <2> QED BY <1>2, <2>2, <2>3 DEF MakeSecret
  <1>3. CASE MakeHtpasswd(c)
    <2>1. task[c].hooks # <<>> /\ task[c].pc = "htpasswd"
      BY <1>3 DEF MakeHtpasswd, MakingInv
    <2> QED BY <1>3, <2>1, NextHookFacts DEF MakeHtpasswd
  <1>4. CASE History(c)
    <2>1. PICK pc \in {"install", "uninstall", "rollback", "upgrade", "apply"} : Goto(c, pc)
      BY <1>4 DEF History, Plan
    <2> QED BY <1>4, <2>1, GotoFacts DEF History
  <1>5. CASE HelmBegins(c)
    <2>1. \/ task[c].pc = "uninstall" /\ Goto(c, "uninstalling")
          \/ /\ task[c].pc \in {"install", "rollback", "upgrade"}
             /\ \E pc \in {"installing", "rolling back", "upgrading"} : Goto(c, pc)
      BY <1>5 DEF HelmBegins
    <2> QED BY <2>1, GotoFacts
  <1>6. CASE HelmRefuses(c)
    BY <1>6, GotoFacts DEF HelmRefuses
  <1>7. CASE HelmEnds(c)
    <2>1. \/ /\ task[c].pc \in {"installing", "upgrading", "rolling back"}
             /\ \E pc \in {"apply", "upgrade"} : Goto(c, pc)
          \/ task[c].pc = "uninstalling" /\ run.kind # "disable" /\ Goto(c, "install")
          \/ task[c].pc = "uninstalling" /\ Goto(c, "forget")
      BY <1>7 DEF HelmEnds
    <2> QED BY <2>1, GotoFacts
  <1>8. CASE ApplyAll(c) \/ Wait(c) \/ Record(c)
    <2>1. /\ task[c].pc \in {"apply", "wait", "record"}
          /\ \E pc \in {"wait", "record", "ok"} : Goto(c, pc)
      BY <1>8 DEF ApplyAll, Wait, Record
    <2> QED BY <2>1, GotoFacts
  <1>9. CASE Remove(c) \/ Forget(c)
    <2>1. /\ task[c].pc \in {"remove", "forget"}
          /\ \E pc \in {"forget", "uninstall", "ok"} : Goto(c, pc)
      BY <1>9 DEF Remove, Forget
    <2> QED BY <2>1, GotoFacts
  <1>10. CASE Fail(c)
    BY <1>10, GotoFacts DEF Fail
  <1> QED BY <1>1, <1>2, <1>3, <1>4, <1>5, <1>6, <1>7, <1>8, <1>9, <1>10 DEF Component

LEMMA MovesControl ==
    ASSUME ClusterType, ControlInv, MakingInv, NEW c \in Components, Component(c) \/ Fail(c),
           UNCHANGED <<token, story>>, cloud'.phase = cloud.phase
    PROVE  /\ ControlInv'
           /\ run.kind # "none" /\ ~complete /\ token = "none"
  <1>1. /\ ~Ended(c) /\ task'[c].pc # "none"
        /\ \A d \in Components : d # c => task'[d] = task[d]
        /\ run.kind = "disable" /\ task[c].pc \in Chain => task'[c].pc \in Chain \cup {"ok", "failed"}
        /\ UNCHANGED <<run, complete>>
    BY Moves, ComponentFrame
  <1>2. ~Resting(c) /\ ~Idling
    BY <1>1 DEF Ended, Resting, Idling
  <1>3. run.kind # "none" /\ ~complete /\ token # "restart"
    BY <1>2 DEF ControlInv
  <1>4. cloud.phase \notin {"address", "dns"}
    BY <1>2 DEF ControlInv
  <1>5. \A d \in Components :
          \/ Ended(d)'
          \/ Level[d] = run.level
          \/ d = "cnpg" /\ run.kind = "disable" /\ run.level = 0 /\ task'[d].pc \in Chain
    <2> SUFFICES ASSUME NEW d \in Components
                 PROVE  \/ Ended(d)'
                        \/ Level[d] = run.level
                        \/ d = "cnpg" /\ run.kind = "disable" /\ run.level = 0 /\ task'[d].pc \in Chain
      OBVIOUS
    <2>1. CASE d = c
      BY <1>1, <2>1 DEF ControlInv, Chain, Ended
    <2>2. CASE d # c
      BY <1>1, <2>2 DEF ControlInv, Chain, Ended
    <2> QED BY <2>1, <2>2
  <1>6. /\ ~At("shpyrd", "none") => ~At("shpyrd", "none")'
        /\ ~At("cnpg", "none") => ~At("cnpg", "none")'
    BY <1>1, LevelFacts DEF At
  <1>7. run.kind = "disable" =>
          /\ story = "install" /\ run.only = {"shpyrd"} /\ run.extensions = {}
          /\ \A d \in Components : Ended(d)' \/ d = "shpyrd" \/ (d = "cnpg" /\ run.level = 0)
    BY <1>1 DEF ControlInv, Ended
  <1> QED BY <1>1, <1>3, <1>4, <1>5, <1>6, <1>7 DEF ControlInv, Chain, ClusterType

----------------------------------------------------------------------------
(* The steps of a component.                                                *)

LEMMA MovesMaking ==
    ASSUME ClusterType, MakingInv, NEW c \in Components,
           \A d \in Components : d # c => task'[d] = task[d],
           task'[c].pc \notin {"make", "replace", "htpasswd"},
           task'[c].pc \in HelmPcs => c \in Charts,
           task'[c].pc \in {"remove", "forget"} => run.level = 0,
           UNCHANGED run, \A s \in {"db", "token"} : secrets'[s] = secrets[s],
           misread => misread'
    PROVE  MakingInv'
  <1> SUFFICES ASSUME NEW d \in Components
      PROVE  /\ task'[d].pc \in {"make", "replace", "htpasswd"} => task'[d].hooks # <<>>
             /\ task'[d].pc \in HelmPcs => d \in Charts
             /\ task'[d].pc \in {"remove", "forget"} => run'.level = 0
             /\ task'[d].pc = "htpasswd" => d = "registry-credentials"
             /\ task'[d].pc = "replace" => misread' /\ Head(task'[d].hooks) # "token"
             /\ task'[d].pc = "make" /\ Head(task'[d].hooks) \in {"db", "token"} =>
                  secrets'[Head(task'[d].hooks)] = 0
    BY DEF MakingInv, At, Hook
  <1>1. CASE d = c
    BY <1>1
  <1>2. CASE d # c
    BY <1>2 DEF MakingInv, At, Hook
  <1> QED BY <1>1, <1>2

\* What no step of a component but the server's own concerns.
LEMMA MovesSettings ==
    ASSUME ClusterType, ClusterInv, NEW c \in Components,
           ~Ended(c), \A d \in Components : d # c => task'[d] = task[d],
           c = "shpyrd" => /\ task'[c].pc # "wait"
                           /\ task'[c].pc \in {"record", "ok"} => task[c].pc \in {"wait", "record"},
           UNCHANGED <<run, complete, settings, token>>, misread => misread'
    PROVE  SettingsInv'
  <1>1. c # "shpyrd" => task'["shpyrd"] = task["shpyrd"]
    BY LevelFacts
  <1>2. At("shpyrd", "wait")' \/ (run.level = 4 /\ task'["shpyrd"].pc \in {"record", "ok"}) =>
          At("shpyrd", "wait") \/ (run.level = 4 /\ task["shpyrd"].pc \in {"record", "ok"})
    BY <1>1 DEF At
  <1> QED BY <1>2 DEF ClusterInv, SettingsInv

LEMMA MovesExtensions ==
    ASSUME ClusterType, ClusterInv, NEW c \in Components,
           ~Ended(c), \A d \in Components : d # c => task'[d] = task[d],
           c = "shpyrd" => /\ task'[c].pc # "wait"
                           /\ run.level = 4 /\ task'[c].pc \in {"record", "ok"} =>
                                server.spec = run.extensions /\ ~server.old,
           c = "cnpg" /\ run.level = 2 /\ task'[c].pc \in {"apply", "wait", "record", "ok"} =>
             release'["cnpg"].status = "deployed",
           c # "cnpg" => release'["cnpg"] = release["cnpg"],
           UNCHANGED <<run, complete, token, enabled>>,
           record'.extensions = record.extensions,
           server' = server, misread => misread'
    PROVE  ExtensionInv'
  <1>1. /\ c # "shpyrd" => task'["shpyrd"] = task["shpyrd"]
        /\ c # "cnpg" => task'["cnpg"] = task["cnpg"]
    BY LevelFacts
  <1>2. ~complete /\ token # "restart"
    <2>1. run.kind # "none"
      BY DEF ClusterInv, ControlInv, Idling, Resting, Ended
    <2> QED BY <2>1 DEF ClusterInv, ControlInv
  <1>3. c = "cnpg" => run.level \in {0, 2}
    BY LevelFacts DEF ClusterInv, ControlInv
  <1> QED BY <1>1, <1>2, <1>3 DEF ClusterInv, ExtensionInv, At

LEMMA ReadSecretKeeps ==
    ASSUME ClusterType, ClusterInv, NEW c \in Components, ReadSecret(c), UNCHANGED clusterVars
    PROVE  ClusterType' /\ ClusterInv'
  <1> USE DEF ClusterInv, clusterVars
  <1>1. /\ ~Ended(c) /\ TasksType(task')
        /\ \A d \in Components : d # c => task'[d] = task[d]
        /\ task'[c].pc # "none"
    BY Moves DEF Component
  <1>2. ControlInv' /\ run.kind # "none"
    BY MovesControl DEF Component
  <1>3. /\ UNCHANGED <<run, cancelled, secrets, database, release, record, server, enabled, cut,
                       complete>>
        /\ At(c, "hooks") /\ task[c].hooks # <<>>
        /\ misread' \in BOOLEAN /\ (misread => misread')
    <2>1. /\ UNCHANGED <<run, cancelled, secrets, database, release, record, server, enabled, cut,
                         complete>>
          /\ At(c, "hooks") /\ task[c].hooks # <<>>
      BY DEF ReadSecret
    <2>2. misread' = misread \/ misread' = TRUE
      BY DEF ReadSecret
    <2>3. misread \in BOOLEAN
      BY DEF ClusterType
    <2>4. misread' \in BOOLEAN
      BY <2>2, <2>3
    <2>5. misread => misread'
      BY <2>2, <2>3
    <2> QED BY <2>1, <2>4, <2>5
  <1>4. task'[c].pc \in {"hooks", "make", "replace"}
    <2>1. CASE NextHook(c)
      BY <1>3, <2>1, NextHookFacts
    <2>2. CASE Goto(c, "make") \/ Goto(c, "replace")
      BY <2>2, GotoFacts DEF Pcs
    <2> QED BY <2>1, <2>2 DEF ReadSecret
  <1>5. ClusterType'
    BY <1>1, <1>3 DEF ClusterType, TasksType, Tasks
  <1>6. MakingInv'
    <2>1. CASE NextHook(c)
      <3>1. task'[c].pc = "hooks"
        BY <1>3, <2>1, NextHookFacts
      <3> QED BY <1>1, <1>3, <3>1, MovesMaking DEF HelmPcs
    <2>2. CASE ~Kept(Hook(c)) /\ Goto(c, "make")
      <3>1. task'[c].pc = "make" /\ task'[c].hooks = task[c].hooks
        BY <2>2, GotoFacts DEF Pcs
      <3>2. Hook(c) \in {"db", "token"} => secrets[Hook(c)] = 0
        BY <2>2 DEF Kept
      <3>3. Hook(c)' = Hook(c)
        BY <3>1 DEF Hook
      <3>4. \A d \in Components : d # c => Hook(d)' = Hook(d)
        BY <1>1 DEF Hook
      <3> QED BY <1>1, <1>3, <3>1, <3>2, <3>3, <3>4 DEF MakingInv, At, HelmPcs
    <2>3. CASE Hook(c) \notin Careful /\ misread' /\ Goto(c, "replace")
      <3>1. task'[c].pc = "replace" /\ task'[c].hooks = task[c].hooks
        BY <2>3, GotoFacts DEF Pcs
      <3>2. Hook(c)' = Hook(c) /\ Hook(c) # "token"
        BY <2>3, <3>1 DEF Hook, Careful
      <3>4. \A d \in Components : d # c => Hook(d)' = Hook(d)
        BY <1>1 DEF Hook
      <3> QED BY <1>1, <1>3, <2>3, <3>1, <3>2, <3>4 DEF MakingInv, At, HelmPcs
    <2> QED BY <2>1, <2>2, <2>3 DEF ReadSecret
  <1>7. /\ c # "shpyrd" => task'["shpyrd"] = task["shpyrd"]
        /\ c # "registry-credentials" => task'["registry-credentials"] = task["registry-credentials"]
    BY <1>1, LevelFacts
  <1>8. CredentialInv'
    BY <1>3, <1>4, <1>7 DEF CredentialInv, At
  <1>9. ExtensionInv' /\ SettingsInv'
    BY <1>1, <1>3, <1>4, MovesExtensions, MovesSettings
  <1> QED BY <1>2, <1>5, <1>6, <1>8, <1>9

LEMMA MakeSecretKeeps ==
    ASSUME ClusterType, ClusterInv, NEW c \in Components, MakeSecret(c), UNCHANGED clusterVars
    PROVE  ClusterType' /\ ClusterInv'
  <1> USE DEF ClusterInv, clusterVars
  <1> DEFINE h == Hook(c)
  <1>1. /\ ~Ended(c) /\ TasksType(task')
        /\ \A d \in Components : d # c => task'[d] = task[d]
        /\ task'[c].pc # "none"
    BY Moves DEF Component
  <1>2. ControlInv' /\ run.kind # "none"
    BY MovesControl DEF Component
  <1>3. /\ UNCHANGED <<run, cancelled, database, release, record, server, enabled, cut,
                       complete, misread>>
        /\ task[c].pc \in {"make", "replace"} /\ task[c].hooks # <<>>
    BY DEF MakeSecret, MakingInv
  <1>4. /\ h \in {"registry", "ca", "db", "token"}
        /\ h = "registry" <=> c = "registry-credentials"
        /\ h = "db" => c \in {"control-plane-db", "shpyrd"}
        /\ h = "token" => c = "shpyrd"
    BY <1>3, HookFacts DEF Hook, ClusterType
  <1>5. task'[c].pc = IF h = "registry" THEN "htpasswd" ELSE "hooks"
    BY <1>3, GotoFacts, NextHookFacts DEF MakeSecret, Pcs
  <1>6. h = "registry" => task'[c].hooks # <<>>
    BY <1>3, GotoFacts DEF MakeSecret, Pcs
  <1>7. PICK v \in 1 .. 3 : secrets' = secrets \/ secrets' = [secrets EXCEPT ![h] = v]
    BY AnotherFacts DEF MakeSecret
  <1>7a. h # "registry" => secrets' = [secrets EXCEPT ![h] = Another(h)]
    BY DEF MakeSecret
  <1>8. /\ secrets' \in [SecretNames -> Nat]
        /\ \A s \in SecretNames : s # h => secrets'[s] = secrets[s]
        /\ h # "registry" => secrets'[h] # 0
    <2>1. h \in SecretNames
      BY <1>4 DEF SecretNames
    <2> HIDE DEF h
    <2> QED BY <1>7, <1>7a, <2>1, AnotherFacts DEF ClusterType
  <1>9. At(c, "make") /\ h \in {"db", "token"} => secrets[h] = 0
    BY DEF MakingInv
  <1>10. At(c, "replace") => misread /\ h # "token"
    BY DEF MakingInv
  <1> HIDE DEF h
  <1>11. ClusterType'
    BY <1>1, <1>3, <1>8 DEF ClusterType, TasksType, Tasks
  <1>12. \A d \in Components : d # c /\ ~Ended(d) => Level[c] = Level[d] \/ d = "cnpg" \/ c = "cnpg"
    BY <1>1 DEF ControlInv
  <1>13. \A d \in Components : d # c /\ At(d, "make") => Hook(d) \in {"registry", "ca", "db", "token"}
    BY HookFacts DEF Hook, ClusterType, MakingInv, At
  <1>14. ASSUME NEW d \in Components, d # c, At(d, "make"), Hook(d) \in {"db", "token"}
         PROVE  Hook(d) # h
    <2>1. /\ Hook(d) = "db" => d \in {"control-plane-db", "shpyrd"}
          /\ Hook(d) = "token" => d = "shpyrd"
      BY <1>14, HookFacts DEF Hook, ClusterType, MakingInv, At
    <2>2. ~Ended(d)
      BY <1>14 DEF At, Ended
    <2> QED BY <1>4, <1>12, <1>14, <2>1, <2>2, LevelFacts
  <1>15. MakingInv'
    <2>1. \A d \in Components : d # c => Hook(d)' = Hook(d) /\ task'[d] = task[d]
      BY <1>1 DEF Hook
    <2>2. \A d \in Components : d # c =>
            /\ task'[d].pc \in {"make", "replace", "htpasswd"} => task'[d].hooks # <<>>
            /\ task'[d].pc \in HelmPcs => d \in Charts
            /\ task'[d].pc \in {"remove", "forget"} => run'.level = 0
            /\ At(d, "htpasswd")' => d = "registry-credentials"
            /\ At(d, "replace")' => misread' /\ Hook(d)' # "token"
      BY <1>3, <2>1 DEF MakingInv, At
    <2>3. \A d \in Components : d # c /\ At(d, "make")' /\ Hook(d)' \in {"db", "token"} =>
            secrets'[Hook(d)'] = 0
      <3> SUFFICES ASSUME NEW d \in Components, d # c, At(d, "make")', Hook(d)' \in {"db", "token"}
                   PROVE  secrets'[Hook(d)'] = 0
        OBVIOUS
      <3>1. Hook(d)' = Hook(d) /\ At(d, "make")
        BY <2>1 DEF At
      <3>2. Hook(d) # h /\ secrets[Hook(d)] = 0 /\ Hook(d) \in SecretNames
        BY <1>14, <3>1 DEF MakingInv, SecretNames
      <3> QED BY <1>8, <3>1, <3>2
    <2>4. /\ task'[c].pc \in {"make", "replace", "htpasswd"} => task'[c].hooks # <<>>
          /\ task'[c].pc \notin HelmPcs \cup {"remove", "forget", "replace", "make"}
          /\ At(c, "htpasswd")' => c = "registry-credentials"
      BY <1>4, <1>5, <1>6 DEF At, HelmPcs
    <2> QED BY <2>2, <2>3, <2>4 DEF MakingInv, At
  <1>16. /\ c # "shpyrd" => task'["shpyrd"] = task["shpyrd"]
         /\ c # "registry-credentials" => task'["registry-credentials"] = task["registry-credentials"]
    BY <1>1, LevelFacts
  <1>17. CredentialInv'
    <2>1. ~misread' => database' \in {0, secrets'["db"]}
      BY <1>3, <1>8, <1>9, <1>10 DEF CredentialInv, At, SecretNames
    <2>2. ~cut' => secrets'["htpasswd"] = secrets'["registry"] \/ At("registry-credentials", "htpasswd")'
      BY <1>3, <1>4, <1>5, <1>8, <1>16 DEF CredentialInv, At, SecretNames
    <2>3. h = "token" => server.token = 0
      BY <1>3, <1>9, <1>10 DEF CredentialInv, At
    <2>4. server'.token # 0 => secrets'["token"] # 0
      BY <1>3, <1>8, <2>3 DEF CredentialInv, SecretNames
    <2>5. ~cut' /\ server'.token # 0 /\ ~server'.old /\ token' = "none" =>
            server'.token = secrets'["token"] /\ server'.off = (secrets'["disabled"] = 1)
      BY <1>3, <1>4, <1>8, <2>3 DEF CredentialInv, SecretNames
    <2>6. complete' \/ token' = "restart" \/ task'["shpyrd"].pc \in {"wait", "record", "ok"} =>
            server'.token # 0 \/ server'.old
      BY <1>3, <1>5, <1>16 DEF CredentialInv
    <2> QED BY <2>1, <2>2, <2>4, <2>5, <2>6 DEF CredentialInv
  <1>18. ExtensionInv' /\ SettingsInv'
    BY <1>1, <1>3, <1>5, MovesExtensions, MovesSettings
  <1> QED BY <1>2, <1>11, <1>15, <1>17, <1>18

LEMMA MovesKeep ==
    ASSUME ClusterType, ClusterInv, NEW c \in Components, Component(c) \/ Fail(c),
           UNCHANGED clusterVars, UNCHANGED <<secrets, server, misread>>,
           cut' \in BOOLEAN, cut => cut', At(c, "htpasswd") => cut',
           database' \in {database, secrets["db"]},
           record' \in Records, record'.extensions = record.extensions,
           release' \in [Charts -> [status : Statuses, version : Nat, deployed : BOOLEAN]],
           c # "cnpg" => release'["cnpg"] = release["cnpg"],
           task'[c].pc \notin {"make", "replace", "htpasswd"},
           task'[c].pc \in HelmPcs => c \in Charts,
           task'[c].pc \in {"remove", "forget"} => run.level = 0,
           c = "shpyrd" => /\ task'[c].pc # "wait"
                           /\ task'[c].pc \in {"record", "ok"} =>
                                \/ task[c].pc = "record"
                                \/ task[c].pc = "wait" /\ ~server.old,
           c = "cnpg" /\ run.level = 2 /\ task'[c].pc \in {"apply", "wait", "record", "ok"} =>
             release'["cnpg"].status = "deployed"
    PROVE  ClusterType' /\ ClusterInv'
  <1>1. /\ ~Ended(c) /\ TasksType(task')
        /\ \A d \in Components : d # c => task'[d] = task[d]
        /\ task'[c].pc # "none"
    BY Moves DEF ClusterInv
  <1>2. /\ UNCHANGED <<run, enabled, complete>>
        /\ UNCHANGED <<story, settings, token, destroy, cloud>>
    BY ComponentFrame DEF clusterVars
  <1>3. ControlInv' /\ run.kind # "none"
    BY <1>2, MovesControl DEF ClusterInv
  <1>4. ClusterType'
    <2>1. database' \in Nat
      BY DEF ClusterType, SecretNames
    <2> QED BY <1>1, <1>2, <2>1 DEF ClusterType, TasksType, Tasks
  <1>5. MakingInv'
    BY <1>1, <1>2, MovesMaking DEF ClusterInv
  <1>6. /\ c # "shpyrd" => task'["shpyrd"] = task["shpyrd"]
        /\ c # "registry-credentials" => task'["registry-credentials"] = task["registry-credentials"]
    BY <1>1, LevelFacts
  <1>7. CredentialInv'
    BY <1>2, <1>6 DEF ClusterInv, CredentialInv, At
  <1>8. c = "shpyrd" /\ run.level = 4 /\ task'[c].pc \in {"record", "ok"} =>
          server.spec = run.extensions /\ ~server.old
    BY DEF ClusterInv, ExtensionInv, At
  <1>9. ExtensionInv'
    BY <1>1, <1>2, <1>8, MovesExtensions
  <1>10. SettingsInv'
    BY <1>1, <1>2, MovesSettings
  <1> QED BY <1>3, <1>4, <1>5, <1>7, <1>9, <1>10 DEF ClusterInv

LEMMA MakeHtpasswdKeeps ==
    ASSUME ClusterType, ClusterInv, NEW c \in Components, MakeHtpasswd(c), UNCHANGED clusterVars
    PROVE  ClusterType' /\ ClusterInv'
  <1> USE DEF ClusterInv, clusterVars
  <1>1. /\ ~Ended(c) /\ TasksType(task')
        /\ \A d \in Components : d # c => task'[d] = task[d]
    BY Moves DEF Component
  <1>2. ControlInv' /\ run.kind # "none"
    BY MovesControl DEF Component
  <1>3. /\ UNCHANGED <<run, cancelled, database, release, record, server, enabled, cut,
                       complete, misread>>
        /\ secrets' = [secrets EXCEPT !["htpasswd"] = secrets["registry"]]
        /\ c = "registry-credentials" /\ task[c].hooks # <<>>
    BY DEF MakeHtpasswd, MakingInv, At
  <1>4. task'[c].pc = "hooks"
    BY <1>3, NextHookFacts DEF MakeHtpasswd
  <1>5. /\ secrets' \in [SecretNames -> Nat]
        /\ secrets'["htpasswd"] = secrets["registry"]
        /\ \A s \in SecretNames : s # "htpasswd" => secrets'[s] = secrets[s]
    BY <1>3 DEF ClusterType, SecretNames
  <1>6. ClusterType'
    BY <1>1, <1>3, <1>5 DEF ClusterType, TasksType, Tasks
  <1>7. \A s \in {"db", "token"} : secrets'[s] = secrets[s]
    BY <1>5 DEF SecretNames
  <1>8. MakingInv'
    BY <1>1, <1>3, <1>4, <1>7, MovesMaking DEF HelmPcs
  <1>9. CredentialInv'
    BY <1>1, <1>3, <1>4, <1>5, LevelFacts DEF CredentialInv, SecretNames
  <1>10. ExtensionInv' /\ SettingsInv'
    BY <1>1, <1>3, <1>4, MovesExtensions, MovesSettings
  <1> QED BY <1>2, <1>6, <1>8, <1>9, <1>10

LEMMA ChartFacts == "cnpg" \in Charts /\ "shpyrd" \notin Charts /\ "registry-credentials" \notin Charts
  BY DEF Charts

LEMMA HistoryKeeps ==
    ASSUME ClusterType, ClusterInv, NEW c \in Components, History(c), UNCHANGED clusterVars
    PROVE  ClusterType' /\ ClusterInv'
  <1>1. /\ UNCHANGED <<run, secrets, database, release, record, server, misread, cut>>
        /\ task[c].pc = "hooks"
    BY DEF History, At
  <1>2. /\ task'[c].pc \in {"install", "uninstall", "rollback", "upgrade", "apply"}
        /\ c \notin Charts => task'[c].pc = "apply"
        /\ c \in Charts => task'[c].pc # "apply"
    <2>1. PICK pc \in {"install", "uninstall", "rollback", "upgrade", "apply"} :
            Goto(c, pc) /\ (c \notin Charts <=> pc = "apply")
      BY DEF History, Plan
    <2> QED BY <2>1, GotoFacts DEF Pcs
  <1>3. ClusterType => /\ cut \in BOOLEAN /\ record \in Records
                       /\ release \in [Charts -> [status : Statuses, version : Nat, deployed : BOOLEAN]]
    BY DEF ClusterType
  <1> QED BY <1>1, <1>2, <1>3, MovesKeep, ChartFacts DEF Component, At, HelmPcs

LEMMA HelmKeeps ==
    ASSUME ClusterType, ClusterInv, NEW c \in Components,
           HelmBegins(c) \/ HelmRefuses(c) \/ HelmEnds(c), UNCHANGED clusterVars
    PROVE  ClusterType' /\ ClusterInv'
  <1> DEFINE Releases == [status : Statuses, version : Nat, deployed : BOOLEAN]
  <1>1. UNCHANGED <<run, secrets, database, record, server, misread, cut>>
    BY DEF HelmBegins, HelmRefuses, HelmEnds
  <1>2. task[c].pc \in HelmPcs /\ c \in Charts
    <2>1. task[c].pc \in HelmPcs
      BY DEF HelmBegins, HelmRefuses, HelmEnds, HelmPcs, At
    <2> QED BY <2>1 DEF ClusterInv, MakingInv
  <1>3. release \in [Charts -> Releases] /\ release[c] \in Releases
    BY <1>2 DEF ClusterType
  <1>4. ASSUME NEW status \in Statuses, NEW number \in Nat,
               release' = [release EXCEPT ![c].status = status, ![c].version = number]
        PROVE  release' \in [Charts -> Releases]
    BY <1>2, <1>3, <1>4
  <1>5. ASSUME release' = [release EXCEPT ![c].status = "deployed", ![c].deployed = TRUE]
        PROVE  release' \in [Charts -> Releases] /\ release'[c].status = "deployed"
    BY <1>2, <1>3, <1>5 DEF Statuses
  <1>6. ASSUME release' = [release EXCEPT ![c] = NoRelease]
        PROVE  release' \in [Charts -> Releases]
    BY <1>2, <1>3, <1>6 DEF Statuses, NoRelease
  <1>7. release' \in [Charts -> Releases] /\ (c # "cnpg" => release'["cnpg"] = release["cnpg"])
    <2>1. CASE HelmBegins(c)
      <3>1. PICK status \in Statuses, number \in Nat :
              release' = [release EXCEPT ![c].status = status, ![c].version = number]
        BY <1>3, <2>1 DEF HelmBegins, Statuses
      <3> QED BY <1>3, <1>4, <3>1, ChartFacts
    <2>2. CASE HelmRefuses(c)
      BY <1>3, <2>2 DEF HelmRefuses
    <2>3. CASE HelmEnds(c)
      BY <1>3, <1>5, <1>6, <2>3, ChartFacts DEF HelmEnds
    <2> QED BY <2>1, <2>2, <2>3
  <1>8. /\ task'[c].pc \in {"installing", "uninstalling", "rolling back", "upgrading", "failed",
                            "apply", "upgrade", "install", "forget"}
        /\ task'[c].pc = "apply" => release'[c].status = "deployed"
        /\ task'[c].pc = "forget" => run.level = 0
    <2>1. CASE HelmBegins(c)
      <3>1. PICK pc \in {"installing", "uninstalling", "rolling back", "upgrading"} : Goto(c, pc)
        BY <2>1 DEF HelmBegins
      <3> QED BY <3>1, GotoFacts DEF Pcs
    <2>2. CASE HelmRefuses(c)
      <3>1. Goto(c, "failed")
        BY <2>2 DEF HelmRefuses
      <3> QED BY <3>1, GotoFacts DEF Pcs
    <2>3. CASE HelmEnds(c)
      <3>1. \/ release' = [release EXCEPT ![c].status = "deployed", ![c].deployed = TRUE]
               /\ Goto(c, "apply")
            \/ Goto(c, "upgrade") \/ Goto(c, "install")
            \/ run.kind = "disable" /\ Goto(c, "forget")
        BY <2>3 DEF HelmEnds
      <3>2. run.kind = "disable" => run.level = 0
        <4>1. ~Ended(c)
          BY <1>2 DEF Ended, HelmPcs
        <4> QED BY <1>2, <4>1, ChartFacts DEF ClusterInv, ControlInv
      <3> QED BY <1>5, <3>1, <3>2, GotoFacts DEF Pcs
    <2> QED BY <2>1, <2>2, <2>3
  <1>9. /\ cut \in BOOLEAN /\ record \in Records
        /\ c # "shpyrd" /\ c # "registry-credentials" /\ ~At(c, "htpasswd")
    BY <1>2, ChartFacts DEF ClusterType, HelmPcs, At
  <1>10. Component(c)
    BY DEF Component
  <1> QED BY <1>1, <1>2, <1>7, <1>8, <1>9, <1>10, MovesKeep

LEMMA OthersKeep ==
    ASSUME ClusterType, ClusterInv, NEW c \in Components, UNCHANGED clusterVars,
           \/ ApplyAll(c) /\ c # "shpyrd"
           \/ Wait(c) \/ Record(c) \/ Remove(c) \/ Forget(c)
    PROVE  ClusterType' /\ ClusterInv'
  <1>1. UNCHANGED <<run, secrets, release, server, misread, cut>>
    BY DEF ApplyAll, Wait, Record, Remove, Forget
  <1>2. database' \in {database, secrets["db"]}
    BY DEF ApplyAll, Wait, Record, Remove, Forget
  <1>3. record' \in Records /\ record'.extensions = record.extensions
    <2>1. record \in Records
      BY DEF ClusterType
    <2>2. \/ record' = record
          \/ \E cs \in SUBSET Components : record' = [record EXCEPT !.components = cs]
      <3>1. record.components \cup {c} \in SUBSET Components /\ record.components \ {c} \in SUBSET Components
        BY <2>1 DEF Records
      <3> QED BY <3>1 DEF ApplyAll, Wait, Record, Remove, Forget
    <2> QED BY <2>1, <2>2 DEF Records
  <1>4. /\ cut \in BOOLEAN
        /\ release \in [Charts -> [status : Statuses, version : Nat, deployed : BOOLEAN]]
    BY DEF ClusterType
  <1>5. CASE ApplyAll(c) /\ c # "shpyrd"
    <2>1. task[c].pc = "apply" /\ task'[c].pc = "wait"
      BY <1>5, GotoFacts DEF ApplyAll, At, Pcs
    <2>2. c = "cnpg" /\ run.level = 2 => release["cnpg"].status = "deployed"
      BY <2>1 DEF ClusterInv, ExtensionInv
    <2> QED BY <1>1, <1>2, <1>3, <1>4, <1>5, <2>1, <2>2, MovesKeep DEF Component, HelmPcs, At
  <1>6. CASE Wait(c)
    <2>1. task[c].pc = "wait" /\ task'[c].pc = "record" /\ (c = "shpyrd" => ~server.old)
      BY <1>6, GotoFacts DEF Wait, At, Pcs, Ready
    <2>2. c = "cnpg" /\ run.level = 2 => release["cnpg"].status = "deployed"
      BY <2>1 DEF ClusterInv, ExtensionInv
    <2> QED BY <1>1, <1>2, <1>3, <1>4, <1>6, <2>1, <2>2, MovesKeep DEF Component, HelmPcs, At
  <1>7. CASE Record(c)
    <2>1. task[c].pc = "record" /\ task'[c].pc = "ok"
      BY <1>7, GotoFacts DEF Record, At, Pcs
    <2>2. c = "cnpg" /\ run.level = 2 => release["cnpg"].status = "deployed"
      BY <2>1 DEF ClusterInv, ExtensionInv
    <2> QED BY <1>1, <1>2, <1>3, <1>4, <1>7, <2>1, <2>2, MovesKeep DEF Component, HelmPcs, At
  <1>8. CASE Remove(c) \/ Forget(c)
    <2>1. task[c].pc \in {"remove", "forget"} /\ task'[c].pc \in {"forget", "uninstall", "ok"}
      <3>1. \E pc \in {"forget", "uninstall", "ok"} : Goto(c, pc)
        BY <1>8 DEF Remove, Forget
      <3> QED BY <1>8, <3>1, GotoFacts DEF Pcs, Remove, Forget, At
    <2>2. c \in Charts /\ run.level = 0
      BY <2>1 DEF ClusterInv, MakingInv, HelmPcs
    <2>3. c # "shpyrd"
      BY <2>2, ChartFacts
    <2> QED BY <1>1, <1>2, <1>3, <1>4, <1>8, <2>1, <2>2, <2>3, MovesKeep DEF Component, At
  <1> QED BY <1>5, <1>6, <1>7, <1>8

LEMMA FailKeeps ==
    ASSUME ClusterType, ClusterInv, NEW c \in Components, Fail(c), UNCHANGED clusterVars
    PROVE  ClusterType' /\ ClusterInv'
  <1> DEFINE Releases == [status : Statuses, version : Nat, deployed : BOOLEAN]
  <1>1. UNCHANGED <<run, secrets, database, record, server, misread>>
    BY DEF Fail
  <1>2. task'[c].pc = "failed"
    BY GotoFacts DEF Fail, Pcs
  <1>3. cut \in BOOLEAN /\ record \in Records /\ release \in [Charts -> Releases]
    BY DEF ClusterType
  <1>4. cut' = (cut \/ At(c, "htpasswd"))
    BY DEF Fail
  <1>5. cut' \in BOOLEAN /\ (cut => cut') /\ (At(c, "htpasswd") => cut')
    BY <1>3, <1>4
  <1>6. release' \in [Charts -> Releases] /\ (c # "cnpg" => release'["cnpg"] = release["cnpg"])
    <2>1. CASE release' = release
      BY <1>3, <2>1
    <2>2. CASE task[c].pc \in {"installing", "upgrading", "rolling back"}
               /\ release' = [release EXCEPT ![c].status = "failed"]
      <3>1. c \in Charts
        BY <2>2 DEF ClusterInv, MakingInv, HelmPcs
      <3>2. release[c] \in Releases /\ "failed" \in Statuses
        BY <1>3, <3>1 DEF Statuses
      <3> HIDE DEF Releases
      <3>3. [release[c] EXCEPT !.status = "failed"] \in Releases
        BY <3>2 DEF Releases
      <3> QED BY <1>3, <2>2, <3>1, <3>3, ChartFacts
    <2> QED BY <2>1, <2>2 DEF Fail
  <1> QED BY <1>1, <1>2, <1>3, <1>5, <1>6, MovesKeep DEF HelmPcs

\* The server's objects are applied.
LEMMA ServerAppliedKeeps ==
    ASSUME ClusterType, ClusterInv, ServerApplied
    PROVE  ClusterType' /\ ClusterInv'
  <1> DEFINE c == "shpyrd"
  <1> USE DEF ClusterInv
  <1>0. c \in Components /\ ApplyAll(c) /\ task[c].pc = "apply"
    BY LevelFacts DEF ServerApplied, ApplyAll, At
  <1>1. /\ ~Ended(c) /\ TasksType(task')
        /\ \A d \in Components : d # c => task'[d] = task[d]
    BY <1>0, Moves DEF Component
  <1>2. /\ UNCHANGED <<run, cancelled, secrets, database, release, record, enabled, cut,
                       complete, misread, story, token, destroy>>
        /\ server' = IF server.spec # run.extensions \/ server.token = 0
                     THEN [server EXCEPT !.spec = run.extensions, !.old = TRUE] ELSE server
        /\ settings' = [settings EXCEPT !.applied = settings.run.value]
        /\ cloud' = [cloud EXCEPT !.ingress = (story = "cloud")]
    BY DEF ServerApplied, ApplyAll
  <1>3. task'[c].pc = "wait"
    BY <1>0, GotoFacts DEF ApplyAll, Pcs
  <1>4. cloud' \in Clouds /\ cloud'.phase = cloud.phase
    <2>1. (story = "cloud") \in BOOLEAN
      OBVIOUS
    <2> QED BY <1>2, <2>1 DEF ClusterType, Clouds
  <1>5. ControlInv' /\ run.kind # "none" /\ ~complete /\ token = "none"
    BY <1>0, <1>2, <1>4, MovesControl DEF Component
  <1>6. run.level = 4 /\ run.extensions \in SUBSET {"postgres"}
    BY <1>0, <1>1, LevelFacts DEF ControlInv, ClusterType, Runs
  <1>7. /\ server' \in Servers /\ server'.spec = run.extensions
        /\ server'.token = server.token /\ server'.off = server.off
        /\ server'.pods = server.pods
        /\ ~server'.old => server' = server
        /\ server'.token # 0 \/ server'.old
    BY <1>2, <1>6 DEF ClusterType, Servers
  <1>8. /\ settings' \in SettingsType /\ settings'.applied = settings.run.value
        /\ settings'.run = settings.run /\ settings'.asked = settings.asked
        /\ settings'.recorded = settings.recorded /\ settings'.override = settings.override
        /\ settings'.overruled = settings.overruled /\ settings'.frozen = settings.frozen
        /\ settings'.by = settings.by /\ settings'.release = settings.release
    <2>1. settings.run.value \in Nat
      BY DEF ClusterType, SettingsType, Values
    <2> QED BY <1>2, <2>1 DEF ClusterType, SettingsType
  <1>9. ClusterType'
    BY <1>1, <1>2, <1>4, <1>7, <1>8 DEF ClusterType, TasksType, Tasks
  <1>10. MakingInv'
    BY <1>0, <1>1, <1>2, <1>3, MovesMaking DEF HelmPcs
  <1>11. /\ task'["registry-credentials"] = task["registry-credentials"]
         /\ task'["cnpg"] = task["cnpg"]
    BY <1>1, LevelFacts
  <1>12. CredentialInv'
    BY <1>2, <1>5, <1>7, <1>11 DEF CredentialInv, At
  <1>13. ExtensionInv'
    BY <1>2, <1>3, <1>5, <1>6, <1>7, <1>11 DEF ExtensionInv, At
  <1>14. SettingsInv'
    BY <1>2, <1>3, <1>5, <1>8 DEF SettingsInv, At
  <1> QED BY <1>5, <1>9, <1>10, <1>12, <1>13, <1>14

----------------------------------------------------------------------------
(* The steps of a command.                                                  *)

LEMMA IdleFacts ==
    ASSUME ClusterType, ClusterInv
    PROVE  /\ run.kind \in {"none", "init", "enable", "disable"}
           /\ run = NoRun <=> run.kind = "none"
           /\ run = NoRun => Idling
           /\ Idling => \A c \in Components : Ended(c) /\ task[c].pc \in {"none", "ok"}
           /\ run.kind # "none" => ~complete /\ token = "none"
  <1>1. /\ run.kind \in {"none", "init", "enable", "disable"}
        /\ token \in {"none", "restart"} /\ complete \in BOOLEAN
    BY DEF ClusterType, Runs
  <1>2. NoRun.kind = "none"
    BY DEF NoRun
  <1> QED BY <1>1, <1>2 DEF ClusterInv, ControlInv, Idling, Resting, Ended

\* A step after which no task makes a Secret or runs Helm.
LEMMA NothingMade ==
    ASSUME \A c \in Components : task'[c].pc \in {"none", "hooks", "ok", "failed"}
    PROVE  MakingInv'
  BY DEF MakingInv, HelmPcs, At

LEMMA NextLevelKeeps ==
    ASSUME ClusterType, ClusterInv, NextLevel, UNCHANGED clusterVars
    PROVE  ClusterType' /\ ClusterInv'
  <1> USE DEF ClusterInv
  <1> DEFINE l == run.level + 1
             begun == Selected(l, run.kind, run.only, run.extensions)
  <1>1. /\ run # NoRun /\ run.level < 4
        /\ \A c \in Components : task[c].pc \in {"none", "ok"}
        /\ run' = [run EXCEPT !.level = l]
        /\ UNCHANGED <<cancelled, secrets, database, release, record, server, enabled,
                       misread, cut, complete, story, settings, token, destroy, cloud>>
        /\ task' = [c \in Components |->
                      IF c \in begun THEN [pc |-> "hooks", hooks |-> HooksOf(c)] ELSE NoTask]
    BY DEF NextLevel, clusterVars
  <1>2. run.kind # "none" /\ ~complete /\ token = "none"
    BY <1>1, IdleFacts
  <1>3. /\ l \in 1 .. 4 /\ run' \in Runs /\ run'.level = l /\ run'.kind = run.kind
        /\ run'.only = run.only /\ run'.extensions = run.extensions
    BY <1>1 DEF ClusterType, Runs
  <1>4. \A c \in Components : c \in begun <=>
          c \in run.only /\ Level[c] = l /\ (c = "cnpg" => "postgres" \in run.extensions)
    BY DEF Selected
  <1> HIDE DEF begun
  <1>5. \A c \in Components :
          /\ task'[c] \in [pc : Pcs, hooks : AllHooks] /\ task'[c].hooks \in Hooks[c]
          /\ c \in begun => task'[c].pc = "hooks"
          /\ c \notin begun => task'[c].pc = "none"
    <2> SUFFICES ASSUME NEW c \in Components
                 PROVE  /\ task'[c] \in [pc : Pcs, hooks : AllHooks] /\ task'[c].hooks \in Hooks[c]
                        /\ c \in begun => task'[c].pc = "hooks"
                        /\ c \notin begun => task'[c].pc = "none"
      OBVIOUS
    <2>1. HooksOf(c) \in Hooks[c] /\ <<>> \in Hooks[c] /\ Hooks[c] \subseteq AllHooks
      BY HookFacts, AllHooksFact
    <2>2. CASE c \in begun
      <3> DEFINE h == HooksOf(c)
      <3>1. h \in AllHooks /\ h \in Hooks[c]
        BY <2>1
      <3>2. task'[c] = [pc |-> "hooks", hooks |-> h]
        BY <1>1, <2>2
      <3> HIDE DEF h
      <3> QED BY <2>2, <3>1, <3>2 DEF Pcs
    <2>3. CASE c \notin begun
      <3>1. task'[c] = NoTask
        BY <1>1, <2>3
      <3> QED BY <2>1, <2>3, <3>1 DEF NoTask, Pcs
    <2> QED BY <2>2, <2>3
  <1>6. ClusterType'
    <2>1. task' \in [Components -> [pc : Pcs, hooks : AllHooks]]
      BY <1>1, <1>5
    <2> QED BY <1>1, <1>3, <1>5, <2>1 DEF ClusterType
  <1>7. \A c \in Components : task'[c].pc \in {"none", "hooks"}
    BY <1>5
  <1>8. cloud.phase \notin {"address", "dns"}
    BY <1>1, <1>2 DEF ControlInv
  <1>9. ControlInv'
    <2>1. \A c \in Components : Ended(c)' \/ Level[c] = l
      BY <1>4, <1>5 DEF Ended
    <2>2. run.kind = "disable" =>
            /\ story = "install" /\ run.only = {"shpyrd"} /\ run.extensions = {}
            /\ \A c \in Components : Ended(c)' \/ c = "shpyrd"
      BY <1>4, <1>5 DEF Ended, ControlInv
    <2>3. l = 4 /\ "shpyrd" \in run.only => ~At("shpyrd", "none")'
      BY <1>4, <1>5, LevelFacts DEF At
    <2>4. l = 2 /\ "cnpg" \in run.only /\ "postgres" \in run.extensions => ~At("cnpg", "none")'
      BY <1>4, <1>5, LevelFacts DEF At
    <2> QED BY <1>1, <1>2, <1>3, <1>8, <2>1, <2>2, <2>3, <2>4 DEF ControlInv
  <1>10. MakingInv'
    BY <1>7, NothingMade
  <1>11. CredentialInv'
    BY <1>1, <1>2, <1>7, LevelFacts DEF CredentialInv, At
  <1>12. ExtensionInv'
    <2>1. l > 2 /\ "postgres" \in run.extensions => release["cnpg"].status = "deployed"
      <3>1. CASE run.level = 2 /\ "postgres" \in run.extensions
        BY <1>1, <1>2, <3>1, LevelFacts DEF ControlInv, ExtensionInv, At
      <3>2. CASE run.level > 2
        BY <3>2 DEF ExtensionInv
      <3>3. run.level \in 0 .. 4
        BY DEF ClusterType, Runs
      <3> QED BY <3>1, <3>2, <3>3
    <2> QED BY <1>1, <1>2, <1>3, <1>7, <2>1, LevelFacts DEF ExtensionInv, At
  <1>13. SettingsInv'
    BY <1>1, <1>2, <1>3, <1>7, LevelFacts DEF SettingsInv, At
  <1> QED BY <1>6, <1>9, <1>10, <1>11, <1>12, <1>13

\* A command that ended: no run, no task.
LEMMA EndRunKeeps ==
    ASSUME ClusterType, ClusterInv, EndRun, UNCHANGED clusterVars
    PROVE  ClusterType' /\ ClusterInv'
  <1> USE DEF ClusterInv
  <1>1. /\ run # NoRun /\ run' = NoRun
        /\ task' = [c \in Components |-> NoTask]
        /\ UNCHANGED <<cancelled, secrets, database, release, record, server, enabled,
                       misread, complete, story, settings, token, destroy, cloud>>
    BY DEF EndRun, clusterVars
  <1>2. run.kind # "none" /\ ~complete /\ token = "none"
    BY <1>1, IdleFacts
  <1>3. TasksType(task') /\ \A c \in Components : task'[c].pc = "none"
    BY <1>1, NoTaskFacts
  <1>4. /\ run' \in Runs /\ run'.kind = "none" /\ run'.level = 0
    BY <1>1 DEF Runs, NoRun
  <1>5. cut' \in BOOLEAN /\ (cut => cut') /\ (At("registry-credentials", "htpasswd") => cut')
    <2>1. CASE UNCHANGED cut /\ \A c \in Components : Ended(c)
      BY <2>1, LevelFacts DEF ClusterType, Ended, At
    <2>2. CASE cut' = (cut \/ At("registry-credentials", "htpasswd"))
      BY <2>2 DEF ClusterType
    <2> QED BY <2>1, <2>2 DEF EndRun
  <1>6. ClusterType'
    BY <1>1, <1>3, <1>4, <1>5 DEF ClusterType, TasksType, Tasks
  <1>7. ControlInv'
    BY <1>1, <1>2, <1>3, <1>4, LevelFacts DEF ControlInv, Idling, Resting, Ended, At
  <1>8. MakingInv'
    BY <1>3, NothingMade
  <1>9. CredentialInv'
    BY <1>1, <1>2, <1>3, <1>5, LevelFacts DEF CredentialInv, At
  <1>10. ExtensionInv'
    BY <1>1, <1>2, <1>3, <1>4, LevelFacts DEF ExtensionInv, At
  <1>11. SettingsInv'
    BY <1>1, <1>2, <1>3, <1>4, LevelFacts DEF SettingsInv, At
  <1> QED BY <1>6, <1>7, <1>8, <1>9, <1>10, <1>11

LEMMA RolloutKeeps ==
    ASSUME ClusterType, ClusterInv, Rollout, UNCHANGED clusterVars
    PROVE  ClusterType' /\ ClusterInv'
  <1> USE DEF ClusterInv
  <1>1. /\ UNCHANGED <<run, task, cancelled, secrets, database, release, record, enabled,
                       misread, cut, complete, story, settings, token, destroy, cloud>>
        /\ secrets["token"] # 0
        /\ server' = [server EXCEPT !.pods = server.spec, !.token = secrets["token"],
                                    !.off = (secrets["disabled"] = 1), !.old = FALSE]
    BY DEF Rollout, clusterVars
  <1>2. server \in Servers /\ secrets["token"] \in Nat
    BY DEF ClusterType, SecretNames
  <1>3. server.spec \in SUBSET {"postgres"} /\ (secrets["disabled"] = 1) \in BOOLEAN
    BY <1>2 DEF Servers
  <1> DEFINE off == secrets["disabled"] = 1
             value == secrets["token"]
  <1>4. /\ server' \in Servers /\ server'.pods = server.spec /\ server'.spec = server.spec
        /\ server'.token = value /\ server'.off = off /\ ~server'.old
    <2>1. server' = [server EXCEPT !.pods = server.spec, !.token = value, !.off = off, !.old = FALSE]
      BY <1>1
    <2>2. value \in Nat /\ off \in BOOLEAN
      BY <1>2, <1>3
    <2> HIDE DEF off, value
    <2> QED BY <1>2, <1>3, <2>1, <2>2 DEF Servers
  <1>5. ClusterType'
    BY <1>1, <1>4 DEF ClusterType
  <1>6. ControlInv'
    BY <1>1 DEF ControlInv, Idling, Resting, Ended, At
  <1>7. MakingInv'
    BY <1>1 DEF MakingInv, At, Hook
  <1>8. CredentialInv'
    BY <1>1, <1>4 DEF CredentialInv, At
  <1>9. ExtensionInv'
    BY <1>1, <1>4 DEF ExtensionInv, At
  <1>10. SettingsInv'
    BY <1>1 DEF SettingsInv, At
  <1> QED BY <1>5, <1>6, <1>7, <1>8, <1>9, <1>10

\* A command begins: nothing runs, nothing is applied yet.
LEMMA BeginsKeeps ==
    ASSUME ClusterType, ClusterInv, run = NoRun, token = "none",
           run' \in Runs, run'.kind # "none", run'.level = 0, ~complete', complete' \in BOOLEAN,
           TasksType(task'),
           \A c \in Components :
             \/ task'[c] = task[c]
             \/ c = "cnpg" /\ run'.kind = "disable" /\ task'[c].pc = "remove",
           run'.kind = "disable" =>
             story = "install" /\ run'.only = {"shpyrd"} /\ run'.extensions = {},
           cloud'.phase \notin {"first", "address", "dns"} => "shpyrd" \in run'.only,
           cloud'.phase \notin {"address", "dns"}, story # "cloud" => cloud'.phase = "none",
           "postgres" \in run'.extensions => "cnpg" \in run'.only,
           UNCHANGED <<secrets, database, release, record, server, cut, story, token>>,
           misread => misread', misread' \in BOOLEAN,
           enabled' \in BOOLEAN, enabled' => enabled,
           enabled' /\ ~misread' => "postgres" \in run'.extensions,
           cloud' \in Clouds, settings' \in SettingsType, SettingsInv'
    PROVE  ClusterType' /\ ClusterInv'
  <1> USE DEF ClusterInv
  <1>1. \A c \in Components : task[c].pc \in {"none", "ok"}
    BY IdleFacts
  <1>2. ~At("registry-credentials", "htpasswd")
    BY <1>1, LevelFacts DEF At
  <1>3. ClusterType'
    BY DEF ClusterType, TasksType, Tasks
  <1>4. \A c \in Components :
          \/ task'[c].pc \in {"none", "ok"}
          \/ c = "cnpg" /\ run'.kind = "disable" /\ task'[c].pc = "remove"
    BY <1>1
  <1>5. ControlInv'
    <2>1. \A c \in Components :
            \/ Ended(c)'
            \/ c = "cnpg" /\ run'.kind = "disable" /\ task'[c].pc = "remove"
      BY <1>4 DEF Ended
    <2>2. /\ run'.level # 4 /\ run'.level # 2
          /\ cloud'.phase \in {"address", "dns"} => FALSE
      OBVIOUS
    <2>3. complete' \/ token' = "restart" => run'.kind = "none"
      OBVIOUS
    <2>4. complete' => token' = "none"
      OBVIOUS
    <2>5. \A c \in Components :
            \/ Ended(c)'
            \/ c = "cnpg" /\ run'.kind = "disable" /\ run'.level = 0
               /\ task'[c].pc \in {"remove", "uninstall", "uninstalling", "forget"}
      BY <2>1
    <2>6. run'.kind = "disable" =>
            \A c \in Components : Ended(c)' \/ c = "shpyrd" \/ (c = "cnpg" /\ run'.level = 0)
      BY <2>1
    <2> QED BY <2>2, <2>3, <2>4, <2>5, <2>6 DEF ControlInv
  <1>6. MakingInv'
    <2>1. \A c \in Components :
            /\ task'[c].pc \notin {"make", "replace", "htpasswd", "forget"}
            /\ task'[c].pc \in HelmPcs => c = "cnpg"
      BY <1>4 DEF HelmPcs
    <2> QED BY <2>1, ChartFacts DEF MakingInv, At
  <1>7. task'["shpyrd"] = task["shpyrd"] /\ task["shpyrd"].pc \in {"none", "ok"}
    BY <1>1, LevelFacts
  <1>8. CredentialInv'
    BY <1>2, <1>7 DEF CredentialInv
  <1>9. ExtensionInv'
    BY <1>1, <1>7, LevelFacts DEF ExtensionInv, At
  <1> QED BY <1>3, <1>5, <1>6, <1>8, <1>9

LEMMA InitialiseKeeps ==
    ASSUME ClusterType, ClusterInv, Initialise
    PROVE  ClusterType' /\ ClusterInv'
  <1> DEFINE only == IF story = "cloud" THEN Components \ CertificateComponents ELSE Components
  <1>1. /\ run = NoRun /\ token = "none"
        /\ cloud' = [cloud EXCEPT !.phase = IF story = "cloud" THEN "first" ELSE "none"]
        /\ UNCHANGED <<story, token, destroy, task, enabled>>
        /\ ClusterInit(only)
    BY DEF Initialise, Idle, ClusterInit
  <1>2. PICK extensions \in SUBSET {"postgres"}, user \in BOOLEAN :
          /\ Begin("init", only, extensions, user)
          /\ \/ record.extensions \subseteq extensions /\ misread' = misread
             \/ misread' = TRUE
    <2>1. record.extensions \in SUBSET {"postgres"}
      BY DEF ClusterType, Records
    <2> HIDE DEF only
    <2> QED BY <1>1, <2>1 DEF ClusterInit, Merged
  <1>3. /\ run' = [kind |-> "init", level |-> 0, only |-> only, extensions |-> extensions, user |-> user]
        /\ complete' = FALSE
        /\ UNCHANGED <<secrets, database, release, record, server, cut>>
    BY <1>2 DEF Begin
  <1>4. /\ only \in SUBSET Components /\ "cnpg" \in only
        /\ story # "cloud" => "shpyrd" \in only
    BY LevelFacts DEF CertificateComponents
  <1>5. /\ run' \in Runs /\ run'.kind = "init" /\ run'.level = 0 /\ run'.only = only
        /\ run'.extensions = extensions
    <2> HIDE DEF only
    <2> QED BY <1>3, <1>4 DEF Runs
  <1> HIDE DEF only
  <1>6. /\ cloud' \in Clouds
        /\ cloud'.phase = IF story = "cloud" THEN "first" ELSE "none"
    BY <1>1 DEF ClusterType, Clouds
  <1>7. misread \in BOOLEAN /\ enabled \in BOOLEAN
    BY DEF ClusterType
  <1>8. misread' \in BOOLEAN
    BY <1>2, <1>7
  <1>9. misread => misread'
    BY <1>2, <1>7
  <1>10. enabled /\ ~misread' => "postgres" \in extensions
    BY <1>2, <1>9 DEF ClusterInv, ExtensionInv
  <1>11. PICK given \in {"no", "set", "flag"} :
           settings' = [settings EXCEPT !.run = Seeded(given, misread' = misread)]
    BY DEF Initialise
  <1> DEFINE v == Seeded(given, misread' = misread)
  <1>12. /\ v \in Values
         /\ v.given = "set" => v.value = 8
         /\ v.given = "flag" => v.value = 9
         /\ v.given \in {"record", "overruled"} => settings.override # 0 /\ v.value = settings.override
         /\ v.given = "no" => v.value = settings.release
         /\ v.given = "no" /\ misread' = misread => settings.override = 0
    <2>1. settings.override \in Nat /\ settings.release \in {1, 2} /\ Default = settings.release
      BY DEF ClusterType, SettingsType, Default
    <2> DEFINE readable == misread' = misread
    <2>2. CASE given = "set"
      <3>1. v = [value |-> 8, given |-> "set"]
        BY <2>2 DEF Seeded
      <3> QED BY <3>1 DEF Values
    <2>3. CASE given # "set" /\ readable /\ settings.override # 0
      <3>1. v = [value |-> settings.override,
                 given |-> IF given = "flag" THEN "overruled" ELSE "record"]
        BY <2>3 DEF Seeded
      <3> QED BY <2>1, <2>3, <3>1 DEF Values
    <2>4. CASE given = "flag" /\ ~(readable /\ settings.override # 0)
      <3>1. v = [value |-> 9, given |-> "flag"]
        BY <2>4 DEF Seeded
      <3> QED BY <3>1 DEF Values
    <2>5. CASE given = "no" /\ ~(readable /\ settings.override # 0)
      <3>1. v = [value |-> Default, given |-> "no"]
        BY <2>5 DEF Seeded
      <3> QED BY <2>1, <2>5, <3>1 DEF Values
    <2> QED BY <2>2, <2>3, <2>4, <2>5
  <1>13. settings' = [settings EXCEPT !.run = v]
    BY <1>11
  <1> HIDE DEF v
  <1>14. /\ settings' \in SettingsType /\ settings'.run = v
         /\ settings'.asked = settings.asked /\ settings'.recorded = settings.recorded
         /\ settings'.override = settings.override /\ settings'.overruled = settings.overruled
         /\ settings'.frozen = settings.frozen /\ settings'.by = settings.by
         /\ settings'.release = settings.release /\ settings'.applied = settings.applied
    BY <1>12, <1>13 DEF ClusterType, SettingsType
  <1>15. ~misread' => misread' = misread
    BY <1>2
  <1>16. \A c \in Components : task[c].pc \in {"none", "ok"}
    BY <1>1, IdleFacts
  <1>17. SettingsInv'
    <2>1. /\ ~misread' => /\ settings.asked # 0 =>
                               /\ settings.recorded \in {8, 9}
                               /\ settings.override = settings.recorded
                               /\ ~settings.overruled => settings.recorded = settings.asked
                          /\ settings.asked = 0 /\ ~settings.frozen => settings.recorded = settings.by
      BY <1>9 DEF ClusterInv, SettingsInv
    <2> QED BY <1>1, <1>3, <1>5, <1>12, <1>14, <1>15, <1>16, <2>1, LevelFacts DEF SettingsInv, At
  <1>18. TasksType(task')
    BY <1>1 DEF ClusterType, TasksType, Tasks
  <1>19. /\ ~complete' /\ complete' \in BOOLEAN /\ enabled' \in BOOLEAN /\ (enabled' => enabled)
         /\ enabled' /\ ~misread' => "postgres" \in run'.extensions
    BY <1>1, <1>3, <1>5, <1>7, <1>10
  <1>20. /\ cloud'.phase \notin {"first", "address", "dns"} => "shpyrd" \in run'.only
         /\ cloud'.phase \notin {"address", "dns"}
         /\ story # "cloud" => cloud'.phase = "none"
         /\ "postgres" \in run'.extensions => "cnpg" \in run'.only
         /\ run'.kind # "disable" /\ run'.kind # "none"
    BY <1>4, <1>5, <1>6
  <1>21. /\ \A c \in Components : task'[c] = task[c]
         /\ UNCHANGED <<secrets, database, release, record, server, cut, story, token>>
    BY <1>1, <1>3
  <1> QED BY <1>1, <1>5, <1>6, <1>8, <1>9, <1>14, <1>17, <1>18, <1>19, <1>20, <1>21, BeginsKeeps

LEMMA ExtensionsKeeps ==
    ASSUME ClusterType, ClusterInv, Extensions
    PROVE  ClusterType' /\ ClusterInv'
  <1>1. /\ run = NoRun /\ token = "none" /\ story \in {"install", "settings"}
        /\ UNCHANGED <<story, token, destroy, cloud, misread>>
        /\ settings' = [settings EXCEPT !.run = Again]
    BY DEF Extensions, Idle, Enable, Disable
  <1>2. /\ cloud.phase = "none" /\ cloud \in Clouds
        /\ misread \in BOOLEAN /\ enabled \in BOOLEAN
        /\ record.extensions \in SUBSET {"postgres"}
    BY <1>1 DEF ClusterType, ClusterInv, ControlInv, Records
  <1>3. \A c \in Components : task[c].pc \in {"none", "ok"}
    BY <1>1, IdleFacts
  <1>4. /\ Again \in Values /\ Again.given = "record" /\ Again.value = settings.recorded
    BY DEF Again, Values, ClusterType, SettingsType
  <1>5. /\ settings' \in SettingsType /\ settings'.run = Again
        /\ settings'.asked = settings.asked /\ settings'.recorded = settings.recorded
        /\ settings'.override = settings.override /\ settings'.overruled = settings.overruled
        /\ settings'.frozen = settings.frozen /\ settings'.by = settings.by
        /\ settings'.release = settings.release /\ settings'.applied = settings.applied
    BY <1>1, <1>4 DEF ClusterType, SettingsType
  <1>6. ASSUME run'.level = 0, ~complete', task'["shpyrd"] = task["shpyrd"]
        PROVE  SettingsInv'
    BY <1>1, <1>3, <1>4, <1>5, <1>6, LevelFacts DEF ClusterInv, SettingsInv, At
  <1>7. CASE Enable
    <2>1. /\ run' = [kind |-> "enable", level |-> 0, only |-> {"cnpg", "shpyrd"},
                     extensions |-> record.extensions \cup {"postgres"}, user |-> FALSE]
          /\ complete' = FALSE
          /\ UNCHANGED <<task, enabled, secrets, database, release, record, server, cut>>
      BY <1>7 DEF Enable, Begin, Merged
    <2>2. /\ run' \in Runs /\ run'.kind = "enable" /\ run'.level = 0
          /\ run'.only = {"cnpg", "shpyrd"} /\ "postgres" \in run'.extensions
      BY <1>2, <2>1, LevelFacts DEF Runs
    <2>3. TasksType(task')
      BY <2>1 DEF ClusterType, TasksType, Tasks
    <2> QED BY <1>1, <1>2, <1>5, <1>6, <2>1, <2>2, <2>3, BeginsKeeps
  <1>8. CASE story = "install" /\ Disable
    <2>1. /\ run' = [kind |-> "disable", level |-> 0, only |-> {"shpyrd"}, extensions |-> {},
                     user |-> FALSE]
          /\ complete' = FALSE /\ enabled' = FALSE
          /\ Goto("cnpg", "remove")
          /\ UNCHANGED <<secrets, database, release, record, server, cut>>
      BY <1>8 DEF Disable, Begin
    <2>2. /\ run' \in Runs /\ run'.kind = "disable" /\ run'.level = 0
          /\ run'.only = {"shpyrd"} /\ run'.extensions = {}
      BY <2>1, LevelFacts DEF Runs
    <2>3. /\ TasksType(task') /\ task'["cnpg"].pc = "remove"
          /\ \A d \in Components : d # "cnpg" => task'[d] = task[d]
      BY <2>1, GotoFacts, LevelFacts DEF Pcs
    <2>4. task'["shpyrd"] = task["shpyrd"]
      BY <2>3, LevelFacts
    <2> QED BY <1>1, <1>2, <1>5, <1>6, <1>8, <2>1, <2>2, <2>3, <2>4, BeginsKeeps
  <1> QED BY <1>7, <1>8 DEF Extensions

LEMMA RecordingKeeps ==
    ASSUME ClusterType, ClusterInv, Recording
    PROVE  ClusterType' /\ ClusterInv'
  <1> USE DEF ClusterInv
  <1> DEFINE v == settings.run
             asked == IF v.given \in {"set", "flag"} THEN v.value ELSE settings.asked
             overruled == (settings.overruled \/ v.given = "overruled") /\ v.given # "set"
             frozen == asked = 0 /\ Override(v) # 0
  <1>1. /\ run.level = 4
        /\ \A c \in Components : task[c].pc \in {"none", "ok"}
        /\ record' = [record EXCEPT !.there = TRUE, !.extensions = run.extensions]
        /\ enabled' = (enabled \/ "postgres" \in run.extensions)
        /\ complete' = TRUE /\ run' = NoRun
        /\ task' = [c \in Components |-> NoTask]
        /\ UNCHANGED <<cancelled, secrets, database, release, server, misread, cut>>
        /\ UNCHANGED <<story, token, destroy, cloud>>
        /\ cloud.phase \in {"none", "all"}
    BY DEF Recording, RecordProfile
  <1>2. settings' = [settings EXCEPT !.recorded = v.value, !.by = Default,
                        !.override = Override(v), !.asked = asked, !.overruled = overruled,
                        !.frozen = frozen]
    <2>1. settings.overruled = settings.overruled
      OBVIOUS
    <2> QED BY DEF Recording
  <1>3. run.kind # "none" /\ token = "none"
    <2>1. run # NoRun
      BY <1>1 DEF NoRun
    <2> QED BY <2>1, IdleFacts
  <1>4. TasksType(task') /\ \A c \in Components : task'[c].pc = "none"
    BY <1>1, NoTaskFacts
  <1>5. /\ run' \in Runs /\ run'.kind = "none" /\ run'.level = 0
    BY <1>1 DEF Runs, NoRun
  <1>6. /\ run.extensions \in SUBSET {"postgres"}
        /\ record' \in Records /\ record'.extensions = run.extensions
    BY <1>1 DEF ClusterType, Runs, Records
  <1>7. enabled' \in BOOLEAN /\ complete' /\ complete' \in BOOLEAN
    BY <1>1
  <1>8. /\ v \in Values /\ v.value \in Nat \ {0} /\ asked \in Nat /\ Override(v) \in Nat
        /\ settings.release \in {1, 2} /\ Default = settings.release
    BY DEF ClusterType, SettingsType, Values, Override, Default
  <1>9. /\ settings' \in SettingsType /\ settings'.recorded = v.value /\ settings'.by = Default
        /\ settings'.override = Override(v) /\ settings'.asked = asked
        /\ settings'.overruled = overruled /\ settings'.frozen = frozen
        /\ settings'.run = settings.run /\ settings'.applied = settings.applied
    <2>1. overruled \in BOOLEAN /\ frozen \in BOOLEAN /\ settings \in SettingsType
      BY DEF ClusterType
    <2>2. Default \in Nat
      BY <1>8
    <2> DEFINE o == Override(v)
               d == Default
               n == v.value
    <2>3. settings' = [settings EXCEPT !.recorded = n, !.by = d, !.override = o, !.asked = asked,
                                       !.overruled = overruled, !.frozen = frozen]
      BY <1>2
    <2>4. n \in Nat \ {0} /\ d \in Nat /\ o \in Nat /\ asked \in Nat
      BY <1>8, <2>2
    <2> HIDE DEF asked, overruled, frozen, o, d, n
    <2>5. /\ settings' \in SettingsType
          /\ settings'.recorded = n /\ settings'.by = d /\ settings'.override = o
          /\ settings'.asked = asked /\ settings'.overruled = overruled /\ settings'.frozen = frozen
          /\ settings'.run = settings.run /\ settings'.applied = settings.applied
      BY <2>1, <2>3, <2>4 DEF SettingsType
    <2> QED BY <2>5 DEF n, d, o
  <1>10. ClusterType'
    BY <1>1, <1>4, <1>5, <1>6, <1>7, <1>9 DEF ClusterType, TasksType, Tasks
  <1>11. ControlInv'
    BY <1>1, <1>3, <1>4, <1>5, LevelFacts DEF ControlInv, Idling, Resting, Ended, At
  <1>12. MakingInv'
    BY <1>4, NothingMade
  <1>13. At("shpyrd", "ok")
    BY <1>1, <1>3, LevelFacts DEF ControlInv, At
  <1>14. CredentialInv'
    BY <1>1, <1>4, <1>13, LevelFacts DEF CredentialInv, At
  <1>15. ExtensionInv'
    <2>1. server.pods = run.extensions /\ server.spec = run.extensions
      BY <1>1, <1>13 DEF ExtensionInv, At
    <2>2. "postgres" \in run.extensions => release["cnpg"].status = "deployed"
      BY <1>1 DEF ExtensionInv
    <2>3. enabled' /\ ~misread => "postgres" \in run.extensions
      BY <1>1, <1>3 DEF ExtensionInv
    <2> QED BY <1>1, <1>3, <1>4, <1>5, <1>6, <2>1, <2>2, <2>3, LevelFacts DEF ExtensionInv, At
  <1>16. SettingsInv'
    <2>1. v.given \in {"no", "set", "flag", "record", "overruled"}
      BY <1>8 DEF Values
    <2>2. settings.applied = v.value
      BY <1>1, <1>13 DEF SettingsInv, At
    <2>3. /\ v.given = "set" => v.value = 8
          /\ v.given = "flag" => v.value = 9
      BY DEF SettingsInv
    <2>4. ASSUME ~misread
          PROVE  /\ asked # 0 => /\ v.value \in {8, 9} /\ Override(v) = v.value
                                 /\ ~overruled => v.value = asked
                 /\ asked = 0 /\ ~frozen => v.value = Default
      <3>1. /\ settings.asked # 0 =>
                 /\ settings.recorded \in {8, 9} /\ settings.override = settings.recorded
                 /\ ~settings.overruled => settings.recorded = settings.asked
            /\ v.given = "no" => settings.override = 0 /\ v.value = settings.release
            /\ v.given = "overruled" => settings.override # 0
            /\ v.given \in {"record", "overruled"} =>
                 v.value = IF settings.override # 0 /\ v.value = settings.override
                           THEN settings.override ELSE settings.recorded
        BY <1>3, <2>4 DEF SettingsInv
      <3>2. CASE v.given \in {"set", "flag"}
        BY <1>8, <2>3, <3>2 DEF Override
      <3>3. CASE v.given = "no"
        BY <1>8, <3>1, <3>3 DEF Override
      <3>4. CASE v.given \in {"record", "overruled"}
        BY <1>8, <3>1, <3>4 DEF Override
      <3> QED BY <2>1, <3>2, <3>3, <3>4
    <2> HIDE DEF asked, overruled, frozen, v
    <2>5. v = settings.run
      BY DEF v
    <2> QED BY <1>1, <1>4, <1>5, <1>9, <2>2, <2>3, <2>4, <2>5, LevelFacts DEF SettingsInv, At
  <1> QED BY <1>10, <1>11, <1>12, <1>14, <1>15, <1>16

LEMMA CloudFacts ==
    ASSUME ClusterType, ClusterInv, cloud.phase \in {"first", "address", "dns"}
    PROVE  cloud \in Clouds /\ story = "cloud" /\ run.kind # "disable"
  BY DEF ClusterType, ClusterInv, ControlInv

LEMMA FirstPhaseDoneKeeps ==
    ASSUME ClusterType, ClusterInv, FirstPhaseDone
    PROVE  ClusterType' /\ ClusterInv'
  <1> USE DEF ClusterInv
  <1>1. /\ run.level = 4 /\ cloud.phase = "first"
        /\ \A c \in Components : task[c].pc \in {"none", "ok"}
        /\ record' = [record EXCEPT !.there = TRUE, !.extensions = run.extensions]
        /\ UNCHANGED <<run, task, cancelled, secrets, database, release, server, enabled,
                       misread, cut, complete, story, settings, token, destroy>>
    BY DEF FirstPhaseDone
  <1>2. run.kind # "none" /\ ~complete /\ token = "none"
    <2>1. run # NoRun
      BY <1>1 DEF NoRun
    <2> QED BY <2>1, IdleFacts
  <1>3. cloud' \in Clouds /\ cloud'.phase = "address"
    <2>1. cloud \in Clouds
      BY DEF ClusterType
    <2> DEFINE disks == [cloud.disks EXCEPT !["platform"] = "bound"]
               running == cloud.running \cup {"platform"}
               balancer == IF cloud.balancer = "gone" THEN "pending" ELSE cloud.balancer
    <2>2. /\ disks \in [Namespaces -> {"gone", "bound", "deleted"}]
          /\ running \in SUBSET Namespaces
          /\ balancer \in {"gone", "pending", "up", "terminating"}
      BY <2>1 DEF Clouds, Namespaces
    <2>3. cloud' = [cloud EXCEPT !.phase = "address", !.disks = disks, !.running = running,
                                 !.balancer = balancer]
      BY <2>1 DEF FirstPhaseDone, Clouds
    <2> HIDE DEF disks, running, balancer
    <2> QED BY <2>1, <2>2, <2>3 DEF Clouds
  <1>4. record' \in Records /\ record'.extensions = run.extensions
    BY <1>1 DEF ClusterType, Runs, Records
  <1>5. ClusterType'
    BY <1>1, <1>3, <1>4 DEF ClusterType
  <1>6. Idling
    BY <1>1 DEF Idling, Resting
  <1>7. ControlInv'
    BY <1>1, <1>2, <1>3, <1>6, CloudFacts DEF ControlInv, Idling, Resting, Ended, At
  <1>8. MakingInv'
    BY <1>1 DEF MakingInv, At, Hook
  <1>9. CredentialInv'
    BY <1>1 DEF CredentialInv, At
  <1>10. ExtensionInv'
    BY <1>1, <1>2, <1>4 DEF ExtensionInv, At
  <1>11. SettingsInv'
    BY <1>1 DEF SettingsInv, At
  <1> QED BY <1>5, <1>7, <1>8, <1>9, <1>10, <1>11

\* Waiting for the load balancer and the DNS record, in vain or not.
LEMMA WaitsKeep ==
    ASSUME ClusterType, ClusterInv, WaitForLoadBalancer \/ WaitForDNS \/ WaitFails
    PROVE  ClusterType' /\ ClusterInv'
  <1> USE DEF ClusterInv
  <1>1. /\ UNCHANGED <<task, cancelled, secrets, database, release, record, server, enabled,
                       misread, cut, complete, story, settings, token, destroy>>
        /\ run # NoRun /\ cloud.phase \in {"address", "dns"}
    BY DEF WaitForLoadBalancer, WaitForDNS, WaitFails, installerVars
  <1>2. run.kind # "none" /\ ~complete /\ token = "none" /\ run.level = 4 /\ Idling
    BY <1>1, IdleFacts DEF ControlInv
  <1>3. story = "cloud" /\ run.kind # "disable" /\ cloud \in Clouds
    BY <1>1, CloudFacts
  <1>4. \A c \in Components : task[c].pc \in {"none", "ok"}
    BY <1>2, IdleFacts
  <1>5. \/ run' = run /\ cloud' = [cloud EXCEPT !.phase = "dns"]
        \/ run' = [run EXCEPT !.level = 0, !.only = Components] /\ cloud' = [cloud EXCEPT !.phase = "all"]
        \/ run' = NoRun /\ cloud' = [cloud EXCEPT !.phase = "none"]
    BY DEF WaitForLoadBalancer, WaitForDNS, WaitFails, installerVars
  <1>6. cloud' \in Clouds
    BY <1>3, <1>5 DEF Clouds
  <1>7. /\ run' \in Runs
        /\ \/ run' = run /\ cloud'.phase = "dns"
           \/ /\ run'.kind = run.kind /\ run'.level = 0 /\ run'.only = Components
              /\ run'.extensions = run.extensions /\ cloud'.phase = "all"
           \/ run' = NoRun /\ run'.kind = "none" /\ run'.level = 0 /\ cloud'.phase = "none"
    <2>1. run \in Runs
      BY DEF ClusterType
    <2>2. CASE run' = run /\ cloud' = [cloud EXCEPT !.phase = "dns"]
      BY <1>3, <2>1, <2>2 DEF Clouds
    <2>3. CASE run' = [run EXCEPT !.level = 0, !.only = Components] /\ cloud' = [cloud EXCEPT !.phase = "all"]
      <3>1. cloud'.phase = "all"
        BY <1>3, <2>3 DEF Clouds
      <3> DEFINE all == Components
      <3>2. run' = [run EXCEPT !.level = 0, !.only = all] /\ all \in SUBSET Components
        BY <2>3
      <3> HIDE DEF all
      <3>3. /\ run' \in Runs /\ run'.kind = run.kind /\ run'.level = 0 /\ run'.only = all
            /\ run'.extensions = run.extensions
        <4> DEFINE none == 0
        <4>1. none \in 0 .. 4
          OBVIOUS
        <4>2. run' = [run EXCEPT !.level = none, !.only = all]
          BY <3>2
        <4> HIDE DEF none
        <4>3. /\ run' \in Runs /\ run'.kind = run.kind /\ run'.level = none /\ run'.only = all
              /\ run'.extensions = run.extensions
          BY <2>1, <3>2, <4>1, <4>2 DEF Runs
        <4> QED BY <4>3 DEF none
      <3>4. run'.only = Components
        BY <3>3 DEF all
      <3> QED BY <3>1, <3>3, <3>4
    <2>4. CASE run' = NoRun /\ cloud' = [cloud EXCEPT !.phase = "none"]
      <3>1. cloud'.phase = "none"
        BY <1>3, <2>4 DEF Clouds
      <3>2. NoRun \in Runs /\ NoRun.kind = "none" /\ NoRun.level = 0
        BY DEF Runs, NoRun
      <3> QED BY <2>4, <3>1, <3>2
    <2> QED BY <1>5, <2>2, <2>3, <2>4
  <1>8. ClusterType'
    BY <1>1, <1>6, <1>7 DEF ClusterType
  <1>9. ControlInv'
    <2>1. \A c \in Components : Ended(c)'
      BY <1>1, <1>4 DEF Ended
    <2>2. Idling'
      BY <1>1, <1>2 DEF Idling, Resting
    <2> QED BY <1>1, <1>2, <1>3, <1>7, <2>1, <2>2, LevelFacts DEF ControlInv, At
  <1>10. MakingInv'
    BY <1>1, <1>4, NothingMade
  <1>11. CredentialInv'
    BY <1>1 DEF CredentialInv, At
  <1>12. ExtensionInv'
    BY <1>1, <1>2, <1>4, <1>7, LevelFacts DEF ExtensionInv, At
  <1>13. SettingsInv'
    BY <1>1, <1>2, <1>4, <1>7, LevelFacts DEF SettingsInv, At
  <1> QED BY <1>8, <1>9, <1>10, <1>11, <1>12, <1>13

LEMMA NewReleaseKeeps ==
    ASSUME ClusterType, ClusterInv, NewRelease
    PROVE  ClusterType' /\ ClusterInv'
  <1> USE DEF ClusterInv
  <1>1. /\ UNCHANGED <<run, task, cancelled, secrets, database, release, record, server, enabled,
                       misread, cut, complete, story, token, destroy, cloud>>
        /\ run.kind = "none" /\ settings' = [settings EXCEPT !.release = 2]
    BY IdleFacts DEF NewRelease, Idle, installerVars
  <1>2. /\ settings' \in SettingsType /\ settings'.run = settings.run
        /\ settings'.asked = settings.asked /\ settings'.recorded = settings.recorded
        /\ settings'.override = settings.override /\ settings'.overruled = settings.overruled
        /\ settings'.frozen = settings.frozen /\ settings'.by = settings.by
        /\ settings'.applied = settings.applied
    BY <1>1 DEF ClusterType, SettingsType
  <1>3. ClusterType'
    BY <1>1, <1>2 DEF ClusterType
  <1>4. ControlInv' /\ MakingInv'
    BY <1>1 DEF ControlInv, MakingInv, Idling, Resting, Ended, At, Hook
  <1>5. CredentialInv' /\ ExtensionInv'
    BY <1>1 DEF CredentialInv, ExtensionInv, At
  <1>6. SettingsInv'
    BY <1>1, <1>2 DEF SettingsInv, At
  <1> QED BY <1>3, <1>4, <1>5, <1>6

LEMMA TokenKeeps ==
    ASSUME ClusterType, ClusterInv, SetTokenDisabled \/ RotateAdminToken
    PROVE  ClusterType' /\ ClusterInv'
  <1> USE DEF ClusterInv
  <1>1. PICK value, off :
          /\ value = secrets["token"] \/ value \in 1 .. 3
          /\ off \in {0, 1}
          /\ TokenCommand(value, off)
    BY AnotherFacts DEF SetTokenDisabled, RotateAdminToken
  <1>2. /\ UNCHANGED <<run, task, cancelled, database, release, record, server, enabled,
                       misread, cut, story, settings, destroy, cloud>>
        /\ secrets' = [secrets EXCEPT !["token"] = value, !["disabled"] = off]
        /\ token' = "restart" /\ complete' = FALSE /\ complete
        /\ run = NoRun /\ token = "none"
    BY <1>1 DEF TokenCommand, Idle
  <1>3. run.kind = "none" /\ \A c \in Components : task[c].pc \in {"none", "ok"}
    BY <1>2, IdleFacts
  <1>4. /\ secrets' \in [SecretNames -> Nat]
        /\ secrets'["token"] = value
        /\ \A s \in SecretNames : s \notin {"token", "disabled"} => secrets'[s] = secrets[s]
    BY <1>1, <1>2 DEF ClusterType, SecretNames
  <1>5. ClusterType'
    BY <1>2, <1>4 DEF ClusterType
  <1>6. ControlInv'
    BY <1>2, <1>3 DEF ControlInv, Idling, Resting, Ended, At
  <1>7. MakingInv'
    BY <1>2, <1>3, NothingMade
  <1>8. CredentialInv'
    <2>1. secrets'["db"] = secrets["db"] /\ secrets'["htpasswd"] = secrets["htpasswd"]
          /\ secrets'["registry"] = secrets["registry"]
      BY <1>4 DEF SecretNames
    <2>2. secrets["token"] # 0 => secrets'["token"] # 0
      BY <1>1, <1>4
    <2> QED BY <1>2, <2>1, <2>2 DEF CredentialInv, At
  <1>9. ExtensionInv' /\ SettingsInv'
    BY <1>2 DEF ExtensionInv, SettingsInv, At
  <1> QED BY <1>5, <1>6, <1>7, <1>8, <1>9

LEMMA RestartKeeps ==
    ASSUME ClusterType, ClusterInv, Restart
    PROVE  ClusterType' /\ ClusterInv'
  <1> USE DEF ClusterInv
  <1>1. /\ UNCHANGED <<run, task, cancelled, secrets, database, release, record, enabled,
                       misread, story, settings, destroy, cloud>>
        /\ token = "restart" /\ token' = "none"
        /\ \/ server' = [server EXCEPT !.old = TRUE] /\ complete' = TRUE /\ cut' = cut
           \/ server' = server /\ complete' = complete /\ cut' = TRUE
    BY DEF Restart, RestartServer
  <1>2. run.kind = "none" /\ ~complete
    BY <1>1 DEF ControlInv
  <1>3. /\ server' \in Servers /\ server'.token = server.token /\ server'.off = server.off
        /\ server'.pods = server.pods /\ server'.spec = server.spec
        /\ \/ server'.old /\ complete' = TRUE /\ cut' = cut
           \/ server'.old = server.old /\ complete' = complete /\ cut' = TRUE
    BY <1>1 DEF ClusterType, Servers
  <1>4. complete' \in BOOLEAN /\ cut' \in BOOLEAN /\ (cut => cut')
    <2>1. complete \in BOOLEAN /\ cut \in BOOLEAN
      BY DEF ClusterType
    <2>2. CASE complete' = TRUE /\ cut' = cut
      BY <2>1, <2>2
    <2>3. CASE complete' = complete /\ cut' = TRUE
      BY <2>1, <2>3
    <2> QED BY <1>3, <2>2, <2>3
  <1>5. ClusterType'
    BY <1>1, <1>3, <1>4 DEF ClusterType
  <1>6. ControlInv'
    BY <1>1, <1>2 DEF ControlInv, Idling, Resting, Ended, At
  <1>7. MakingInv'
    BY <1>1 DEF MakingInv, At, Hook
  <1>8. CredentialInv'
    BY <1>1, <1>2, <1>3 DEF CredentialInv, At
  <1>9. ExtensionInv'
    <2>1. ~server'.old => ~server.old
      BY <1>1 DEF ClusterType, Servers
    <2>2. run.level = 0
      BY <1>2 DEF ControlInv, NoRun
    <2> QED BY <1>1, <1>2, <1>3, <2>1, <2>2 DEF ExtensionInv, At
  <1>10. SettingsInv'
    BY <1>1, <1>2 DEF SettingsInv, At
  <1> QED BY <1>5, <1>6, <1>7, <1>8, <1>9, <1>10

----------------------------------------------------------------------------
(* Destroying, and what the cloud does.                                     *)

LEMMA QuietKeeps ==
    ASSUME ClusterType, ClusterInv,
           UNCHANGED <<run, task, secrets, database, release, server, enabled, cut,
                       complete, story, settings, token>>,
           record' \in Records, record'.extensions = record.extensions,
           misread' \in BOOLEAN, misread => misread',
           cloud' \in Clouds, cloud'.phase = cloud.phase
    PROVE  ClusterType' /\ ClusterInv'
  <1> USE DEF ClusterInv
  <1>1. ClusterType'
    BY DEF ClusterType
  <1>2. ControlInv'
    BY DEF ControlInv, Idling, Resting, Ended, At
  <1>3. MakingInv'
    BY DEF MakingInv, At, Hook
  <1>4. CredentialInv'
    BY DEF CredentialInv, At
  <1>5. ExtensionInv'
    BY DEF ExtensionInv, At
  <1>6. SettingsInv'
    BY DEF SettingsInv, At
  <1> QED BY <1>1, <1>2, <1>3, <1>4, <1>5, <1>6

LEMMA DestroyKeeps ==
    ASSUME ClusterType, ClusterInv, StartDestroy \/ DestroyStep \/ DestroyFails
    PROVE  ClusterType' /\ ClusterInv'
  <1>1. UNCHANGED <<run, task, cancelled, secrets, database, release, server, enabled, cut,
                    complete, story, settings, token>>
    BY DEF StartDestroy, DestroyStep, DestroyFails, DeleteProjects, AwaitProjects,
           DeleteIngresses, Withdraw, DeleteBalancers, AwaitBalancers, DeleteDisks, AwaitDisks,
           Forgetting, Destroying
  <1>2. record' = record \/ record' = [record EXCEPT !.there = FALSE]
    BY DEF StartDestroy, DestroyStep, DestroyFails, DeleteProjects, AwaitProjects,
           DeleteIngresses, Withdraw, DeleteBalancers, AwaitBalancers, DeleteDisks, AwaitDisks,
           Forgetting
  <1>3. misread' = misread \/ misread' = TRUE
    BY DEF StartDestroy, DestroyStep, DestroyFails, DeleteProjects, AwaitProjects,
           DeleteIngresses, Withdraw, DeleteBalancers, AwaitBalancers, DeleteDisks, AwaitDisks,
           Forgetting
  <1>4. cloud \in Clouds /\ misread \in BOOLEAN /\ record \in Records
    BY DEF ClusterType
  <1>5. cloud' \in Clouds /\ cloud'.phase = cloud.phase
    <2>1. CASE UNCHANGED cloud
      BY <1>4, <2>1
    <2>2. CASE DeleteProjects
      BY <1>4, <2>2 DEF DeleteProjects, Clouds
    <2>3. CASE DeleteIngresses
      BY <1>4, <2>3 DEF DeleteIngresses, Clouds
    <2>4. CASE DeleteBalancers
      BY <1>4, <2>4 DEF DeleteBalancers, Clouds
    <2>5. CASE DeleteDisks
      <3> DEFINE claims == {n \in Namespaces : cloud.disks[n] # "gone"}
                 disks == [n \in Namespaces |-> IF n \in claims THEN "deleted" ELSE "gone"]
                 running == cloud.running \ claims
      <3>1. /\ disks \in [Namespaces -> {"gone", "bound", "deleted"}]
            /\ running \in SUBSET Namespaces
        BY <1>4 DEF Clouds
      <3>2. cloud' = [cloud EXCEPT !.running = running, !.disks = disks]
        BY <2>5 DEF DeleteDisks
      <3> HIDE DEF disks, running
      <3> QED BY <1>4, <3>1, <3>2 DEF Clouds
    <2> QED BY <2>1, <2>2, <2>3, <2>4, <2>5
         DEF StartDestroy, DestroyStep, DestroyFails, AwaitProjects, Withdraw, AwaitBalancers,
             AwaitDisks, Forgetting
  <1>6. record' \in Records /\ record'.extensions = record.extensions
    BY <1>2, <1>4 DEF Records
  <1>7. misread' \in BOOLEAN
    BY <1>3, <1>4
  <1>8. misread => misread'
    BY <1>3, <1>4
  <1> QED BY <1>1, <1>5, <1>6, <1>7, <1>8, QuietKeeps

LEMMA CloudKeeps ==
    ASSUME ClusterType, ClusterInv, Cloud
    PROVE  ClusterType' /\ ClusterInv'
  <1>1. UNCHANGED <<run, task, secrets, database, release, record, server, enabled, misread,
                    cut, complete, story, settings, token>>
    BY DEF Cloud, BalancerUp, NamespaceGone, BalancerGone, ExternalDNS, Controllers, DiskGone,
           CloudDoes, installerVars
  <1>2. cloud \in Clouds /\ misread \in BOOLEAN /\ record \in Records
    BY DEF ClusterType
  <1>3. /\ cloud.disks \in [Namespaces -> {"gone", "bound", "deleted"}]
        /\ cloud.running \in SUBSET Namespaces
        /\ cloud.records \in SUBSET {"host", "wildcard"}
    BY <1>2 DEF Clouds
  <1>4. cloud' \in Clouds /\ cloud'.phase = cloud.phase
    <2>1. CASE BalancerUp \/ BalancerGone
      BY <1>2, <2>1 DEF BalancerUp, BalancerGone, CloudDoes, Clouds
    <2>2. CASE NamespaceGone
      <3> DEFINE disks == [cloud.disks EXCEPT !["project"] = "gone"]
                 running == cloud.running \ {"project"}
      <3>1. disks \in [Namespaces -> {"gone", "bound", "deleted"}] /\ running \in SUBSET Namespaces
        BY <1>3 DEF Namespaces
      <3>2. cloud' = [cloud EXCEPT !.project = "gone", !.disks = disks, !.running = running]
        BY <1>2, <2>2 DEF NamespaceGone, CloudDoes, Clouds
      <3> HIDE DEF disks, running
      <3> QED BY <1>2, <3>1, <3>2 DEF Clouds
    <2>3. CASE \E n \in Namespaces : DiskGone(n)
      <3>1. PICK n \in Namespaces : cloud' = [cloud EXCEPT !.disks[n] = "gone"]
        BY <2>3 DEF DiskGone, CloudDoes
      <3> DEFINE disks == [cloud.disks EXCEPT ![n] = "gone"]
      <3>2. disks \in [Namespaces -> {"gone", "bound", "deleted"}]
        BY <1>3
      <3>3. cloud' = [cloud EXCEPT !.disks = disks]
        BY <1>2, <3>1 DEF Clouds
      <3> HIDE DEF disks
      <3> QED BY <1>2, <3>2, <3>3 DEF Clouds
    <2>4. CASE ExternalDNS
      <3>1. PICK records \in SUBSET {"host", "wildcard"} : cloud' = [cloud EXCEPT !.records = records]
        <4> DEFINE records == (IF cloud.ingress THEN {"host"} ELSE {})
                        \cup (CASE cloud.balancer = "up" -> {"wildcard"}
                                [] cloud.balancer = "gone" -> {}
                                [] OTHER -> cloud.records \cap {"wildcard"})
        <4>1. records \in SUBSET {"host", "wildcard"}
          OBVIOUS
        <4>2. cloud' = [cloud EXCEPT !.records = records]
          BY <2>4 DEF ExternalDNS, CloudDoes
        <4> QED BY <4>1, <4>2
      <3> QED BY <1>2, <3>1 DEF Clouds
    <2>5. CASE Controllers
      <3> DEFINE running == cloud.running \cup {"project"}
                 disks == [cloud.disks EXCEPT !["project"] = "bound"]
      <3>1. disks \in [Namespaces -> {"gone", "bound", "deleted"}] /\ running \in SUBSET Namespaces
        BY <1>3 DEF Namespaces
      <3>2. \/ cloud' = [cloud EXCEPT !.running = running]
            \/ cloud' = [cloud EXCEPT !.project = "up", !.disks = disks, !.running = running]
        BY <1>2, <2>5 DEF Controllers, CloudDoes, Clouds
      <3> HIDE DEF disks, running
      <3> QED BY <1>2, <3>1, <3>2 DEF Clouds
    <2> QED BY <2>1, <2>2, <2>3, <2>4, <2>5 DEF Cloud
  <1> QED BY <1>1, <1>2, <1>4, QuietKeeps

----------------------------------------------------------------------------
LEMMA ClusterStart == ASSUME InitCluster PROVE ClusterType /\ ClusterInv
  <1> USE DEF InitCluster, InstallerInit
  <1>1. TasksType(task) /\ \A c \in Components : task[c].pc = "none"
    <2>1. NoTask \in [pc : Pcs, hooks : AllHooks] /\ NoTask.pc = "none" /\ NoTask.hooks = <<>>
      <3>1. <<>> \in AllHooks
        BY DEF AllHooks
      <3> QED BY <3>1 DEF NoTask, Pcs
    <2>2. \A c \in Components : <<>> \in Hooks[c]
      BY HookFacts
    <2>3. \A c \in Components : task[c] = NoTask
      OBVIOUS
    <2> QED BY <2>1, <2>2, <2>3 DEF TasksType, Tasks
  <1>2. run \in Runs /\ run.kind = "none" /\ run.level = 0
    BY DEF Runs, NoRun
  <1>3. /\ secrets \in [SecretNames -> Nat] /\ \A s \in SecretNames : secrets[s] = 0
        /\ database \in Nat
    BY DEF SecretNames
  <1>4. release \in [Charts -> [status : Statuses, version : Nat, deployed : BOOLEAN]]
    BY DEF NoRelease, Statuses
  <1>5. record \in Records /\ server \in Servers
    BY DEF Records, Servers
  <1>6. settings \in SettingsType
    BY DEF SettingsType, Values
  <1>7. cloud \in Clouds
    BY DEF Clouds
  <1>8. ClusterType
    BY <1>1, <1>2, <1>3, <1>4, <1>5, <1>6, <1>7 DEF ClusterType, TasksType, Tasks
  <1>9. ControlInv
    BY <1>1, <1>2 DEF ControlInv, Idling, Resting, Ended
  <1>10. MakingInv
    BY <1>1 DEF MakingInv, At, HelmPcs
  <1>11. CredentialInv
    BY <1>1, <1>3, LevelFacts DEF CredentialInv, SecretNames
  <1>12. ExtensionInv
    BY <1>1, <1>2, LevelFacts DEF ExtensionInv, At
  <1>13. SettingsInv
    BY <1>1, <1>2, LevelFacts DEF SettingsInv, At
  <1> QED BY <1>8, <1>9, <1>10, <1>11, <1>12, <1>13 DEF ClusterInv

LEMMA GoingKeeps ==
    ASSUME ClusterType, ClusterInv, Going
    PROVE  ClusterType' /\ ClusterInv'
  <1>1. UNCHANGED clusterVars
    BY DEF Going
  <1>2. CASE NextLevel \/ EndRun \/ Rollout
    BY <1>1, <1>2, NextLevelKeeps, EndRunKeeps, RolloutKeeps
  <1>3. ASSUME NEW c \in Components, Fail(c) PROVE ClusterType' /\ ClusterInv'
    BY <1>1, <1>3, FailKeeps
  <1>4. ASSUME NEW c \in Components, ~(c = "shpyrd" /\ At(c, "apply")), Component(c)
        PROVE  ClusterType' /\ ClusterInv'
    <2>1. ApplyAll(c) => c # "shpyrd"
      BY <1>4 DEF ApplyAll
    <2>2. CASE ReadSecret(c)
      BY <1>1, <2>2, ReadSecretKeeps
    <2>3. CASE MakeSecret(c)
      BY <1>1, <2>3, MakeSecretKeeps
    <2>4. CASE MakeHtpasswd(c)
      BY <1>1, <2>4, MakeHtpasswdKeeps
    <2>5. CASE History(c)
      BY <1>1, <2>5, HistoryKeeps
    <2>6. CASE HelmBegins(c) \/ HelmRefuses(c) \/ HelmEnds(c)
      BY <1>1, <2>6, HelmKeeps
    <2>7. CASE ApplyAll(c) \/ Wait(c) \/ Record(c) \/ Remove(c) \/ Forget(c)
      BY <1>1, <2>1, <2>7, OthersKeep
    <2> QED BY <1>4, <2>2, <2>3, <2>4, <2>5, <2>6, <2>7 DEF Component
  <1> QED BY <1>2, <1>3, <1>4 DEF Going

LEMMA ClusterStep ==
    ASSUME ClusterType, ClusterInv, [ClusterNext]_allVars
    PROVE  ClusterType' /\ ClusterInv'
  <1>1. CASE UNCHANGED allVars
    <2>1. UNCHANGED <<run, task, secrets, database, release, record, server, enabled, misread,
                      cut, complete, story, settings, token, cloud>>
      BY <1>1 DEF allVars, installerVars, clusterVars
    <2>2. cloud \in Clouds /\ misread \in BOOLEAN /\ record \in Records
      BY DEF ClusterType
    <2> QED BY <2>1, <2>2, QuietKeeps
  <1>2. CASE Initialise \/ Extensions \/ ServerApplied \/ Recording
    BY <1>2, InitialiseKeeps, ExtensionsKeeps, ServerAppliedKeeps, RecordingKeeps
  <1>3. CASE NewRelease \/ Going \/ FirstPhaseDone
    BY <1>3, NewReleaseKeeps, GoingKeeps, FirstPhaseDoneKeeps
  <1>4. CASE WaitForLoadBalancer \/ WaitForDNS \/ WaitFails
    BY <1>4, WaitsKeep
  <1>5. CASE SetTokenDisabled \/ RotateAdminToken \/ Restart
    BY <1>5, TokenKeeps, RestartKeeps
  <1>6. CASE StartDestroy \/ DestroyStep \/ DestroyFails \/ Cloud
    BY <1>6, DestroyKeeps, CloudKeeps
  <1> QED BY <1>1, <1>2, <1>3, <1>4, <1>5, <1>6 DEF ClusterNext

(***************************************************************************)
(* Every reachable state of the installer, the token command and the cloud *)
(* is well typed and in the inductive invariant, for any number of faults: *)
(* only the runlevel of the one command is at work, and who makes a Secret *)
(* found none unless a read failed.                                        *)
(***************************************************************************)
THEOREM ClusterInvHolds == ClusterSpec => [](ClusterType /\ ClusterInv)
  <1>1. InitCluster => ClusterType /\ ClusterInv
    BY ClusterStart
  <1>2. ClusterType /\ ClusterInv /\ [ClusterNext]_allVars => (ClusterType /\ ClusterInv)'
    BY ClusterStep
  <1> QED BY <1>1, <1>2, PTL DEF ClusterSpec

(***************************************************************************)
(* The two ends of a credential agree, however many runs of the installer  *)
(* failed, were killed and were repeated in between (hooks.go).            *)
(***************************************************************************)
THEOREM CredentialsHold == ClusterSpec => []CredentialsAgree
  <1>1. ClusterType /\ ClusterInv => CredentialsAgree
    <2> SUFFICES ASSUME ClusterType, ClusterInv PROVE CredentialsAgree
      OBVIOUS
    <2>1. complete => run.kind = "none" /\ token = "none"
      BY DEF ClusterInv, ControlInv
    <2>2. run.level > 1 \/ complete => ~At("registry-credentials", "htpasswd")
      <3>1. complete => \A c \in Components : task[c].pc \in {"none", "ok"}
        BY <2>1, IdleFacts
      <3>2. CASE run.level > 1
        BY <3>2, LevelFacts DEF ClusterInv, ControlInv, Ended, At
      <3> QED BY <3>1, <3>2, LevelFacts DEF At
    <2> QED BY <2>1, <2>2 DEF ClusterInv, CredentialInv, CredentialsAgree
  <1> QED BY <1>1, ClusterInvHolds, PTL

(***************************************************************************)
(* An enabled extension stays recorded through every later run, and after  *)
(* one that went through the server runs with the recorded ones (runInit). *)
(***************************************************************************)
THEOREM EnabledHold == ClusterSpec => []EnabledStays
  <1>1. ClusterType /\ ClusterInv => EnabledStays
    BY DEF ClusterInv, ExtensionInv, EnabledStays
  <1> QED BY <1>1, ClusterInvHolds, PTL

(***************************************************************************)
(* A setting given once is kept across runs and releases; one never given  *)
(* is the default of the release that ran last (seedFromRecord).           *)
(***************************************************************************)
THEOREM SettingsHold == ClusterSpec => []SettingsKept
  <1>1. ClusterType /\ ClusterInv => SettingsKept
    BY DEF ClusterInv, SettingsInv, SettingsKept
  <1> QED BY <1>1, ClusterInvHolds, PTL

----------------------------------------------------------------------------
(* Membership.                                                              *)

USE ConstantsAssumption

---------------------------------------------------------------------------
(* The inductive invariant.                                                 *)

\* Nothing is newer than the store.
NothingNewer ==
    /\ \A h \in handlers : h.version <= version
    /\ \A r \in Replicas : loads[r] <= version /\ told[r] <= version
    /\ \A t \in Targets : bindings[t] <= version
    /\ notified <= version /\ pass.from <= version

\* A load in progress read the store after the last change its replica was told of.
LoadsNewEnough == \A r \in Replicas : loads[r] # None => loads[r] >= told[r]

\* The mirror's memory is the leader's.
LeaderOnly ==
    leader = NoReplica => pass = NoPass /\ ~queued /\ ~timer /\ notified = None

\* A pass works from a state at least as new as any binding.
PassIsNewest == pass # NoPass => \A t \in Targets : bindings[t] <= pass.from

\* The change is dealt with, or the pass in progress will.
Dealt ==
    IF pass = NoPass
      THEN \A t \in Live \cup {Cluster} : bindings[t] >= notified
      ELSE /\ pass.from >= notified
           /\ pass.pc = "write" =>
                \A t \in (Live \cup {Cluster}) \ pass.left : bindings[t] >= notified

\* What the leader was notified of is queued, or dealt with.
NotifiedKept == leader # NoReplica => queued \/ channel[leader] \/ Dealt

CacheInv == TypeOK /\ NothingNewer /\ LoadsNewEnough /\ OwnChangesSeen
MirrorInv == LeaderOnly /\ PassIsNewest /\ NotifiedKept

---------------------------------------------------------------------------
(* Type correctness.                                                        *)

LEMMA NothingType == NoSnapshot \in Snapshot /\ NoPass \in Pass
  BY DEF Snapshot, Pass

LEMMA InitType == Init => TypeOK
  <1> SUFFICES ASSUME Init PROVE TypeOK
    OBVIOUS
  <1>1. /\ version \in Versions /\ projects \in [Projects -> {"none", "live", "gone"}]
        /\ handlers \subseteq Handler
    BY DEF Init, Versions, None
  <1>2. /\ snaps \in [Replicas -> Snapshot] /\ loads \in [Replicas -> Nat]
        /\ told \in [Replicas -> Nat]
    BY NothingType DEF Init, None
  <1>3. /\ leader \in Replicas \cup {NoReplica} /\ channel \in [Replicas -> BOOLEAN]
        /\ queued \in BOOLEAN /\ timer \in BOOLEAN
    BY DEF Init
  <1>4. /\ pass \in Pass /\ bindings \in [Targets -> Nat]
        /\ notified \in Nat /\ budget \in 0..Budget
    BY NothingType DEF Init, None
  <1> QED BY <1>1, <1>2, <1>3, <1>4 DEF TypeOK

\* What a failure or a user spends.
LEMMA SpendType ==
    ASSUME TypeOK, Spend
    PROVE  budget' \in 0..Budget
  BY DEF TypeOK, Spend

\* What a replica's manager leaves when it stops.
LEMMA StopType ==
    ASSUME TypeOK, NEW r \in Replicas, ManagerStops(r)
    PROVE  /\ leader' \in Replicas \cup {NoReplica}
           /\ channel' \in [Replicas -> BOOLEAN]
           /\ queued' \in BOOLEAN /\ timer' \in BOOLEAN
           /\ pass' \in Pass
           /\ bindings' \in [Targets -> Nat] /\ notified' \in Nat
  <1>1. channel' \in [Replicas -> BOOLEAN] /\ bindings' \in [Targets -> Nat]
    BY DEF TypeOK, ManagerStops
  <1>2. CASE r = leader
    <2>1. leader' = NoReplica /\ queued' = FALSE /\ timer' = FALSE
      BY <1>2 DEF ManagerStops
    <2>2. pass' = NoPass /\ notified' = None
      BY <1>2 DEF ManagerStops
    <2> QED BY <1>1, <2>1, <2>2, NothingType DEF None
  <1>3. CASE r # leader
    BY <1>1, <1>3 DEF TypeOK, ManagerStops
  <1> QED BY <1>2, <1>3

LEMMA UserType == TypeOK /\ User => TypeOK'
  <1> SUFFICES ASSUME TypeOK, User PROVE TypeOK'
    OBVIOUS
  <1> USE DEF cacheVars, mirrorVars
  <1>1. ASSUME NEW r \in Replicas, Change(r) PROVE TypeOK'
    <2>1. version' \in Versions
      BY <1>1 DEF Change, TypeOK, Versions, None
    <2>2. handlers' \subseteq Handler
      BY <1>1, <2>1 DEF Change, TypeOK, Handler
    <2> QED BY <1>1, <2>1, <2>2, SpendType DEF Change, TypeOK
  <1>2. ASSUME NEW r \in Replicas, NEW n \in Projects, DestroyProject(r, n) PROVE TypeOK'
    <2>1. handlers' \subseteq Handler
      BY <1>2 DEF DestroyProject, TypeOK, Handler
    <2> QED BY <1>2, <2>1, SpendType DEF DestroyProject, TypeOK
  <1>3. CASE ForgetPerson
    BY <1>3, SpendType DEF ForgetPerson, TypeOK, Versions, None
  <1>4. ASSUME NEW n \in Projects, CreateProject(n) PROVE TypeOK'
    BY <1>4 DEF CreateProject, TypeOK
  <1> QED BY <1>1, <1>2, <1>3, <1>4 DEF User

LEMMA HandlingType == TypeOK /\ Handling => TypeOK'
  <1> SUFFICES ASSUME TypeOK, NEW h \in handlers,
                      DeleteGrants(h) \/ Invalidate(h) \/ Notify(h)
               PROVE  TypeOK'
    BY DEF Handling
  <1> USE DEF storeVars, cacheVars, mirrorVars
  <1>1. h \in Handler /\ h.replica \in Replicas /\ h.version \in Nat
    BY DEF TypeOK, Handler, Versions
  <1>2. CASE DeleteGrants(h)
    <2>1. version' \in Versions
      BY <1>2 DEF DeleteGrants, TypeOK, Versions, None
    <2>2. handlers' \subseteq Handler
      BY <1>1, <1>2, <2>1 DEF DeleteGrants, TypeOK, Handler
    <2> QED BY <1>2, <2>1, <2>2 DEF DeleteGrants, TypeOK
  <1>3. CASE Invalidate(h)
    <2>1. handlers' \subseteq Handler
      BY <1>1, <1>3 DEF Invalidate, TypeOK, Handler
    <2>2. snaps' \in [Replicas -> Snapshot] /\ told' \in [Replicas -> Nat]
      BY <1>1, <1>3 DEF Invalidate, TypeOK, Snapshot, Newer
    <2> QED BY <1>3, <2>1, <2>2 DEF Invalidate, TypeOK
  <1>4. CASE Notify(h)
    BY <1>1, <1>4 DEF Notify, TypeOK, Newer
  <1> QED BY <1>2, <1>3, <1>4

LEMMA ResolverType == TypeOK /\ Resolver => TypeOK'
  <1> SUFFICES ASSUME TypeOK, NEW r \in Replicas,
                      BeginLoad(r) \/ EndLoad(r) \/ LoadFails(r) \/ Expire(r)
               PROVE  TypeOK'
    BY DEF Resolver
  <1> USE DEF storeVars, mirrorVars
  <1>1. CASE BeginLoad(r)
    BY <1>1 DEF BeginLoad, TypeOK, Versions
  <1>2. CASE EndLoad(r)
    <2>1. snaps' \in [Replicas -> Snapshot]
      BY <1>2 DEF EndLoad, TypeOK, Snapshot, Versions
    <2>2. budget' \in 0..Budget
      BY <1>2, SpendType DEF EndLoad, TypeOK
    <2> QED BY <1>2, <2>1, <2>2 DEF EndLoad, TypeOK, None
  <1>3. CASE LoadFails(r)
    BY <1>3, SpendType DEF LoadFails, TypeOK, None
  <1>4. CASE Expire(r)
    <2>1. snaps[r] \in Snapshot \ {NoSnapshot}
      BY <1>4 DEF Expire, TypeOK, NoSnapshot
    <2>2. snaps[r] \in [from : Versions, fresh : BOOLEAN, people : BOOLEAN]
      BY <2>1 DEF Snapshot
    <2>3. [snaps[r] EXCEPT !.fresh = FALSE] \in Snapshot
      BY <2>2 DEF Snapshot
    <2> QED BY <1>4, <2>3 DEF Expire, TypeOK
  <1> QED BY <1>1, <1>2, <1>3, <1>4

LEMMA MirrorType == TypeOK /\ (Leading \/ Mirror) => TypeOK'
  <1> SUFFICES ASSUME TypeOK, Leading \/ Mirror PROVE TypeOK'
    OBVIOUS
  <1> USE DEF storeVars, cacheVars
  <1>1. ASSUME NEW r \in Replicas, Acquire(r) PROVE TypeOK'
    BY <1>1 DEF Acquire, TypeOK
  <1>2. CASE Deliver
    BY <1>2 DEF Deliver, TypeOK
  <1>3. CASE Periodic
    BY <1>3 DEF Periodic, TypeOK
  <1>4. CASE BeginPass
    BY <1>4 DEF BeginPass, TypeOK, Pass
  <1>5. CASE ListNamespaces
    <2>1. pass.from \in Versions
      BY <1>5 DEF ListNamespaces, TypeOK, Pass, NoPass
    <2>2. Live \cup {Cluster} \in SUBSET Targets
      BY DEF Live, Targets
    <2>3. pass' = [pc |-> "write", from |-> pass.from, left |-> Live \cup {Cluster}]
      BY <1>5 DEF ListNamespaces, TypeOK, Pass, NoPass
    <2>4. pass' \in Pass
      BY <2>1, <2>2, <2>3 DEF Pass
    <2> QED BY <1>5, <2>4 DEF ListNamespaces, TypeOK
  <1>6. ASSUME NEW t \in Targets, WriteBindings(t) PROVE TypeOK'
    <2>1. pass' \in Pass /\ pass.from \in Nat
      BY <1>6 DEF WriteBindings, TypeOK, Pass, NoPass, Versions
    <2> QED BY <1>6, <2>1 DEF WriteBindings, TypeOK
  <1>7. CASE EndPass
    BY <1>7 DEF EndPass, TypeOK, Pass
  <1>8. ASSUME NEW n \in Projects, NamespaceRefuses(n) PROVE TypeOK'
    BY <1>8 DEF NamespaceRefuses, PassEnds, TypeOK, Pass
  <1> QED BY <1>1, <1>2, <1>3, <1>4, <1>5, <1>6, <1>7, <1>8 DEF Leading, Mirror

LEMMA FailureType == TypeOK /\ Failure => TypeOK'
  <1> SUFFICES ASSUME TypeOK, Failure PROVE TypeOK'
    OBVIOUS
  <1> USE DEF storeVars, cacheVars, mirrorVars
  <1>1. ASSUME NEW h \in handlers, DeleteGrantsFails(h) PROVE TypeOK'
    BY <1>1, SpendType DEF DeleteGrantsFails, TypeOK
  <1>2. CASE LoseLease
    <2>1. leader \in Replicas
      BY <1>2 DEF LoseLease, TypeOK
    <2> QED BY <1>2, <2>1, SpendType, StopType DEF LoseLease, TypeOK
  <1>3. CASE PassFails
    BY <1>3, SpendType DEF PassFails, PassEnds, TypeOK, Pass
  <1>4. ASSUME NEW r \in Replicas, Crash(r) PROVE TypeOK'
    <2>1. snaps' \in [Replicas -> Snapshot] /\ loads' \in [Replicas -> Nat]
          /\ told' \in [Replicas -> Nat] /\ handlers' \subseteq Handler
      BY <1>4 DEF Crash, TypeOK, Snapshot, None
    <2> QED BY <1>4, <2>1, SpendType, StopType DEF Crash, TypeOK
  <1> QED BY <1>1, <1>2, <1>3, <1>4 DEF Failure

\* Every reachable state is well typed: versions, handlers, snapshots and the
\* pass of the mirror take the values the code can give them.
THEOREM TypesHold == Spec => []TypeOK
  <1>1. TypeOK /\ UNCHANGED vars => TypeOK'
    BY DEF TypeOK, vars, storeVars, cacheVars, mirrorVars, Live
  <1>2. TypeOK /\ [Next]_vars => TypeOK'
    BY <1>1, UserType, HandlingType, ResolverType, MirrorType, FailureType DEF Next
  <1> QED BY <1>2, InitType, PTL DEF Spec

---------------------------------------------------------------------------
(* What a replica answers from.                                             *)

LEMMA InitCache == Init => CacheInv
  <1> SUFFICES ASSUME Init PROVE CacheInv
    OBVIOUS
  <1>1. NothingNewer
    BY DEF Init, NothingNewer, None, NoPass
  <1>2. LoadsNewEnough /\ OwnChangesSeen
    BY DEF Init, LoadsNewEnough, OwnChangesSeen, NoSnapshot
  <1> QED BY <1>1, <1>2, InitType DEF CacheInv

\* The versions a state holds are numbers.
LEMMA Numbers ==
    ASSUME TypeOK
    PROVE  /\ version \in Nat /\ notified \in Nat /\ pass.from \in Nat
           /\ \A h \in handlers : h.version \in Nat /\ h.replica \in Replicas
           /\ \A r \in Replicas : /\ loads[r] \in Nat /\ told[r] \in Nat
                                  /\ snaps[r].from \in Nat
           /\ \A t \in Targets : bindings[t] \in Nat
  <1>1. version \in Nat /\ notified \in Nat
    BY DEF TypeOK, Versions
  <1>2. pass.from \in Nat
    BY DEF TypeOK, Pass, NoPass, Versions, None
  <1>3. \A h \in handlers : h.version \in Nat /\ h.replica \in Replicas
    BY DEF TypeOK, Handler, Versions
  <1>4. \A r \in Replicas : snaps[r].from \in Nat
    BY DEF TypeOK, Snapshot, NoSnapshot, Versions, None
  <1> QED BY <1>1, <1>2, <1>3, <1>4 DEF TypeOK

LEMMA UserCache == CacheInv /\ User => NothingNewer' /\ LoadsNewEnough' /\ OwnChangesSeen'
  <1> SUFFICES ASSUME CacheInv, User
               PROVE  NothingNewer' /\ LoadsNewEnough' /\ OwnChangesSeen'
    OBVIOUS
  <1> USE DEF cacheVars, mirrorVars
  <1>1. UNCHANGED cacheVars /\ UNCHANGED <<bindings, notified, pass>>
    BY DEF User, Change, DestroyProject, ForgetPerson, CreateProject
  <1>2. version' \in Nat /\ version' >= version
    BY Numbers DEF CacheInv, User, Change, DestroyProject, ForgetPerson, CreateProject
  <1>3. \A h \in handlers' : h.version <= version'
    <2>1. ASSUME NEW r \in Replicas, Change(r) PROVE \A h \in handlers' : h.version <= version'
      BY <1>2, <2>1, Numbers DEF Change, CacheInv, NothingNewer
    <2>2. ASSUME NEW r \in Replicas, NEW n \in Projects, DestroyProject(r, n)
          PROVE  \A h \in handlers' : h.version <= version'
      BY <2>2, Numbers DEF DestroyProject, CacheInv, NothingNewer
    <2>3. CASE ForgetPerson
      BY <1>2, <2>3, Numbers DEF ForgetPerson, CacheInv, NothingNewer
    <2>4. ASSUME NEW n \in Projects, CreateProject(n)
          PROVE  \A h \in handlers' : h.version <= version'
      BY <2>4 DEF CreateProject, CacheInv, NothingNewer
    <2> QED BY <2>1, <2>2, <2>3, <2>4 DEF User
  <1>4. NothingNewer'
    BY <1>1, <1>2, <1>3, Numbers DEF CacheInv, NothingNewer
  <1>5. LoadsNewEnough' /\ OwnChangesSeen'
    BY <1>1 DEF CacheInv, LoadsNewEnough, OwnChangesSeen
  <1> QED BY <1>4, <1>5

LEMMA HandlingCache ==
    CacheInv /\ Handling => NothingNewer' /\ LoadsNewEnough' /\ OwnChangesSeen'
  <1> SUFFICES ASSUME CacheInv, NEW h \in handlers,
                      DeleteGrants(h) \/ Invalidate(h) \/ Notify(h)
               PROVE  NothingNewer' /\ LoadsNewEnough' /\ OwnChangesSeen'
    BY DEF Handling
  <1> USE DEF storeVars, cacheVars, mirrorVars
  <1>1. TypeOK /\ h.version <= version /\ h.version \in Nat /\ h.replica \in Replicas
    BY Numbers DEF CacheInv, NothingNewer
  <1>2. CASE DeleteGrants(h)
    <2>1. version' = version + 1 /\ UNCHANGED <<cacheVars, mirrorVars>>
      BY <1>2 DEF DeleteGrants
    <2>2. \A k \in handlers' : k.version <= version'
      <3> DEFINE written == [h EXCEPT !.version = version', !.pc = "invalidate"]
      <3>1. written.version = version'
        BY <1>1 DEF TypeOK, Handler
      <3>2. handlers' = (handlers \ {h}) \cup {written}
        BY <1>2 DEF DeleteGrants
      <3>3. version \in Nat /\ \A k \in handlers : k.version \in Nat /\ k.version <= version
        BY Numbers DEF CacheInv, NothingNewer
      <3> HIDE DEF written
      <3> QED BY <2>1, <3>1, <3>2, <3>3
    <2>3. NothingNewer'
      BY <1>1, <2>1, <2>2, Numbers DEF CacheInv, NothingNewer
    <2> QED BY <2>1, <2>3 DEF CacheInv, LoadsNewEnough, OwnChangesSeen
  <1>3. CASE Invalidate(h)
    <2>1. /\ loads[h.replica] = None
          /\ snaps' = [snaps EXCEPT ![h.replica] = NoSnapshot]
          /\ told' = [told EXCEPT ![h.replica] = Newer(told[h.replica], h.version)]
          /\ UNCHANGED <<storeVars, loads, mirrorVars>>
      BY <1>3 DEF Invalidate
    <2>2. \A k \in handlers' : k.version <= version'
      <3>1. [h EXCEPT !.pc = "notify"].version = h.version
        BY <1>1 DEF TypeOK, Handler
      <3> QED BY <1>1, <1>3, <2>1, <3>1 DEF Invalidate, CacheInv, NothingNewer
    <2>3. \A r \in Replicas : told'[r] <= version
      BY <1>1, <2>1, Numbers DEF Newer, CacheInv, NothingNewer, TypeOK
    <2>4. NothingNewer'
      BY <1>1, <2>1, <2>2, <2>3 DEF CacheInv, NothingNewer
    <2>5. LoadsNewEnough'
      BY <1>1, <2>1 DEF CacheInv, LoadsNewEnough, TypeOK
    <2>6. OwnChangesSeen'
      BY <1>1, <2>1 DEF CacheInv, OwnChangesSeen, NoSnapshot, TypeOK
    <2> QED BY <2>4, <2>5, <2>6
  <1>4. CASE Notify(h)
    <2>1. UNCHANGED <<storeVars, cacheVars, pass, bindings>>
      BY <1>4 DEF Notify
    <2>2. notified' <= version
      BY <1>1, <1>4, Numbers DEF Notify, Newer, CacheInv, NothingNewer
    <2>3. \A k \in handlers' : k.version <= version
      BY <1>4 DEF Notify, CacheInv, NothingNewer
    <2> QED BY <2>1, <2>2, <2>3 DEF CacheInv, NothingNewer, LoadsNewEnough, OwnChangesSeen
  <1> QED BY <1>2, <1>3, <1>4

LEMMA ResolverCache ==
    CacheInv /\ Resolver => NothingNewer' /\ LoadsNewEnough' /\ OwnChangesSeen'
  <1> SUFFICES ASSUME CacheInv, NEW r \in Replicas,
                      BeginLoad(r) \/ EndLoad(r) \/ LoadFails(r) \/ Expire(r)
               PROVE  NothingNewer' /\ LoadsNewEnough' /\ OwnChangesSeen'
    BY DEF Resolver, ConstantsAssumption
  <1> USE DEF storeVars, cacheVars, mirrorVars
  <1>1. UNCHANGED <<storeVars, handlers, told, pass, bindings, notified>>
    BY DEF BeginLoad, EndLoad, LoadFails, Expire
  <1>2. CASE BeginLoad(r)
    <2>1. loads' = [loads EXCEPT ![r] = version] /\ snaps' = snaps
      BY <1>2 DEF BeginLoad
    <2>2. NothingNewer' /\ LoadsNewEnough'
      BY <1>1, <2>1, Numbers DEF CacheInv, NothingNewer, LoadsNewEnough, TypeOK
    <2> QED BY <1>1, <2>1, <2>2 DEF CacheInv, OwnChangesSeen
  <1>3. CASE EndLoad(r)
    <2>1. /\ loads[r] # None /\ loads' = [loads EXCEPT ![r] = None]
          /\ \E people \in BOOLEAN :
               snaps' = [snaps EXCEPT ![r] = [from |-> loads[r], fresh |-> TRUE,
                                              people |-> people]]
      BY <1>3 DEF EndLoad
    <2>2. NothingNewer' /\ LoadsNewEnough'
      BY <1>1, <2>1, Numbers DEF CacheInv, NothingNewer, LoadsNewEnough, TypeOK, None
    <2>3. OwnChangesSeen'
      BY <1>1, <2>1 DEF CacheInv, LoadsNewEnough, OwnChangesSeen, TypeOK
    <2> QED BY <2>2, <2>3
  <1>4. CASE LoadFails(r)
    <2>1. loads' = [loads EXCEPT ![r] = None] /\ snaps' = snaps
      BY <1>4 DEF LoadFails
    <2>2. NothingNewer' /\ LoadsNewEnough'
      BY <1>1, <2>1, Numbers DEF CacheInv, NothingNewer, LoadsNewEnough, TypeOK, None
    <2> QED BY <1>1, <2>1, <2>2 DEF CacheInv, OwnChangesSeen
  <1>5. CASE Expire(r)
    <2>1. loads' = loads /\ snaps' = [snaps EXCEPT ![r].fresh = FALSE]
      BY <1>5 DEF Expire
    <2>2. \A q \in Replicas : snaps'[q].from = snaps[q].from
      BY <2>1 DEF CacheInv, TypeOK, Snapshot, NoSnapshot
    <2> QED BY <1>1, <2>1, <2>2 DEF CacheInv, NothingNewer, LoadsNewEnough, OwnChangesSeen
  <1> QED BY <1>2, <1>3, <1>4, <1>5

LEMMA MirrorCache ==
    CacheInv /\ (Leading \/ Mirror) => NothingNewer' /\ LoadsNewEnough' /\ OwnChangesSeen'
  <1> SUFFICES ASSUME CacheInv, Leading \/ Mirror
               PROVE  NothingNewer' /\ LoadsNewEnough' /\ OwnChangesSeen'
    OBVIOUS
  <1> USE DEF storeVars, cacheVars
  <1>1. UNCHANGED <<storeVars, cacheVars, handlers, notified>>
    BY DEF Leading, Mirror, Acquire, Deliver, Periodic, BeginPass, ListNamespaces,
           WriteBindings, EndPass, NamespaceRefuses, PassEnds
  <1>2. pass'.from <= version
    <2>1. pass.from <= version /\ pass \in Pass
      BY DEF CacheInv, NothingNewer, TypeOK
    <2>2. UNCHANGED pass \/ pass' = NoPass \/ pass'.from = version \/ pass'.from = pass.from
      <3>1. ASSUME ListNamespaces \/ \E t \in Targets : WriteBindings(t)
            PROVE  pass'.from = pass.from
        BY <2>1, <3>1 DEF ListNamespaces, WriteBindings, Pass, NoPass
      <3>2. BeginPass => pass'.from = version
        BY DEF BeginPass
      <3> QED BY <3>1, <3>2 DEF Leading, Mirror, Acquire, Deliver, Periodic, EndPass,
                                NamespaceRefuses, PassEnds
    <2> QED BY <2>1, <2>2, Numbers DEF CacheInv, NoPass, None
  <1>3. \A t \in Targets : bindings'[t] <= version
    <2>1. ASSUME NEW u \in Targets, WriteBindings(u)
          PROVE  \A t \in Targets : bindings'[t] <= version
      BY <2>1 DEF WriteBindings, CacheInv, NothingNewer, TypeOK
    <2>2. UNCHANGED bindings \/ \E u \in Targets : WriteBindings(u)
      BY DEF Leading, Mirror, Acquire, Deliver, Periodic, BeginPass, ListNamespaces,
             EndPass, NamespaceRefuses, PassEnds
    <2> QED BY <2>1, <2>2 DEF CacheInv, NothingNewer
  <1> QED BY <1>1, <1>2, <1>3 DEF CacheInv, NothingNewer, LoadsNewEnough, OwnChangesSeen

LEMMA FailureCache ==
    CacheInv /\ Failure => NothingNewer' /\ LoadsNewEnough' /\ OwnChangesSeen'
  <1> SUFFICES ASSUME CacheInv, Failure
               PROVE  NothingNewer' /\ LoadsNewEnough' /\ OwnChangesSeen'
    OBVIOUS
  <1> USE DEF storeVars, cacheVars, mirrorVars
  <1>1. UNCHANGED <<version, bindings>> /\ handlers' \subseteq handlers
    BY DEF Failure, DeleteGrantsFails, LoseLease, PassFails, PassEnds, Crash, ManagerStops
  <1>2. UNCHANGED pass \/ pass' = NoPass
    BY DEF Failure, DeleteGrantsFails, LoseLease, PassFails, PassEnds, Crash, ManagerStops
  <1>3. UNCHANGED notified \/ notified' = None
    BY DEF Failure, DeleteGrantsFails, LoseLease, PassFails, PassEnds, Crash, ManagerStops
  <1>4. /\ \A r \in Replicas : loads'[r] <= version /\ told'[r] <= version
        /\ LoadsNewEnough' /\ OwnChangesSeen'
    <2>1. CASE UNCHANGED cacheVars
      BY <2>1 DEF CacheInv, NothingNewer, LoadsNewEnough, OwnChangesSeen
    <2>2. ASSUME NEW r \in Replicas, Crash(r)
          PROVE  /\ \A q \in Replicas : loads'[q] <= version /\ told'[q] <= version
                 /\ LoadsNewEnough' /\ OwnChangesSeen'
      BY <2>2, Numbers DEF Crash, CacheInv, NothingNewer, LoadsNewEnough, OwnChangesSeen,
                           NoSnapshot, None, TypeOK
    <2> QED BY <2>1, <2>2 DEF Failure, DeleteGrantsFails, LoseLease, PassFails, PassEnds
  <1>5. NothingNewer'
    BY <1>1, <1>2, <1>3, <1>4, Numbers DEF CacheInv, NothingNewer, NoPass, None
  <1> QED BY <1>4, <1>5

LEMMA CacheStep == CacheInv /\ [Next]_vars => CacheInv'
  <1>1. CacheInv /\ UNCHANGED vars => CacheInv'
    BY DEF CacheInv, TypeOK, NothingNewer, LoadsNewEnough, OwnChangesSeen, vars, storeVars,
           cacheVars, mirrorVars
  <1>2. CacheInv /\ Next => TypeOK'
    BY UserType, HandlingType, ResolverType, MirrorType, FailureType DEF CacheInv, Next
  <1>3. CacheInv /\ Next => NothingNewer' /\ LoadsNewEnough' /\ OwnChangesSeen'
    BY UserCache, HandlingCache, ResolverCache, MirrorCache, FailureCache DEF Next
  <1> QED BY <1>1, <1>2, <1>3 DEF CacheInv

\* A replica that was told of a change never answers from before it, for any
\* number of replicas, loads, changes and failures.
THEOREM AnswersHold == Spec => []OwnChangesSeen
  <1>1. CacheInv => OwnChangesSeen
    BY DEF CacheInv
  <1> QED BY <1>1, InitCache, CacheStep, PTL DEF Spec

---------------------------------------------------------------------------
(* What the mirror keeps.                                                   *)

LEMMA InitMirror == Init => MirrorInv
  BY DEF Init, MirrorInv, LeaderOnly, PassIsNewest, NotifiedKept

LEMMA LiveTargets == Live \cup {Cluster} \subseteq Targets
  BY DEF Live, Targets

\* Bindings that do not go back, fewer or the same live projects and the same
\* notifications leave what was dealt with dealt with.
LEMMA DealtStays ==
    ASSUME TypeOK, TypeOK', Dealt, UNCHANGED <<pass, bindings, notified>>, Live' \subseteq Live
    PROVE  Dealt'
  BY DEF Dealt

LEMMA UserMirror == CacheInv /\ MirrorInv /\ User => MirrorInv'
  <1> SUFFICES ASSUME CacheInv, MirrorInv, User PROVE MirrorInv'
    OBVIOUS
  <1> USE DEF mirrorVars
  <1>0. TypeOK /\ TypeOK'
    BY UserType DEF CacheInv
  <1>1. UNCHANGED <<leader, channel, timer, pass, bindings, notified>>
    BY DEF User, Change, DestroyProject, ForgetPerson, CreateProject
  <1>2. leader = NoReplica => queued' = queued
    BY <1>0 DEF TypeOK, User, Change, DestroyProject, ForgetPerson, CreateProject
  <1>3. leader # NoReplica => queued' \/ (queued' = queued /\ Live' = Live)
    <2>1. ASSUME NEW r \in Replicas, NEW n \in Projects, DestroyProject(r, n)
          PROVE  leader # NoReplica => queued'
      BY <2>1 DEF DestroyProject
    <2>2. ASSUME NEW r \in Replicas, Change(r) PROVE queued' = queued /\ Live' = Live
      BY <2>2 DEF Change, Live
    <2>3. CASE ForgetPerson
      BY <2>3 DEF ForgetPerson, Live
    <2>4. ASSUME NEW n \in Projects, CreateProject(n) PROVE leader # NoReplica => queued'
      BY <2>4 DEF CreateProject
    <2> QED BY <2>1, <2>2, <2>3, <2>4 DEF User
  <1>4. NotifiedKept'
    BY <1>0, <1>1, <1>3, DealtStays DEF MirrorInv, NotifiedKept
  <1>5. LeaderOnly' /\ PassIsNewest'
    BY <1>1, <1>2 DEF MirrorInv, LeaderOnly, PassIsNewest
  <1> QED BY <1>4, <1>5 DEF MirrorInv

LEMMA HandlingMirror == CacheInv /\ MirrorInv /\ Handling => MirrorInv'
  <1> SUFFICES ASSUME CacheInv, MirrorInv, NEW h \in handlers,
                      DeleteGrants(h) \/ Invalidate(h) \/ Notify(h)
               PROVE  MirrorInv'
    BY DEF Handling
  <1> USE DEF mirrorVars, storeVars
  <1>0. TypeOK /\ TypeOK'
    BY HandlingType DEF CacheInv, Handling
  <1>1. UNCHANGED <<leader, queued, timer, pass, bindings>> /\ Live' = Live
    BY DEF DeleteGrants, Invalidate, Notify, Live
  <1>2. CASE UNCHANGED <<channel, notified>>
    BY <1>0, <1>1, <1>2, DealtStays DEF MirrorInv, LeaderOnly, PassIsNewest, NotifiedKept
  <1>3. CASE Notify(h)
    <2>1. h.replica \in Replicas
      BY <1>0, Numbers
    <2>2. CASE h.replica = leader
      <3>1. channel'[leader] = TRUE
        BY <1>0, <1>3, <2>1, <2>2 DEF Notify, TypeOK
      <3>2. leader # NoReplica
        BY <2>1, <2>2
      <3> QED BY <1>1, <3>1, <3>2 DEF MirrorInv, LeaderOnly, PassIsNewest, NotifiedKept
    <2>3. CASE h.replica # leader
      <3>1. notified' = notified
        BY <1>3, <2>3 DEF Notify
      <3>2. leader \in Replicas => channel'[leader] = channel[leader]
        BY <1>0, <1>3, <2>1, <2>3 DEF Notify, TypeOK
      <3>3. leader # NoReplica => leader \in Replicas
        BY <1>0 DEF TypeOK
      <3> QED BY <1>0, <1>1, <3>1, <3>2, <3>3, DealtStays
              DEF MirrorInv, LeaderOnly, PassIsNewest, NotifiedKept
    <2> QED BY <2>2, <2>3
  <1> QED BY <1>2, <1>3 DEF DeleteGrants, Invalidate

LEMMA ResolverMirror == CacheInv /\ MirrorInv /\ Resolver => MirrorInv'
  <1> SUFFICES ASSUME CacheInv, MirrorInv, Resolver PROVE MirrorInv'
    OBVIOUS
  <1>1. TypeOK /\ TypeOK'
    BY ResolverType DEF CacheInv
  <1>2. UNCHANGED mirrorVars /\ Live' = Live
    BY DEF Resolver, BeginLoad, EndLoad, LoadFails, Expire, storeVars, Live
  <1> QED BY <1>1, <1>2, DealtStays
          DEF mirrorVars, MirrorInv, LeaderOnly, PassIsNewest, NotifiedKept

LEMMA AcquireMirror ==
    ASSUME CacheInv, MirrorInv, NEW r \in Replicas, Acquire(r)
    PROVE  MirrorInv'
  <1> USE DEF storeVars
  <1>1. /\ leader' # NoReplica /\ pass = NoPass /\ notified = None
        /\ UNCHANGED <<pass, bindings, notified>>
    BY DEF Acquire, MirrorInv, LeaderOnly
  <1>2. TypeOK'
    BY MirrorType DEF CacheInv, Leading
  <1>3. Dealt'
    <2>1. \A t \in Targets : bindings'[t] >= notified'
      BY <1>1, <1>2, Numbers DEF CacheInv, None
    <2>2. (Live \cup {Cluster})' \subseteq Targets
      BY DEF Live, Targets
    <2> QED BY <1>1, <2>1, <2>2 DEF Dealt
  <1> QED BY <1>1, <1>3 DEF MirrorInv, LeaderOnly, PassIsNewest, NotifiedKept

\* The step of a pass, or of what queues one.
LEMMA MirrorMirror == CacheInv /\ MirrorInv /\ Mirror => MirrorInv'
  <1> SUFFICES ASSUME CacheInv, MirrorInv, Mirror PROVE MirrorInv'
    OBVIOUS
  <1> USE DEF storeVars, cacheVars
  <1>0. TypeOK /\ TypeOK'
    BY MirrorType DEF CacheInv
  <1>1. UNCHANGED <<leader, notified>> /\ Live' = Live
    BY DEF Mirror, Deliver, Periodic, BeginPass, ListNamespaces, WriteBindings, EndPass,
           NamespaceRefuses, PassEnds, Live
  <1>2. leader # NoReplica
    BY DEF Mirror, Deliver, Periodic, BeginPass, ListNamespaces, WriteBindings, EndPass,
           NamespaceRefuses, MirrorInv, LeaderOnly, NoPass
  <1>3. CASE Deliver \/ Periodic \/ \E n \in Projects : NamespaceRefuses(n)
    <2>1. queued' = TRUE /\ UNCHANGED bindings /\ (UNCHANGED pass \/ pass' = NoPass)
      BY <1>3 DEF Deliver, Periodic, NamespaceRefuses, PassEnds
    <2> QED BY <1>1, <1>2, <2>1 DEF MirrorInv, LeaderOnly, PassIsNewest, NotifiedKept
  <1>4. CASE BeginPass
    <2>1. pass' = [pc |-> "list", from |-> version, left |-> {}] /\ UNCHANGED bindings
      BY <1>4 DEF BeginPass
    <2>2. pass' # NoPass
      BY <2>1 DEF NoPass
    <2>3. \A t \in Targets : bindings'[t] <= pass'.from
      BY <2>1 DEF CacheInv, NothingNewer
    <2>4. Dealt'
      BY <1>0, <1>1, <2>1, <2>2, Numbers DEF Dealt, CacheInv, NothingNewer
    <2> QED BY <1>1, <1>2, <2>3, <2>4 DEF MirrorInv, LeaderOnly, PassIsNewest, NotifiedKept
  <1>5. CASE ListNamespaces
    <2>1. /\ pass # NoPass
          /\ pass' = [pass EXCEPT !.pc = "write", !.left = Live \cup {Cluster}]
          /\ UNCHANGED <<queued, channel, bindings>>
      BY <1>5 DEF ListNamespaces, NoPass
    <2>2. pass \in [pc : {"list"}, from : Versions, left : {{}}]
      BY <1>0, <1>5 DEF ListNamespaces, TypeOK, Pass, NoPass
    <2>3. pass' # NoPass /\ pass'.from = pass.from /\ pass'.left = Live \cup {Cluster}
      BY <2>1, <2>2 DEF NoPass
    <2>4. Dealt => Dealt'
      BY <1>1, <2>1, <2>3 DEF Dealt
    <2> QED BY <1>1, <1>2, <2>1, <2>3, <2>4
            DEF MirrorInv, LeaderOnly, PassIsNewest, NotifiedKept
  <1>6. ASSUME NEW u \in Targets, WriteBindings(u) PROVE MirrorInv'
    <2>1. /\ pass # NoPass /\ pass.pc = "write" /\ pass' # NoPass
          /\ pass'.from = pass.from /\ pass'.left = pass.left \ {u}
          /\ UNCHANGED <<queued, channel>>
      BY <1>0, <1>6 DEF WriteBindings, TypeOK, Pass, NoPass
    <2>2. pass.from \in Nat /\ \A t \in Targets : bindings[t] <= pass.from /\ bindings[t] \in Nat
      BY <1>0, <2>1, Numbers DEF MirrorInv, PassIsNewest
    <2>3. \A t \in Targets :
             bindings'[t] = IF t = u /\ u \in Live \cup {Cluster} THEN pass.from ELSE bindings[t]
      BY <1>0, <1>6 DEF WriteBindings, TypeOK
    <2>4. \A t \in Targets : bindings'[t] <= pass'.from
      BY <2>1, <2>2, <2>3
    <2>5. Dealt => Dealt'
      BY <1>0, <1>1, <2>1, <2>2, <2>3, LiveTargets, Numbers DEF Dealt
    <2> QED BY <1>1, <1>2, <2>1, <2>4, <2>5 DEF MirrorInv, LeaderOnly, PassIsNewest, NotifiedKept
  <1>7. CASE EndPass
    <2>1. /\ pass.pc = "write" /\ pass.left = {} /\ pass # NoPass /\ pass' = NoPass
          /\ UNCHANGED <<queued, channel, bindings>>
      BY <1>7 DEF EndPass, NoPass
    <2>2. Dealt => Dealt'
      BY <1>1, <2>1 DEF Dealt
    <2> QED BY <1>1, <1>2, <2>1, <2>2 DEF MirrorInv, LeaderOnly, PassIsNewest, NotifiedKept
  <1> QED BY <1>3, <1>4, <1>5, <1>6, <1>7 DEF Mirror

LEMMA StopMirror ==
    ASSUME CacheInv, MirrorInv, NEW r \in Replicas, ManagerStops(r), UNCHANGED projects, TypeOK'
    PROVE  MirrorInv'
  <1>1. Live' = Live /\ UNCHANGED bindings
    BY DEF Live, ManagerStops
  <1>2. CASE r = leader
    <2>1. leader' = NoReplica /\ queued' = FALSE /\ timer' = FALSE
      BY <1>2 DEF ManagerStops
    <2>2. pass' = NoPass /\ notified' = None
      BY <1>2 DEF ManagerStops
    <2> QED BY <2>1, <2>2 DEF MirrorInv, LeaderOnly, PassIsNewest, NotifiedKept
  <1>3. CASE r # leader
    <2>1. UNCHANGED <<leader, queued, timer, pass, notified>>
      BY <1>3 DEF ManagerStops
    <2>2. leader \in Replicas => channel'[leader] = channel[leader]
      BY <1>3 DEF ManagerStops, CacheInv, TypeOK
    <2>3. leader # NoReplica => leader \in Replicas
      BY DEF CacheInv, TypeOK
    <2> QED BY <1>1, <2>1, <2>2, <2>3, DealtStays
            DEF CacheInv, MirrorInv, LeaderOnly, PassIsNewest, NotifiedKept
  <1> QED BY <1>2, <1>3

LEMMA FailureMirror == CacheInv /\ MirrorInv /\ Failure => MirrorInv'
  <1> SUFFICES ASSUME CacheInv, MirrorInv, Failure PROVE MirrorInv'
    OBVIOUS
  <1> USE DEF storeVars
  <1>0. TypeOK /\ TypeOK'
    BY FailureType DEF CacheInv
  <1>1. ASSUME NEW h \in handlers, DeleteGrantsFails(h) PROVE MirrorInv'
    <2>1. UNCHANGED mirrorVars /\ Live' = Live
      BY <1>1 DEF DeleteGrantsFails, Live
    <2> QED BY <1>0, <2>1, DealtStays
            DEF mirrorVars, MirrorInv, LeaderOnly, PassIsNewest, NotifiedKept
  <1>2. CASE LoseLease
    <2>1. leader \in Replicas /\ ManagerStops(leader) /\ UNCHANGED projects
      BY <1>0, <1>2 DEF LoseLease, TypeOK
    <2> QED BY <1>0, <2>1, StopMirror
  <1>3. CASE PassFails
    <2>1. /\ pass # NoPass /\ pass' = NoPass /\ queued' = TRUE
          /\ UNCHANGED <<leader, timer, notified, bindings>>
      BY <1>3 DEF PassFails, PassEnds
    <2> QED BY <2>1 DEF MirrorInv, LeaderOnly, PassIsNewest, NotifiedKept
  <1>4. ASSUME NEW r \in Replicas, Crash(r) PROVE MirrorInv'
    BY <1>0, <1>4, StopMirror DEF Crash
  <1> QED BY <1>1, <1>2, <1>3, <1>4 DEF Failure

LEMMA InvStep == CacheInv /\ MirrorInv /\ [Next]_vars => MirrorInv'
  <1>1. MirrorInv /\ UNCHANGED vars => MirrorInv'
    BY DEF MirrorInv, LeaderOnly, PassIsNewest, NotifiedKept, Dealt, Live, vars, storeVars,
           mirrorVars
  <1>2. CacheInv /\ MirrorInv /\ Leading => MirrorInv'
    BY AcquireMirror DEF Leading
  <1> QED BY <1>1, <1>2, UserMirror, HandlingMirror, ResolverMirror, MirrorMirror, FailureMirror
          DEF Next

LEMMA InvHolds == Spec => [](CacheInv /\ MirrorInv)
  BY InitCache, InitMirror, CacheStep, InvStep, PTL DEF Spec

\* No notification the leader got is lost, whatever finds its channel full,
\* and whatever fails in a pass.
THEOREM NotificationsHold == Spec => []MirrorHasNotified
  <1>1. MirrorInv => MirrorHasNotified
    BY DEF MirrorInv, NotifiedKept, Dealt, MirrorHasNotified
  <1> QED BY <1>1, InvHolds, PTL

\* No binding goes back to an older state of the store, whoever leads.
THEOREM MirrorGoesForward == Spec => MirrorOnlyForward
  <1>1. CacheInv /\ MirrorInv /\ [Next]_vars => [\A t \in Targets : bindings'[t] >= bindings[t]]_vars
    <2> SUFFICES ASSUME CacheInv, MirrorInv, Next
                 PROVE  \A t \in Targets : bindings'[t] >= bindings[t]
      OBVIOUS
    <2>1. \A t \in Targets : bindings[t] \in Nat
      BY Numbers DEF CacheInv
    <2>2. ASSUME NEW u \in Targets, WriteBindings(u)
          PROVE  \A t \in Targets : bindings'[t] >= bindings[t]
      <3>1. pass # NoPass
        BY <2>2 DEF WriteBindings, NoPass
      <3> QED BY <2>1, <2>2, <3>1 DEF WriteBindings, MirrorInv, PassIsNewest, CacheInv, TypeOK
    <2>3. UNCHANGED bindings \/ \E u \in Targets : WriteBindings(u)
      BY DEF Next, User, Handling, Resolver, Leading, Mirror, Failure, Change, DestroyProject,
             ForgetPerson, CreateProject, DeleteGrants, Invalidate, Notify, BeginLoad, EndLoad,
             LoadFails, Expire, Acquire, Deliver, Periodic, BeginPass, ListNamespaces, EndPass,
             NamespaceRefuses, PassEnds, DeleteGrantsFails, LoseLease, PassFails, Crash,
             ManagerStops, mirrorVars
    <2> QED BY <2>1, <2>2, <2>3
  <1> QED BY <1>1, InvHolds, PTL DEF Spec, MirrorOnlyForward
=============================================================================
