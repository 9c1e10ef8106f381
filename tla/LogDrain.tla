------------------------------ MODULE LogDrain -----------------------------
(***************************************************************************)
(* Log drains: the LogDrain controller                                     *)
(* (internal/controller/logdrain_controller.go), the handlers that make    *)
(* and delete drains with their header Secret (pkg/api/drains.go), and the *)
(* agent, Vector, which is external.                                       *)
(*                                                                         *)
(* A reconcile renders every drain, whichever one asked for it, in five    *)
(* steps that anything can come between: it reads the drains and their     *)
(* Secrets, copies the headers to the agent's namespace and deletes the    *)
(* copies no drain wants, replaces the configuration, replaces the         *)
(* environment of the DaemonSet, and reports on the drain that asked.      *)
(* An error ends it and leaves the request in the queue.                   *)
(*                                                                         *)
(* Vector runs in one pod.  It takes a new configuration when its          *)
(* environment has what that names, and is replaced when the environment   *)
(* of the DaemonSet changes.                                               *)
(***************************************************************************)
EXTENDS Naturals, FiniteSets, Functions

CONSTANTS
    Drains,       \* the namespace and name a drain can have
    Values,       \* what the headers hold
    MaxChanges,   \* bound: changes of users and of the installation
    MaxFaults,    \* bound: failing calls and restarts of Vector
    MaxLines,     \* bound: what Vector counts
    Chatty,       \* bound: the drains that have lines
    None

ASSUME BoundsAssumption == {MaxChanges, MaxFaults, MaxLines} \subseteq Nat

VARIABLES
    drain,      \* the LogDrains with their status
    secret,     \* their header Secrets
    mirror,     \* the copies in the agent's namespace
    config,     \* drains.yaml: the drains in it, and whether with headers
    agent,      \* the DaemonSet: there or not, and its envFrom
    pod,        \* Vector: its environment, its configuration, its counters
    queue,      \* requests
    task,       \* the reconcile under way
    fresh,      \* the drain delivered lines its status has not been told of
    inherited,  \* Vector still ran one of that name when the drain was made, and has not answered since
    lost,       \* a restart of the server dropped a request of a drain that is gone
    changes, faults

vars == <<drain, secret, mirror, config, agent, pod, queue, task, fresh,
          inherited, lost, changes, faults>>

Idle == [pc |-> "idle"]
NoPod == [from |-> {}, env |-> << >>, loaded |-> << >>,
          sent |-> [d \in Drains |-> 0], errors |-> [d \in Drains |-> 0]]

Init ==
    /\ drain = [d \in Drains |-> None]
    /\ secret = [d \in Drains |-> None]
    /\ mirror = [d \in Drains |-> None]
    /\ config = << >>
    /\ agent = [present |-> FALSE, envFrom |-> {}]
    /\ pod = NoPod
    /\ queue = {}
    /\ task = Idle
    /\ fresh = {} /\ inherited = {} /\ lost = FALSE
    /\ changes = 0 /\ faults = 0

Change == changes < MaxChanges /\ changes' = changes + 1 /\ UNCHANGED faults
Fault == faults < MaxFaults /\ faults' = faults + 1 /\ UNCHANGED changes
Free == UNCHANGED <<changes, faults>>

Existing == {d \in Drains : drain[d] # None}
----------------------------------------------------------------------------
(***************************************************************************)
(* The handlers and the installation.                                      *)
(***************************************************************************)
NewDrain(withHeaders) ==
    [headers |-> withHeaders, phase |-> "", sent |-> 0, errors |-> 0]

\* createDrainIn: the Secret first, also that of a drain that exists (then 409).
Create(d, v) ==
    /\ Change
    /\ secret' = IF v = None THEN secret ELSE [secret EXCEPT ![d] = v]
    /\ IF drain[d] # None
       THEN v # None /\ UNCHANGED <<drain, fresh, inherited>>
       ELSE /\ drain' = [drain EXCEPT ![d] = NewDrain(v # None)]
            /\ fresh' = fresh \ {d}
            /\ inherited' = IF d \in DOMAIN pod.loaded THEN inherited \cup {d} ELSE inherited \ {d}
    /\ queue' = queue \cup {d}
    /\ UNCHANGED <<mirror, config, agent, pod, task, lost>>

\* deleteDrainIn: the Secret first, whatever comes of it, then the drain.
Delete(d) ==
    /\ drain[d] # None
    /\ Change
    /\ secret' = IF drain[d].headers THEN [secret EXCEPT ![d] = None] ELSE secret
    /\ drain' \in {[drain EXCEPT ![d] = None], drain}
    /\ queue' = queue \cup {d}
    /\ UNCHANGED <<mirror, config, agent, pod, task, fresh, inherited, lost>>

\* `extensions enable logs-agent`, again too: drains.yaml empty (configMapToDrains: any drain).
Install ==
    /\ Change
    /\ agent' = [agent EXCEPT !.present = TRUE]
    /\ config' = << >>
    /\ \/ Existing = {} /\ UNCHANGED queue
       \/ \E d \in Existing : queue' = queue \cup {d}
    /\ UNCHANGED <<drain, secret, mirror, pod, task, fresh, inherited, lost>>
----------------------------------------------------------------------------
(***************************************************************************)
(* Reconcile.                                                              *)
(***************************************************************************)
\* Mutant: the request of a drain that is gone has nothing to do.
WorksThere(d) == drain[d] # None

\* Everything is rendered also for a drain that is gone.
Works(d) == TRUE

\* resolveDrain of each: one whose Secret cannot be read is left out.
Resolve(d, unread) ==
    /\ task.pc = "idle" /\ d \in queue
    /\ unread \subseteq {e \in Existing : drain[e].headers}
    /\ LET valid == {e \in Existing \ unread : drain[e].headers => secret[e] # None}
       IN  task' = IF Works(d)
                   THEN [pc |-> "mirrors", req |-> d, present |-> FALSE,
                         values |-> [e \in valid |-> IF drain[e].headers THEN secret[e] ELSE None]]
                   ELSE Idle
    /\ queue' = queue \ {d}
    /\ IF unread = {} THEN Free ELSE Fault
    /\ UNCHANGED <<drain, secret, mirror, config, agent, pod, fresh, inherited, lost>>

\* The drains of the task that have headers.
WithHeaders == {e \in DOMAIN task.values : task.values[e] # None}

Go(pc) == task' = [task EXCEPT !.pc = pc] /\ Free /\ UNCHANGED queue
GiveUp == task' = Idle /\ Fault /\ queue' = queue \cup {task.req}

\* writeMirror, pruneMirrors.
Mirrors ==
    /\ task.pc = "mirrors"
    /\ LET written == [e \in Drains |-> IF e \in WithHeaders THEN task.values[e] ELSE mirror[e]]
           pruned == [e \in Drains |-> IF e \in WithHeaders THEN task.values[e] ELSE None]
       IN  \/ mirror' = pruned /\ Go("config")
           \/ mirror' \in {mirror, written} /\ GiveUp
    /\ UNCHANGED <<drain, secret, config, agent, pod, fresh, inherited, lost>>

\* renderDrains, writeConfig, once the DaemonSet was found.
Configure ==
    /\ task.pc = "config"
    /\ \/ /\ ~agent.present /\ Go("status") /\ UNCHANGED config
       \/ /\ agent.present
          /\ config' = [e \in DOMAIN task.values |-> e \in WithHeaders]
          /\ task' = [task EXCEPT !.pc = "env", !.present = TRUE]
          /\ Free /\ UNCHANGED queue
       \/ GiveUp /\ UNCHANGED config
    /\ UNCHANGED <<drain, secret, mirror, agent, pod, fresh, inherited, lost>>

\* patchEnvFrom.
PatchEnvFrom ==
    /\ task.pc = "env"
    /\ \/ agent' = [agent EXCEPT !.envFrom = WithHeaders] /\ Go("status")
       \/ GiveUp /\ UNCHANGED agent
    /\ UNCHANGED <<drain, secret, mirror, config, pod, fresh, inherited, lost>>

\* Mutant: any other count is taken for a delivery.
MoreDiffers(now, before) == now # before

\* Vector counts from its own start.
More(now, before) == now > before

\* refreshDelivery: what the status becomes.
Refreshed(d) ==
    LET s == drain[d]
        sent == pod.sent[d]
        errors == pod.errors[d]
        phase == IF More(sent, s.sent) THEN "Active"
                 ELSE IF errors > s.errors THEN "Failing"
                 ELSE IF s.phase = "" THEN "Pending" ELSE s.phase
    IN  [s EXCEPT !.phase = phase, !.sent = sent, !.errors = errors]

\* The status of the drain that asked; Vector's metrics may not answer, or know no such sink.
Report(answers) ==
    /\ task.pc = "status"
    /\ LET d == task.req
           polled == task.present /\ d \in DOMAIN task.values \cap DOMAIN pod.loaded /\ answers
           told == CASE ~task.present -> [drain[d] EXCEPT !.phase = "Pending"]
                     [] task.present /\ d \notin DOMAIN task.values -> [drain[d] EXCEPT !.phase = "Failing"]
                     [] polled -> Refreshed(d)
                     [] OTHER -> [drain[d] EXCEPT !.phase = IF @ = "" THEN "Pending" ELSE @]
       IN  IF drain[d] = None
           THEN /\ answers
                /\ UNCHANGED <<drain, fresh, inherited, queue>>
           ELSE /\ drain' = [drain EXCEPT ![d] = told]
                /\ fresh' = IF polled THEN fresh \ {d} ELSE fresh
                /\ inherited' = IF polled THEN inherited \ {d} ELSE inherited
                /\ queue' = queue \cup {d}
    /\ task' = Idle
    /\ IF answers THEN Free ELSE Fault
    /\ UNCHANGED <<secret, mirror, config, agent, pod, lost>>

\* The server restarts: every drain is looked at again, a drain that is gone is not.
Crash ==
    /\ Fault
    /\ task' = Idle
    /\ queue' = Existing
    /\ lost' = (lost \/ task # Idle \/ queue \ Existing # {})
    /\ UNCHANGED <<drain, secret, mirror, config, agent, pod, fresh, inherited>>
----------------------------------------------------------------------------
(***************************************************************************)
(* Vector.                                                                 *)
(***************************************************************************)
Loadable(c, env) == \A d \in DOMAIN c : c[d] => d \in DOMAIN env

\* A new pod: the environment as the mirrors are now, counters from zero.
Start ==
    /\ agent.present
    /\ LET env == Restrict(mirror, {d \in agent.envFrom : mirror[d] # None})
       IN  pod' = [from |-> agent.envFrom, env |-> env,
                   loaded |-> IF Loadable(config, env) THEN config ELSE << >>,
                   sent |-> [d \in Drains |-> 0], errors |-> [d \in Drains |-> 0]]
    /\ UNCHANGED <<drain, secret, mirror, config, agent, queue, task, fresh, inherited, lost>>
Roll == pod.from # agent.envFrom /\ Start /\ Free
Restart == Start /\ Fault

\* A new drains.yaml is taken when the environment has all of it; dropped sinks are not counted.
Reload ==
    /\ agent.present /\ pod.loaded # config /\ Loadable(config, pod.env)
    /\ LET kept(count) == [d \in Drains |-> IF d \in DOMAIN config THEN count[d] ELSE 0]
       IN  pod' = [pod EXCEPT !.loaded = config, !.sent = kept(@), !.errors = kept(@)]
    /\ Free
    /\ UNCHANGED <<drain, secret, mirror, config, agent, queue, task, fresh, inherited, lost>>

\* A line reaches the receiver, or does not.
Deliver(d) ==
    /\ d \in DOMAIN pod.loaded \cap Chatty
    /\ \/ pod.sent[d] < MaxLines /\ pod' = [pod EXCEPT !.sent[d] = @ + 1] /\ fresh' = fresh \cup {d}
       \/ pod.errors[d] < MaxLines /\ pod' = [pod EXCEPT !.errors[d] = @ + 1] /\ UNCHANGED fresh
    /\ Free
    /\ UNCHANGED <<drain, secret, mirror, config, agent, queue, task, inherited, lost>>
----------------------------------------------------------------------------
Next ==
    \/ \E d \in Drains :
        \/ \E v \in Values \cup {None} : Create(d, v)
        \/ Delete(d) \/ Deliver(d)
        \/ \E unread \in {{}} \cup {{e} : e \in Drains} : Resolve(d, unread)
    \/ Install \/ Mirrors \/ Configure \/ PatchEnvFrom
    \/ \E answers \in BOOLEAN : Report(answers)
    \/ Crash \/ Roll \/ Restart \/ Reload

Spec == Init /\ [][Next]_vars

(***************************************************************************)
(* The controller works off its queue, which it takes in turn, and ends    *)
(* the reconcile it began.                                                 *)
(***************************************************************************)
Fairness ==
    /\ \A d \in Drains : SF_vars(Resolve(d, {}))
    /\ WF_vars(Mirrors /\ Free) /\ WF_vars(Configure /\ Free) /\ WF_vars(PatchEnvFrom /\ Free)
    /\ WF_vars(Report(TRUE))

FairSpec == Spec /\ Fairness
----------------------------------------------------------------------------
(***************************************************************************)
(* What the agent is given follows the drains: once changes and faults     *)
(* end, drains.yaml has exactly the drains whose headers can be had, and   *)
(* the mirrors and the environment exactly their headers as they are now;  *)
(* those of a deleted drain are gone (Reconcile, "a single source of       *)
(* truth").  When no drain is left, a restart of the server can lose the   *)
(* request that would have emptied them.                                   *)
(***************************************************************************)
Follows ==
    LET valid == {d \in Existing : drain[d].headers => secret[d] # None}
    IN  /\ config = [d \in valid |-> drain[d].headers]
        /\ agent.envFrom = {d \in valid : drain[d].headers}
        /\ mirror = [d \in Drains |-> IF d \in agent.envFrom THEN secret[d] ELSE None]

AgentFollows == <>[](agent.present /\ (Existing # {} \/ ~lost) => Follows)

(***************************************************************************)
(* A delivery that is reported took place: a status becomes Active, or     *)
(* counts more lines, only when the drain delivered lines since its last   *)
(* report, through restarts of Vector and changes of its configuration     *)
(* (refreshDelivery).  A drain made under the name of one that Vector      *)
(* still runs is told, once, of the lines of the other.                    *)
(***************************************************************************)
DeliveryIsReal ==
    [][\A d \in Drains :
        /\ drain[d] # None /\ drain'[d] # None
        /\ drain'[d].phase = "Active" /\ (drain[d].phase # "Active" \/ drain'[d].sent > drain[d].sent)
        => d \in fresh \cup inherited]_vars
============================================================================
