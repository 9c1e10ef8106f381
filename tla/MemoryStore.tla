---------------------------- MODULE MemoryStore ----------------------------
(***************************************************************************)
(* What the control-plane store promises about people, teams, grants, API  *)
(* tokens, the workspace's settings and its claim of an email domain: the  *)
(* in-memory implementation, "the reference for the SQL one"               *)
(* (pkg/store/memory.go).  A mutex makes every method one step, which      *)
(* leaves its outcome with the caller.                                     *)
(*                                                                         *)
(* One workspace, one email domain, and one name for tokens.  A person is  *)
(* their email address, a team its name, and of a team's description only  *)
(* members and platform role are kept.                                     *)
(***************************************************************************)
EXTENDS Naturals

CONSTANTS
    Callers,     \* requests that use the store at the same time
    People,      \* email addresses
    TeamNames,   \* names teams are given
    Everyone,    \* the built-in team
    Projects,
    Roles,       \* roles of a grant
    PlatformRoles,
    Operator     \* who a token without an owner's email belongs to

VARIABLES
    people,    \* status of each person, or "unknown"
    teams,     \* each team, or Absent
    grants,    \* roles on projects given to people and teams
    granted,   \* grants added so far: the identity of the last one
    tokens,    \* the API token of each owner, or NoToken
    minted,    \* tokens made so far
    claim,     \* the workspace's claim of the email domain, or NoClaim
    policy,    \* who may join: open, company or listed
    answer     \* who called last, and the outcome

membership == <<people, teams, grants, granted>>
apart == <<tokens, minted, claim, policy>>
storeVars == <<membership, apart, answer>>

Names == TeamNames \cup {Everyone}
Subjects == People \cup Names
Owners == People \cup {Operator}
Absent == [members |-> {}, platform |-> "none", exists |-> FALSE]
Team == [members : SUBSET People, platform : PlatformRoles, exists : {TRUE}]
TokenRole == [platform : PlatformRoles, projects : [Projects -> Roles \cup {"none"}]]
NoToken == [id |-> 0, platform |-> "none", projects |-> [p \in Projects |-> "none"], expired |-> FALSE]
NoClaim == [connector |-> "", verified |-> FALSE, exists |-> FALSE]
Connectors == {"", "sso"}
Policies == {"open", "company", "listed"}
Same(g, h) == g.project = h.project /\ g.role = h.role /\ g.subject = h.subject

\* Migrate makes the built-in team of the implicit workspace.
Fresh ==
    /\ people = [u \in People |-> "unknown"]
    /\ teams = [n \in Names |-> IF n = Everyone THEN [Absent EXCEPT !.exists = TRUE] ELSE Absent]
    /\ grants = {}
    /\ granted = 0

\* Or the workspace is in use: one team has everybody, and one grant.
InUse ==
    /\ people = [u \in People |-> "active"]
    /\ \E team \in TeamNames, p \in Projects, r \in Roles :
         /\ teams = [n \in Names |->
                [members |-> IF n = team THEN People ELSE {}, platform |-> "none",
                 exists |-> n \in {team, Everyone}]]
         /\ grants = {[id |-> 1, project |-> p, role |-> r, subject |-> team]}
    /\ granted = 1

Init ==
    /\ Fresh \/ InUse
    /\ tokens = [o \in Owners |-> NoToken]
    /\ minted = 0
    /\ claim = NoClaim
    /\ policy = "open"
    /\ answer = <<>>

Answer(c, outcome) == answer' = <<c, outcome>>

\* A method that returns an error leaves the store as it was.
Refuse(c, outcome) ==
    /\ Answer(c, outcome)
    /\ UNCHANGED <<membership, apart>>

---------------------------------------------------------------------------
(* People.                                                                  *)

\* A sign-in keeps the status of somebody who is known.
TouchIdentity(c, u) ==
    /\ people' = [people EXCEPT ![u] = IF @ = "unknown" THEN "active" ELSE @]
    /\ Answer(c, "ok")
    /\ UNCHANGED <<teams, grants, granted, apart>>

SetIdentityStatus(c, u, status) ==
    IF people[u] = "unknown"
      THEN Refuse(c, "not found")
      ELSE /\ people' = [people EXCEPT ![u] = status]
           /\ Answer(c, "ok")
           /\ UNCHANGED <<teams, grants, granted, apart>>

DeleteIdentity(c, u) ==
    IF people[u] = "unknown"
      THEN Refuse(c, "not found")
      ELSE /\ people' = [people EXCEPT ![u] = "unknown"]
           /\ Answer(c, "ok")
           /\ UNCHANGED <<teams, grants, granted, apart>>

---------------------------------------------------------------------------
(* Teams.                                                                   *)

PutTeam(c, n, team) ==
    IF n = Everyone
      THEN Refuse(c, "built in")
      ELSE /\ teams' = [teams EXCEPT ![n] = team]
           /\ Answer(c, "ok")
           /\ UNCHANGED <<people, grants, granted, apart>>

\* The grants of a team go with it.
DeleteTeam(c, n) ==
    CASE n = Everyone -> Refuse(c, "built in")
      [] n # Everyone /\ teams[n] = Absent -> Refuse(c, "not found")
      [] OTHER -> /\ teams' = [teams EXCEPT ![n] = Absent]
                  /\ grants' = {g \in grants : g.subject # n}
                  /\ Answer(c, "ok")
                  /\ UNCHANGED <<people, granted, apart>>

---------------------------------------------------------------------------
(* Grants.                                                                  *)

AddGrant(c, p, r, s) ==
    LET new == [id |-> granted + 1, project |-> p, role |-> r, subject |-> s]
    IN CASE s \in Names /\ teams[s] = Absent -> Refuse(c, "not found")
         [] ~(s \in Names /\ teams[s] = Absent) /\ (\E g \in grants : Same(g, new)) ->
              Refuse(c, "conflict")
         [] OTHER -> /\ grants' = grants \cup {new}
                     /\ granted' = granted + 1
                     /\ Answer(c, "ok")
                     /\ UNCHANGED <<people, teams, apart>>

DeleteGrant(c, id) ==
    IF ~\E g \in grants : g.id = id
      THEN Refuse(c, "not found")
      ELSE /\ grants' = {g \in grants : g.id # id}
           /\ Answer(c, "ok")
           /\ UNCHANGED <<people, teams, granted, apart>>

DeleteProjectGrants(c, p) ==
    /\ grants' = {g \in grants : g.project # p}
    /\ Answer(c, "ok")
    /\ UNCHANGED <<people, teams, granted, apart>>

---------------------------------------------------------------------------
(* API tokens, settings and the claim of a domain.                          *)

CreateToken(c, o, role) ==
    IF tokens[o] # NoToken
      THEN Refuse(c, "conflict")
      ELSE /\ tokens' = [tokens EXCEPT ![o] = [id |-> minted + 1, platform |-> role.platform,
                                               projects |-> role.projects, expired |-> FALSE]]
           /\ minted' = minted + 1
           /\ Answer(c, "ok")
           /\ UNCHANGED <<membership, claim, policy>>

DeleteToken(c, id) ==
    IF ~\E o \in Owners : tokens[o].id = id
      THEN Refuse(c, "not found")
      ELSE /\ tokens' = [o \in Owners |-> IF tokens[o].id = id THEN NoToken ELSE tokens[o]]
           /\ Answer(c, "ok")
           /\ UNCHANGED <<membership, minted, claim, policy>>

\* Its time passes: LookupToken finds it no more, and it keeps its name.
TokenExpires(o) ==
    /\ tokens[o] # NoToken
    /\ tokens' = [tokens EXCEPT ![o].expired = TRUE]
    /\ UNCHANGED <<membership, minted, claim, policy, answer>>

UpdateWorkspaceSettings(c, new) ==
    /\ policy' = new
    /\ Answer(c, "ok")
    /\ UNCHANGED <<membership, tokens, minted, claim>>

\* A claim that is there gets another connector and stays verified.
PutDomainClaim(c, connector) ==
    /\ claim' = [claim EXCEPT !.exists = TRUE, !.connector = connector]
    /\ Answer(c, "ok")
    /\ UNCHANGED <<membership, tokens, minted, policy>>

MarkDomainVerified(c) ==
    IF claim = NoClaim
      THEN Refuse(c, "not found")
      ELSE /\ claim' = [claim EXCEPT !.verified = TRUE]
           /\ Answer(c, "ok")
           /\ UNCHANGED <<membership, tokens, minted, policy>>

DeleteDomainClaim(c) ==
    IF claim = NoClaim
      THEN Refuse(c, "not found")
      ELSE /\ claim' = NoClaim
           /\ Answer(c, "ok")
           /\ UNCHANGED <<membership, tokens, minted, policy>>

---------------------------------------------------------------------------

\* Every method of the Store interface may fail; the store is then as if it
\* had not been called, or the caller does not learn what it did.
Fails(c) == Refuse(c, "error")

Membership(c) ==
    \/ \E u \in People :
         \/ TouchIdentity(c, u) \/ DeleteIdentity(c, u)
         \/ \E status \in {"active", "suspended"} : SetIdentityStatus(c, u, status)
    \/ \E n \in Names : DeleteTeam(c, n) \/ \E team \in Team : PutTeam(c, n, team)
    \/ \E p \in Projects :
         \/ DeleteProjectGrants(c, p)
         \/ \E r \in Roles, s \in Subjects : AddGrant(c, p, r, s)
    \/ \E id \in 1..granted : DeleteGrant(c, id)

Others(c) ==
    \/ \E o \in Owners, role \in TokenRole : CreateToken(c, o, role)
    \/ \E id \in 1..minted : DeleteToken(c, id)
    \/ \E new \in Policies : UpdateWorkspaceSettings(c, new)
    \/ \E connector \in Connectors : PutDomainClaim(c, connector)
    \/ MarkDomainVerified(c) \/ DeleteDomainClaim(c)

\* The answer goes to whoever called.
Next ==
    \/ \E o \in Owners : TokenExpires(o)
    \/ \E c \in Callers :
         /\ answer' # <<>> /\ answer'[1] = c
         /\ \/ Fails(c)
            \/ apart' = apart /\ Membership(c)
            \/ membership' = membership /\ Others(c)

Spec == Init /\ [][Next]_storeVars
=============================================================================
