------------------------------- MODULE Access ------------------------------
(***************************************************************************)
(* The control-plane store in PostgreSQL (pkg/store/postgres.go), where a  *)
(* method is one or more statements and nothing holds them together, the   *)
(* handlers that call several methods (removeMember, deleteToken,          *)
(* verifyDomainClaim, export and import), and the snapshot of it that      *)
(* pkg/authz answers from.                                                 *)
(*                                                                         *)
(* A row of grants names its team by the identifier of its row: a team     *)
(* that is deleted and made again has another one.  Statements commit one  *)
(* by one; foreign keys and unique indexes are checked when they do.       *)
(***************************************************************************)
EXTENDS Authz

CONSTANTS
    Callers, TeamNames, Roles, PlatformRoles,   \* of MemoryStore, with those of Authz
    Nobody,      \* the user of a grant that is a team's
    Budget       \* bound: calls, loads, exports, imports and failures

ASSUME NamesAssumption ==
    /\ Everyone \notin TeamNames
    /\ People \cap (TeamNames \cup {Everyone}) = {}
    /\ Nobody \notin People \cup {Operator} /\ Operator \notin People
    /\ "developer" \in Roles /\ Roles \subseteq {"user", "viewer", "developer", "admin"}
    /\ "none" \in PlatformRoles /\ PlatformRoles \subseteq {"none", "platformViewer", "platformAdmin"}
    /\ Budget \in Nat

VARIABLES
    people,    \* table identities: the status of each, or "unknown"
    rows,      \* table teams, by name
    grants,    \* table grants
    granted,   \* grants inserted so far
    made,      \* teams inserted so far
    tokens,    \* table api_tokens: the one of each owner
    minted,    \* tokens inserted so far
    could,     \* history: what whoever made each token could do themselves
    claim,     \* table domain_claims: the workspace's claim of the email domain
    policy,    \* settings.joinPolicy
    answer,    \* who called the last method, and its outcome
    calls,     \* where each caller's method or handler is
    archive,   \* the last export
    load,      \* the load of a snapshot of one replica, or its result
    budget

tables == <<people, rows, grants, granted, made>>
apart == <<tokens, minted, could, claim, policy>>
vars == <<tables, apart, answer, calls, archive, load, budget>>

Names == TeamNames \cup {Everyone}
Subjects == People \cup Names
NoRow == [id |-> 0, members |-> {}, platform |-> "none"]
Contents == [members : SUBSET People, platform : PlatformRoles]
Owners == People \cup {Operator}
TokenRole == [platform : PlatformRoles, projects : [Projects -> Roles \cup {"none"}]]
NoToken == [id |-> 0, platform |-> "none", projects |-> [p \in Projects |-> "none"], expired |-> FALSE]
NoClaim == [connector |-> "", verified |-> FALSE, exists |-> FALSE]
NoGrant == [id |-> 0, project |-> "none", role |-> "none", user |-> Nobody, team |-> 0]

\* grantSelect: a left join, for the name of the team.
SubjectOf(g) ==
    CASE g.user # Nobody -> g.user
      [] g.user = Nobody /\ (\E n \in Names : rows[n].id = g.team) ->
           CHOOSE n \in Names : rows[n].id = g.team
      [] OTHER -> ""
Joined == {[id |-> g.id, project |-> g.project, role |-> g.role, subject |-> SubjectOf(g)] :
             g \in grants}

NoDump == [people |-> {}, teams |-> {}, grants |-> {}]
NoCall == [pc |-> "idle", importing |-> FALSE, overwrite |-> FALSE,
           id |-> 0, grant |-> NoGrant, dump |-> NoDump, left |-> NoDump]
NoLoad == [pc |-> "idle", teams |-> {}, grants |-> {}, suspended |-> {},
           undisturbed |-> TRUE]

\* A backup made on another install.
Backup ==
    [people |-> {[user |-> u, status |-> "suspended"] : u \in People},
     teams |-> {[name |-> n, members |-> People, platform |-> "none"] : n \in TeamNames},
     grants |-> {[id |-> 0, project |-> p, role |-> r, subject |-> n] :
                   p \in Projects, r \in {CHOOSE x \in Roles : TRUE}, n \in TeamNames}]

\* A workspace just made, in a cluster where a backup can be restored ...
Fresh ==
    /\ people = [u \in People |-> "unknown"]
    /\ rows = [n \in Names |-> IF n = Everyone THEN [NoRow EXCEPT !.id = 1] ELSE NoRow]
    /\ grants = {}
    /\ granted = 0
    /\ made = 1
    /\ archive = Backup

\* ... or one in use: a team of everybody has a role.
InUse ==
    /\ people = [u \in People |-> "active"]
    /\ \E team \in TeamNames, p \in Projects :
         /\ rows = [n \in Names |->
                CASE n = Everyone -> [NoRow EXCEPT !.id = 1]
                  [] n = team -> [NoRow EXCEPT !.id = 2, !.members = People]
                  [] OTHER -> NoRow]
         /\ grants = {[id |-> 1, project |-> p, role |-> "developer", user |-> Nobody, team |-> 2]}
    /\ granted = 1
    /\ made = 2
    /\ archive = NoDump

Init ==
    /\ Fresh \/ InUse
    /\ tokens = [o \in Owners |-> NoToken]
    /\ minted = 0
    /\ could = [o \in Owners |-> {}]
    /\ claim = NoClaim
    /\ policy = "open"
    /\ answer = <<>>
    /\ calls = [c \in Callers |-> NoCall]
    /\ load = NoLoad
    /\ budget = Budget

Spend == budget > 0 /\ budget' = budget - 1

---------------------------------------------------------------------------
(* The statements of a method.                                              *)

Row(n) == [name |-> n, members |-> rows[n].members, platform |-> rows[n].platform]
TeamRows == {Row(n) : n \in {x \in Names : rows[x].id # 0}}
SuspendedNow == {u \in People : people[u] = "suspended"}

OpenNow == ~Enforced(TeamRows, Joined)

\* A statement of c that writes: a snapshot being loaded, or loaded, is disturbed.
Writes(c, next) ==
    /\ calls' = [calls EXCEPT ![c] = next]
    /\ load' = [load EXCEPT !.undisturbed = FALSE]

\* One that only reads.
Reads(c, next) ==
    /\ calls' = [calls EXCEPT ![c] = next]
    /\ UNCHANGED <<tables, load>>

Answer(c, outcome) == answer' = <<c, outcome>>

\* A method returns to whoever called it: import goes on after a grant that
\* was added or is there, and stops at another error.
Returned(c, outcome) ==
    LET m == calls[c]
    IN CASE ~m.importing -> NoCall
         [] m.importing /\ outcome \in {"ok", "conflict"} ->
              [m EXCEPT !.pc = "import", !.grant = NoGrant,
                        !.left.grants = {g \in @ : g.id # m.id}, !.id = 0]
         [] OTHER -> [m EXCEPT !.pc = "stopped"]

TouchIdentity(c, u) ==
    /\ people' = [people EXCEPT ![u] = IF @ = "unknown" THEN "active" ELSE @]
    /\ Answer(c, "ok")
    /\ UNCHANGED <<rows, grants, granted, made>>

SetIdentityStatus(c, u, status) ==
    /\ people' = [people EXCEPT ![u] = IF @ = "unknown" THEN @ ELSE status]
    /\ Answer(c, IF people[u] = "unknown" THEN "not found" ELSE "ok")
    /\ UNCHANGED <<rows, grants, granted, made>>

DeleteIdentity(c, u) ==
    /\ people' = [people EXCEPT ![u] = "unknown"]
    /\ Answer(c, IF people[u] = "unknown" THEN "not found" ELSE "ok")
    /\ UNCHANGED <<rows, grants, granted, made>>

\* INSERT ... ON CONFLICT: the row keeps its identifier.
PutTeam(c, n, team) ==
    /\ IF n = Everyone
         THEN UNCHANGED <<rows, made>> /\ Answer(c, "built in")
         ELSE /\ rows' = [rows EXCEPT ![n] = [id |-> IF @.id = 0 THEN made + 1 ELSE @.id,
                                              members |-> team.members,
                                              platform |-> team.platform]]
              /\ made' = IF rows[n].id = 0 THEN made + 1 ELSE made
              /\ Answer(c, "ok")
    /\ UNCHANGED <<people, grants, granted>>

\* ON DELETE CASCADE: the grants of the row go with it.
DeleteTeam(c, n) ==
    /\ IF n = Everyone \/ rows[n].id = 0
         THEN /\ UNCHANGED <<rows, grants>>
              /\ Answer(c, IF n = Everyone THEN "built in" ELSE "not found")
         ELSE /\ rows' = [rows EXCEPT ![n] = NoRow]
              /\ grants' = {g \in grants : g.team # rows[n].id}
              /\ Answer(c, "ok")
    /\ UNCHANGED <<people, granted, made>>

DeleteProjectGrants(c, p) ==
    /\ grants' = {g \in grants : g.project # p}
    /\ Answer(c, "ok")
    /\ UNCHANGED <<people, rows, granted, made>>

\* The first statement of AddGrant, on behalf of m: the row of the team.
SelectTeam(c, m, p, r, s) ==
    /\ IF s \in Names /\ rows[s].id = 0
         THEN /\ Answer(c, "not found")
              /\ Reads(c, IF m.importing THEN [m EXCEPT !.pc = "stopped"] ELSE m)
         ELSE /\ answer' = answer
              /\ Reads(c, [m EXCEPT !.pc = "insert", !.grant =
                    [id |-> 0, project |-> p, role |-> r,
                     user |-> IF s \in People THEN s ELSE Nobody,
                     team |-> IF s \in Names THEN rows[s].id ELSE 0]])

\* Mutant: the grant names whatever row the team has when it is inserted,
\* and nothing checks that there is one.
InsertGrantUnchecked(c) ==
    LET new == [calls[c].grant EXCEPT !.id = granted + 1]
        twin == \E g \in grants : [g EXCEPT !.id = new.id] = new
    IN /\ calls[c].pc = "insert"
       /\ IF twin
            THEN Answer(c, "conflict") /\ Writes(c, Returned(c, "conflict")) /\ UNCHANGED tables
            ELSE /\ grants' = grants \cup {new}
                 /\ granted' = granted + 1
                 /\ Answer(c, "ok")
                 /\ UNCHANGED <<people, rows, made>>
                 /\ Writes(c, [calls[c] EXCEPT !.pc = "read", !.grant = new])
       /\ UNCHANGED <<apart, archive, budget>>

\* The second: refused by the unique index, or by the foreign key when the
\* row of the team is gone.
InsertGrant(c) ==
    LET new == [calls[c].grant EXCEPT !.id = granted + 1]
        twin == \E g \in grants : [g EXCEPT !.id = new.id] = new
        orphan == new.team # 0 /\ \A n \in Names : rows[n].id # new.team
        refused == IF twin THEN "conflict" ELSE "error"
    IN /\ calls[c].pc = "insert"
       /\ IF twin \/ orphan
            THEN Answer(c, refused) /\ Reads(c, Returned(c, refused))
            ELSE /\ grants' = grants \cup {new}
                 /\ granted' = granted + 1
                 /\ Answer(c, "ok")
                 /\ UNCHANGED <<people, rows, made>>
                 /\ Writes(c, [calls[c] EXCEPT !.pc = "read", !.grant = new])
       /\ UNCHANGED <<apart, archive, budget>>

\* The third: what was inserted may be gone again.
ReadGrant(c) ==
    LET outcome == IF calls[c].grant \in grants THEN "ok" ELSE "error"
    IN /\ calls[c].pc = "read"
       /\ Answer(c, outcome)
       /\ Reads(c, Returned(c, outcome))
       /\ UNCHANGED <<apart, archive, budget>>

---------------------------------------------------------------------------
(* Requests.                                                                *)

\* putTeam, deleteTeam, setPersonStatus, forgetPerson, the grants of a
\* project that is destroyed, and a sign-in that is recorded.
Request(c) ==
    /\ calls[c].pc = "idle"
    /\ Spend
    /\ \/ \E u \in People :
            \/ TouchIdentity(c, u) \/ DeleteIdentity(c, u)
            \/ \E status \in {"active", "suspended"} : SetIdentityStatus(c, u, status)
       \/ \E n \in Names : DeleteTeam(c, n) \/ \E team \in Contents : PutTeam(c, n, team)
       \/ \E p \in Projects : DeleteProjectGrants(c, p)
    /\ Writes(c, NoCall)
    /\ UNCHANGED <<apart, archive>>

\* addMember
AddMember(c) ==
    /\ calls[c].pc = "idle"
    /\ Spend
    /\ \E p \in Projects, r \in Roles, s \in Subjects : SelectTeam(c, NoCall, p, r, s)
    /\ UNCHANGED <<apart, archive>>

\* removeMember: finds the grant in a list ...
FindMember(c) ==
    /\ calls[c].pc = "idle"
    /\ Spend
    /\ \E g \in grants : Reads(c, [NoCall EXCEPT !.pc = "delete", !.id = g.id])
    /\ UNCHANGED <<apart, answer, archive>>

\* ... and deletes it by its identifier; one that is gone is as good.
DeleteGrant(c) ==
    /\ calls[c].pc = "delete"
    /\ grants' = {g \in grants : g.id # calls[c].id}
    /\ Answer(c, IF \E g \in grants : g.id = calls[c].id THEN "ok" ELSE "not found")
    /\ UNCHANGED <<people, rows, granted, made>>
    /\ Writes(c, NoCall)
    /\ UNCHANGED <<apart, archive, budget>>

\* exportWorkspace: people, then teams, then grants.
ExportPeople(c) ==
    /\ calls[c].pc = "idle"
    /\ Spend
    /\ Reads(c, [NoCall EXCEPT !.pc = "export teams", !.dump.people =
          {[user |-> u, status |-> people[u]] : u \in {x \in People : people[x] # "unknown"}}])
    /\ UNCHANGED <<apart, answer, archive>>

ExportTeams(c) ==
    /\ calls[c].pc = "export teams"
    /\ Reads(c, [calls[c] EXCEPT !.pc = "export grants", !.dump.teams = TeamRows])
    /\ UNCHANGED <<apart, answer, archive, budget>>

ExportGrants(c) ==
    /\ calls[c].pc = "export grants"
    /\ archive' = [calls[c].dump EXCEPT !.grants = Joined]
    /\ Reads(c, NoCall)
    /\ UNCHANGED <<apart, answer, budget>>

\* importWorkspace: teams, grants and people of the last export, through the
\* same methods, until one of them fails.
BeginImport(c) ==
    /\ calls[c].pc = "idle"
    /\ Spend
    /\ archive # NoDump
    /\ \E overwrite \in BOOLEAN :
         Reads(c, [NoCall EXCEPT !.pc = "import", !.importing = TRUE, !.overwrite = overwrite,
                                 !.left = archive])
    /\ UNCHANGED <<apart, answer, archive>>

\* A team that is there is left as it is, unless told to overwrite.  (The
\* statement that looks and the one that writes are one step.)
ImportTeam(c) ==
    /\ calls[c].pc = "import"
    /\ \E t \in calls[c].left.teams :
         LET m == [calls[c] EXCEPT !.left.teams = @ \ {t}]
         IN IF t.name = Everyone \/ (~m.overwrite /\ rows[t.name].id # 0)
              THEN Reads(c, m) /\ answer' = answer
              ELSE PutTeam(c, t.name, t) /\ Writes(c, m)
    /\ UNCHANGED <<apart, archive, budget>>

ImportGrant(c) ==
    /\ calls[c].pc = "import"
    /\ calls[c].left.teams = {}
    /\ \E g \in calls[c].left.grants :
         SelectTeam(c, [calls[c] EXCEPT !.id = g.id], g.project, g.role, g.subject)
    /\ UNCHANGED <<apart, archive, budget>>

\* Then the people, and those suspended are suspended by a method of its own.
ImportPerson(c) ==
    /\ calls[c].pc = "import"
    /\ calls[c].left.teams = {} /\ calls[c].left.grants = {}
    /\ \E x \in calls[c].left.people :
         /\ TouchIdentity(c, x.user)
         /\ Writes(c, IF x.status = "suspended" THEN [calls[c] EXCEPT !.pc = "suspend",
                                                              !.left.people = @ \ {x},
                                                              !.grant.user = x.user]
                          ELSE [calls[c] EXCEPT !.left.people = @ \ {x}])
    /\ UNCHANGED <<apart, archive, budget>>

ImportStatus(c) ==
    /\ calls[c].pc = "suspend"
    /\ SetIdentityStatus(c, calls[c].grant.user, "suspended")
    /\ Writes(c, [calls[c] EXCEPT !.pc = "import", !.grant = NoGrant])
    /\ UNCHANGED <<apart, archive, budget>>

EndImport(c) ==
    /\ \/ calls[c].pc = "stopped"
       \/ calls[c].pc = "import" /\ \A part \in {"teams", "grants", "people"} : calls[c].left[part] = {}
    /\ calls' = [calls EXCEPT ![c] = NoCall]
    /\ UNCHANGED <<tables, apart, answer, archive, load, budget>>

---------------------------------------------------------------------------
(* API tokens, the join policy and the claim of the domain.                 *)

\* A statement that writes none of the tables a snapshot or a dump is of.
Aside(c, next) ==
    /\ calls' = [calls EXCEPT ![c] = next]
    /\ UNCHANGED <<tables, archive, load>>

\* createToken, for whoever has the roles in the snapshot of the replica.
CreateToken(c) ==
    /\ calls[c].pc = "idle" /\ load.pc = "done"
    /\ Spend
    /\ \E o \in Owners, role \in TokenRole :
         LET maker == RolesFor(load, o)
         IN /\ Grantable(maker, role)
            /\ IF tokens[o] # NoToken
                 THEN Answer(c, "conflict") /\ UNCHANGED apart
                 ELSE /\ tokens' = [tokens EXCEPT ![o] =
                            [id |-> minted + 1, platform |-> role.platform,
                             projects |-> role.projects, expired |-> FALSE]]
                      /\ minted' = minted + 1
                      /\ could' = [could EXCEPT ![o] =
                            {x \in Actions \X Projects : Can(maker, x[1], x[2])}]
                      /\ Answer(c, "ok")
                      /\ UNCHANGED <<claim, policy>>
    /\ Aside(c, NoCall)

\* deleteToken: finds the token in a list ...
FindToken(c) ==
    /\ calls[c].pc = "idle"
    /\ Spend
    /\ \E o \in Owners : tokens[o] # NoToken /\ Aside(c, [NoCall EXCEPT !.pc = "revoke",
                                                                    !.id = tokens[o].id])
    /\ UNCHANGED <<apart, answer>>

\* ... and deletes it by its identifier.
DeleteToken(c) ==
    /\ calls[c].pc = "revoke"
    /\ tokens' = [o \in Owners |-> IF tokens[o].id = calls[c].id THEN NoToken ELSE tokens[o]]
    /\ Answer(c, IF \E o \in Owners : tokens[o].id = calls[c].id THEN "ok" ELSE "not found")
    /\ Aside(c, NoCall)
    /\ UNCHANGED <<minted, could, claim, policy, budget>>

TokenExpires(o) ==
    /\ tokens[o] # NoToken /\ ~tokens[o].expired
    /\ tokens' = [tokens EXCEPT ![o].expired = TRUE]
    /\ UNCHANGED <<tables, minted, could, claim, policy, answer, calls, archive, load, budget>>

\* updateWorkspace, putDomainClaim and deleteDomainClaim.
Settings(c) ==
    /\ calls[c].pc = "idle"
    /\ Spend
    /\ \/ /\ policy' \in {"open", "company", "listed"} \ {policy}
          /\ Answer(c, "ok") /\ claim' = claim
       \/ /\ \E connector \in {"", "sso"} :
               claim' = [claim EXCEPT !.exists = TRUE, !.connector = connector]
          /\ Answer(c, "ok") /\ policy' = policy
       \/ /\ claim' = NoClaim
          /\ Answer(c, IF claim = NoClaim THEN "not found" ELSE "ok") /\ policy' = policy
    /\ Aside(c, NoCall)
    /\ UNCHANGED <<tokens, minted, could>>

\* verifyDomainClaim: finds the claim, looks for its record in the DNS ...
FindClaim(c) ==
    /\ calls[c].pc = "idle"
    /\ Spend
    /\ claim.exists
    /\ Aside(c, [NoCall EXCEPT !.pc = "look up"])
    /\ UNCHANGED <<apart, answer>>

\* ... and marks, if the record is there, whatever claim there is by then.
LookUp(c) ==
    /\ calls[c].pc = "look up"
    /\ \/ answer' = answer /\ claim' = claim
       \/ /\ claim' = [claim EXCEPT !.verified = claim.exists]
          /\ Answer(c, IF claim.exists THEN "ok" ELSE "not found")
    /\ Aside(c, NoCall)
    /\ UNCHANGED <<tokens, minted, could, policy, budget>>

\* The database fails under a handler that has begun: an import stops, and
\* another is over.
Fails(c) ==
    /\ calls[c].pc # "idle"
    /\ Spend
    /\ Answer(c, "error")
    /\ calls' = [calls EXCEPT ![c] = IF @.importing
                   THEN [@ EXCEPT !.pc = "stopped"] ELSE NoCall]
    /\ UNCHANGED <<tables, apart, archive, load>>

---------------------------------------------------------------------------
(* A snapshot is loaded: teams, then grants, then people.                   *)

LoadTeams ==
    /\ \/ load.pc = "idle" /\ budget' = budget
       \/ load.pc = "done" /\ ~load.undisturbed /\ Spend
    /\ load' = [NoLoad EXCEPT !.pc = "grants", !.teams = TeamRows]
    /\ UNCHANGED <<tables, apart, answer, calls, archive>>

LoadGrants ==
    /\ load.pc = "grants"
    /\ load' = [load EXCEPT !.pc = "people", !.grants = Joined]
    /\ UNCHANGED <<tables, apart, answer, calls, archive, budget>>

LoadPeople ==
    /\ load.pc = "people"
    /\ load' = [load EXCEPT !.pc = "done", !.suspended = SuspendedNow]
    /\ UNCHANGED <<tables, apart, answer, calls, archive, budget>>

Next ==
    \/ \E c \in Callers :
         \/ Request(c) \/ AddMember(c) \/ InsertGrant(c) \/ ReadGrant(c)
         \/ FindMember(c) \/ DeleteGrant(c)
         \/ ExportPeople(c) \/ ExportTeams(c) \/ ExportGrants(c)
         \/ BeginImport(c) \/ ImportTeam(c) \/ ImportGrant(c) \/ ImportPerson(c)
         \/ ImportStatus(c) \/ EndImport(c)
         \/ CreateToken(c) \/ FindToken(c) \/ DeleteToken(c)
         \/ Settings(c) \/ FindClaim(c) \/ LookUp(c)
         \/ Fails(c)
    \/ \E o \in Owners : TokenExpires(o)
    \/ LoadTeams \/ LoadGrants \/ LoadPeople

Spec == Init /\ [][Next]_vars

---------------------------------------------------------------------------
(* Properties.                                                              *)

Store == INSTANCE MemoryStore WITH
    teams <- [n \in Names |-> [members |-> rows[n].members, platform |-> rows[n].platform,
                               exists |-> rows[n].id # 0]],
    grants <- Joined

\* The SQL store implements the in-memory one: whatever statements of other
\* requests come between those of AddGrant, each method has the effect and
\* the outcome of one step of the reference, or fails without an effect
\* (memory.go: "the reference for the SQL one").
ImplementsMemory == Store!Spec

\* What teams, grants and statuses allow, said without snapshots and ranks:
\* an action is allowed to a person by what any one of their roles allows.
Allowed(u, action, p) ==
    LET mine == {t \in TeamRows : t.name = Everyone \/ u \in t.members}
    IN /\ people[u] # "suspended"
       /\ \/ OpenNow
          \/ \E t \in mine : action \in roleActions[t.platform]
          \/ \E g \in Joined : /\ g.project = p /\ action \in roleActions[g.role]
                               /\ g.subject = u \/ \E t \in mine : t.name = g.subject

\* A snapshot loaded while nobody wrote answers every question as the store
\* does: taking only the strongest role of a person loses nothing, teams are
\* found by their name, and a suspension goes before everything else
\* (authz.go RolesFor).
RolesAsGranted ==
    load.pc = "done" /\ load.undisturbed =>
      \A u \in People, p \in Projects, a \in Actions :
        Can(RolesFor(load, u), a, p) <=> Allowed(u, a, p)

\* With such a snapshot a closed app opens for those who may open it, and for
\* nobody who only knows its address; what an app is told of a visitor's
\* teams is what the store says; an app for everybody opens for whoever is
\* not suspended; and the launcher shows them what opens (edge.go edgeAuth).
VisitsAsGranted ==
    load.pc = "done" /\ load.undisturbed =>
      \A u \in People, p \in Projects, mode \in {"identified", "authenticated"} :
        LET visit == EdgeAuth(load, mode, u, NotPreview, p)
            shown == p \in Launcher(load, u, [q \in Projects |-> mode])
        IN /\ visit.passes <=> /\ people[u] # "suspended"
                               /\ mode = "identified" \/ Allowed(u, "open", p)
           /\ visit.passes => /\ shown
                              /\ visit.teams = {t.name : t \in {x \in TeamRows : u \in x.members}} \cup {Everyone}
           /\ shown /\ people[u] # "suspended" => visit.passes

\* What an API token allows, whoever made it could do themselves when they
\* made it, and its owner may do now: by any snapshot, whatever happened
\* between making the token and using it ("a demoted owner cannot keep power
\* through an old token, and a suspended owner's tokens stop with them",
\* tokens.go).
TokenWithinOwner ==
    load.pc = "done" =>
      \A o \in Owners, p \in Projects, a \in Actions :
        LET known == {u \in People : people[u] # "unknown"}
            token == [owner |-> o, platform |-> tokens[o].platform, projects |-> tokens[o].projects]
        IN tokens[o] # NoToken /\ ~tokens[o].expired /\ Can(TokenRoles(load, known, token), a, p) =>
             /\ <<a, p>> \in could[o]
             /\ o = Operator \/ (o \in known /\ Can(RolesFor(load, o), a, p))
             /\ o # Operator /\ load.undisturbed => Allowed(o, a, p)
=============================================================================
