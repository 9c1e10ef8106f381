------------------------------- MODULE Authz -------------------------------
(***************************************************************************)
(* Who may do what (pkg/authz, and the checks pkg/api makes with it): the  *)
(* roles a snapshot of teams, grants and suspensions gives a person, an    *)
(* API token or a visitor of an app.                                       *)
(*                                                                         *)
(* A snapshot is a record with the fields teams, grants and suspended: a   *)
(* team is a record [name, members, platform], a grant has a project, a    *)
(* role and a subject, which is a person or the name of a team.  The       *)
(* workspace is the implicit one.                                          *)
(***************************************************************************)
EXTENDS Naturals

CONSTANTS
    People,      \* email addresses
    Everyone,    \* the built-in team
    Projects,
    Operator     \* whoever holds the admin token or cluster access

Actions == {"open", "view", "deploy", "destroy", "cluster.view", "cluster.admin"}

\* Mutant: a developer may do what a viewer may not, and the other way round.
RoleActionsCrossed ==
    [none |-> {}, user |-> {"open"}, viewer |-> {"open", "view"},
     developer |-> {"open", "deploy"}, admin |-> {"open", "view", "deploy", "destroy"},
     platformViewer |-> {"cluster.view", "open", "view"}, platformAdmin |-> Actions]

roleActions ==
    [none |-> {}, user |-> {"open"}, viewer |-> {"open", "view"},
     developer |-> {"open", "view", "deploy"}, admin |-> {"open", "view", "deploy", "destroy"},
     platformViewer |-> {"cluster.view", "open", "view"}, platformAdmin |-> Actions]

rank == [none |-> 0, user |-> 1, viewer |-> 2, developer |-> 3, admin |-> 4]
platformRank == [none |-> 0, platformViewer |-> 1, platformAdmin |-> 2]

\* The strongest of some roles, by their rank.
Strongest(roles, ranks) ==
    CHOOSE r \in roles \cup {"none"} : \A q \in roles : ranks[q] <= ranks[r]

\* Snapshot.Enforced: a team other than the built-in one, or a grant.
Enforced(teams, gs) == (\E t \in teams : t.name # Everyone) \/ gs # {}

\* Snapshot.teamsOf: the built-in team has everybody.
TeamsOf(teams, u) == {t.name : t \in {x \in teams : x.name = Everyone \/ u \in x.members}}

Nothing == [platform |-> "none", projects |-> [p \in Projects |-> "none"], suspended |-> FALSE]

\* Snapshot.RolesFor
RolesFor(snap, u) ==
    LET mine == TeamsOf(snap.teams, u)
        granted(p) == {g.role : g \in {x \in snap.grants : x.project = p /\ x.subject \in mine \cup {u}}}
    IN CASE u = Operator -> [Nothing EXCEPT !.platform = "platformAdmin"]
         [] u # Operator /\ u \in snap.suspended -> [Nothing EXCEPT !.suspended = TRUE]
         [] u \notin snap.suspended \cup {Operator} /\ ~Enforced(snap.teams, snap.grants) ->
              [Nothing EXCEPT !.platform = "platformAdmin"]
         [] OTHER ->
              [Nothing EXCEPT
                 !.platform = Strongest({t.platform : t \in {x \in snap.teams : x.name \in mine}},
                                        platformRank),
                 !.projects = [p \in Projects |-> Strongest(granted(p), rank)]]

\* Snapshot.RoleForTeams: what "Open as" pretends.
RoleForTeams(snap, p, names) ==
    Strongest({g.role : g \in {x \in snap.grants : x.project = p /\ x.subject \in names}}, rank)

\* Roles.Can
Can(roles, action, p) == action \in roleActions[roles.platform] \cup roleActions[roles.projects[p]]

\* Roles.ProjectRole: an explicit role goes before what a platform viewer has.
ProjectRole(roles, p) ==
    CASE roles.platform = "platformAdmin" -> "admin"
      [] roles.platform # "platformAdmin" /\ roles.projects[p] # "none" -> roles.projects[p]
      [] roles.platform = "platformViewer" /\ roles.projects[p] = "none" -> "viewer"
      [] OTHER -> "none"

---------------------------------------------------------------------------
(* API tokens (tokens.go): a platform role and a role per project.          *)

\* createToken: no role of the token is stronger than its maker's.  (A role
\* on a project is compared with the maker's own grant there, whatever the
\* maker's platform role.)
Grantable(maker, token) ==
    /\ platformRank[token.platform] <= platformRank[maker.platform]
    /\ \A p \in Projects : rank[token.projects[p]] <= rank[maker.projects[p]]

\* Mutant: only the platform role is cut down to the owner's.
TokenRolesUncut(snap, known, token) ==
    LET owner == RolesFor(snap, token.owner)
    IN IF (token.owner # Operator /\ token.owner \notin known) \/ owner.suspended
         THEN Nothing
         ELSE [Nothing EXCEPT
                 !.platform = IF platformRank[token.platform] < platformRank[owner.platform]
                                THEN token.platform ELSE owner.platform,
                 !.projects = token.projects]

\* identifyWithToken: cut down to what its owner has now.  A token whose
\* owner is not among the people the workspace knows, or is suspended, is
\* nobody's.
TokenRoles(snap, known, token) ==
    LET owner == RolesFor(snap, token.owner)
        weaker(r, q, ranks) == IF ranks[r] < ranks[q] THEN r ELSE q
    IN IF (token.owner # Operator /\ token.owner \notin known) \/ owner.suspended
         THEN Nothing
         ELSE [Nothing EXCEPT
                 !.platform = weaker(token.platform, owner.platform, platformRank),
                 !.projects = [p \in Projects |-> weaker(token.projects[p], owner.projects[p], rank)]]

---------------------------------------------------------------------------
(* Visits of apps (edge.go).                                                *)

\* What a preview pretends: to be signed in as a member of some teams, or not
\* to be signed in.
NotPreview == [pretends |-> FALSE, anonymous |-> FALSE, teams |-> {}]

\* Mutant: whoever is signed in passes.
EdgeAuthOpen(snap, mode, visitor, preview, p) ==
    LET roles == RolesFor(snap, visitor)
    IN [passes |-> ~roles.suspended, named |-> TRUE, teams |-> TeamsOf(snap.teams, visitor),
        role |-> ProjectRole(roles, p)]

\* edgeAuth, for a visitor whose app cookie names a live session, of an app
\* whose access is "identified" (anybody, who is told who they are) or
\* "authenticated" (those who may open it).  What the app learns of whoever
\* passes: whether they have a name, their teams and their role.
EdgeAuth(snap, mode, visitor, preview, p) ==
    LET roles == RolesFor(snap, visitor)
        teams == IF preview.pretends THEN preview.teams ELSE TeamsOf(snap.teams, visitor)
        role == IF preview.pretends THEN RoleForTeams(snap, p, preview.teams) ELSE ProjectRole(roles, p)
        mayOpen == IF preview.pretends THEN role # "none" ELSE Can(roles, "open", p)
    IN IF preview.pretends /\ preview.anonymous
         THEN [passes |-> mode = "identified", named |-> FALSE, teams |-> {}, role |-> "none"]
         ELSE [passes |-> ~roles.suspended /\ (mode = "identified" \/ mayOpen),
               named |-> TRUE, teams |-> teams, role |-> role]

\* The launcher shows the apps a person may open, and those for everybody.
Launcher(snap, visitor, modes) ==
    {p \in Projects : modes[p] # "authenticated" \/ Can(RolesFor(snap, visitor), "open", p)}
=============================================================================
