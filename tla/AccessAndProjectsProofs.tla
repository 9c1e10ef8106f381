---------------------- MODULE AccessAndProjectsProofs ----------------------
(***************************************************************************)
(* What Access promises for any callers, people, teams, projects and       *)
(* roles: a snapshot that nobody's write disturbed answers as the tables   *)
(* do, for people, for visitors of apps and for API tokens.  And what      *)
(* Projects promises for any projects, plans and requests: a workspace is  *)
(* over its plan only for a reason.                                        *)
(***************************************************************************)
EXTENDS Access, Projects, FiniteSetTheorems, TLAPS

---------------------------------------------------------------------------
(* Roles and what they allow.                                               *)

ProjectRoles == {"none", "user", "viewer", "developer", "admin"}
PlatformRoleNames == {"none", "platformViewer", "platformAdmin"}

\* The ranks agree with what the roles allow: a stronger role allows more.
LEMMA RankAllows ==
    ASSUME NEW r \in ProjectRoles, NEW q \in ProjectRoles, rank[q] <= rank[r]
    PROVE  roleActions[q] \subseteq roleActions[r]
  BY DEF ProjectRoles, rank, roleActions, Actions

LEMMA PlatformRankAllows ==
    ASSUME NEW r \in PlatformRoleNames, NEW q \in PlatformRoleNames,
           platformRank[q] <= platformRank[r]
    PROVE  roleActions[q] \subseteq roleActions[r]
  BY DEF PlatformRoleNames, platformRank, roleActions, Actions

\* The strongest of some roles is one of them, or none, and no weaker than any.
LEMMA StrongestRole ==
    ASSUME NEW R \in SUBSET ProjectRoles
    PROVE  /\ Strongest(R, rank) \in R \cup {"none"}
           /\ Strongest(R, rank) \in ProjectRoles
           /\ \A q \in R : rank[q] <= rank[Strongest(R, rank)]
  <1>1. \E r \in R \cup {"none"} : \A q \in R : rank[q] <= rank[r]
    <2>1. CASE "admin" \in R
      BY <2>1 DEF ProjectRoles, rank
    <2>2. CASE "admin" \notin R /\ "developer" \in R
      BY <2>2 DEF ProjectRoles, rank
    <2>3. CASE R \cap {"admin", "developer"} = {} /\ "viewer" \in R
      BY <2>3 DEF ProjectRoles, rank
    <2>4. CASE R \cap {"admin", "developer", "viewer"} = {} /\ "user" \in R
      BY <2>4 DEF ProjectRoles, rank
    <2>5. CASE R \cap {"admin", "developer", "viewer", "user"} = {}
      BY <2>5 DEF ProjectRoles, rank
    <2> QED BY <2>1, <2>2, <2>3, <2>4, <2>5
  <1> QED BY <1>1 DEF Strongest, ProjectRoles

LEMMA StrongestPlatformRole ==
    ASSUME NEW R \in SUBSET PlatformRoleNames
    PROVE  /\ Strongest(R, platformRank) \in R \cup {"none"}
           /\ Strongest(R, platformRank) \in PlatformRoleNames
           /\ \A q \in R : platformRank[q] <= platformRank[Strongest(R, platformRank)]
  <1>1. \E r \in R \cup {"none"} : \A q \in R : platformRank[q] <= platformRank[r]
    <2>1. CASE "platformAdmin" \in R
      BY <2>1 DEF PlatformRoleNames, platformRank
    <2>2. CASE "platformAdmin" \notin R /\ "platformViewer" \in R
      BY <2>2 DEF PlatformRoleNames, platformRank
    <2>3. CASE R \cap {"platformAdmin", "platformViewer"} = {}
      BY <2>3 DEF PlatformRoleNames, platformRank
    <2> QED BY <2>1, <2>2, <2>3
  <1> QED BY <1>1 DEF Strongest, PlatformRoleNames

\* Taking the strongest role of a person loses nothing any role of theirs allows.
LEMMA StrongestAllows ==
    ASSUME NEW R \in SUBSET ProjectRoles, NEW a
    PROVE  a \in roleActions[Strongest(R, rank)] <=> \E r \in R : a \in roleActions[r]
  <1>1. a \notin roleActions["none"]
    BY DEF roleActions
  <1>2. ASSUME NEW r \in R, a \in roleActions[r]
        PROVE  a \in roleActions[Strongest(R, rank)]
    BY <1>2, StrongestRole, RankAllows
  <1> QED BY <1>1, <1>2, StrongestRole

LEMMA StrongestPlatformAllows ==
    ASSUME NEW R \in SUBSET PlatformRoleNames, NEW a
    PROVE  a \in roleActions[Strongest(R, platformRank)] <=> \E r \in R : a \in roleActions[r]
  <1>1. a \notin roleActions["none"]
    BY DEF roleActions
  <1>2. ASSUME NEW r \in R, a \in roleActions[r]
        PROVE  a \in roleActions[Strongest(R, platformRank)]
    BY <1>2, StrongestPlatformRole, PlatformRankAllows
  <1> QED BY <1>1, <1>2, StrongestPlatformRole

---------------------------------------------------------------------------
(* Snapshots.                                                               *)

DumpTeam == [name : Names, members : SUBSET People, platform : PlatformRoles]
DumpGrant == [id : Nat, project : Projects, role : Roles, subject : Subjects \cup {""}]
Snapshot == [pc : {"idle", "grants", "people", "done"}, teams : SUBSET DumpTeam,
             grants : SUBSET DumpGrant, suspended : SUBSET People, undisturbed : BOOLEAN]

\* What a snapshot allows a person, said without ranks: Allowed, of a snapshot.
AllowedBy(snap, u, a, p) ==
    LET mine == {t \in snap.teams : t.name = Everyone \/ u \in t.members}
    IN /\ u \notin snap.suspended
       /\ \/ ~Enforced(snap.teams, snap.grants)
          \/ \E t \in mine : a \in roleActions[t.platform]
          \/ \E g \in snap.grants : /\ g.project = p /\ a \in roleActions[g.role]
                                    /\ g.subject = u \/ \E t \in mine : t.name = g.subject

\* Teams are found by their names: no two have the same.
Distinct(teams) == \A s, t \in teams : s.name = t.name => s = t

LEMMA SnapshotRoles ==
    ASSUME NEW snap \in Snapshot
    PROVE  /\ \A t \in snap.teams : t.platform \in PlatformRoleNames
           /\ \A g \in snap.grants : g.role \in ProjectRoles
  <1>1. PlatformRoles \subseteq PlatformRoleNames /\ Roles \subseteq ProjectRoles
    BY NamesAssumption DEF PlatformRoleNames, ProjectRoles
  <1>2. snap.teams \in SUBSET DumpTeam /\ snap.grants \in SUBSET DumpGrant
    BY DEF Snapshot
  <1> QED BY <1>1, <1>2 DEF DumpTeam, DumpGrant

\* The roles a snapshot gives are roles.
LEMMA RolesForType ==
    ASSUME NEW snap \in Snapshot, NEW u
    PROVE  /\ RolesFor(snap, u).platform \in PlatformRoleNames
           /\ \A p \in Projects : RolesFor(snap, u).projects[p] \in ProjectRoles
           /\ RolesFor(snap, u).suspended <=> (u # Operator /\ u \in snap.suspended)
  <1> DEFINE mine == TeamsOf(snap.teams, u)
             granted0(p) == {g.role : g \in {x \in snap.grants : x.project = p /\ x.subject \in mine \cup {u}}}
             mineP == {t.platform : t \in {x \in snap.teams : x.name \in mine}}
  <1>1. mineP \in SUBSET PlatformRoleNames /\ \A p : granted0(p) \in SUBSET ProjectRoles
    BY SnapshotRoles
  <1>2. /\ Strongest(mineP, platformRank) \in PlatformRoleNames
        /\ \A p : Strongest(granted0(p), rank) \in ProjectRoles
    BY <1>1, StrongestRole, StrongestPlatformRole
  <1>3. "none" \in PlatformRoleNames /\ "platformAdmin" \in PlatformRoleNames /\ "none" \in ProjectRoles
    BY DEF PlatformRoleNames, ProjectRoles
  <1>4. RolesFor(snap, u) =
          CASE u = Operator -> [Nothing EXCEPT !.platform = "platformAdmin"]
            [] u # Operator /\ u \in snap.suspended -> [Nothing EXCEPT !.suspended = TRUE]
            [] u \notin snap.suspended \cup {Operator} /\ ~Enforced(snap.teams, snap.grants) ->
                 [Nothing EXCEPT !.platform = "platformAdmin"]
            [] OTHER ->
                 [Nothing EXCEPT !.platform = Strongest(mineP, platformRank),
                    !.projects = [p \in Projects |-> Strongest(granted0(p), rank)]]
    BY DEF RolesFor
  <1> HIDE DEF mine, granted0, mineP
  <1>5. CASE u = Operator
    <2>1. RolesFor(snap, u) = [Nothing EXCEPT !.platform = "platformAdmin"]
      BY <1>4, <1>5
    <2> QED BY <1>3, <1>5, <2>1 DEF Nothing
  <1>6. CASE u # Operator /\ u \in snap.suspended
    <2>1. RolesFor(snap, u) = [Nothing EXCEPT !.suspended = TRUE]
      BY <1>4, <1>6
    <2> QED BY <1>3, <1>6, <2>1 DEF Nothing
  <1>7. CASE u \notin snap.suspended \cup {Operator} /\ ~Enforced(snap.teams, snap.grants)
    <2>1. RolesFor(snap, u) = [Nothing EXCEPT !.platform = "platformAdmin"]
      BY <1>4, <1>7
    <2> QED BY <1>3, <1>7, <2>1 DEF Nothing
  <1>8. CASE u \notin snap.suspended \cup {Operator} /\ Enforced(snap.teams, snap.grants)
    <2>1. RolesFor(snap, u) =
            [Nothing EXCEPT !.platform = Strongest(mineP, platformRank),
               !.projects = [p \in Projects |-> Strongest(granted0(p), rank)]]
      BY <1>4, <1>8
    <2> QED BY <1>2, <1>8, <2>1 DEF Nothing
  <1> QED BY <1>5, <1>6, <1>7, <1>8

\* A snapshot answers as its teams and grants say, one by one.
LEMMA SnapshotAllows ==
    ASSUME NEW snap \in Snapshot, Distinct(snap.teams), NEW u, u # Operator,
           NEW p \in Projects, NEW a \in Actions
    PROVE  Can(RolesFor(snap, u), a, p) <=> AllowedBy(snap, u, a, p)
  <1> DEFINE names == TeamsOf(snap.teams, u)
             mine == {t \in snap.teams : t.name = Everyone \/ u \in t.members}
             byName == {x \in snap.teams : x.name \in names}
             platforms == {t.platform : t \in byName}
             granted0(q) == {g.role : g \in {x \in snap.grants : x.project = q /\ x.subject \in names \cup {u}}}
  <1>1. platforms \in SUBSET PlatformRoleNames /\ \A q : granted0(q) \in SUBSET ProjectRoles
    BY SnapshotRoles
  <1>2. byName = mine
    BY DEF TeamsOf, Distinct
  <1>3. \A x : x \in names <=> \E t \in mine : t.name = x
    BY DEF TeamsOf
  <1>4. a \notin roleActions["none"] /\ a \in roleActions["platformAdmin"]
    BY DEF roleActions
  <1>5. CASE u \in snap.suspended
    <2>1. RolesFor(snap, u) = [Nothing EXCEPT !.suspended = TRUE]
      BY <1>5 DEF RolesFor
    <2>2. ~Can(RolesFor(snap, u), a, p)
      BY <1>4, <2>1 DEF Can, Nothing
    <2> QED BY <1>5, <2>2 DEF AllowedBy
  <1>6. CASE u \notin snap.suspended /\ ~Enforced(snap.teams, snap.grants)
    <2>1. RolesFor(snap, u) = [Nothing EXCEPT !.platform = "platformAdmin"]
      BY <1>6 DEF RolesFor
    <2>2. Can(RolesFor(snap, u), a, p)
      BY <1>4, <2>1 DEF Can, Nothing
    <2> QED BY <1>6, <2>2 DEF AllowedBy
  <1>7. CASE u \notin snap.suspended /\ Enforced(snap.teams, snap.grants)
    <2>1. RolesFor(snap, u) =
            [Nothing EXCEPT !.platform = Strongest(platforms, platformRank),
               !.projects = [q \in Projects |-> Strongest(granted0(q), rank)]]
      BY <1>7 DEF RolesFor
    <2>2. Can(RolesFor(snap, u), a, p) <=>
            \/ a \in roleActions[Strongest(platforms, platformRank)]
            \/ a \in roleActions[Strongest(granted0(p), rank)]
      <3> HIDE DEF platforms, granted0
      <3> QED BY <2>1 DEF Can, Nothing
    <2>3. a \in roleActions[Strongest(platforms, platformRank)]
            <=> \E t \in mine : a \in roleActions[t.platform]
      <3>1. a \in roleActions[Strongest(platforms, platformRank)]
              <=> \E r \in platforms : a \in roleActions[r]
        BY <1>1, StrongestPlatformAllows
      <3>2. platforms = {t.platform : t \in mine}
        BY <1>2
      <3> HIDE DEF mine
      <3> QED BY <3>1, <3>2
    <2>4. a \in roleActions[Strongest(granted0(p), rank)]
            <=> \E g \in snap.grants :
                  /\ g.project = p /\ a \in roleActions[g.role]
                  /\ g.subject = u \/ \E t \in mine : t.name = g.subject
      <3>1. a \in roleActions[Strongest(granted0(p), rank)]
              <=> \E r \in granted0(p) : a \in roleActions[r]
        BY <1>1, StrongestAllows
      <3>2. \A g \in snap.grants : g.subject \in names \cup {u}
              <=> (g.subject = u \/ \E t \in mine : t.name = g.subject)
        BY <1>3
      <3> HIDE DEF mine, names
      <3> QED BY <3>1, <3>2
    <2> QED BY <1>7, <2>2, <2>3, <2>4 DEF AllowedBy
  <1> QED BY <1>5, <1>6, <1>7

---------------------------------------------------------------------------
(* Types.                                                                   *)

Statuses == {"unknown", "active", "suspended"}
TeamRow == [id : Nat, members : SUBSET People, platform : PlatformRoles]
GrantRow == [id : Nat, project : Projects, role : Roles, user : People \cup {Nobody}, team : Nat]
Token == [id : Nat, platform : PlatformRoles, projects : [Projects -> Roles \cup {"none"}],
          expired : BOOLEAN]
Dump == [people : SUBSET [user : People, status : Statuses],
         teams : SUBSET DumpTeam, grants : SUBSET DumpGrant]
Call == [pc : {"idle", "insert", "read", "delete", "export teams", "export grants", "import",
               "stopped", "suspend", "revoke", "look up"},
         importing : BOOLEAN, overwrite : BOOLEAN, id : Nat,
         grant : [id : Nat, project : Projects \cup {"none"}, role : Roles \cup {"none"},
                  user : People \cup {Nobody}, team : Nat],
         dump : Dump, left : Dump]

TablesOK ==
    /\ people \in [People -> Statuses]
    /\ rows \in [Names -> TeamRow]
    /\ rows[Everyone].id # 0
    /\ grants \subseteq GrantRow
    /\ granted \in Nat /\ made \in Nat

TokensOK ==
    /\ tokens \in [Owners -> Token] /\ minted \in Nat
    /\ could \in [Owners -> SUBSET (Actions \X Projects)]

\* What AddGrant inserts is a row of the table.
CallsOK ==
    /\ calls \in [Callers -> Call]
    /\ \A c \in Callers : calls[c].pc = "insert" => calls[c].grant \in GrantRow

TypeInv == TablesOK /\ TokensOK /\ CallsOK /\ archive \in Dump /\ load \in Snapshot

\* A snapshot nobody disturbed has what was read of each table, as it still is.
SnapshotInv ==
    load.undisturbed =>
        /\ load.pc \in {"grants", "people", "done"} => load.teams = TeamRows
        /\ load.pc \in {"people", "done"} => load.grants = Joined
        /\ load.pc = "done" => load.suspended = SuspendedNow

\* A token allows nothing whoever made it could not do, and a snapshot names
\* each team once.
TokenInv ==
    \A o \in Owners, p \in Projects, a \in Actions :
        a \in roleActions[tokens[o].platform] \cup roleActions[tokens[o].projects[p]]
          => <<a, p>> \in could[o]

Inv == TypeInv /\ SnapshotInv /\ TokenInv /\ Distinct(load.teams)

LEMMA TeamRowsType ==
    ASSUME TablesOK
    PROVE  /\ TeamRows \in SUBSET DumpTeam /\ Distinct(TeamRows)
           /\ \E t \in TeamRows : t.name = Everyone
  <1>1. \A n \in Names : /\ Row(n) \in DumpTeam /\ Row(n).name = n
    BY DEF TablesOK, Row, TeamRow, DumpTeam
  <1>2. Everyone \in Names /\ rows[Everyone].id # 0
    BY DEF Names, TablesOK
  <1>3. \A t \in TeamRows : t \in DumpTeam /\ t = Row(t.name)
    BY <1>1 DEF TeamRows
  <1>4. Row(Everyone) \in TeamRows /\ Row(Everyone).name = Everyone
    BY <1>1, <1>2 DEF TeamRows
  <1> QED BY <1>3, <1>4 DEF Distinct

LEMMA JoinedType ==
    ASSUME TablesOK
    PROVE  Joined \in SUBSET DumpGrant
  <1>1. ASSUME NEW g \in grants
        PROVE  SubjectOf(g) \in Subjects \cup {""}
    <2>1. g.user \in People \cup {Nobody}
      BY DEF TablesOK, GrantRow
    <2>2. CASE g.user # Nobody
      BY <2>1, <2>2 DEF SubjectOf, Subjects
    <2>3. CASE g.user = Nobody /\ \E n \in Names : rows[n].id = g.team
      <3>1. SubjectOf(g) = CHOOSE n \in Names : rows[n].id = g.team
        BY <2>3 DEF SubjectOf
      <3> QED BY <2>3, <3>1 DEF Subjects
    <2>4. CASE g.user = Nobody /\ ~\E n \in Names : rows[n].id = g.team
      BY <2>4 DEF SubjectOf
    <2> QED BY <2>2, <2>3, <2>4
  <1>2. \A g \in grants : [id |-> g.id, project |-> g.project, role |-> g.role,
                           subject |-> SubjectOf(g)] \in DumpGrant
    BY <1>1 DEF TablesOK, GrantRow, DumpGrant
  <1> QED BY <1>2 DEF Joined

LEMMA NoCallType ==
    /\ NoDump \in Dump
    /\ NoCall \in Call /\ NoCall.pc = "idle" /\ ~NoCall.importing
    /\ NoGrant \in [id : Nat, project : Projects \cup {"none"}, role : Roles \cup {"none"},
                    user : People \cup {Nobody}, team : Nat]
  <1>1. NoDump \in Dump
    BY DEF NoDump, Dump
  <1>2. NoGrant \in [id : Nat, project : Projects \cup {"none"}, role : Roles \cup {"none"},
                    user : People \cup {Nobody}, team : Nat]
    BY DEF NoGrant
  <1> HIDE DEF NoGrant, NoDump
  <1> QED BY <1>1, <1>2 DEF NoCall, Call

\* The initial tables: a workspace just made, or one in use.
LEMMA InitInv == Init => Inv
  <1> SUFFICES ASSUME Init PROVE Inv
    OBVIOUS
  <1>1. /\ NoRow \in TeamRow /\ "developer" \in Roles /\ Everyone \in Names
        /\ TeamNames \subseteq Names /\ Names \subseteq Subjects
        /\ [NoRow EXCEPT !.id = 1] \in TeamRow
        /\ [NoRow EXCEPT !.id = 2, !.members = People] \in TeamRow
    BY NamesAssumption DEF NoRow, TeamRow, Names, Subjects
  <1>2. TablesOK /\ archive \in Dump
    <2>1. CASE Fresh
      <3>1. TablesOK
        BY <1>1, <2>1 DEF Fresh, TablesOK, Statuses, NoRow
      <3>2. (CHOOSE x \in Roles : TRUE) \in Roles
        BY <1>1
      <3>3. Backup.people \subseteq [user : People, status : Statuses]
        BY DEF Backup, Statuses
      <3>4. Backup.teams \subseteq DumpTeam
        BY <1>1, NamesAssumption DEF Backup, DumpTeam
      <3>5. Backup.grants \subseteq DumpGrant
        <4>1. \A p \in Projects, r \in {CHOOSE x \in Roles : TRUE}, n \in TeamNames :
                [id |-> 0, project |-> p, role |-> r, subject |-> n] \in DumpGrant
          BY <1>1, <3>2 DEF DumpGrant
        <4> QED BY <4>1 DEF Backup
      <3>6. Backup = [people |-> Backup.people, teams |-> Backup.teams, grants |-> Backup.grants]
        BY DEF Backup
      <3>7. Backup \in Dump
        BY <3>3, <3>4, <3>5, <3>6 DEF Dump
      <3> QED BY <2>1, <3>1, <3>7 DEF Fresh
    <2>2. CASE InUse
      <3>1. PICK team \in TeamNames, p \in Projects :
              /\ rows = [n \in Names |->
                     CASE n = Everyone -> [NoRow EXCEPT !.id = 1]
                       [] n = team -> [NoRow EXCEPT !.id = 2, !.members = People]
                       [] OTHER -> NoRow]
              /\ grants = {[id |-> 1, project |-> p, role |-> "developer", user |-> Nobody, team |-> 2]}
        BY <2>2 DEF InUse
      <3>2. rows \in [Names -> TeamRow] /\ rows[Everyone].id # 0
        <4> DEFINE E(n) == CASE n = Everyone -> [NoRow EXCEPT !.id = 1]
                             [] n = team -> [NoRow EXCEPT !.id = 2, !.members = People]
                             [] OTHER -> NoRow
        <4>1. \A n \in Names : E(n) \in TeamRow
          <5> TAKE n \in Names
          <5>1. CASE n = Everyone
            BY <1>1, <5>1
          <5>2. CASE n = team
            BY <1>1, <5>2, NamesAssumption
          <5>3. CASE n # Everyone /\ n # team
            BY <1>1, <5>3
          <5> QED BY <5>1, <5>2, <5>3
        <4>2. E(Everyone) = [NoRow EXCEPT !.id = 1]
          BY NamesAssumption
        <4>3. rows = [n \in Names |-> E(n)]
          BY <3>1
        <4> HIDE DEF E
        <4> QED BY <1>1, <4>1, <4>2, <4>3 DEF NoRow
      <3>3. grants \subseteq GrantRow
        BY <1>1, <3>1 DEF GrantRow
      <3>4. people \in [People -> Statuses] /\ granted \in Nat /\ made \in Nat /\ archive = NoDump
        BY <2>2 DEF InUse, Statuses
      <3> QED BY <3>2, <3>3, <3>4, NoCallType DEF TablesOK
    <2> QED BY <2>1, <2>2 DEF Init
  <1>3. TokensOK /\ TokenInv
    <2>1. "none" \in PlatformRoles
      BY NamesAssumption
    <2>2. NoToken \in Token
      BY <2>1 DEF NoToken, Token
    <2>3. \A p \in Projects, a \in Actions :
            a \notin roleActions[NoToken.platform] \cup roleActions[NoToken.projects[p]]
      BY DEF NoToken, roleActions
    <2> QED BY <2>2, <2>3 DEF Init, TokensOK, TokenInv
  <1>4. CallsOK
    BY NoCallType DEF Init, CallsOK
  <1>5. load \in Snapshot /\ SnapshotInv /\ Distinct(load.teams)
    BY DEF Init, NoLoad, Snapshot, SnapshotInv, Distinct
  <1> QED BY <1>2, <1>3, <1>4, <1>5 DEF Inv, TypeInv

---------------------------------------------------------------------------
(* Steps: those that write disturb the snapshot, those that read change    *)
(* nothing it is of.                                                        *)

LEMMA CallInv ==
    ASSUME CallsOK, NEW c \in Callers, NEW next \in Call,
           next.pc = "insert" => next.grant \in GrantRow,
           calls' = [calls EXCEPT ![c] = next]
    PROVE  CallsOK'
  BY DEF CallsOK

LEMMA WriteInv ==
    ASSUME Inv, NEW c \in Callers, NEW next \in Call,
           next.pc = "insert" => next.grant \in GrantRow,
           Writes(c, next), TablesOK', UNCHANGED <<apart, archive>>
    PROVE  Inv'
  <1>1. CallsOK'
    BY CallInv DEF Inv, TypeInv, Writes
  <1>2. load' \in Snapshot /\ ~load'.undisturbed /\ load'.teams = load.teams
    BY DEF Inv, TypeInv, Writes, Snapshot
  <1>3. TokensOK' /\ TokenInv'
    BY DEF Inv, TypeInv, TokensOK, TokenInv, apart
  <1> QED BY <1>1, <1>2, <1>3 DEF Inv, TypeInv, SnapshotInv, Distinct

LEMMA ReadInv ==
    ASSUME Inv, CallsOK', UNCHANGED <<tables, load>>, archive' \in Dump, TokensOK', TokenInv'
    PROVE  Inv'
  <1>1. UNCHANGED <<TeamRows, Joined, SuspendedNow>>
    BY DEF tables, TeamRows, Row, Joined, SubjectOf, SuspendedNow
  <1>2. TablesOK'
    BY DEF Inv, TypeInv, TablesOK, tables
  <1> QED BY <1>1, <1>2 DEF Inv, TypeInv, SnapshotInv, Distinct

LEMMA AsideInv ==
    ASSUME Inv, NEW c \in Callers, NEW next \in Call, next.pc # "insert",
           Aside(c, next), TokensOK', TokenInv'
    PROVE  Inv'
  <1>1. CallsOK'
    BY CallInv DEF Aside, Inv, TypeInv
  <1> QED BY <1>1, ReadInv DEF Aside, Inv, TypeInv

LEMMA ReadsInv ==
    ASSUME Inv, NEW c \in Callers, NEW next \in Call,
           next.pc = "insert" => next.grant \in GrantRow,
           Reads(c, next), UNCHANGED apart, archive' \in Dump
    PROVE  Inv'
  <1>1. CallsOK'
    BY CallInv DEF Reads, Inv, TypeInv
  <1>2. TokensOK' /\ TokenInv'
    BY DEF Inv, TypeInv, TokensOK, TokenInv, apart
  <1> QED BY <1>1, <1>2, ReadInv DEF Reads

LEMMA ReturnedType ==
    ASSUME CallsOK, NEW c \in Callers, NEW outcome
    PROVE  Returned(c, outcome) \in Call /\ Returned(c, outcome).pc # "insert"
  <1> DEFINE m == calls[c]
  <1>1. m \in Call
    BY DEF CallsOK
  <1>2. CASE ~m.importing
    BY <1>2, NoCallType DEF Returned
  <1>3. CASE m.importing /\ outcome \in {"ok", "conflict"}
    <2>1. Returned(c, outcome) = [m EXCEPT !.pc = "import", !.grant = NoGrant,
                                           !.left.grants = {g \in @ : g.id # m.id}, !.id = 0]
      BY <1>3 DEF Returned
    <2> DEFINE less == [m.left EXCEPT !.grants = {g \in @ : g.id # m.id}]
    <2>2. less \in Dump
      BY <1>1 DEF Call, Dump
    <2>3. Returned(c, outcome) = [m EXCEPT !.pc = "import", !.grant = NoGrant, !.id = 0,
                                           !.left = less]
      BY <1>1, <2>1 DEF Call, Dump
    <2>4. NoGrant \in [id : Nat, project : Projects \cup {"none"}, role : Roles \cup {"none"},
                       user : People \cup {Nobody}, team : Nat]
      BY NoCallType
    <2> HIDE DEF m, less
    <2>5. Returned(c, outcome) =
            [pc |-> "import", importing |-> m.importing, overwrite |-> m.overwrite, id |-> 0,
             grant |-> NoGrant, dump |-> m.dump, left |-> less]
      BY <1>1, <2>3 DEF Call
    <2>6. m.importing \in BOOLEAN /\ m.overwrite \in BOOLEAN /\ m.dump \in Dump
      BY <1>1 DEF Call
    <2> QED BY <2>2, <2>4, <2>5, <2>6 DEF Call
  <1>4. CASE m.importing /\ outcome \notin {"ok", "conflict"}
    <2>1. Returned(c, outcome) = [m EXCEPT !.pc = "stopped"]
      BY <1>4 DEF Returned
    <2> HIDE DEF m
    <2> QED BY <1>1, <2>1 DEF Call
  <1> QED BY <1>2, <1>3, <1>4 DEF CallsOK, Call

\* What AddGrant reads of the team, on behalf of a call that is typed.
LEMMA SelectInv ==
    ASSUME Inv, NEW c \in Callers, NEW m \in Call, m.pc # "insert",
           NEW p \in Projects, NEW r \in Roles, NEW s \in Subjects \cup {""},
           SelectTeam(c, m, p, r, s), UNCHANGED <<apart, archive>>
    PROVE  Inv'
  <1>0. archive' \in Dump /\ TablesOK
    BY DEF Inv, TypeInv
  <1>1. CASE s \in Names /\ rows[s].id = 0
    <2>1. Reads(c, IF m.importing THEN [m EXCEPT !.pc = "stopped"] ELSE m)
      BY <1>1 DEF SelectTeam
    <2>2. [m EXCEPT !.pc = "stopped"] \in Call /\ [m EXCEPT !.pc = "stopped"].pc # "insert"
      BY DEF Call
    <2> QED BY <1>0, <2>1, <2>2, ReadsInv
  <1>2. CASE ~(s \in Names /\ rows[s].id = 0)
    <2> DEFINE g == [id |-> 0, project |-> p, role |-> r,
                     user |-> IF s \in People THEN s ELSE Nobody,
                     team |-> IF s \in Names THEN rows[s].id ELSE 0]
    <2>1. Reads(c, [m EXCEPT !.pc = "insert", !.grant = g])
      BY <1>2 DEF SelectTeam
    <2>2. g \in GrantRow
      <3>1. s \in Names => rows[s].id \in Nat
        BY <1>0 DEF TablesOK, TeamRow
      <3> QED BY <3>1 DEF GrantRow
    <2> HIDE DEF g
    <2>3. [m EXCEPT !.pc = "insert", !.grant = g] \in Call
      BY <2>2 DEF Call, GrantRow
    <2>4. [m EXCEPT !.pc = "insert", !.grant = g].grant = g
      BY DEF Call
    <2> QED BY <1>0, <2>1, <2>2, <2>3, <2>4, ReadsInv
  <1> QED BY <1>1, <1>2

\* The methods keep the tables tables.
LEMMA IdentitiesOK ==
    ASSUME TablesOK, NEW c, NEW u \in People, NEW status \in Statuses,
           TouchIdentity(c, u) \/ DeleteIdentity(c, u) \/ SetIdentityStatus(c, u, status)
    PROVE  TablesOK'
  BY DEF TablesOK, TouchIdentity, DeleteIdentity, SetIdentityStatus, Statuses

LEMMA PutTeamOK ==
    ASSUME TablesOK, NEW c, NEW n \in Names, NEW team,
           team.members \in SUBSET People, team.platform \in PlatformRoles, PutTeam(c, n, team)
    PROVE  TablesOK'
  <1>1. CASE n = Everyone
    BY <1>1 DEF TablesOK, PutTeam
  <1>2. CASE n # Everyone
    <2> DEFINE row == [id |-> IF rows[n].id = 0 THEN made + 1 ELSE rows[n].id,
                       members |-> team.members, platform |-> team.platform]
    <2>1. rows' = [rows EXCEPT ![n] = row] /\ made' \in Nat
      BY <1>2 DEF TablesOK, PutTeam
    <2>2. row \in TeamRow
      BY DEF TablesOK, TeamRow
    <2>3. UNCHANGED <<people, grants, granted>>
      BY DEF PutTeam
    <2> HIDE DEF row
    <2> QED BY <1>2, <2>1, <2>2, <2>3 DEF TablesOK
  <1> QED BY <1>1, <1>2

LEMMA DeleteTeamOK ==
    ASSUME TablesOK, NEW c, NEW n \in Names, DeleteTeam(c, n)
    PROVE  TablesOK'
  <1>1. NoRow \in TeamRow
    BY NamesAssumption DEF NoRow, TeamRow
  <1>2. CASE n = Everyone \/ rows[n].id = 0
    BY <1>2 DEF TablesOK, DeleteTeam
  <1>3. CASE n # Everyone /\ rows[n].id # 0
    <2>1. /\ rows' = [rows EXCEPT ![n] = NoRow] /\ grants' \subseteq grants
          /\ UNCHANGED <<people, granted, made>>
      BY <1>3 DEF DeleteTeam
    <2> QED BY <1>1, <1>3, <2>1 DEF TablesOK
  <1> QED BY <1>2, <1>3

LEMMA DeleteProjectGrantsOK ==
    ASSUME TablesOK, NEW c, NEW p, DeleteProjectGrants(c, p)
    PROVE  TablesOK'
  BY DEF TablesOK, DeleteProjectGrants

\* Requests of the tables of people, teams and grants.
LEMMA RequestInv ==
    ASSUME Inv, NEW c \in Callers, Request(c)
    PROVE  Inv'
  <1>1. TablesOK'
    <2>0. TablesOK
      BY DEF Inv, TypeInv
    <2>1. CASE \E u \in People :
                 \/ TouchIdentity(c, u) \/ DeleteIdentity(c, u)
                 \/ \E status \in {"active", "suspended"} : SetIdentityStatus(c, u, status)
      <3>1. "active" \in Statuses /\ {"active", "suspended"} \subseteq Statuses
        BY DEF Statuses
      <3> QED BY <2>0, <2>1, <3>1, IdentitiesOK
    <2>2. CASE \E n \in Names : DeleteTeam(c, n) \/ \E team \in Contents : PutTeam(c, n, team)
      BY <2>0, <2>2, DeleteTeamOK, PutTeamOK DEF Contents
    <2>3. CASE \E p \in Projects : DeleteProjectGrants(c, p)
      BY <2>0, <2>3, DeleteProjectGrantsOK
    <2> QED BY <2>1, <2>2, <2>3 DEF Request
  <1> QED BY <1>1, WriteInv, NoCallType DEF Request

LEMMA MemberInv ==
    ASSUME Inv, NEW c \in Callers,
           AddMember(c) \/ InsertGrant(c) \/ ReadGrant(c) \/ FindMember(c) \/ DeleteGrant(c)
    PROVE  Inv'
  <1>0. TablesOK /\ CallsOK /\ calls[c] \in Call /\ archive \in Dump
    BY DEF Inv, TypeInv, CallsOK
  <1>1. CASE AddMember(c)
    <2>1. PICK p \in Projects, r \in Roles, s \in Subjects : SelectTeam(c, NoCall, p, r, s)
      BY <1>1 DEF AddMember
    <2> QED BY <1>1, <2>1, NoCallType, SelectInv DEF AddMember
  <1>2. CASE InsertGrant(c)
    <2> DEFINE new == [calls[c].grant EXCEPT !.id = granted + 1]
               twin == \E g \in grants : [g EXCEPT !.id = new.id] = new
               orphan == new.team # 0 /\ \A n \in Names : rows[n].id # new.team
               refused == IF twin THEN "conflict" ELSE "error"
    <2>0. new \in GrantRow
      <3>1. calls[c].grant \in GrantRow
        BY <1>0, <1>2 DEF InsertGrant, CallsOK
      <3>2. granted + 1 \in Nat
        BY <1>0 DEF TablesOK
      <3> QED BY <3>1, <3>2 DEF GrantRow
    <2>1. CASE twin \/ orphan
      <3>1. Reads(c, Returned(c, refused)) /\ UNCHANGED <<apart, archive>>
        BY <1>2, <2>1 DEF InsertGrant
      <3> HIDE DEF refused
      <3> QED BY <1>0, <3>1, ReadsInv, ReturnedType
    <2>2. CASE ~(twin \/ orphan)
      <3>1. /\ grants' = grants \cup {new} /\ granted' = granted + 1
            /\ UNCHANGED <<people, rows, made>> /\ UNCHANGED <<apart, archive>>
            /\ Writes(c, [calls[c] EXCEPT !.pc = "read", !.grant = new])
        BY <1>2, <2>2 DEF InsertGrant
      <3> HIDE DEF new
      <3>2. /\ [calls[c] EXCEPT !.pc = "read", !.grant = new] \in Call
            /\ [calls[c] EXCEPT !.pc = "read", !.grant = new].pc # "insert"
        BY <1>0, <2>0 DEF Call, GrantRow
      <3>3. TablesOK'
        BY <1>0, <2>0, <3>1 DEF TablesOK
      <3> QED BY <3>1, <3>2, <3>3, WriteInv
    <2> QED BY <2>1, <2>2
  <1>3. CASE ReadGrant(c)
    <2>1. \E outcome : Reads(c, Returned(c, outcome)) /\ UNCHANGED <<apart, archive>>
      BY <1>3 DEF ReadGrant
    <2> QED BY <1>0, <2>1, ReadsInv, ReturnedType
  <1>4. CASE FindMember(c)
    <2>1. PICK g \in grants : Reads(c, [NoCall EXCEPT !.pc = "delete", !.id = g.id])
      BY <1>4 DEF FindMember
    <2>2. g.id \in Nat
      BY <1>0 DEF TablesOK, GrantRow
    <2>3. /\ [NoCall EXCEPT !.pc = "delete", !.id = g.id] \in Call
          /\ [NoCall EXCEPT !.pc = "delete", !.id = g.id].pc # "insert"
      BY <2>2, NoCallType DEF Call
    <2> QED BY <1>0, <1>4, <2>1, <2>3, ReadsInv DEF FindMember
  <1>5. CASE DeleteGrant(c)
    <2>1. TablesOK'
      BY <1>0, <1>5 DEF TablesOK, DeleteGrant
    <2> QED BY <1>5, <2>1, WriteInv, NoCallType DEF DeleteGrant
  <1> QED BY <1>1, <1>2, <1>3, <1>4, <1>5

LEMMA ExportInv ==
    ASSUME Inv, NEW c \in Callers, ExportPeople(c) \/ ExportTeams(c) \/ ExportGrants(c)
    PROVE  Inv'
  <1>0. TablesOK /\ CallsOK /\ calls[c] \in Call /\ archive \in Dump
    BY DEF Inv, TypeInv, CallsOK
  <1>1. CASE ExportPeople(c)
    <2> DEFINE known == {[user |-> u, status |-> people[u]] : u \in {x \in People : people[x] # "unknown"}}
               next == [NoCall EXCEPT !.pc = "export teams", !.dump.people = known]
    <2>1. known \in SUBSET [user : People, status : Statuses]
      BY <1>0 DEF TablesOK
    <2>2. Reads(c, next)
      BY <1>1 DEF ExportPeople
    <2> HIDE DEF known
    <2>3. [NoDump EXCEPT !.people = known] \in Dump
      BY <2>1, NoCallType DEF Dump
    <2>4. next = [NoCall EXCEPT !.pc = "export teams", !.dump = [NoDump EXCEPT !.people = known]]
      BY DEF NoCall
    <2>5. next \in Call /\ next.pc # "insert"
      BY <2>3, <2>4, NoCallType DEF Call
    <2> HIDE DEF next
    <2> QED BY <1>0, <1>1, <2>2, <2>5, ReadsInv DEF ExportPeople
  <1>2. CASE ExportTeams(c)
    <2> DEFINE next == [calls[c] EXCEPT !.pc = "export grants", !.dump.teams = TeamRows]
    <2>1. TeamRows \in SUBSET DumpTeam
      BY <1>0, TeamRowsType
    <2>2. next \in Call /\ next.pc # "insert"
      BY <1>0, <2>1 DEF Call, Dump
    <2>3. Reads(c, next) /\ UNCHANGED <<apart, archive>>
      BY <1>2 DEF ExportTeams
    <2> HIDE DEF next
    <2> QED BY <1>0, <2>2, <2>3, ReadsInv
  <1>3. CASE ExportGrants(c)
    <2>1. archive' \in Dump
      BY <1>0, <1>3, JoinedType DEF ExportGrants, Call, Dump
    <2> QED BY <1>3, <2>1, ReadsInv, NoCallType DEF ExportGrants
  <1> QED BY <1>1, <1>2, <1>3

\* What is left of a dump is a dump.
LEMMA LeftType ==
    ASSUME NEW m \in Call
    PROVE  /\ m.left.teams \subseteq DumpTeam /\ m.left.grants \subseteq DumpGrant
           /\ m.left.people \subseteq [user : People, status : Statuses]
           /\ \A x : [m EXCEPT !.left.teams = @ \ {x}] \in Call
           /\ \A x : [m EXCEPT !.left.people = @ \ {x}] \in Call
  <1>1. m.left \in Dump
    BY DEF Call
  <1>2. /\ \A x : [m.left EXCEPT !.teams = @ \ {x}] \in Dump
        /\ \A x : [m.left EXCEPT !.people = @ \ {x}] \in Dump
    BY <1>1 DEF Dump
  <1>3. \A d \in Dump : [m EXCEPT !.left = d] \in Call
    BY DEF Call
  <1>4. /\ \A x : [m EXCEPT !.left.teams = @ \ {x}] = [m EXCEPT !.left = [m.left EXCEPT !.teams = @ \ {x}]]
        /\ \A x : [m EXCEPT !.left.people = @ \ {x}] = [m EXCEPT !.left = [m.left EXCEPT !.people = @ \ {x}]]
    BY <1>1 DEF Call, Dump
  <1>5. /\ m.left.teams \subseteq DumpTeam /\ m.left.grants \subseteq DumpGrant
        /\ m.left.people \subseteq [user : People, status : Statuses]
    BY <1>1 DEF Dump
  <1>6. \A x : [m EXCEPT !.left.teams = @ \ {x}] \in Call
    BY <1>2, <1>3, <1>4
  <1>7. \A x : [m EXCEPT !.left.people = @ \ {x}] \in Call
    BY <1>2, <1>3, <1>4
  <1> QED BY <1>5, <1>6, <1>7

LEMMA ImportInv ==
    ASSUME Inv, NEW c \in Callers,
           \/ BeginImport(c) \/ ImportTeam(c) \/ ImportGrant(c) \/ ImportPerson(c)
           \/ ImportStatus(c) \/ EndImport(c)
    PROVE  Inv'
  <1>0. TablesOK /\ CallsOK /\ calls[c] \in Call /\ archive \in Dump /\ TokensOK /\ TokenInv
    BY DEF Inv, TypeInv, CallsOK
  <1>1. CASE BeginImport(c)
    <2>1. PICK overwrite \in BOOLEAN :
            Reads(c, [NoCall EXCEPT !.pc = "import", !.importing = TRUE, !.overwrite = overwrite,
                                    !.left = archive])
      BY <1>1 DEF BeginImport
    <2> DEFINE next == [NoCall EXCEPT !.pc = "import", !.importing = TRUE, !.overwrite = overwrite,
                                      !.left = archive]
    <2>2. next \in Call /\ next.pc # "insert"
      BY <1>0, NoCallType DEF Call
    <2> HIDE DEF next
    <2> QED BY <1>0, <1>1, <2>1, <2>2, ReadsInv DEF BeginImport, next
  <1>2. CASE ImportTeam(c)
    <2>1. PICK t \in calls[c].left.teams :
            LET m == [calls[c] EXCEPT !.left.teams = @ \ {t}]
            IN IF t.name = Everyone \/ (~m.overwrite /\ rows[t.name].id # 0)
                 THEN Reads(c, m) /\ answer' = answer
                 ELSE PutTeam(c, t.name, t) /\ Writes(c, m)
      BY <1>2 DEF ImportTeam
    <2> DEFINE m == [calls[c] EXCEPT !.left.teams = @ \ {t}]
    <2>2. calls[c].pc = "import" /\ UNCHANGED <<apart, archive>>
      BY <1>2 DEF ImportTeam
    <2>3. m \in Call /\ m.pc # "insert"
      <3>1. m \in Call
        BY <1>0, LeftType
      <3>2. m.pc = "import"
        BY <1>0, <2>2 DEF Call
      <3> QED BY <3>1, <3>2
    <2>4. t.name \in Names /\ t.members \in SUBSET People /\ t.platform \in PlatformRoles
      BY <1>0, LeftType DEF DumpTeam
    <2>5. CASE t.name = Everyone \/ (~m.overwrite /\ rows[t.name].id # 0)
      <3>1. Reads(c, m)
        BY <2>1, <2>5
      <3> HIDE DEF m
      <3> QED BY <1>0, <2>2, <2>3, <3>1, ReadsInv
    <2>6. CASE ~(t.name = Everyone \/ (~m.overwrite /\ rows[t.name].id # 0))
      <3>1. PutTeam(c, t.name, t) /\ Writes(c, m)
        BY <2>1, <2>6
      <3>2. TablesOK'
        BY <1>0, <2>4, <3>1, PutTeamOK
      <3> HIDE DEF m
      <3> QED BY <2>2, <2>3, <3>1, <3>2, WriteInv
    <2> QED BY <2>5, <2>6
  <1>3. CASE ImportGrant(c)
    <2>1. PICK g \in calls[c].left.grants :
            SelectTeam(c, [calls[c] EXCEPT !.id = g.id], g.project, g.role, g.subject)
      BY <1>3 DEF ImportGrant
    <2> DEFINE m == [calls[c] EXCEPT !.id = g.id]
    <2>2. g \in DumpGrant
      BY <1>0, LeftType
    <2>3. m \in Call /\ m.pc # "insert"
      BY <1>0, <1>3, <2>2 DEF ImportGrant, Call, DumpGrant
    <2>4. g.project \in Projects /\ g.role \in Roles /\ g.subject \in Subjects \cup {""}
      BY <2>2 DEF DumpGrant
    <2>5. SelectTeam(c, m, g.project, g.role, g.subject) /\ UNCHANGED <<apart, archive>>
      BY <1>3, <2>1 DEF ImportGrant
    <2> HIDE DEF m
    <2> QED BY <2>3, <2>4, <2>5, SelectInv
  <1>4. CASE ImportPerson(c)
    <2>1. PICK x \in calls[c].left.people :
            /\ TouchIdentity(c, x.user)
            /\ Writes(c, IF x.status = "suspended"
                           THEN [calls[c] EXCEPT !.pc = "suspend", !.left.people = @ \ {x},
                                                 !.grant.user = x.user]
                           ELSE [calls[c] EXCEPT !.left.people = @ \ {x}])
      BY <1>4 DEF ImportPerson
    <2> DEFINE less == [calls[c] EXCEPT !.left.people = @ \ {x}]
               person == [calls[c].grant EXCEPT !.user = x.user]
    <2>2. calls[c].pc = "import" /\ UNCHANGED <<apart, archive>>
      BY <1>4 DEF ImportPerson
    <2>3. x.user \in People
      BY <1>0, LeftType
    <2>4. TablesOK'
      <3>1. "active" \in Statuses
        BY DEF Statuses
      <3> QED BY <1>0, <2>1, <2>3, <3>1, IdentitiesOK
    <2>5. less \in Call /\ less.pc # "insert" /\ less.grant = calls[c].grant
      <3>1. less \in Call
        BY <1>0, LeftType
      <3>2. less.pc = "import" /\ less.grant = calls[c].grant
        BY <1>0, <2>2 DEF Call
      <3> QED BY <3>1, <3>2
    <2>6. [less EXCEPT !.pc = "suspend", !.grant = person] \in Call
      <3>1. person \in [id : Nat, project : Projects \cup {"none"}, role : Roles \cup {"none"},
                        user : People \cup {Nobody}, team : Nat]
        BY <1>0, <2>3 DEF Call
      <3> HIDE DEF less, person
      <3> QED BY <2>5, <3>1 DEF Call
    <2>7. [calls[c] EXCEPT !.pc = "suspend", !.left.people = @ \ {x}, !.grant.user = x.user]
            = [less EXCEPT !.pc = "suspend", !.grant = person]
      BY <1>0 DEF Call, Dump
    <2>8. [less EXCEPT !.pc = "suspend", !.grant = person].pc = "suspend"
      BY <2>5 DEF Call
    <2>9. \E next \in Call : next.pc # "insert" /\ Writes(c, next)
      <3> HIDE DEF less, person
      <3>1. CASE x.status = "suspended"
        BY <2>1, <2>6, <2>7, <2>8, <3>1
      <3>2. CASE x.status # "suspended"
        BY <2>1, <2>5, <3>2 DEF less
      <3> QED BY <3>1, <3>2
    <2> QED BY <2>2, <2>4, <2>9, WriteInv
  <1>5. CASE ImportStatus(c)
    <2>1. /\ SetIdentityStatus(c, calls[c].grant.user, "suspended")
          /\ Writes(c, [calls[c] EXCEPT !.pc = "import", !.grant = NoGrant])
          /\ UNCHANGED <<apart, archive>>
      BY <1>5 DEF ImportStatus
    <2>2. TablesOK'
      BY <1>0, <2>1 DEF TablesOK, SetIdentityStatus, Statuses
    <2>3. NoGrant \in [id : Nat, project : Projects \cup {"none"}, role : Roles \cup {"none"},
                       user : People \cup {Nobody}, team : Nat]
      BY NoCallType
    <2>4. /\ [calls[c] EXCEPT !.pc = "import", !.grant = NoGrant] \in Call
          /\ [calls[c] EXCEPT !.pc = "import", !.grant = NoGrant].pc # "insert"
      BY <1>0, <2>3 DEF Call
    <2> QED BY <2>1, <2>2, <2>4, WriteInv
  <1>6. CASE EndImport(c)
    <2>1. /\ calls' = [calls EXCEPT ![c] = NoCall]
          /\ UNCHANGED <<tables, apart, load, archive>>
      BY <1>6 DEF EndImport
    <2>2. CallsOK'
      BY <1>0, <2>1, NoCallType, CallInv
    <2>3. TokensOK' /\ TokenInv' /\ archive' \in Dump
      BY <1>0, <2>1 DEF TokensOK, TokenInv, apart
    <2> QED BY <2>1, <2>2, <2>3, ReadInv
  <1> QED BY <1>1, <1>2, <1>3, <1>4, <1>5, <1>6

---------------------------------------------------------------------------
(* Tokens and settings.                                                     *)

LEMMA TokenType ==
    ASSUME NEW t \in Token
    PROVE  /\ t.platform \in PlatformRoleNames
           /\ \A p \in Projects : t.projects[p] \in ProjectRoles
  BY NamesAssumption DEF Token, PlatformRoleNames, ProjectRoles

\* Whoever may grant a role may do all that it allows.
LEMMA GrantableAllows ==
    ASSUME NEW snap \in Snapshot, NEW o, NEW role,
           role.platform \in PlatformRoleNames, \A p \in Projects : role.projects[p] \in ProjectRoles,
           Grantable(RolesFor(snap, o), role), NEW p \in Projects,
           NEW a \in roleActions[role.platform] \cup roleActions[role.projects[p]]
    PROVE  Can(RolesFor(snap, o), a, p)
  <1> DEFINE maker == RolesFor(snap, o)
  <1>1. maker.platform \in PlatformRoleNames /\ maker.projects[p] \in ProjectRoles
    BY RolesForType
  <1>2. /\ platformRank[role.platform] <= platformRank[maker.platform]
        /\ rank[role.projects[p]] <= rank[maker.projects[p]]
    BY DEF Grantable
  <1> HIDE DEF maker
  <1>3. roleActions[role.platform] \subseteq roleActions[maker.platform]
    BY <1>1, <1>2, PlatformRankAllows
  <1>4. roleActions[role.projects[p]] \subseteq roleActions[maker.projects[p]]
    BY <1>1, <1>2, RankAllows
  <1> QED BY <1>3, <1>4 DEF Can, maker

LEMMA NoTokenOK ==
    /\ NoToken \in Token
    /\ \A p \in Projects, a \in Actions :
         a \notin roleActions[NoToken.platform] \cup roleActions[NoToken.projects[p]]
  <1>1. "none" \in PlatformRoles
    BY NamesAssumption
  <1> QED BY <1>1 DEF NoToken, Token, roleActions

LEMMA TokenStepInv ==
    ASSUME Inv, NEW c \in Callers, CreateToken(c) \/ FindToken(c) \/ DeleteToken(c)
    PROVE  Inv'
  <1>0. TokensOK /\ TokenInv /\ load \in Snapshot /\ NoCall \in Call /\ NoCall.pc # "insert"
    BY NoCallType DEF Inv, TypeInv
  <1>1. CASE CreateToken(c)
    <2>1. PICK o \in Owners, role \in TokenRole :
            /\ Grantable(RolesFor(load, o), role)
            /\ IF tokens[o] # NoToken
                 THEN Answer(c, "conflict") /\ UNCHANGED apart
                 ELSE /\ tokens' = [tokens EXCEPT ![o] =
                            [id |-> minted + 1, platform |-> role.platform,
                             projects |-> role.projects, expired |-> FALSE]]
                      /\ minted' = minted + 1
                      /\ could' = [could EXCEPT ![o] =
                            {x \in Actions \X Projects : Can(RolesFor(load, o), x[1], x[2])}]
      BY <1>1 DEF CreateToken
    <2>2. TokensOK' /\ TokenInv'
      <3>1. CASE tokens[o] # NoToken
        BY <1>0, <2>1, <3>1 DEF apart, TokensOK, TokenInv
      <3>2. CASE tokens[o] = NoToken
        <4> DEFINE new == [id |-> minted + 1, platform |-> role.platform,
                           projects |-> role.projects, expired |-> FALSE]
                   did == {x \in Actions \X Projects : Can(RolesFor(load, o), x[1], x[2])}
        <4>1. tokens' = [tokens EXCEPT ![o] = new] /\ minted' = minted + 1 /\ could' = [could EXCEPT ![o] = did]
          BY <2>1, <3>2
        <4>2. minted + 1 \in Nat
          BY <1>0 DEF TokensOK
        <4>3. new \in Token
          BY <4>2 DEF Token, TokenRole
        <4>4. TokensOK'
          <5> HIDE DEF new
          <5>1. did \subseteq Actions \X Projects
            OBVIOUS
          <5> HIDE DEF did
          <5> QED BY <1>0, <4>1, <4>2, <4>3, <5>1 DEF TokensOK
        <4>5. ASSUME NEW q \in Projects, NEW a \in Actions,
                     a \in roleActions[new.platform] \cup roleActions[new.projects[q]]
              PROVE  <<a, q>> \in did
          <5>1. new.platform = role.platform /\ new.projects = role.projects
            OBVIOUS
          <5>2. role.platform \in PlatformRoleNames /\ \A p \in Projects : role.projects[p] \in ProjectRoles
            BY <4>3, <5>1, TokenType
          <5>3. Can(RolesFor(load, o), a, q)
            BY <1>0, <2>1, <4>5, <5>1, <5>2, GrantableAllows
          <5> QED BY <5>3
        <4>6. tokens'[o] = new /\ could'[o] = did
          <5> HIDE DEF new, did
          <5> QED BY <1>0, <4>1 DEF TokensOK
        <4>7. \A x \in Owners \ {o} : tokens'[x] = tokens[x] /\ could'[x] = could[x]
          <5> HIDE DEF new, did
          <5> QED BY <1>0, <4>1 DEF TokensOK
        <4>8. TokenInv'
          <5> SUFFICES ASSUME NEW x \in Owners, NEW q \in Projects, NEW a \in Actions,
                              a \in roleActions[tokens'[x].platform] \cup roleActions[tokens'[x].projects[q]]
                       PROVE  <<a, q>> \in could'[x]
            BY DEF TokenInv
          <5> HIDE DEF new, did
          <5>1. CASE x = o
            BY <4>5, <4>6, <5>1
          <5>2. CASE x # o
            BY <1>0, <4>7, <5>2 DEF TokenInv
          <5> QED BY <5>1, <5>2
        <4> QED BY <4>4, <4>8
      <3> QED BY <3>1, <3>2
    <2> QED BY <1>0, <1>1, <2>2, AsideInv DEF CreateToken
  <1>2. CASE FindToken(c)
    <2>1. PICK o \in Owners : Aside(c, [NoCall EXCEPT !.pc = "revoke", !.id = tokens[o].id])
      BY <1>2 DEF FindToken
    <2>2. /\ [NoCall EXCEPT !.pc = "revoke", !.id = tokens[o].id] \in Call
          /\ [NoCall EXCEPT !.pc = "revoke", !.id = tokens[o].id].pc # "insert"
      <3>1. tokens[o].id \in Nat
        BY <1>0 DEF TokensOK, Token
      <3> QED BY <1>0, <3>1 DEF Call
    <2>3. TokensOK' /\ TokenInv'
      BY <1>0, <1>2 DEF FindToken, apart, TokensOK, TokenInv
    <2> QED BY <2>1, <2>2, <2>3, AsideInv
  <1>3. CASE DeleteToken(c)
    <2>1. /\ tokens' = [o \in Owners |-> IF tokens[o].id = calls[c].id THEN NoToken ELSE tokens[o]]
          /\ UNCHANGED <<minted, could>> /\ Aside(c, NoCall)
      BY <1>3 DEF DeleteToken
    <2>2. TokensOK'
      BY <1>0, <2>1, NoTokenOK DEF TokensOK
    <2>3. \A o \in Owners : tokens'[o] = NoToken \/ tokens'[o] = tokens[o]
      BY <2>1
    <2>4. TokenInv'
      BY <1>0, <2>1, <2>3, NoTokenOK DEF TokenInv
    <2> QED BY <1>0, <2>1, <2>2, <2>4, AsideInv
  <1> QED BY <1>1, <1>2, <1>3

LEMMA SettingsInv ==
    ASSUME Inv, NEW c \in Callers, Settings(c) \/ FindClaim(c) \/ LookUp(c)
    PROVE  Inv'
  <1>1. TokensOK' /\ TokenInv'
    BY DEF Settings, FindClaim, LookUp, apart, Inv, TypeInv, TokensOK, TokenInv
  <1>2. CASE Settings(c) \/ LookUp(c)
    BY <1>1, <1>2, AsideInv, NoCallType DEF Settings, LookUp
  <1>3. CASE FindClaim(c)
    <2>1. /\ [NoCall EXCEPT !.pc = "look up"] \in Call
          /\ [NoCall EXCEPT !.pc = "look up"].pc # "insert"
      BY NoCallType DEF Call
    <2> QED BY <1>1, <1>3, <2>1, AsideInv DEF FindClaim
  <1> QED BY <1>2, <1>3

LEMMA FailsInv ==
    ASSUME Inv, NEW c \in Callers, Fails(c)
    PROVE  Inv'
  <1>1. /\ calls' = [calls EXCEPT ![c] = IF calls[c].importing
                       THEN [calls[c] EXCEPT !.pc = "stopped"] ELSE NoCall]
        /\ UNCHANGED <<tables, apart, archive, load>>
    BY DEF Fails, Inv, TypeInv, CallsOK
  <1>2. /\ [calls[c] EXCEPT !.pc = "stopped"] \in Call
        /\ [calls[c] EXCEPT !.pc = "stopped"].pc # "insert"
    BY DEF Inv, TypeInv, CallsOK, Call
  <1>3. CallsOK'
    <2>1. CallsOK
      BY DEF Inv, TypeInv
    <2>2. CASE calls[c].importing
      BY <1>1, <1>2, <2>1, <2>2, CallInv
    <2>3. CASE ~calls[c].importing
      BY <1>1, <2>1, <2>3, NoCallType, CallInv
    <2> QED BY <2>2, <2>3
  <1>4. TokensOK' /\ TokenInv' /\ archive' \in Dump
    BY <1>1 DEF Inv, TypeInv, TokensOK, TokenInv, apart
  <1> QED BY <1>1, <1>3, <1>4, ReadInv

LEMMA ExpiresInv ==
    ASSUME Inv, NEW o \in Owners, TokenExpires(o)
    PROVE  Inv'
  <1>0. TokensOK /\ TokenInv /\ CallsOK /\ archive \in Dump
    BY DEF Inv, TypeInv
  <1>1. /\ tokens' = [tokens EXCEPT ![o].expired = TRUE]
        /\ UNCHANGED <<tables, minted, could, calls, archive, load>>
    BY DEF TokenExpires
  <1>2. TokensOK'
    BY <1>0, <1>1 DEF TokensOK, Token
  <1>3. \A x \in Owners : /\ tokens'[x].platform = tokens[x].platform
                          /\ tokens'[x].projects = tokens[x].projects
    BY <1>0, <1>1 DEF TokensOK, Token
  <1>4. TokenInv'
    BY <1>0, <1>1, <1>3 DEF TokenInv
  <1>5. CallsOK' /\ archive' \in Dump
    BY <1>0, <1>1 DEF CallsOK
  <1> QED BY <1>1, <1>2, <1>4, <1>5, ReadInv

---------------------------------------------------------------------------
(* The snapshot.                                                            *)

LEMMA LoadInv ==
    ASSUME Inv, LoadTeams \/ LoadGrants \/ LoadPeople
    PROVE  Inv'
  <1>1. /\ UNCHANGED <<tables, apart, calls, archive>>
        /\ TablesOK /\ load \in Snapshot /\ SnapshotInv /\ Distinct(load.teams)
    BY DEF LoadTeams, LoadGrants, LoadPeople, Inv, TypeInv
  <1>2. TablesOK' /\ TokensOK' /\ CallsOK' /\ archive' \in Dump /\ TokenInv'
    BY <1>1 DEF Inv, TypeInv, TablesOK, TokensOK, CallsOK, TokenInv, tables, apart
  <1>3. UNCHANGED <<TeamRows, Joined, SuspendedNow>>
    BY <1>1 DEF tables, TeamRows, Row, Joined, SubjectOf, SuspendedNow
  <1>4. load' \in Snapshot /\ SnapshotInv' /\ Distinct(load'.teams)
    <2>1. CASE LoadTeams
      <3>1. load' = [pc |-> "grants", teams |-> TeamRows, grants |-> {}, suspended |-> {},
                     undisturbed |-> TRUE]
        BY <2>1 DEF LoadTeams, NoLoad
      <3>2. TeamRows \in SUBSET DumpTeam /\ Distinct(TeamRows)
        BY <1>1, TeamRowsType
      <3> QED BY <1>3, <3>1, <3>2 DEF Snapshot, SnapshotInv
    <2>2. CASE LoadGrants
      <3>1. load.pc = "grants" /\ load' = [load EXCEPT !.pc = "people", !.grants = Joined]
        BY <2>2 DEF LoadGrants
      <3>2. Joined \in SUBSET DumpGrant
        BY <1>1, JoinedType
      <3>3. load' \in Snapshot
        BY <1>1, <3>1, <3>2 DEF Snapshot
      <3>4. /\ load'.pc = "people" /\ load'.teams = load.teams /\ load'.grants = Joined
            /\ load'.undisturbed = load.undisturbed
        BY <1>1, <3>1 DEF Snapshot
      <3> QED BY <1>1, <1>3, <3>1, <3>3, <3>4 DEF SnapshotInv
    <2>3. CASE LoadPeople
      <3>1. load.pc = "people" /\ load' = [load EXCEPT !.pc = "done", !.suspended = SuspendedNow]
        BY <2>3 DEF LoadPeople
      <3>2. SuspendedNow \subseteq People
        BY DEF SuspendedNow
      <3>3. load' \in Snapshot
        BY <1>1, <3>1, <3>2 DEF Snapshot
      <3>4. /\ load'.pc = "done" /\ load'.teams = load.teams /\ load'.grants = load.grants
            /\ load'.suspended = SuspendedNow /\ load'.undisturbed = load.undisturbed
        BY <1>1, <3>1 DEF Snapshot
      <3> QED BY <1>1, <1>3, <3>1, <3>3, <3>4 DEF SnapshotInv
    <2> QED BY <2>1, <2>2, <2>3
  <1> QED BY <1>2, <1>4 DEF Inv, TypeInv, Distinct

LEMMA StepInv == Inv /\ [Next]_vars => Inv'
  <1> SUFFICES ASSUME Inv, [Next]_vars PROVE Inv'
    OBVIOUS
  <1>1. CASE \E c \in Callers : Request(c)
    BY <1>1, RequestInv
  <1>2. CASE \E c \in Callers : AddMember(c) \/ InsertGrant(c) \/ ReadGrant(c) \/ FindMember(c) \/ DeleteGrant(c)
    BY <1>2, MemberInv
  <1>3. CASE \E c \in Callers : ExportPeople(c) \/ ExportTeams(c) \/ ExportGrants(c)
    BY <1>3, ExportInv
  <1>4. CASE \E c \in Callers : \/ BeginImport(c) \/ ImportTeam(c) \/ ImportGrant(c)
                                \/ ImportPerson(c) \/ ImportStatus(c) \/ EndImport(c)
    BY <1>4, ImportInv
  <1>5. CASE \E c \in Callers : CreateToken(c) \/ FindToken(c) \/ DeleteToken(c)
    BY <1>5, TokenStepInv
  <1>6. CASE \E c \in Callers : Settings(c) \/ FindClaim(c) \/ LookUp(c)
    BY <1>6, SettingsInv
  <1>7. CASE \E c \in Callers : Fails(c)
    BY <1>7, FailsInv
  <1>8. CASE \E o \in Owners : TokenExpires(o)
    BY <1>8, ExpiresInv
  <1>9. CASE LoadTeams \/ LoadGrants \/ LoadPeople
    BY <1>9, LoadInv
  <1>10. CASE UNCHANGED vars
    <2>1. UNCHANGED <<TeamRows, Joined, SuspendedNow>>
      BY <1>10 DEF vars, tables, TeamRows, Row, Joined, SubjectOf, SuspendedNow
    <2> QED BY <1>10, <2>1 DEF vars, tables, apart, Inv, TypeInv, TablesOK, TokensOK, CallsOK,
                               SnapshotInv, TokenInv, Distinct
  <1> QED BY <1>1, <1>2, <1>3, <1>4, <1>5, <1>6, <1>7, <1>8, <1>9, <1>10 DEF Next

\* The tables, the calls and the snapshot are what they should be in every
\* state.
THEOREM InvHolds == Spec => []Inv
  <1> QED BY InitInv, StepInv, PTL DEF Spec

---------------------------------------------------------------------------
(* What the snapshot says.                                                  *)

\* Of a snapshot nobody disturbed, what it allows is what the tables allow.
LEMMA UndisturbedAllows ==
    ASSUME Inv, load.pc = "done", load.undisturbed,
           NEW u \in People, NEW p \in Projects, NEW a \in Actions
    PROVE  Can(RolesFor(load, u), a, p) <=> Allowed(u, a, p)
  <1>1. load \in Snapshot /\ Distinct(load.teams) /\ u # Operator
    BY NamesAssumption DEF Inv, TypeInv
  <1>2. load.teams = TeamRows /\ load.grants = Joined /\ load.suspended = SuspendedNow
    BY DEF Inv, SnapshotInv
  <1>3. u \in load.suspended <=> people[u] = "suspended"
    BY <1>2 DEF SuspendedNow
  <1>4. AllowedBy(load, u, a, p) <=> Allowed(u, a, p)
    BY <1>2, <1>3 DEF AllowedBy, Allowed, OpenNow
  <1> QED BY <1>1, <1>4, SnapshotAllows

LEMMA RolesInv == Inv => RolesAsGranted
  BY UndisturbedAllows DEF RolesAsGranted

\* A snapshot that was loaded while nobody wrote answers every question as
\* teams, grants and statuses do.
THEOREM RolesHold == Spec => []RolesAsGranted
  <1> QED BY InvHolds, RolesInv, PTL

LEMMA VisitsInv == Inv => VisitsAsGranted
  <1> SUFFICES ASSUME Inv, load.pc = "done", load.undisturbed,
                      NEW u \in People, NEW p \in Projects, NEW mode \in {"identified", "authenticated"}
               PROVE  LET visit == EdgeAuth(load, mode, u, NotPreview, p)
                          shown == p \in Launcher(load, u, [q \in Projects |-> mode])
                      IN /\ visit.passes <=> /\ people[u] # "suspended"
                                             /\ mode = "identified" \/ Allowed(u, "open", p)
                         /\ visit.passes => /\ shown
                                            /\ visit.teams = {t.name : t \in {x \in TeamRows : u \in x.members}} \cup {Everyone}
                         /\ shown /\ people[u] # "suspended" => visit.passes
    BY DEF VisitsAsGranted
  <1> DEFINE roles == RolesFor(load, u)
             visit == EdgeAuth(load, mode, u, NotPreview, p)
             shown == p \in Launcher(load, u, [q \in Projects |-> mode])
  <1>1. /\ load \in Snapshot /\ load.teams = TeamRows /\ load.suspended = SuspendedNow
        /\ TablesOK /\ u # Operator
    BY NamesAssumption DEF Inv, TypeInv, SnapshotInv
  <1>2. roles.suspended <=> people[u] = "suspended"
    BY <1>1, RolesForType DEF SuspendedNow
  <1>3. Can(roles, "open", p) <=> Allowed(u, "open", p)
    <2>1. "open" \in Actions
      BY DEF Actions
    <2> QED BY <2>1, UndisturbedAllows
  <1>4. visit = [passes |-> ~roles.suspended /\ (mode = "identified" \/ Can(roles, "open", p)),
                 named |-> TRUE, teams |-> TeamsOf(load.teams, u), role |-> ProjectRole(roles, p)]
    BY DEF EdgeAuth, NotPreview
  <1>5. shown <=> mode # "authenticated" \/ Can(roles, "open", p)
    BY DEF Launcher
  <1>6. TeamsOf(load.teams, u) = {t.name : t \in {x \in TeamRows : u \in x.members}} \cup {Everyone}
    <2>1. \E t \in TeamRows : t.name = Everyone
      BY <1>1, TeamRowsType
    <2>2. load.teams = TeamRows
      BY <1>1
    <2> HIDE DEF TeamRows
    <2> QED BY <2>1, <2>2 DEF TeamsOf
  <1> HIDE DEF roles
  <1>7. /\ visit.passes <=> ~roles.suspended /\ (mode = "identified" \/ Can(roles, "open", p))
        /\ visit.teams = TeamsOf(load.teams, u)
    <2>1. visit.teams = TeamsOf(load.teams, u)
      BY <1>4
    <2> DEFINE passes == ~roles.suspended /\ (mode = "identified" \/ Can(roles, "open", p))
    <2>2. visit.passes = passes
      <3>1. visit = [passes |-> passes, named |-> TRUE, teams |-> TeamsOf(load.teams, u),
                     role |-> ProjectRole(roles, p)]
        BY <1>4
      <3> HIDE DEF passes, visit
      <3> QED BY <3>1
    <2> QED BY <2>1, <2>2
  <1> HIDE DEF visit, shown
  <1>8. visit.passes <=> people[u] # "suspended" /\ (mode = "identified" \/ Allowed(u, "open", p))
    BY <1>2, <1>3, <1>7
  <1>9. visit.passes => shown
    BY <1>5, <1>7
  <1>10. shown /\ people[u] # "suspended" => visit.passes
    BY <1>2, <1>5, <1>7
  <1> QED BY <1>6, <1>7, <1>8, <1>9, <1>10 DEF visit, shown

\* A closed app opens for those who may open it, an app for everybody for
\* whoever is not suspended, and the launcher shows them what opens.
THEOREM VisitsHold == Spec => []VisitsAsGranted
  <1> QED BY InvHolds, VisitsInv, PTL

\* A token allows what both it and its owner's roles allow.
LEMMA TokenRolesAllow ==
    ASSUME NEW snap \in Snapshot, NEW known, NEW token,
           token.platform \in PlatformRoleNames, \A q \in Projects : token.projects[q] \in ProjectRoles,
           NEW p \in Projects, NEW a, Can(TokenRoles(snap, known, token), a, p)
    PROVE  /\ a \in roleActions[token.platform] \cup roleActions[token.projects[p]]
           /\ Can(RolesFor(snap, token.owner), a, p)
           /\ token.owner = Operator \/ token.owner \in known
  <1> DEFINE owner == RolesFor(snap, token.owner)
             platform == IF platformRank[token.platform] < platformRank[owner.platform]
                           THEN token.platform ELSE owner.platform
             project(q) == IF rank[token.projects[q]] < rank[owner.projects[q]]
                             THEN token.projects[q] ELSE owner.projects[q]
  <1>1. owner.platform \in PlatformRoleNames /\ owner.projects[p] \in ProjectRoles
    BY RolesForType
  <1>2. a \notin roleActions["none"]
    BY DEF roleActions
  <1>3. CASE (token.owner # Operator /\ token.owner \notin known) \/ owner.suspended
    <2>1. TokenRoles(snap, known, token) = Nothing
      BY <1>3 DEF TokenRoles
    <2> QED BY <1>2, <2>1 DEF Can, Nothing
  <1>4. CASE ~((token.owner # Operator /\ token.owner \notin known) \/ owner.suspended)
    <2>1. TokenRoles(snap, known, token) =
            [Nothing EXCEPT !.platform = platform, !.projects = [q \in Projects |-> project(q)]]
      BY <1>4 DEF TokenRoles
    <2>2. a \in roleActions[platform] \cup roleActions[project(p)]
      <3> HIDE DEF platform, project
      <3> QED BY <2>1 DEF Can, Nothing
    <2>3. /\ roleActions[platform] \subseteq roleActions[token.platform]
          /\ roleActions[platform] \subseteq roleActions[owner.platform]
      <3> HIDE DEF owner
      <3>1. /\ platformRank[token.platform] \in Nat /\ platformRank[owner.platform] \in Nat
        BY <1>1 DEF PlatformRoleNames, platformRank
      <3> QED BY <1>1, <3>1, PlatformRankAllows
    <2>4. /\ roleActions[project(p)] \subseteq roleActions[token.projects[p]]
          /\ roleActions[project(p)] \subseteq roleActions[owner.projects[p]]
      <3> HIDE DEF owner
      <3>1. token.projects[p] \in ProjectRoles
        OBVIOUS
      <3>2. /\ rank[token.projects[p]] \in Nat /\ rank[owner.projects[p]] \in Nat
        BY <1>1, <3>1 DEF ProjectRoles, rank
      <3> QED BY <1>1, <3>1, <3>2, RankAllows
    <2> HIDE DEF platform, project
    <2> QED BY <1>4, <2>2, <2>3, <2>4 DEF Can
  <1> QED BY <1>3, <1>4

LEMMA TokensInv == Inv => TokenWithinOwner
  <1> SUFFICES ASSUME Inv, load.pc = "done", NEW o \in Owners, NEW p \in Projects, NEW a \in Actions
               PROVE  LET known == {u \in People : people[u] # "unknown"}
                          token == [owner |-> o, platform |-> tokens[o].platform, projects |-> tokens[o].projects]
                      IN tokens[o] # NoToken /\ ~tokens[o].expired /\ Can(TokenRoles(load, known, token), a, p) =>
                           /\ <<a, p>> \in could[o]
                           /\ o = Operator \/ (o \in known /\ Can(RolesFor(load, o), a, p))
                           /\ o # Operator /\ load.undisturbed => Allowed(o, a, p)
    BY DEF TokenWithinOwner
  <1> DEFINE known == {u \in People : people[u] # "unknown"}
             token == [owner |-> o, platform |-> tokens[o].platform, projects |-> tokens[o].projects]
  <1> SUFFICES ASSUME Can(TokenRoles(load, known, token), a, p)
               PROVE  /\ <<a, p>> \in could[o]
                      /\ o = Operator \/ (o \in known /\ Can(RolesFor(load, o), a, p))
                      /\ o # Operator /\ load.undisturbed => Allowed(o, a, p)
    OBVIOUS
  <1>1. load \in Snapshot /\ tokens[o] \in Token /\ TokenInv
    BY DEF Inv, TypeInv, TokensOK
  <1>2. /\ token.platform \in PlatformRoleNames /\ \A q \in Projects : token.projects[q] \in ProjectRoles
        /\ token.owner = o /\ token.platform = tokens[o].platform /\ token.projects = tokens[o].projects
    BY <1>1, TokenType
  <1>3. /\ a \in roleActions[token.platform] \cup roleActions[token.projects[p]]
        /\ Can(RolesFor(load, token.owner), a, p)
        /\ token.owner = Operator \/ token.owner \in known
    <2> HIDE DEF token, known
    <2> QED BY <1>1, <1>2, TokenRolesAllow
  <1>4. <<a, p>> \in could[o]
    BY <1>1, <1>2, <1>3 DEF TokenInv
  <1>5. ASSUME o # Operator, load.undisturbed
        PROVE  Allowed(o, a, p)
    BY <1>2, <1>3, <1>5, UndisturbedAllows DEF Owners
  <1> QED BY <1>2, <1>3, <1>4, <1>5

\* What a token allows, whoever made it could do, and its owner may do now.
THEOREM TokensHold == Spec => []TokenWithinOwner
  <1> QED BY InvHolds, TokensInv, PTL

---------------------------------------------------------------------------
(* The store implements the reference.                                      *)

\* A team has one row, and a row one identifier, which no row had before.
RowsOK ==
    \A n \in Names :
        /\ rows[n].id <= made
        /\ rows[n].id = 0 => rows[n] = NoRow
        /\ \A m \in Names : rows[n].id = rows[m].id /\ rows[n].id # 0 => n = m

\* A grant is a person's or a team's ...
Owned(g) == (g.user \in People /\ g.team = 0) \/ (g.user = Nobody /\ g.team # 0)

\* ... and the row of the team is there.
GrantsOK ==
    /\ \A g \in grants : /\ Owned(g) /\ g.id \in 1..granted
                         /\ g.user = Nobody => \E n \in Names : rows[n].id = g.team
    /\ \A g, h \in grants : g.id = h.id => g = h

\* A dump names the subject of each grant.
Named(dump) == \A g \in dump.grants : g.subject \in Subjects

\* A handler remembers the identity of what it found; g and t are the last
\* ones given to grants and tokens.
CallFits(m, g, t) ==
    /\ m.pc = "insert" => Owned(m.grant)
    /\ m.pc = "delete" => m.id \in 1..g
    /\ m.pc = "revoke" => m.id \in 1..t
    /\ m.pc = "suspend" => m.grant.user \in People
    /\ Named(m.dump) /\ Named(m.left)

FoundOK == (\A c \in Callers : CallFits(calls[c], granted, minted)) /\ Named(archive)

AsideOK ==
    /\ \A o \in Owners : tokens[o] # NoToken => tokens[o].id \in 1..minted
    /\ claim \in [connector : {"", "sso"}, verified : BOOLEAN, exists : BOOLEAN]
    /\ claim.exists \/ claim = NoClaim
    /\ policy \in {"open", "company", "listed"}

KeysInv == RowsOK /\ GrantsOK /\ FoundOK /\ AsideOK

\* What the reference sees of the tables.
Seen(n) == [members |-> rows[n].members, platform |-> rows[n].platform, exists |-> rows[n].id # 0]
SeenTeams == [n \in Names |-> Seen(n)]
SeenGrant(g) == [id |-> g.id, project |-> g.project, role |-> g.role, subject |-> SubjectOf(g)]

LEMMA JoinedSeen == Joined = {SeenGrant(g) : g \in grants}
  BY DEF Joined, SeenGrant

\* The subject of a grant is found, and no other grant's.
LEMMA SubjectFound ==
    ASSUME RowsOK, NEW g, Owned(g), g.user = Nobody => \E n \in Names : rows[n].id = g.team
    PROVE  /\ SubjectOf(g) \in Subjects
           /\ g.user \in People => SubjectOf(g) = g.user
           /\ \A n \in Names : SubjectOf(g) = n <=> (g.user = Nobody /\ rows[n].id = g.team)
  <1>1. CASE g.user \in People /\ g.team = 0
    <2>1. g.user # Nobody /\ g.user \notin Names
      BY <1>1, NamesAssumption DEF Names
    <2>2. SubjectOf(g) = g.user
      BY <2>1 DEF SubjectOf
    <2> QED BY <1>1, <2>1, <2>2 DEF Subjects
  <1>2. CASE g.user = Nobody /\ g.team # 0
    <2>1. PICK n \in Names : rows[n].id = g.team
      BY <1>2
    <2>2. SubjectOf(g) = CHOOSE m \in Names : rows[m].id = g.team
      BY <1>2, <2>1 DEF SubjectOf
    <2>3. SubjectOf(g) \in Names /\ rows[SubjectOf(g)].id = g.team
      BY <2>1, <2>2
    <2>4. \A m \in Names : rows[m].id = g.team => m = SubjectOf(g)
      BY <1>2, <2>3 DEF RowsOK
    <2>5. g.user \notin People
      BY <1>2, NamesAssumption
    <2> QED BY <1>2, <2>3, <2>4, <2>5 DEF Subjects
  <1> QED BY <1>1, <1>2 DEF Owned

\* Grants of the same subject are of the same person or row.
LEMMA SubjectTells ==
    ASSUME RowsOK, NEW g, Owned(g), g.user = Nobody => \E n \in Names : rows[n].id = g.team,
           NEW h, Owned(h), h.user = Nobody => \E n \in Names : rows[n].id = h.team
    PROVE  SubjectOf(g) = SubjectOf(h) <=> (g.user = h.user /\ g.team = h.team)
  <1>1. /\ SubjectOf(g) \in Subjects /\ SubjectOf(h) \in Subjects
        /\ g.user \in People => SubjectOf(g) = g.user
        /\ h.user \in People => SubjectOf(h) = h.user
        /\ \A n \in Names : SubjectOf(g) = n <=> (g.user = Nobody /\ rows[n].id = g.team)
        /\ \A n \in Names : SubjectOf(h) = n <=> (h.user = Nobody /\ rows[n].id = h.team)
    BY SubjectFound
  <1>2. People \cap Names = {} /\ Nobody \notin People
    BY NamesAssumption DEF Names
  <1>3. CASE g.user \in People
    BY <1>1, <1>2, <1>3 DEF Owned
  <1>4. CASE g.user = Nobody
    <2>1. PICK n \in Names : rows[n].id = g.team
      BY <1>4
    <2>2. SubjectOf(g) = n
      BY <1>1, <1>4, <2>1
    <2> QED BY <1>1, <1>2, <1>4, <2>1, <2>2 DEF Owned
  <1> QED BY <1>3, <1>4 DEF Owned

LEMMA GrantSeen ==
    ASSUME RowsOK, GrantsOK, TablesOK
    PROVE  /\ \A g \in grants : SeenGrant(g).subject \in Subjects /\ SeenGrant(g).id \in 1..granted
           /\ \A g, h \in grants : SeenGrant(g) = SeenGrant(h) => g = h
           /\ \A x \in Joined : x.subject \in Subjects
  <1>1. \A g \in grants : /\ SubjectOf(g) \in Subjects /\ SeenGrant(g).id = g.id
                          /\ SeenGrant(g).subject = SubjectOf(g)
    BY SubjectFound DEF GrantsOK, SeenGrant
  <1>2. \A g \in grants : SeenGrant(g).subject \in Subjects /\ SeenGrant(g).id \in 1..granted
    BY <1>1 DEF GrantsOK
  <1>3. \A g, h \in grants : SeenGrant(g) = SeenGrant(h) => g = h
    BY <1>1 DEF GrantsOK
  <1>4. \A x \in Joined : x.subject \in Subjects
    BY <1>2, JoinedSeen
  <1> QED BY <1>2, <1>3, <1>4

LEMMA KeysInit == Init => KeysInv
  <1> SUFFICES ASSUME Init PROVE KeysInv
    OBVIOUS
  <1>1. Everyone \in Names /\ TeamNames \subseteq Names /\ Names \subseteq Subjects
    BY DEF Names, Subjects
  <1>2. RowsOK /\ GrantsOK /\ Named(archive)
    <2>1. CASE Fresh
      <3>1. /\ \A n \in Names : rows[n] = IF n = Everyone THEN [NoRow EXCEPT !.id = 1] ELSE NoRow
            /\ grants = {} /\ made = 1 /\ archive = Backup
        BY <2>1 DEF Fresh
      <3>2. \A n \in Names : rows[n].id = IF n = Everyone THEN 1 ELSE 0
        BY <3>1 DEF NoRow
      <3>3. Named(archive)
        BY <1>1, <3>1 DEF Named, Backup
      <3> QED BY <3>1, <3>2, <3>3 DEF RowsOK, GrantsOK
    <2>2. CASE InUse
      <3>1. PICK team \in TeamNames, p \in Projects :
              /\ rows = [n \in Names |->
                     CASE n = Everyone -> [NoRow EXCEPT !.id = 1]
                       [] n = team -> [NoRow EXCEPT !.id = 2, !.members = People]
                       [] OTHER -> NoRow]
              /\ grants = {[id |-> 1, project |-> p, role |-> "developer", user |-> Nobody, team |-> 2]}
        BY <2>2 DEF InUse
      <3>2. made = 2 /\ granted = 1 /\ archive = NoDump /\ team # Everyone
        BY <2>2, NamesAssumption DEF InUse
      <3>3. /\ rows[Everyone].id = 1 /\ rows[team].id = 2
            /\ \A n \in Names : n # Everyone /\ n # team => rows[n] = NoRow /\ rows[n].id = 0
        BY <1>1, <3>1, <3>2 DEF NoRow
      <3>4. RowsOK
        BY <3>2, <3>3 DEF RowsOK
      <3>5. GrantsOK
        BY <1>1, <3>1, <3>2, <3>3 DEF GrantsOK, Owned
      <3>6. Named(archive)
        BY <3>2 DEF Named, NoDump
      <3> QED BY <3>4, <3>5, <3>6
    <2> QED BY <2>1, <2>2 DEF Init
  <1>3. FoundOK
    BY <1>2 DEF Init, FoundOK, CallFits, NoCall, NoDump, Named
  <1>4. AsideOK
    BY DEF Init, AsideOK, NoClaim
  <1> QED BY <1>2, <1>3, <1>4 DEF KeysInv

LEMMA FoundStep ==
    ASSUME Inv, KeysInv, NEW c \in Callers, NEW next,
           CallFits(next, granted', minted'), calls' = [calls EXCEPT ![c] = next],
           granted' \in {granted, granted + 1}, minted' \in {minted, minted + 1}, Named(archive')
    PROVE  FoundOK'
  <1>1. granted \in Nat /\ minted \in Nat
    BY DEF Inv, TypeInv, TablesOK, TokensOK
  <1>2. 1..granted \subseteq 1..(granted') /\ 1..minted \subseteq 1..(minted')
    BY <1>1
  <1>3. \A d \in Callers \ {c} : CallFits(calls[d], granted', minted')
    BY <1>2 DEF KeysInv, FoundOK, CallFits
  <1>4. \A d \in Callers \ {c} : calls'[d] = calls[d]
    BY DEF Inv, TypeInv, CallsOK
  <1>5. calls'[c] = next
    BY DEF Inv, TypeInv, CallsOK
  <1> QED BY <1>3, <1>4, <1>5 DEF FoundOK

\* A call that is over, or only goes on, fits.
LEMMA NoCallFits == ASSUME NEW g, NEW t PROVE CallFits(NoCall, g, t)
  BY DEF CallFits, NoCall, NoDump, Named

LEMMA TablesSame ==
    ASSUME KeysInv, UNCHANGED tables
    PROVE  RowsOK' /\ GrantsOK'
  BY DEF KeysInv, RowsOK, GrantsOK, Owned, tables

LEMMA AsideSame ==
    ASSUME KeysInv, UNCHANGED apart
    PROVE  AsideOK'
  BY DEF KeysInv, AsideOK, apart

\* Fewer grants, and teams with the rows they have.
LEMMA GrantsFewer ==
    ASSUME KeysInv, grants' \subseteq grants, UNCHANGED <<rows, granted, made>>
    PROVE  RowsOK' /\ GrantsOK'
  BY DEF KeysInv, RowsOK, GrantsOK, Owned

LEMMA PutTeamKeys ==
    ASSUME Inv, KeysInv, NEW c, NEW n \in Names, NEW team, PutTeam(c, n, team)
    PROVE  RowsOK' /\ GrantsOK'
  <1>1. CASE n = Everyone
    <2>1. UNCHANGED tables
      BY <1>1 DEF PutTeam, tables
    <2> QED BY <2>1, TablesSame
  <1>2. CASE n # Everyone
    <2> DEFINE id == IF rows[n].id = 0 THEN made + 1 ELSE rows[n].id
               row == [id |-> id, members |-> team.members, platform |-> team.platform]
    <2>1. /\ rows' = [rows EXCEPT ![n] = row] /\ made' = IF rows[n].id = 0 THEN made + 1 ELSE made
          /\ UNCHANGED <<people, grants, granted>>
      BY <1>2 DEF PutTeam
    <2>2. made \in Nat /\ \A m \in Names : rows[m].id \in Nat
      BY DEF Inv, TypeInv, TablesOK, TeamRow
    <2>3. id # 0 /\ id <= made' /\ made <= made'
      BY <2>1, <2>2 DEF KeysInv, RowsOK
    <2>4. rows'[n].id = id /\ \A m \in Names \ {n} : rows'[m] = rows[m]
      BY <2>1 DEF Inv, TypeInv, TablesOK
    <2>5. \A m \in Names : m # n => rows[m].id # id
      BY <2>2 DEF KeysInv, RowsOK
    <2>6. \A m \in Names \ {n} : rows[m].id <= made'
      BY <2>1, <2>2 DEF KeysInv, RowsOK
    <2> HIDE DEF id
    <2>7. RowsOK'
      <3> SUFFICES ASSUME NEW m \in Names
                   PROVE  /\ rows'[m].id <= made'
                          /\ rows'[m].id = 0 => rows'[m] = NoRow
                          /\ \A k \in Names : rows'[m].id = rows'[k].id /\ rows'[m].id # 0 => m = k
        BY DEF RowsOK
      <3>1. CASE m = n
        BY <2>3, <2>4, <2>5, <3>1
      <3>2. CASE m # n
        <4>1. rows'[m].id <= made' /\ (rows'[m].id = 0 => rows'[m] = NoRow)
          BY <2>4, <2>6, <3>2 DEF KeysInv, RowsOK
        <4>2. \A k \in Names : rows'[m].id = rows'[k].id /\ rows'[m].id # 0 => m = k
          BY <2>4, <2>5, <3>2 DEF KeysInv, RowsOK
        <4> QED BY <4>1, <4>2
      <3> QED BY <3>1, <3>2
    <2>8. GrantsOK'
      <3>1. \A g \in grants : g.user = Nobody => \E k \in Names : rows'[k].id = g.team
        <4> SUFFICES ASSUME NEW g \in grants, g.user = Nobody
                     PROVE  \E k \in Names : rows'[k].id = g.team
          OBVIOUS
        <4>1. g.team # 0 /\ \E k \in Names : rows[k].id = g.team
          BY NamesAssumption DEF KeysInv, GrantsOK, Owned
        <4>2. rows[n].id # 0 => rows'[n].id = rows[n].id
          BY <2>4 DEF id
        <4> QED BY <2>4, <4>1, <4>2
      <3> QED BY <2>1, <3>1 DEF KeysInv, GrantsOK, Owned
    <2> QED BY <2>7, <2>8
  <1> QED BY <1>1, <1>2

LEMMA DeleteTeamKeys ==
    ASSUME Inv, KeysInv, NEW c, NEW n \in Names, DeleteTeam(c, n)
    PROVE  RowsOK' /\ GrantsOK'
  <1>1. CASE n = Everyone \/ rows[n].id = 0
    <2>1. UNCHANGED tables
      BY <1>1 DEF DeleteTeam, tables
    <2> QED BY <2>1, TablesSame
  <1>2. CASE n # Everyone /\ rows[n].id # 0
    <2>1. /\ rows' = [rows EXCEPT ![n] = NoRow] /\ grants' = {g \in grants : g.team # rows[n].id}
          /\ UNCHANGED <<people, granted, made>>
      BY <1>2 DEF DeleteTeam
    <2>2. rows'[n] = NoRow /\ \A m \in Names \ {n} : rows'[m] = rows[m]
      BY <2>1 DEF Inv, TypeInv, TablesOK
    <2>3. NoRow.id = 0 /\ made \in Nat
      BY DEF NoRow, Inv, TypeInv, TablesOK
    <2>4. RowsOK'
      <3> SUFFICES ASSUME NEW m \in Names
                   PROVE  /\ rows'[m].id <= made'
                          /\ rows'[m].id = 0 => rows'[m] = NoRow
                          /\ \A k \in Names : rows'[m].id = rows'[k].id /\ rows'[m].id # 0 => m = k
        BY DEF RowsOK
      <3>1. CASE m = n
        BY <2>1, <2>2, <2>3, <3>1
      <3>2. CASE m # n
        BY <2>1, <2>2, <2>3, <3>2 DEF KeysInv, RowsOK
      <3> QED BY <3>1, <3>2
    <2>5. GrantsOK'
      <3>1. \A g \in grants' : g.user = Nobody => \E k \in Names : rows'[k].id = g.team
        BY <2>1, <2>2 DEF KeysInv, GrantsOK
      <3> QED BY <2>1, <3>1 DEF KeysInv, GrantsOK, Owned
    <2> QED BY <2>4, <2>5
  <1> QED BY <1>1, <1>2

LEMMA InsertKeys ==
    ASSUME Inv, KeysInv, NEW new, Owned(new), new.id = granted + 1,
           new.team = 0 \/ (\E n \in Names : rows[n].id = new.team),
           grants' = grants \cup {new}, granted' = granted + 1, UNCHANGED <<rows, made>>
    PROVE  RowsOK' /\ GrantsOK'
  <1>1. granted \in Nat
    BY DEF Inv, TypeInv, TablesOK
  <1>2. RowsOK'
    BY DEF KeysInv, RowsOK
  <1>3. \A g \in grants : g.id \in 1..granted /\ g.id # new.id
    BY <1>1 DEF KeysInv, GrantsOK
  <1>4. \A g \in grants' : g.id \in 1..(granted')
    BY <1>1, <1>3
  <1>5. \A g \in grants' : g.user = Nobody => \E n \in Names : rows'[n].id = g.team
    BY NamesAssumption DEF KeysInv, GrantsOK, Owned
  <1>6. \A g \in grants' : Owned(g)
    BY DEF KeysInv, GrantsOK
  <1>7. \A g, h \in grants' : g.id = h.id => g = h
    BY <1>3 DEF KeysInv, GrantsOK
  <1>8. GrantsOK'
    BY <1>4, <1>5, <1>6, <1>7 DEF GrantsOK, Owned
  <1> QED BY <1>2, <1>8

LEMMA ReturnedFits ==
    ASSUME Inv, KeysInv, NEW c \in Callers, NEW outcome, calls[c].pc \in {"insert", "read"}
    PROVE  CallFits(Returned(c, outcome), granted, minted)
  <1> DEFINE m == calls[c]
  <1>1. m \in Call /\ Named(m.dump) /\ Named(m.left)
    BY DEF Inv, TypeInv, CallsOK, KeysInv, FoundOK, CallFits
  <1>2. CASE ~m.importing
    <2>1. Returned(c, outcome) = NoCall
      BY <1>2 DEF Returned
    <2> QED BY <2>1, NoCallFits
  <1>3. CASE m.importing /\ outcome \in {"ok", "conflict"}
    <2>1. Returned(c, outcome) = [m EXCEPT !.pc = "import", !.grant = NoGrant,
                                           !.left.grants = {g \in @ : g.id # m.id}, !.id = 0]
      BY <1>3 DEF Returned
    <2> DEFINE less == [m.left EXCEPT !.grants = {g \in @ : g.id # m.id}]
    <2>2. less.grants \subseteq m.left.grants
      BY <1>1 DEF Call, Dump
    <2>3. Returned(c, outcome) = [m EXCEPT !.pc = "import", !.grant = NoGrant, !.id = 0,
                                           !.left = less]
      BY <1>1, <2>1 DEF Call, Dump
    <2> HIDE DEF m, less
    <2>4. /\ Returned(c, outcome).pc = "import" /\ Returned(c, outcome).dump = m.dump
          /\ Returned(c, outcome).left = less
      BY <1>1, <2>3 DEF Call
    <2> QED BY <1>1, <2>2, <2>4 DEF CallFits, Named
  <1>4. CASE m.importing /\ outcome \notin {"ok", "conflict"}
    <2>1. Returned(c, outcome) = [m EXCEPT !.pc = "stopped"]
      BY <1>4 DEF Returned
    <2> HIDE DEF m
    <2>2. /\ Returned(c, outcome).pc = "stopped" /\ Returned(c, outcome).dump = m.dump
          /\ Returned(c, outcome).left = m.left
      BY <1>1, <2>1 DEF Call
    <2> QED BY <1>1, <2>2 DEF CallFits
  <1> QED BY <1>2, <1>3, <1>4

LEMMA SelectKeys ==
    ASSUME Inv, KeysInv, NEW c \in Callers, NEW m \in Call, CallFits(m, granted, minted),
           NEW p, NEW r, NEW s \in Subjects,
           SelectTeam(c, m, p, r, s), UNCHANGED <<apart, archive>>
    PROVE  KeysInv'
  <1>1. UNCHANGED tables /\ Named(archive')
    BY DEF SelectTeam, Reads, KeysInv, FoundOK
  <1>2. RowsOK' /\ GrantsOK' /\ AsideOK' /\ granted' = granted /\ minted' = minted
    BY <1>1, TablesSame, AsideSame DEF tables, apart
  <1>3. PICK next : calls' = [calls EXCEPT ![c] = next] /\ CallFits(next, granted, minted)
    <2>1. CASE s \in Names /\ rows[s].id = 0
      <3>1. calls' = [calls EXCEPT ![c] = IF m.importing THEN [m EXCEPT !.pc = "stopped"] ELSE m]
        BY <2>1 DEF SelectTeam, Reads
      <3>2. CallFits([m EXCEPT !.pc = "stopped"], granted, minted)
        BY DEF CallFits, Call
      <3> QED BY <3>1, <3>2
    <2>2. CASE ~(s \in Names /\ rows[s].id = 0)
      <3> DEFINE g == [id |-> 0, project |-> p, role |-> r,
                       user |-> IF s \in People THEN s ELSE Nobody,
                       team |-> IF s \in Names THEN rows[s].id ELSE 0]
                 next == [m EXCEPT !.pc = "insert", !.grant = g]
      <3>1. calls' = [calls EXCEPT ![c] = next]
        BY <2>2 DEF SelectTeam, Reads
      <3>2. Owned(g)
        <4>1. CASE s \in People
          BY <4>1, NamesAssumption DEF Owned, Names
        <4>2. CASE s \in Names
          BY <2>2, <4>2, NamesAssumption DEF Owned, Names
        <4> QED BY <4>1, <4>2 DEF Subjects
      <3> HIDE DEF g
      <3>3. next.pc = "insert" /\ next.grant = g /\ next.dump = m.dump /\ next.left = m.left
        BY DEF Call
      <3> HIDE DEF next
      <3>4. CallFits(next, granted, minted)
        BY <3>2, <3>3 DEF CallFits
      <3> QED BY <3>1, <3>4
    <2> QED BY <2>1, <2>2
  <1>4. FoundOK'
    BY <1>1, <1>2, <1>3, FoundStep
  <1> QED BY <1>2, <1>4 DEF KeysInv

LEMMA RequestKeys ==
    ASSUME Inv, KeysInv, NEW c \in Callers, Request(c)
    PROVE  KeysInv'
  <1>1. /\ UNCHANGED <<apart, archive>> /\ calls' = [calls EXCEPT ![c] = NoCall]
        /\ granted' = granted
    BY DEF Request, Writes, TouchIdentity, DeleteIdentity, SetIdentityStatus, DeleteTeam, PutTeam,
           DeleteProjectGrants
  <1>2. RowsOK' /\ GrantsOK'
    <2>1. CASE \E u \in People :
                 \/ TouchIdentity(c, u) \/ DeleteIdentity(c, u)
                 \/ \E status \in {"active", "suspended"} : SetIdentityStatus(c, u, status)
      BY <2>1, GrantsFewer DEF TouchIdentity, DeleteIdentity, SetIdentityStatus
    <2>2. CASE \E n \in Names : DeleteTeam(c, n) \/ \E team \in Contents : PutTeam(c, n, team)
      BY <2>2, DeleteTeamKeys, PutTeamKeys
    <2>3. CASE \E p \in Projects : DeleteProjectGrants(c, p)
      BY <2>3, GrantsFewer DEF DeleteProjectGrants
    <2> QED BY <2>1, <2>2, <2>3 DEF Request
  <1>3. AsideOK' /\ minted' = minted /\ Named(archive')
    BY <1>1, AsideSame DEF apart, KeysInv, FoundOK
  <1>4. FoundOK'
    BY <1>1, <1>3, NoCallFits, FoundStep
  <1> QED BY <1>2, <1>3, <1>4 DEF KeysInv

LEMMA MemberKeys ==
    ASSUME Inv, KeysInv, NEW c \in Callers,
           AddMember(c) \/ InsertGrant(c) \/ ReadGrant(c) \/ FindMember(c) \/ DeleteGrant(c)
    PROVE  KeysInv'
  <1>0. /\ calls[c] \in Call /\ CallFits(calls[c], granted, minted) /\ Named(archive)
        /\ NoCall \in Call
    BY NoCallType DEF Inv, TypeInv, CallsOK, KeysInv, FoundOK
  <1>1. CASE AddMember(c)
    <2>1. \E p \in Projects, r \in Roles, s \in Subjects : SelectTeam(c, NoCall, p, r, s)
      BY <1>1 DEF AddMember
    <2> QED BY <1>0, <1>1, <2>1, NoCallFits, SelectKeys DEF AddMember
  <1>2. CASE InsertGrant(c)
    <2> DEFINE new == [calls[c].grant EXCEPT !.id = granted + 1]
               twin == \E g \in grants : [g EXCEPT !.id = new.id] = new
               orphan == new.team # 0 /\ \A n \in Names : rows[n].id # new.team
               refused == IF twin THEN "conflict" ELSE "error"
    <2>1. CASE twin \/ orphan
      <3>1. Reads(c, Returned(c, refused)) /\ UNCHANGED <<apart, archive>> /\ calls[c].pc = "insert"
        BY <1>2, <2>1 DEF InsertGrant
      <3> HIDE DEF refused
      <3>2. /\ calls' = [calls EXCEPT ![c] = Returned(c, refused)]
            /\ UNCHANGED tables /\ granted' = granted /\ minted' = minted /\ archive' = archive
        BY <3>1 DEF Reads, tables, apart
      <3>3. CallFits(Returned(c, refused), granted, minted)
        BY <3>1, ReturnedFits
      <3>4. FoundOK'
        BY <1>0, <3>2, <3>3, FoundStep
      <3> QED BY <3>1, <3>2, <3>4, TablesSame, AsideSame DEF KeysInv
    <2>2. CASE ~(twin \/ orphan)
      <3> DEFINE next == [calls[c] EXCEPT !.pc = "read", !.grant = new]
      <3>1. /\ grants' = grants \cup {new} /\ granted' = granted + 1
            /\ UNCHANGED <<people, rows, made>> /\ UNCHANGED <<apart, archive>>
            /\ calls' = [calls EXCEPT ![c] = next] /\ calls[c].pc = "insert"
        BY <1>2, <2>2 DEF InsertGrant, Writes
      <3>2. Owned(new) /\ new.id = granted + 1
        BY <1>0, <3>1 DEF CallFits, Owned, Call
      <3>3. new.team = 0 \/ \E n \in Names : rows[n].id = new.team
        BY <2>2
      <3> HIDE DEF new
      <3>4. RowsOK' /\ GrantsOK'
        BY <3>1, <3>2, <3>3, InsertKeys
      <3>5. next.pc = "read" /\ next.dump = calls[c].dump /\ next.left = calls[c].left
        BY <1>0 DEF Call
      <3> HIDE DEF next
      <3>6. CallFits(next, granted', minted')
        BY <1>0, <3>5 DEF CallFits
      <3>7. FoundOK'
        BY <1>0, <3>1, <3>6, FoundStep DEF apart
      <3> QED BY <3>1, <3>4, <3>7, AsideSame DEF KeysInv
    <2> QED BY <2>1, <2>2
  <1>3. CASE ReadGrant(c)
    <2>1. PICK outcome : Reads(c, Returned(c, outcome))
      BY <1>3 DEF ReadGrant
    <2>2. /\ calls' = [calls EXCEPT ![c] = Returned(c, outcome)] /\ UNCHANGED <<tables, apart>>
          /\ granted' = granted /\ minted' = minted /\ archive' = archive
      BY <1>3, <2>1 DEF ReadGrant, Reads, tables, apart
    <2>3. CallFits(Returned(c, outcome), granted, minted)
      BY <1>3, ReturnedFits DEF ReadGrant
    <2>4. FoundOK'
      BY <1>0, <2>2, <2>3, FoundStep
    <2> QED BY <2>2, <2>4, TablesSame, AsideSame DEF KeysInv
  <1>4. CASE FindMember(c)
    <2>1. PICK g \in grants : Reads(c, [NoCall EXCEPT !.pc = "delete", !.id = g.id])
      BY <1>4 DEF FindMember
    <2>2. CallFits([NoCall EXCEPT !.pc = "delete", !.id = g.id], granted, minted)
      BY DEF CallFits, NoCall, NoDump, Named, KeysInv, GrantsOK
    <2>3. UNCHANGED <<apart, archive>>
      BY <1>4 DEF FindMember
    <2>4. FoundOK'
      BY <1>0, <2>1, <2>2, <2>3, FoundStep DEF Reads, tables, apart
    <2> QED BY <2>1, <2>3, <2>4, TablesSame, AsideSame DEF Reads, KeysInv
  <1>5. CASE DeleteGrant(c)
    <2>1. /\ grants' \subseteq grants /\ UNCHANGED <<people, rows, granted, made>>
          /\ UNCHANGED <<apart, archive>> /\ calls' = [calls EXCEPT ![c] = NoCall]
      BY <1>5 DEF DeleteGrant, Writes
    <2>2. FoundOK'
      BY <1>0, <2>1, NoCallFits, FoundStep DEF apart
    <2> QED BY <2>1, <2>2, GrantsFewer, AsideSame DEF KeysInv
  <1> QED BY <1>1, <1>2, <1>3, <1>4, <1>5

LEMMA ExportKeys ==
    ASSUME Inv, KeysInv, NEW c \in Callers, ExportPeople(c) \/ ExportTeams(c) \/ ExportGrants(c)
    PROVE  KeysInv'
  <1>0. /\ calls[c] \in Call /\ CallFits(calls[c], granted, minted) /\ Named(archive)
    BY DEF Inv, TypeInv, CallsOK, KeysInv, FoundOK
  <1>1. UNCHANGED tables /\ UNCHANGED apart
    BY DEF ExportPeople, ExportTeams, ExportGrants, Reads
  <1>2. RowsOK' /\ GrantsOK' /\ AsideOK' /\ granted' = granted /\ minted' = minted
    BY <1>1, TablesSame, AsideSame DEF tables, apart
  <1>3. CASE ExportPeople(c)
    <2> DEFINE known == {[user |-> u, status |-> people[u]] : u \in {x \in People : people[x] # "unknown"}}
               next == [NoCall EXCEPT !.pc = "export teams", !.dump.people = known]
    <2>1. calls' = [calls EXCEPT ![c] = next] /\ archive' = archive
      BY <1>3 DEF ExportPeople, Reads
    <2> HIDE DEF known
    <2>2. CallFits(next, granted, minted)
      BY DEF CallFits, NoCall, NoDump, Named
    <2> HIDE DEF next
    <2>3. FoundOK'
      BY <1>0, <1>2, <2>1, <2>2, FoundStep
    <2> QED BY <1>2, <2>3 DEF KeysInv
  <1>4. CASE ExportTeams(c)
    <2> DEFINE next == [calls[c] EXCEPT !.pc = "export grants", !.dump.teams = TeamRows]
    <2>1. calls' = [calls EXCEPT ![c] = next] /\ archive' = archive
      BY <1>4 DEF ExportTeams, Reads
    <2>2. next.pc = "export grants" /\ next.left = calls[c].left /\ next.dump.grants = calls[c].dump.grants
      BY <1>0 DEF Call, Dump
    <2> HIDE DEF next
    <2>3. CallFits(next, granted, minted)
      BY <1>0, <2>2 DEF CallFits, Named
    <2>4. FoundOK'
      BY <1>0, <1>2, <2>1, <2>3, FoundStep
    <2> QED BY <1>2, <2>4 DEF KeysInv
  <1>5. CASE ExportGrants(c)
    <2>1. /\ calls' = [calls EXCEPT ![c] = NoCall]
          /\ archive' = [calls[c].dump EXCEPT !.grants = Joined]
      BY <1>5 DEF ExportGrants, Reads
    <2>2. archive'.grants = Joined
      BY <1>0, <2>1 DEF Call, Dump
    <2>3. Named(archive')
      BY <2>2, GrantSeen DEF Named, Inv, TypeInv, KeysInv
    <2>4. FoundOK'
      BY <1>2, <2>1, <2>3, NoCallFits, FoundStep
    <2> QED BY <1>2, <2>4 DEF KeysInv
  <1> QED BY <1>3, <1>4, <1>5

LEMMA ImportKeys ==
    ASSUME Inv, KeysInv, NEW c \in Callers,
           \/ BeginImport(c) \/ ImportTeam(c) \/ ImportGrant(c) \/ ImportPerson(c)
           \/ ImportStatus(c) \/ EndImport(c)
    PROVE  KeysInv'
  <1>0. /\ calls[c] \in Call /\ CallFits(calls[c], granted, minted) /\ Named(archive)
        /\ NoCall \in Call /\ archive \in Dump
    BY NoCallType DEF Inv, TypeInv, CallsOK, KeysInv, FoundOK
  <1>1. CASE BeginImport(c)
    <2>1. PICK overwrite \in BOOLEAN :
            Reads(c, [NoCall EXCEPT !.pc = "import", !.importing = TRUE, !.overwrite = overwrite,
                                    !.left = archive])
      BY <1>1 DEF BeginImport
    <2> DEFINE next == [NoCall EXCEPT !.pc = "import", !.importing = TRUE, !.overwrite = overwrite,
                                      !.left = archive]
    <2>2. /\ calls' = [calls EXCEPT ![c] = next] /\ UNCHANGED <<tables, apart>>
          /\ granted' = granted /\ minted' = minted /\ archive' = archive
      BY <1>1, <2>1 DEF BeginImport, Reads, tables, apart
    <2>3. CallFits(next, granted, minted)
      BY <1>0 DEF CallFits, NoCall, NoDump, Named
    <2> HIDE DEF next
    <2>4. FoundOK'
      BY <1>0, <2>2, <2>3, FoundStep
    <2> QED BY <2>2, <2>4, TablesSame, AsideSame DEF KeysInv
  <1>2. CASE ImportTeam(c)
    <2>1. PICK t \in calls[c].left.teams :
            LET m == [calls[c] EXCEPT !.left.teams = @ \ {t}]
            IN IF t.name = Everyone \/ (~m.overwrite /\ rows[t.name].id # 0)
                 THEN Reads(c, m) /\ answer' = answer
                 ELSE PutTeam(c, t.name, t) /\ Writes(c, m)
      BY <1>2 DEF ImportTeam
    <2> DEFINE m == [calls[c] EXCEPT !.left.teams = @ \ {t}]
    <2>2. calls[c].pc = "import" /\ UNCHANGED <<apart, archive>>
      BY <1>2 DEF ImportTeam
    <2>3. m.pc = "import" /\ m.dump = calls[c].dump /\ m.left.grants = calls[c].left.grants
      BY <1>0, <2>2 DEF Call, Dump
    <2>4. t.name \in Names
      BY <1>0, LeftType DEF DumpTeam
    <2>5. calls' = [calls EXCEPT ![c] = m] /\ granted' = granted
      BY <2>1 DEF Reads, Writes, PutTeam, tables
    <2>6. RowsOK' /\ GrantsOK'
      <3>1. CASE UNCHANGED tables
        BY <3>1, TablesSame
      <3>2. CASE PutTeam(c, t.name, t)
        BY <2>4, <3>2, PutTeamKeys
      <3> QED BY <2>1, <3>1, <3>2 DEF Reads
    <2> HIDE DEF m
    <2>7. CallFits(m, granted, minted)
      BY <1>0, <2>3 DEF CallFits, Named
    <2>8. minted' = minted /\ Named(archive')
      BY <1>0, <2>2 DEF apart
    <2>9. FoundOK'
      BY <2>5, <2>7, <2>8, FoundStep
    <2> QED BY <2>2, <2>6, <2>9, AsideSame DEF KeysInv
  <1>3. CASE ImportGrant(c)
    <2>1. PICK g \in calls[c].left.grants :
            SelectTeam(c, [calls[c] EXCEPT !.id = g.id], g.project, g.role, g.subject)
      BY <1>3 DEF ImportGrant
    <2> DEFINE m == [calls[c] EXCEPT !.id = g.id]
    <2>2. g \in DumpGrant /\ g.subject \in Subjects
      BY <1>0, LeftType DEF CallFits, Named
    <2>3. m \in Call /\ m.pc = "import" /\ m.dump = calls[c].dump /\ m.left = calls[c].left
      BY <1>0, <1>3, <2>2 DEF ImportGrant, Call, DumpGrant
    <2>4. SelectTeam(c, m, g.project, g.role, g.subject) /\ UNCHANGED <<apart, archive>>
      BY <1>3, <2>1 DEF ImportGrant
    <2> HIDE DEF m
    <2>5. CallFits(m, granted, minted)
      BY <1>0, <2>3 DEF CallFits
    <2> QED BY <2>2, <2>3, <2>4, <2>5, SelectKeys
  <1>4. CASE ImportPerson(c)
    <2>1. PICK x \in calls[c].left.people :
            /\ TouchIdentity(c, x.user)
            /\ Writes(c, IF x.status = "suspended"
                           THEN [calls[c] EXCEPT !.pc = "suspend", !.left.people = @ \ {x},
                                                 !.grant.user = x.user]
                           ELSE [calls[c] EXCEPT !.left.people = @ \ {x}])
      BY <1>4 DEF ImportPerson
    <2> DEFINE m == [calls[c] EXCEPT !.pc = "suspend", !.left.people = @ \ {x}, !.grant.user = x.user]
               less == [calls[c] EXCEPT !.left.people = @ \ {x}]
    <2>2. calls[c].pc = "import" /\ UNCHANGED <<apart, archive>>
      BY <1>4 DEF ImportPerson
    <2>3. x.user \in People
      BY <1>0, LeftType
    <2>4. /\ m.pc = "suspend" /\ m.grant.user = x.user /\ m.dump = calls[c].dump
          /\ m.left.grants = calls[c].left.grants
      BY <1>0 DEF Call, Dump
    <2>5. less.pc = "import" /\ less.dump = calls[c].dump /\ less.left.grants = calls[c].left.grants
      BY <1>0, <2>2 DEF Call, Dump
    <2>6. PICK next \in {m, less} : calls' = [calls EXCEPT ![c] = next]
      BY <2>1 DEF Writes
    <2> HIDE DEF m, less
    <2>7. CallFits(m, granted, minted) /\ CallFits(less, granted, minted)
      BY <1>0, <2>3, <2>4, <2>5 DEF CallFits, Named
    <2>8. UNCHANGED <<rows, grants, granted, made>> /\ minted' = minted /\ Named(archive')
      BY <1>0, <2>1, <2>2 DEF TouchIdentity, apart
    <2>9. FoundOK'
      BY <2>6, <2>7, <2>8, FoundStep
    <2> QED BY <2>2, <2>8, <2>9, GrantsFewer, AsideSame DEF KeysInv
  <1>5. CASE ImportStatus(c)
    <2> DEFINE next == [calls[c] EXCEPT !.pc = "import", !.grant = NoGrant]
    <2>1. /\ calls' = [calls EXCEPT ![c] = next] /\ UNCHANGED <<rows, grants, granted, made>>
          /\ UNCHANGED <<apart, archive>>
      BY <1>5 DEF ImportStatus, SetIdentityStatus, Writes
    <2>2. next.pc = "import" /\ next.dump = calls[c].dump /\ next.left = calls[c].left
      BY <1>0 DEF Call
    <2> HIDE DEF next
    <2>3. CallFits(next, granted, minted)
      BY <1>0, <2>2 DEF CallFits
    <2>4. FoundOK'
      BY <1>0, <2>1, <2>3, FoundStep DEF apart
    <2> QED BY <2>1, <2>4, GrantsFewer, AsideSame DEF KeysInv
  <1>6. CASE EndImport(c)
    <2>1. /\ calls' = [calls EXCEPT ![c] = NoCall] /\ UNCHANGED <<tables, apart>>
          /\ granted' = granted /\ minted' = minted /\ archive' = archive
      BY <1>6 DEF EndImport, tables, apart
    <2>2. FoundOK'
      BY <1>0, <2>1, NoCallFits, FoundStep
    <2> QED BY <2>1, <2>2, TablesSame, AsideSame DEF KeysInv
  <1> QED BY <1>1, <1>2, <1>3, <1>4, <1>5, <1>6

LEMMA AsideKeys ==
    ASSUME Inv, KeysInv, NEW c \in Callers,
           \/ CreateToken(c) \/ FindToken(c) \/ DeleteToken(c)
           \/ Settings(c) \/ FindClaim(c) \/ LookUp(c)
    PROVE  KeysInv'
  <1>0. AsideOK /\ minted \in Nat /\ tokens \in [Owners -> Token] /\ Named(archive)
    BY DEF Inv, TypeInv, TokensOK, KeysInv, FoundOK
  <1>1. UNCHANGED tables /\ archive' = archive /\ granted' = granted
    BY DEF CreateToken, FindToken, DeleteToken, Settings, FindClaim, LookUp, Aside, tables
  <1>2. RowsOK' /\ GrantsOK'
    BY <1>1, TablesSame
  <1>3. CASE CreateToken(c)
    <2>1. calls' = [calls EXCEPT ![c] = NoCall] /\ UNCHANGED <<claim, policy>>
      BY <1>3 DEF CreateToken, Aside, apart
    <2>2. PICK o \in Owners :
            \/ UNCHANGED <<tokens, minted>>
            \/ /\ minted' = minted + 1
               /\ \E new : new.id = minted + 1 /\ tokens' = [tokens EXCEPT ![o] = new]
      <3>1. \A role : [id |-> minted + 1, platform |-> role.platform,
                       projects |-> role.projects, expired |-> FALSE].id = minted + 1
        OBVIOUS
      <3> QED BY <1>3, <3>1 DEF CreateToken, apart
    <2>3. CASE UNCHANGED <<tokens, minted>>
      <3>1. AsideOK'
        BY <1>0, <2>1, <2>3 DEF AsideOK
      <3>2. FoundOK'
        BY <1>0, <1>1, <2>1, <2>3, NoCallFits, FoundStep
      <3> QED BY <1>2, <3>1, <3>2 DEF KeysInv
    <2>4. CASE /\ minted' = minted + 1
               /\ \E new : new.id = minted + 1 /\ tokens' = [tokens EXCEPT ![o] = new]
      <3>1. \A x \in Owners : tokens'[x] = tokens[x] \/ tokens'[x].id = minted + 1
        BY <1>0, <2>4
      <3>2. AsideOK'
        <4>1. 1..minted \subseteq 1..(minted') /\ minted + 1 \in 1..(minted')
          BY <1>0, <2>4
        <4>2. \A x \in Owners : tokens'[x] # NoToken => tokens'[x].id \in 1..(minted')
          BY <1>0, <3>1, <4>1 DEF AsideOK
        <4> QED BY <1>0, <2>1, <4>2 DEF AsideOK
      <3>3. FoundOK'
        BY <1>0, <1>1, <2>1, <2>4, NoCallFits, FoundStep
      <3> QED BY <1>2, <3>2, <3>3 DEF KeysInv
    <2> QED BY <2>2, <2>3, <2>4
  <1>4. CASE FindToken(c)
    <2>1. PICK o \in Owners : /\ tokens[o] # NoToken
                              /\ calls' = [calls EXCEPT ![c] = [NoCall EXCEPT !.pc = "revoke", !.id = tokens[o].id]]
      BY <1>4 DEF FindToken, Aside
    <2>2. CallFits([NoCall EXCEPT !.pc = "revoke", !.id = tokens[o].id], granted, minted)
      BY <1>0, <2>1 DEF CallFits, NoCall, NoDump, Named, AsideOK
    <2>3. UNCHANGED apart /\ minted' = minted
      BY <1>4 DEF FindToken, apart
    <2>4. FoundOK'
      BY <1>0, <1>1, <2>1, <2>2, <2>3, FoundStep
    <2> QED BY <1>2, <2>3, <2>4, AsideSame DEF KeysInv
  <1>5. CASE DeleteToken(c)
    <2>1. /\ tokens' = [o \in Owners |-> IF tokens[o].id = calls[c].id THEN NoToken ELSE tokens[o]]
          /\ UNCHANGED <<minted, claim, policy>> /\ calls' = [calls EXCEPT ![c] = NoCall]
      BY <1>5 DEF DeleteToken, Aside
    <2>2. AsideOK'
      BY <1>0, <2>1 DEF AsideOK
    <2>3. FoundOK'
      BY <1>0, <1>1, <2>1, NoCallFits, FoundStep
    <2> QED BY <1>2, <2>2, <2>3 DEF KeysInv
  <1>6. CASE Settings(c) \/ LookUp(c)
    <2>1. UNCHANGED <<tokens, minted>> /\ calls' = [calls EXCEPT ![c] = NoCall]
      BY <1>6 DEF Settings, LookUp, Aside
    <2>2. /\ claim' \in [connector : {"", "sso"}, verified : BOOLEAN, exists : BOOLEAN]
          /\ claim'.exists \/ claim' = NoClaim
          /\ policy' \in {"open", "company", "listed"}
      <3>1. CASE Settings(c)
        <4>1. \/ claim' = claim \/ claim' = NoClaim
              \/ \E connector \in {"", "sso"} :
                   claim' = [claim EXCEPT !.exists = TRUE, !.connector = connector]
          BY <3>1 DEF Settings
        <4>2. policy' = policy \/ policy' \in {"open", "company", "listed"}
          BY <3>1 DEF Settings
        <4>3. NoClaim \in [connector : {"", "sso"}, verified : BOOLEAN, exists : BOOLEAN]
          BY DEF NoClaim
        <4>4. \A connector \in {"", "sso"} :
                /\ [claim EXCEPT !.exists = TRUE, !.connector = connector]
                     \in [connector : {"", "sso"}, verified : BOOLEAN, exists : BOOLEAN]
                /\ [claim EXCEPT !.exists = TRUE, !.connector = connector].exists
          BY <1>0 DEF AsideOK
        <4> QED BY <1>0, <4>1, <4>2, <4>3, <4>4 DEF AsideOK
      <3>2. CASE LookUp(c)
        <4>1. CASE claim.exists
          <5>1. claim' = claim \/ claim' = [claim EXCEPT !.verified = TRUE]
            BY <3>2, <4>1 DEF LookUp
          <5> QED BY <1>0, <3>2, <4>1, <5>1 DEF LookUp, AsideOK
        <4>2. CASE ~claim.exists
          <5>1. claim = NoClaim
            BY <1>0, <4>2 DEF AsideOK
          <5>2. claim' = claim
            BY <3>2, <4>2, <5>1 DEF LookUp, NoClaim
          <5> QED BY <1>0, <3>2, <5>1, <5>2 DEF LookUp, AsideOK
        <4> QED BY <4>1, <4>2
      <3> QED BY <1>6, <3>1, <3>2
    <2>3. AsideOK'
      BY <1>0, <2>1, <2>2 DEF AsideOK
    <2>4. FoundOK'
      BY <1>0, <1>1, <2>1, NoCallFits, FoundStep
    <2> QED BY <1>2, <2>3, <2>4 DEF KeysInv
  <1>7. CASE FindClaim(c)
    <2>1. /\ calls' = [calls EXCEPT ![c] = [NoCall EXCEPT !.pc = "look up"]]
          /\ UNCHANGED apart /\ minted' = minted
      BY <1>7 DEF FindClaim, Aside, apart
    <2>2. CallFits([NoCall EXCEPT !.pc = "look up"], granted, minted)
      BY DEF CallFits, NoCall, NoDump, Named
    <2>3. FoundOK'
      BY <1>0, <1>1, <2>1, <2>2, FoundStep
    <2> QED BY <1>2, <2>1, <2>3, AsideSame DEF KeysInv
  <1> QED BY <1>3, <1>4, <1>5, <1>6, <1>7

LEMMA FailsKeys ==
    ASSUME Inv, KeysInv, NEW c \in Callers, Fails(c)
    PROVE  KeysInv'
  <1>0. /\ calls[c] \in Call /\ CallFits(calls[c], granted, minted) /\ Named(archive)
    BY DEF Inv, TypeInv, CallsOK, KeysInv, FoundOK
  <1>1. PICK next \in {NoCall, [calls[c] EXCEPT !.pc = "stopped"]} : calls' = [calls EXCEPT ![c] = next]
    BY <1>0 DEF Fails, Inv, TypeInv, CallsOK
  <1>2. CallFits([calls[c] EXCEPT !.pc = "stopped"], granted, minted)
    BY <1>0 DEF CallFits, Call
  <1>3. /\ UNCHANGED <<tables, apart>> /\ granted' = granted /\ minted' = minted /\ archive' = archive
    BY DEF Fails, tables, apart
  <1>4. FoundOK'
    BY <1>0, <1>1, <1>2, <1>3, NoCallFits, FoundStep
  <1> QED BY <1>3, <1>4, TablesSame, AsideSame DEF KeysInv

LEMMA KeysStep == Inv /\ KeysInv /\ [Next]_vars => KeysInv'
  <1> SUFFICES ASSUME Inv, KeysInv, [Next]_vars PROVE KeysInv'
    OBVIOUS
  <1>1. CASE \E c \in Callers : Request(c)
    BY <1>1, RequestKeys
  <1>2. CASE \E c \in Callers : AddMember(c) \/ InsertGrant(c) \/ ReadGrant(c) \/ FindMember(c) \/ DeleteGrant(c)
    BY <1>2, MemberKeys
  <1>3. CASE \E c \in Callers : ExportPeople(c) \/ ExportTeams(c) \/ ExportGrants(c)
    BY <1>3, ExportKeys
  <1>4. CASE \E c \in Callers : \/ BeginImport(c) \/ ImportTeam(c) \/ ImportGrant(c)
                                \/ ImportPerson(c) \/ ImportStatus(c) \/ EndImport(c)
    BY <1>4, ImportKeys
  <1>5. CASE \E c \in Callers : \/ CreateToken(c) \/ FindToken(c) \/ DeleteToken(c)
                                \/ Settings(c) \/ FindClaim(c) \/ LookUp(c)
    BY <1>5, AsideKeys
  <1>6. CASE \E c \in Callers : Fails(c)
    BY <1>6, FailsKeys
  <1>7. CASE \E o \in Owners : TokenExpires(o)
    <2>1. PICK o \in Owners : /\ tokens[o] # NoToken /\ tokens' = [tokens EXCEPT ![o].expired = TRUE]
                              /\ UNCHANGED <<tables, minted, claim, policy, calls, archive>>
      BY <1>7 DEF TokenExpires
    <2>2. \A x \in Owners : tokens'[x].id = tokens[x].id /\ (x # o => tokens'[x] = tokens[x])
      BY <2>1 DEF Inv, TypeInv, TokensOK, Token
    <2>3. AsideOK'
      BY <2>1, <2>2 DEF KeysInv, AsideOK
    <2>4. FoundOK'
      BY <2>1 DEF KeysInv, FoundOK, tables
    <2> QED BY <2>1, <2>3, <2>4, TablesSame DEF KeysInv
  <1>8. CASE LoadTeams \/ LoadGrants \/ LoadPeople \/ UNCHANGED vars
    <2>1. UNCHANGED <<tables, apart, calls, archive>>
      BY <1>8 DEF LoadTeams, LoadGrants, LoadPeople, vars
    <2>2. FoundOK'
      BY <2>1 DEF KeysInv, FoundOK, tables, apart
    <2> QED BY <2>1, <2>2, TablesSame, AsideSame DEF KeysInv
  <1> QED BY <1>1, <1>2, <1>3, <1>4, <1>5, <1>6, <1>7, <1>8 DEF Next

\* Identifiers are unique, grants have the person or the team they name, and
\* handlers and dumps remember what there was.
THEOREM KeysHold == Spec => []KeysInv
  <1> QED BY InvHolds, KeysInit, KeysStep, PTL DEF Spec

---------------------------------------------------------------------------
(* Every step is one of the reference's, or none.                           *)

LEMMA StoreNames ==
    /\ Store!Names = Names /\ Store!Subjects = Subjects /\ Store!Owners = Owners
    /\ Store!NoToken = NoToken /\ Store!NoClaim = NoClaim /\ Store!TokenRole = TokenRole
  BY DEF Store!Names, Names, Store!Subjects, Subjects, Store!Owners, Owners, Store!NoToken, NoToken,
         Store!NoClaim, NoClaim, Store!TokenRole, TokenRole

LEMMA SeenSame ==
    ASSUME UNCHANGED <<rows, grants>>
    PROVE  UNCHANGED <<SeenTeams, Joined>>
  BY DEF SeenTeams, Seen, Joined, SubjectOf

LEMMA SeenIs ==
    [n \in Names |-> [members |-> rows[n].members, platform |-> rows[n].platform,
                      exists |-> rows[n].id # 0]] = SeenTeams
  BY DEF SeenTeams, Seen

LEMMA SeenIsNext ==
    [n \in Names |-> [members |-> rows'[n].members, platform |-> rows'[n].platform,
                      exists |-> rows'[n].id # 0]] = SeenTeams'
  BY DEF SeenTeams, Seen

LEMMA AnswerIs ==
    ASSUME NEW c, NEW outcome, Answer(c, outcome)
    PROVE  answer' # <<>> /\ answer'[1] = c
  BY DEF Answer

LEMMA MembershipIs ==
    /\ Store!membership = <<people, SeenTeams, Joined, granted>>
    /\ Store!apart = <<tokens, minted, claim, policy>>
    /\ Store!storeVars = <<Store!membership, Store!apart, answer>>
  BY SeenIs DEF Store!membership, Store!apart, Store!storeVars

\* Nothing that the reference has changed, and an error was answered.
LEMMA FailsStep ==
    ASSUME NEW c \in Callers, Answer(c, "error"), UNCHANGED <<tables, apart>>
    PROVE  Store!Next
  <1>1. UNCHANGED <<SeenTeams, Joined>>
    BY SeenSame DEF tables
  <1>2. UNCHANGED <<Store!membership, Store!apart>>
    BY <1>1, SeenIs DEF Store!membership, Store!apart, tables, apart
  <1>3. Store!Fails(c)
    BY <1>2 DEF Store!Fails, Store!Refuse, Store!Answer, Answer
  <1> QED BY <1>3, AnswerIs DEF Store!Next

LEMMA MembershipStep ==
    ASSUME NEW c \in Callers, NEW outcome, Answer(c, outcome), UNCHANGED apart, Store!Membership(c)
    PROVE  Store!Next
  <1>1. Store!apart' = Store!apart
    BY DEF Store!apart, apart
  <1> QED BY <1>1, AnswerIs DEF Store!Next

LEMMA OthersStep ==
    ASSUME NEW c \in Callers, NEW outcome, Answer(c, outcome), UNCHANGED tables, Store!Others(c)
    PROVE  Store!Next
  <1>1. UNCHANGED <<SeenTeams, Joined>>
    BY SeenSame DEF tables
  <1>2. Store!membership' = Store!membership
    BY <1>1, SeenIs DEF Store!membership, tables
  <1> QED BY <1>2, AnswerIs DEF Store!Next

\* A step that leaves tables, tokens, settings and answer alone is none.
LEMMA Stutter ==
    ASSUME UNCHANGED <<tables, apart, answer>>
    PROVE  UNCHANGED Store!storeVars
  <1>1. UNCHANGED <<SeenTeams, Joined>>
    BY SeenSame DEF tables
  <1> QED BY <1>1, SeenIs DEF Store!storeVars, Store!membership, Store!apart, tables, apart

\* A row without an identifier is no team.
LEMMA AbsentSeen ==
    ASSUME RowsOK, TablesOK, NEW n \in Names
    PROVE  SeenTeams[n] = Store!Absent <=> rows[n].id = 0
  <1>1. SeenTeams[n] = [members |-> rows[n].members, platform |-> rows[n].platform,
                        exists |-> rows[n].id # 0]
    BY DEF SeenTeams, Seen
  <1>2. Store!Absent = [members |-> {}, platform |-> "none", exists |-> FALSE]
    BY DEF Store!Absent
  <1>3. CASE rows[n].id = 0
    <2>1. rows[n] = NoRow
      BY <1>3 DEF RowsOK
    <2>2. (rows[n].id # 0) = FALSE
      BY <1>3
    <2>3. SeenTeams[n] = [members |-> rows[n].members, platform |-> rows[n].platform, exists |-> FALSE]
      BY <1>1, <2>2, Zenon
    <2> QED BY <1>2, <1>3, <2>1, <2>3 DEF NoRow
  <1>4. CASE rows[n].id # 0
    <2>1. (rows[n].id # 0) = TRUE
      BY <1>4
    <2>2. SeenTeams[n] = [members |-> rows[n].members, platform |-> rows[n].platform, exists |-> TRUE]
      BY <1>1, <2>1, Zenon
    <2>3. SeenTeams[n].exists = TRUE
      BY <2>2
    <2>4. Store!Absent.exists = FALSE
      BY <1>2
    <2> QED BY <1>4, <2>3, <2>4
  <1> QED BY <1>3, <1>4

LEMMA TouchStep ==
    ASSUME NEW c \in Callers, NEW u \in People, TouchIdentity(c, u), UNCHANGED apart
    PROVE  Store!Next
  <1>1. UNCHANGED <<SeenTeams, Joined>>
    BY SeenSame DEF TouchIdentity
  <1>2. Store!TouchIdentity(c, u)
    BY <1>1, SeenIs DEF TouchIdentity, Store!TouchIdentity, Store!Answer, Answer, Store!apart, apart
  <1> QED BY <1>2, MembershipStep DEF Store!Membership, TouchIdentity

LEMMA StatusStep ==
    ASSUME Inv, NEW c \in Callers, NEW u \in People, NEW status \in {"active", "suspended"},
           SetIdentityStatus(c, u, status), UNCHANGED apart
    PROVE  Store!Next
  <1>1. UNCHANGED <<SeenTeams, Joined>>
    BY SeenSame DEF SetIdentityStatus
  <1>2. people[u] = "unknown" => people' = people
    BY DEF Inv, TypeInv, TablesOK, SetIdentityStatus
  <1>3. Store!SetIdentityStatus(c, u, status)
    BY <1>1, <1>2, SeenIs DEF SetIdentityStatus, Store!SetIdentityStatus, Store!Refuse, Store!Answer,
                              Answer, Store!apart, Store!membership, apart
  <1> QED BY <1>3, MembershipStep DEF Store!Membership, SetIdentityStatus

LEMMA ForgetStep ==
    ASSUME Inv, NEW c \in Callers, NEW u \in People, DeleteIdentity(c, u), UNCHANGED apart
    PROVE  Store!Next
  <1>1. UNCHANGED <<SeenTeams, Joined>>
    BY SeenSame DEF DeleteIdentity
  <1>2. people[u] = "unknown" => people' = people
    BY DEF Inv, TypeInv, TablesOK, DeleteIdentity
  <1>3. Store!DeleteIdentity(c, u)
    BY <1>1, <1>2, SeenIs DEF DeleteIdentity, Store!DeleteIdentity, Store!Refuse, Store!Answer,
                              Answer, Store!apart, Store!membership, apart
  <1> QED BY <1>3, MembershipStep DEF Store!Membership, DeleteIdentity

\* A grant of a team whose row stays keeps its subject.
LEMMA SubjectStays ==
    ASSUME KeysInv, NEW g \in grants,
           g.user = Nobody => \A n \in Names : rows'[n].id = g.team <=> rows[n].id = g.team
    PROVE  SeenGrant(g)' = SeenGrant(g)
  <1>1. CASE g.user # Nobody
    BY <1>1 DEF SeenGrant, SubjectOf
  <1>2. CASE g.user = Nobody
    <2>1. PICK n \in Names : rows[n].id = g.team
      BY <1>2 DEF KeysInv, GrantsOK
    <2>2. \A m \in Names : rows[m].id = g.team => m = n
      BY <1>2, <2>1, NamesAssumption DEF KeysInv, RowsOK, GrantsOK, Owned
    <2>3. SubjectOf(g) = n
      <3>1. SubjectOf(g) = CHOOSE m \in Names : rows[m].id = g.team
        BY <1>2, <2>1 DEF SubjectOf
      <3> QED BY <2>1, <2>2, <3>1
    <2>4. SubjectOf(g)' = n
      <3>1. rows'[n].id = g.team /\ \A m \in Names : rows'[m].id = g.team => m = n
        BY <1>2, <2>1, <2>2
      <3>2. SubjectOf(g)' = CHOOSE m \in Names : rows'[m].id = g.team
        BY <1>2, <3>1 DEF SubjectOf
      <3> QED BY <3>1, <3>2
    <2> QED BY <2>3, <2>4 DEF SeenGrant
  <1> QED BY <1>1, <1>2

LEMMA PutTeamStep ==
    ASSUME Inv, KeysInv, NEW c \in Callers, NEW n \in Names, NEW team,
           team.members \in SUBSET People, team.platform \in PlatformRoles,
           PutTeam(c, n, team), UNCHANGED apart
    PROVE  Store!Next
  <1> DEFINE seen == [members |-> team.members, platform |-> team.platform, exists |-> TRUE]
  <1>1. seen \in Store!Team
    BY DEF Store!Team
  <1>2. CASE n = Everyone
    <2>1. Answer(c, "built in") /\ UNCHANGED tables
      BY <1>2 DEF PutTeam, tables
    <2>2. UNCHANGED <<SeenTeams, Joined>>
      BY <2>1, SeenSame DEF tables
    <2>3. Store!PutTeam(c, n, seen)
      BY <1>2, <2>1, <2>2, SeenIs DEF Store!PutTeam, Store!Refuse, Store!Answer, Answer,
                                      Store!membership, Store!apart, tables, apart
    <2> QED BY <1>1, <2>1, <2>3, StoreNames, MembershipStep DEF Store!Membership
  <1>3. CASE n # Everyone
    <2> DEFINE id == IF rows[n].id = 0 THEN made + 1 ELSE rows[n].id
               row == [id |-> id, members |-> team.members, platform |-> team.platform]
    <2>1. /\ rows' = [rows EXCEPT ![n] = row]
          /\ UNCHANGED <<people, grants, granted>> /\ Answer(c, "ok")
      BY <1>3 DEF PutTeam
    <2>2. made \in Nat /\ \A m \in Names : rows[m].id \in Nat
      BY DEF Inv, TypeInv, TablesOK, TeamRow
    <2>3. rows'[n] = row /\ \A m \in Names \ {n} : rows'[m] = rows[m]
      BY <2>1 DEF Inv, TypeInv, TablesOK
    <2>4. id # 0
      BY <2>2
    <2>5. SeenTeams' = [SeenTeams EXCEPT ![n] = seen]
      <3>1. Seen(n)' = seen
        <4>1. (id # 0) = TRUE
          BY <2>4
        <4>2. row.id = id /\ row.members = team.members /\ row.platform = team.platform
          OBVIOUS
        <4> HIDE DEF id, row
        <4>3. Seen(n)' = [members |-> row.members, platform |-> row.platform, exists |-> row.id # 0]
          BY <2>3 DEF Seen
        <4> QED BY <4>1, <4>2, <4>3, Zenon
      <3>2. \A m \in Names \ {n} : Seen(m)' = Seen(m)
        BY <2>3 DEF Seen
      <3>3. \A m \in Names : Seen(m)' = IF m = n THEN seen ELSE SeenTeams[m]
        BY <3>1, <3>2 DEF SeenTeams
      <3>4. SeenTeams' = [m \in Names |-> IF m = n THEN seen ELSE SeenTeams[m]]
        BY <3>3 DEF SeenTeams
      <3>5. SeenTeams = [m \in Names |-> SeenTeams[m]]
        BY DEF SeenTeams
      <3> HIDE DEF seen
      <3> QED BY <3>4, <3>5
    <2>6. \A g \in grants : SeenGrant(g)' = SeenGrant(g)
      <3> SUFFICES ASSUME NEW g \in grants, g.user = Nobody, NEW m \in Names
                   PROVE  rows'[m].id = g.team <=> rows[m].id = g.team
        BY SubjectStays
      <3>1. g.team # 0 /\ g.team <= made /\ g.team \in Nat
        <4>1. PICK k \in Names : rows[k].id = g.team
          BY DEF KeysInv, GrantsOK
        <4> QED BY <2>2, <4>1, NamesAssumption DEF KeysInv, GrantsOK, RowsOK, Owned
      <3>2. CASE m # n
        BY <2>3, <3>2
      <3>3. CASE m = n
        <4>1. rows'[m].id = id
          BY <2>3, <3>3
        <4> QED BY <2>2, <3>1, <3>3, <4>1
      <3> QED BY <3>2, <3>3
    <2>7. Joined' = Joined
      BY <2>1, <2>6, JoinedSeen DEF Joined, SeenGrant
    <2>8. Store!PutTeam(c, n, seen)
      <3> HIDE DEF seen, row
      <3>1. /\ SeenTeams' = [SeenTeams EXCEPT ![n] = seen] /\ Joined' = Joined
            /\ Store!Answer(c, "ok") /\ UNCHANGED <<people, granted, Store!apart>>
        BY <2>1, <2>5, <2>7 DEF Store!Answer, Answer, Store!apart, apart
      <3> QED BY <1>3, <3>1, SeenIs, SeenIsNext, Zenon DEF Store!PutTeam
    <2> QED BY <1>1, <2>1, <2>8, StoreNames, MembershipStep DEF Store!Membership
  <1> QED BY <1>2, <1>3

LEMMA DeleteTeamStep ==
    ASSUME Inv, KeysInv, NEW c \in Callers, NEW n \in Names, DeleteTeam(c, n), UNCHANGED apart
    PROVE  Store!Next
  <1>0. TablesOK /\ RowsOK
    BY DEF Inv, TypeInv, KeysInv
  <1>1. CASE n = Everyone \/ rows[n].id = 0
    <2>1. Answer(c, IF n = Everyone THEN "built in" ELSE "not found") /\ UNCHANGED tables
      BY <1>1 DEF DeleteTeam, tables
    <2>2. UNCHANGED <<SeenTeams, Joined>>
      BY <2>1, SeenSame DEF tables
    <2>3. n # Everyone => SeenTeams[n] = Store!Absent
      BY <1>0, <1>1, AbsentSeen
    <2>4. Store!DeleteTeam(c, n)
      BY <1>1, <2>1, <2>2, <2>3, SeenIs DEF Store!DeleteTeam, Store!Refuse, Store!Answer, Answer,
                                      Store!membership, Store!apart, tables, apart
    <2> QED BY <2>1, <2>4, StoreNames, MembershipStep DEF Store!Membership
  <1>2. CASE n # Everyone /\ rows[n].id # 0
    <2>1. /\ rows' = [rows EXCEPT ![n] = NoRow] /\ grants' = {g \in grants : g.team # rows[n].id}
          /\ UNCHANGED <<people, granted, made>> /\ Answer(c, "ok")
      BY <1>2 DEF DeleteTeam
    <2>2. rows'[n] = NoRow /\ \A m \in Names \ {n} : rows'[m] = rows[m]
      BY <1>0, <2>1 DEF TablesOK
    <2>3. SeenTeams' = [SeenTeams EXCEPT ![n] = Store!Absent]
      <3>1. Seen(n)' = Store!Absent
        <4>1. NoRow.id = 0 /\ NoRow.members = {} /\ NoRow.platform = "none"
          BY DEF NoRow
        <4>2. (NoRow.id # 0) = FALSE
          BY <4>1
        <4>3. Seen(n)' = [members |-> NoRow.members, platform |-> NoRow.platform, exists |-> NoRow.id # 0]
          BY <2>2 DEF Seen
        <4> QED BY <4>1, <4>2, <4>3, Zenon DEF Store!Absent
      <3>2. \A m \in Names \ {n} : Seen(m)' = Seen(m)
        BY <2>2 DEF Seen
      <3>3. \A m \in Names : Seen(m)' = IF m = n THEN Store!Absent ELSE SeenTeams[m]
        BY <3>1, <3>2 DEF SeenTeams
      <3>4. SeenTeams' = [m \in Names |-> IF m = n THEN Store!Absent ELSE SeenTeams[m]]
        BY <3>3 DEF SeenTeams
      <3>5. SeenTeams = [m \in Names |-> SeenTeams[m]]
        BY DEF SeenTeams
      <3> QED BY <3>4, <3>5
    <2>4. \A g \in grants' : SeenGrant(g)' = SeenGrant(g)
      <3> SUFFICES ASSUME NEW g \in grants, g.team # rows[n].id, g.user = Nobody, NEW m \in Names
                   PROVE  rows'[m].id = g.team <=> rows[m].id = g.team
        BY <2>1, SubjectStays
      <3>1. g.team # 0
        BY NamesAssumption DEF KeysInv, GrantsOK, Owned
      <3>2. NoRow.id = 0
        BY DEF NoRow
      <3> QED BY <2>2, <3>1, <3>2
    <2>5. \A g \in grants : SeenGrant(g).subject = n <=> g.team = rows[n].id
      <3> TAKE g \in grants
      <3>1. SubjectOf(g) = n <=> (g.user = Nobody /\ rows[n].id = g.team)
        BY <1>0, SubjectFound DEF KeysInv, GrantsOK
      <3>2. g.team = rows[n].id => g.user = Nobody
        BY <1>2 DEF KeysInv, GrantsOK, Owned
      <3> QED BY <3>1, <3>2 DEF SeenGrant
    <2>6. Joined' = {x \in Joined : x.subject # n}
      <3>1. Joined' = {SeenGrant(g)' : g \in grants'}
        BY DEF Joined, SeenGrant
      <3>2. Joined' = {SeenGrant(g) : g \in grants'}
        BY <2>4, <3>1
      <3>3. Joined = {SeenGrant(g) : g \in grants}
        BY JoinedSeen
      <3> QED BY <2>1, <2>5, <3>2, <3>3
    <2>7. SeenTeams[n] # Store!Absent
      BY <1>0, <1>2, AbsentSeen
    <2>8. Store!DeleteTeam(c, n)
      <3>1. /\ SeenTeams' = [SeenTeams EXCEPT ![n] = Store!Absent]
            /\ Joined' = {x \in Joined : x.subject # n}
            /\ Store!Answer(c, "ok") /\ UNCHANGED <<people, granted, Store!apart>>
        BY <2>1, <2>3, <2>6 DEF Store!Answer, Answer, Store!apart, apart
      <3>2. ~(n = Everyone) /\ ~(n # Everyone /\ SeenTeams[n] = Store!Absent)
        BY <1>2, <2>7
      <3> QED BY <3>1, <3>2, SeenIs, SeenIsNext, Zenon DEF Store!DeleteTeam
    <2> QED BY <2>1, <2>8, StoreNames, MembershipStep DEF Store!Membership
  <1> QED BY <1>1, <1>2

LEMMA ProjectGrantsStep ==
    ASSUME NEW c \in Callers, NEW p \in Projects, DeleteProjectGrants(c, p), UNCHANGED apart
    PROVE  Store!Next
  <1>1. /\ grants' = {g \in grants : g.project # p} /\ UNCHANGED <<people, rows, granted>>
        /\ Answer(c, "ok")
    BY DEF DeleteProjectGrants
  <1>2. Joined' = {x \in Joined : x.project # p} /\ SeenTeams' = SeenTeams
    <2>1. \A g : SeenGrant(g)' = SeenGrant(g)
      BY <1>1 DEF SeenGrant, SubjectOf
    <2>2. Joined' = {SeenGrant(g) : g \in grants'}
      BY <2>1 DEF Joined, SeenGrant
    <2>3. \A g \in grants : SeenGrant(g).project = g.project
      BY DEF SeenGrant
    <2> QED BY <1>1, <2>2, <2>3, JoinedSeen DEF SeenTeams, Seen
  <1>3. Store!DeleteProjectGrants(c, p)
    <2>1. Store!Answer(c, "ok") /\ UNCHANGED Store!apart
      BY <1>1 DEF Store!Answer, Answer, Store!apart, apart
    <2> QED BY <1>1, <1>2, <2>1, SeenIs, SeenIsNext, Zenon DEF Store!DeleteProjectGrants
  <1> QED BY <1>1, <1>3, MembershipStep DEF Store!Membership

LEMMA DeleteGrantStep ==
    ASSUME Inv, KeysInv, NEW c \in Callers, DeleteGrant(c)
    PROVE  Store!Next
  <1> DEFINE id == calls[c].id
  <1>1. /\ grants' = {g \in grants : g.id # id} /\ UNCHANGED <<people, rows, granted>>
        /\ Answer(c, IF \E g \in grants : g.id = id THEN "ok" ELSE "not found")
        /\ UNCHANGED apart
    BY DEF DeleteGrant
  <1>2. id \in 1..granted
    BY DEF DeleteGrant, KeysInv, FoundOK, CallFits
  <1> HIDE DEF id
  <1>3. Joined' = {x \in Joined : x.id # id} /\ SeenTeams' = SeenTeams
    <2>1. \A g : SeenGrant(g)' = SeenGrant(g)
      BY <1>1 DEF SeenGrant, SubjectOf
    <2>2. Joined' = {SeenGrant(g) : g \in grants'}
      BY <2>1 DEF Joined, SeenGrant
    <2>3. \A g \in grants : SeenGrant(g).id = g.id
      BY DEF SeenGrant
    <2> QED BY <1>1, <2>2, <2>3, JoinedSeen DEF SeenTeams, Seen
  <1>4. (\E g \in grants : g.id = id) <=> (\E x \in Joined : x.id = id)
    <2>1. \A g \in grants : SeenGrant(g).id = g.id
      BY DEF SeenGrant
    <2> QED BY <2>1, JoinedSeen
  <1>5. Store!DeleteGrant(c, id)
    <2>1. UNCHANGED Store!apart
      BY <1>1 DEF Store!apart, apart
    <2>2. CASE \E x \in Joined : x.id = id
      <3>1. Store!Answer(c, "ok")
        BY <1>1, <1>4, <2>2 DEF Store!Answer, Answer
      <3> QED BY <1>1, <1>3, <2>1, <2>2, <3>1, SeenIs, SeenIsNext, Zenon DEF Store!DeleteGrant
    <2>3. CASE ~\E x \in Joined : x.id = id
      <3>1. Store!Answer(c, "not found")
        BY <1>1, <1>4, <2>3 DEF Store!Answer, Answer
      <3>2. Joined' = Joined
        BY <1>3, <2>3
      <3>3. UNCHANGED Store!membership
        BY <1>1, <1>3, <3>2, SeenIs, SeenIsNext, Zenon DEF Store!membership
      <3> QED BY <2>1, <2>3, <3>1, <3>3, Zenon DEF Store!DeleteGrant, Store!Refuse
    <2> QED BY <2>2, <2>3
  <1> QED BY <1>1, <1>2, <1>5, MembershipStep DEF Store!Membership

LEMMA SelectStep ==
    ASSUME Inv, KeysInv, NEW c \in Callers, NEW m, NEW p \in Projects, NEW r \in Roles,
           NEW s \in Subjects, SelectTeam(c, m, p, r, s), UNCHANGED apart
    PROVE  Store!Next \/ UNCHANGED Store!storeVars
  <1>1. UNCHANGED tables
    BY DEF SelectTeam, Reads
  <1>2. CASE s \in Names /\ rows[s].id = 0
    <2>1. Answer(c, "not found")
      BY <1>2 DEF SelectTeam
    <2>2. SeenTeams[s] = Store!Absent
      BY <1>2, AbsentSeen DEF KeysInv, Inv, TypeInv
    <2>3. UNCHANGED <<SeenTeams, Joined>>
      BY <1>1, SeenSame DEF tables
    <2>4. Store!Refuse(c, "not found")
      BY <1>1, <2>1, <2>3, SeenIs DEF Store!Refuse, Store!Answer, Answer, Store!membership,
                                      Store!apart, tables, apart
    <2>5. s \in Store!Names /\ SeenTeams[s] = Store!Absent
      BY <1>2, <2>2, StoreNames
    <2>6. Store!AddGrant(c, p, r, s)
      BY <2>4, <2>5, SeenIs DEF Store!AddGrant
    <2> QED BY <2>1, <2>6, StoreNames, MembershipStep DEF Store!Membership
  <1>3. CASE ~(s \in Names /\ rows[s].id = 0)
    BY <1>1, <1>3, Stutter DEF SelectTeam
  <1> QED BY <1>2, <1>3

LEMMA InsertStep ==
    ASSUME Inv, KeysInv, NEW c \in Callers, InsertGrant(c)
    PROVE  Store!Next
  <1> DEFINE new == [calls[c].grant EXCEPT !.id = granted + 1]
             twin == \E g \in grants : [g EXCEPT !.id = new.id] = new
             orphan == new.team # 0 /\ \A n \in Names : rows[n].id # new.team
             s == SubjectOf(new)
             seen == [id |-> granted + 1, project |-> new.project, role |-> new.role, subject |-> s]
  <1>0. TablesOK /\ CallsOK /\ RowsOK /\ GrantsOK /\ UNCHANGED apart
    BY DEF Inv, TypeInv, KeysInv, InsertGrant
  <1>1. new \in GrantRow /\ new.id = granted + 1
    <2>1. calls[c].grant \in GrantRow
      BY <1>0 DEF InsertGrant, CallsOK
    <2>2. granted + 1 \in Nat
      BY <1>0 DEF TablesOK
    <2> QED BY <2>1, <2>2 DEF GrantRow
  <1>2. Owned(new)
    <2>1. Owned(calls[c].grant) /\ calls[c].grant \in GrantRow
      BY <1>0 DEF InsertGrant, KeysInv, FoundOK, CallFits, CallsOK
    <2> QED BY <2>1 DEF Owned, GrantRow
  <1>3. new.project \in Projects /\ new.role \in Roles
    BY <1>1 DEF GrantRow
  <1>4. CASE orphan /\ ~twin
    <2>1. Answer(c, "error") /\ UNCHANGED tables
      BY <1>4 DEF InsertGrant, Reads
    <2> QED BY <1>0, <2>1, FailsStep
  <1>5. CASE ~orphan \/ twin
    <2> HIDE DEF new
    <2>1. new.user = Nobody => \E n \in Names : rows[n].id = new.team
      <3>1. CASE ~orphan
        BY <1>2, <3>1, NamesAssumption DEF Owned
      <3>2. CASE twin
        <4>1. PICK g \in grants : [g EXCEPT !.id = new.id] = new
          BY <3>2
        <4>2. g \in GrantRow
          BY <1>0 DEF TablesOK
        <4>3. g.user = new.user /\ g.team = new.team
          BY <1>1, <4>1, <4>2 DEF GrantRow
        <4> QED BY <1>0, <4>3 DEF GrantsOK
      <3> QED BY <1>5, <3>1, <3>2
    <2>2. s \in Subjects
      BY <1>0, <1>2, <2>1, SubjectFound
    <2>3. ~(s \in Store!Names /\ SeenTeams[s] = Store!Absent)
      <3> SUFFICES ASSUME s \in Names PROVE SeenTeams[s] # Store!Absent
        BY StoreNames
      <3>1. new.user = Nobody /\ rows[s].id = new.team
        BY <1>0, <1>2, <2>1, SubjectFound
      <3>2. new.team # 0
        BY <1>2, <3>1, NamesAssumption DEF Owned
      <3> QED BY <1>0, <3>1, <3>2, AbsentSeen
    <2>4. \A g \in grants : Store!Same(SeenGrant(g), seen) <=> [g EXCEPT !.id = new.id] = new
      <3> TAKE g \in grants
      <3>1. g \in GrantRow /\ Owned(g) /\ (g.user = Nobody => \E n \in Names : rows[n].id = g.team)
        BY <1>0 DEF TablesOK, GrantsOK
      <3>2. SubjectOf(g) = s <=> (g.user = new.user /\ g.team = new.team)
        BY <1>0, <1>2, <2>1, <3>1, SubjectTells
      <3>3. Store!Same(SeenGrant(g), seen) <=> (g.project = new.project /\ g.role = new.role /\ SubjectOf(g) = s)
        BY DEF Store!Same, SeenGrant
      <3>4. [g EXCEPT !.id = new.id] = new <=>
              /\ g.project = new.project /\ g.role = new.role
              /\ g.user = new.user /\ g.team = new.team
        BY <1>1, <3>1 DEF GrantRow
      <3> QED BY <3>2, <3>3, <3>4
    <2>5. (\E x \in Joined : Store!Same(x, seen)) <=> twin
      BY <2>4, JoinedSeen
    <2>6. Store!AddGrant(c, new.project, new.role, s)
      <3>1. CASE twin
        <4>1. Answer(c, "conflict") /\ UNCHANGED tables
          BY <3>1 DEF InsertGrant, Reads, new
        <4>2. UNCHANGED <<SeenTeams, Joined>>
          BY <4>1, SeenSame DEF tables
        <4>3. Store!Refuse(c, "conflict")
          BY <1>0, <4>1, <4>2, SeenIs DEF Store!Refuse, Store!Answer, Answer, Store!membership,
                                      Store!apart, tables, apart
        <4>4. \E x \in Joined : Store!Same(x, seen)
          BY <2>5, <3>1
        <4> HIDE DEF s, twin
        <4> QED BY <2>3, <4>3, <4>4, SeenIs, Zenon DEF Store!AddGrant
      <3>2. CASE ~twin
        <4>1. /\ grants' = grants \cup {new} /\ granted' = granted + 1 /\ Answer(c, "ok")
              /\ UNCHANGED <<people, rows>>
          BY <1>5, <3>2 DEF InsertGrant, new
        <4>2. \A g : SeenGrant(g)' = SeenGrant(g)
          BY <4>1 DEF SeenGrant, SubjectOf
        <4>3. SeenGrant(new) = seen
          BY <1>1 DEF SeenGrant
        <4>4. Joined' = Joined \cup {seen}
          <5>1. Joined' = {SeenGrant(g) : g \in grants'}
            BY <4>2 DEF Joined, SeenGrant
          <5> HIDE DEF seen
          <5> QED BY <4>1, <4>3, <5>1, JoinedSeen
        <4>5. SeenTeams' = SeenTeams
          BY <4>1 DEF SeenTeams, Seen
        <4>6. Store!Answer(c, "ok") /\ UNCHANGED Store!apart
          BY <1>0, <4>1 DEF Store!Answer, Answer, Store!apart, apart
        <4>7. ~\E x \in Joined : Store!Same(x, seen)
          BY <2>5, <3>2
        <4> HIDE DEF s, twin
        <4> QED BY <2>3, <4>1, <4>4, <4>5, <4>6, <4>7, SeenIs, SeenIsNext, Zenon DEF Store!AddGrant
      <3> QED BY <3>1, <3>2
    <2>7. Answer(c, "ok") \/ Answer(c, "conflict")
      BY <1>5 DEF InsertGrant, new
    <2>8. Store!Membership(c)
      <3> HIDE DEF s
      <3> QED BY <1>3, <2>2, <2>6, StoreNames DEF Store!Membership
    <2> QED BY <1>0, <2>7, <2>8, MembershipStep
  <1> QED BY <1>4, <1>5

LEMMA TokensStep ==
    ASSUME Inv, KeysInv, NEW c \in Callers, CreateToken(c) \/ FindToken(c) \/ DeleteToken(c)
    PROVE  Store!Next \/ UNCHANGED Store!storeVars
  <1>0. /\ UNCHANGED tables /\ tokens \in [Owners -> Token]
        /\ Store!NoToken = NoToken /\ Store!Owners = Owners /\ Store!TokenRole = TokenRole
    BY StoreNames DEF CreateToken, FindToken, DeleteToken, Aside, Inv, TypeInv, TokensOK
  <1>1. UNCHANGED Store!membership
    <2>1. UNCHANGED <<SeenTeams, Joined>>
      BY <1>0, SeenSame DEF tables
    <2> QED BY <1>0, <2>1, SeenIs, SeenIsNext, Zenon DEF Store!membership, tables
  <1>2. CASE CreateToken(c)
    <2>1. PICK o \in Owners, role \in TokenRole :
            IF tokens[o] # NoToken
              THEN Answer(c, "conflict") /\ UNCHANGED apart
              ELSE /\ tokens' = [tokens EXCEPT ![o] =
                         [id |-> minted + 1, platform |-> role.platform,
                          projects |-> role.projects, expired |-> FALSE]]
                   /\ minted' = minted + 1
                   /\ Answer(c, "ok")
                   /\ UNCHANGED <<claim, policy>>
      BY <1>2 DEF CreateToken
    <2>2. Store!CreateToken(c, o, role)
      <3>1. CASE tokens[o] # NoToken
        <4>1. Store!Answer(c, "conflict") /\ UNCHANGED Store!apart
          BY <2>1, <3>1 DEF Store!Answer, Answer, Store!apart, apart
        <4> QED BY <1>0, <1>1, <3>1, <4>1, Zenon DEF Store!CreateToken, Store!Refuse
      <3>2. CASE tokens[o] = NoToken
        <4>1. Store!Answer(c, "ok")
          BY <2>1, <3>2 DEF Store!Answer, Answer
        <4> QED BY <1>0, <1>1, <2>1, <3>2, <4>1, Zenon DEF Store!CreateToken
      <3> QED BY <3>1, <3>2
    <2>3. Store!Others(c)
      BY <1>0, <2>2 DEF Store!Others
    <2> QED BY <1>0, <2>1, <2>3, OthersStep
  <1>3. CASE FindToken(c)
    BY <1>0, <1>3, Stutter DEF FindToken
  <1>4. CASE DeleteToken(c)
    <2> DEFINE id == calls[c].id
    <2>1. /\ tokens' = [o \in Owners |-> IF tokens[o].id = id THEN NoToken ELSE tokens[o]]
          /\ Answer(c, IF \E o \in Owners : tokens[o].id = id THEN "ok" ELSE "not found")
          /\ UNCHANGED <<minted, claim, policy>>
      BY <1>4 DEF DeleteToken
    <2>2. id \in 1..minted
      BY <1>4 DEF DeleteToken, KeysInv, FoundOK, CallFits
    <2> HIDE DEF id
    <2>3. Store!DeleteToken(c, id)
      <3>1. CASE \E o \in Owners : tokens[o].id = id
        <4>1. Store!Answer(c, "ok")
          BY <2>1, <3>1 DEF Store!Answer, Answer
        <4> QED BY <1>0, <1>1, <2>1, <3>1, <4>1, Zenon DEF Store!DeleteToken
      <3>2. CASE ~\E o \in Owners : tokens[o].id = id
        <4>1. Store!Answer(c, "not found")
          BY <2>1, <3>2 DEF Store!Answer, Answer
        <4>2. tokens' = tokens
          BY <1>0, <2>1, <3>2
        <4>3. UNCHANGED Store!apart
          BY <2>1, <4>2 DEF Store!apart
        <4> QED BY <1>0, <1>1, <3>2, <4>1, <4>3, Zenon DEF Store!DeleteToken, Store!Refuse
      <3> QED BY <3>1, <3>2
    <2>4. Store!Others(c)
      BY <2>2, <2>3 DEF Store!Others
    <2> QED BY <1>0, <2>1, <2>4, OthersStep
  <1> QED BY <1>2, <1>3, <1>4

LEMMA SettingsStep ==
    ASSUME Inv, KeysInv, NEW c \in Callers, Settings(c) \/ FindClaim(c) \/ LookUp(c)
    PROVE  Store!Next \/ UNCHANGED Store!storeVars
  <1>0. /\ UNCHANGED tables /\ Store!NoClaim = NoClaim /\ AsideOK
    BY StoreNames DEF Settings, FindClaim, LookUp, Aside, KeysInv
  <1>1. UNCHANGED Store!membership
    <2>1. UNCHANGED <<SeenTeams, Joined>>
      BY <1>0, SeenSame DEF tables
    <2> QED BY <1>0, <2>1, SeenIs, SeenIsNext, Zenon DEF Store!membership, tables
  <1>2. CASE Settings(c)
    <2>0. UNCHANGED <<tokens, minted>>
      BY <1>2 DEF Settings
    <2>1. CASE /\ policy' \in {"open", "company", "listed"} \ {policy}
               /\ Answer(c, "ok") /\ claim' = claim
      <3>1. Store!Answer(c, "ok")
        BY <2>1 DEF Store!Answer, Answer
      <3>2. Store!UpdateWorkspaceSettings(c, policy')
        BY <1>1, <2>0, <2>1, <3>1, Zenon DEF Store!UpdateWorkspaceSettings
      <3>3. policy' \in Store!Policies
        BY <2>1 DEF Store!Policies
      <3>4. Store!Others(c)
        BY <3>2, <3>3 DEF Store!Others
      <3> QED BY <1>0, <2>1, <3>4, OthersStep
    <2>2. CASE /\ \E connector \in {"", "sso"} :
                    claim' = [claim EXCEPT !.exists = TRUE, !.connector = connector]
               /\ Answer(c, "ok") /\ policy' = policy
      <3>1. PICK connector \in {"", "sso"} :
              claim' = [claim EXCEPT !.exists = TRUE, !.connector = connector]
        BY <2>2
      <3>2. Store!Answer(c, "ok")
        BY <2>2 DEF Store!Answer, Answer
      <3>3. Store!PutDomainClaim(c, connector)
        BY <1>1, <2>0, <2>2, <3>1, <3>2, Zenon DEF Store!PutDomainClaim
      <3>4. Store!Others(c)
        BY <3>1, <3>3 DEF Store!Others, Store!Connectors
      <3> QED BY <1>0, <2>2, <3>4, OthersStep
    <2>3. CASE /\ claim' = NoClaim
               /\ Answer(c, IF claim = NoClaim THEN "not found" ELSE "ok") /\ policy' = policy
      <3>1. Store!DeleteDomainClaim(c)
        <4>1. CASE claim = NoClaim
          <5>1. Store!Answer(c, "not found") /\ UNCHANGED Store!apart
            BY <2>0, <2>3, <4>1 DEF Store!Answer, Answer, Store!apart
          <5> QED BY <1>0, <1>1, <4>1, <5>1, Zenon DEF Store!DeleteDomainClaim, Store!Refuse
        <4>2. CASE claim # NoClaim
          <5>1. Store!Answer(c, "ok")
            BY <2>3, <4>2 DEF Store!Answer, Answer
          <5> QED BY <1>0, <1>1, <2>0, <2>3, <4>2, <5>1, Zenon DEF Store!DeleteDomainClaim
        <4> QED BY <4>1, <4>2
      <3>2. Store!Others(c)
        BY <3>1 DEF Store!Others
      <3> QED BY <1>0, <2>3, <3>2, OthersStep
    <2> QED BY <1>2, <2>1, <2>2, <2>3 DEF Settings
  <1>3. CASE FindClaim(c)
    BY <1>0, <1>3, Stutter DEF FindClaim
  <1>4. CASE LookUp(c)
    <2>0. UNCHANGED <<tokens, minted, policy>>
      BY <1>4 DEF LookUp
    <2>1. CASE answer' = answer /\ claim' = claim
      <3>1. UNCHANGED <<Store!apart, answer>>
        BY <2>0, <2>1 DEF Store!apart
      <3> QED BY <1>1, <3>1 DEF Store!storeVars
    <2>2. CASE /\ claim' = [claim EXCEPT !.verified = claim.exists]
               /\ Answer(c, IF claim.exists THEN "ok" ELSE "not found")
      <3>1. Store!MarkDomainVerified(c)
        <4>1. CASE claim.exists
          <5>1. claim # NoClaim /\ claim' = [claim EXCEPT !.verified = TRUE]
            <6>1. claim.exists = TRUE
              BY <1>0, <4>1 DEF AsideOK
            <6>2. ~NoClaim.exists
              BY DEF NoClaim
            <6> QED BY <2>2, <4>1, <6>1, <6>2
          <5>2. Store!Answer(c, "ok")
            BY <2>2, <4>1 DEF Store!Answer, Answer
          <5> QED BY <1>0, <1>1, <2>0, <5>1, <5>2, Zenon DEF Store!MarkDomainVerified
        <4>2. CASE ~claim.exists
          <5>1. claim = NoClaim /\ claim' = claim
            <6>1. claim = NoClaim
              BY <1>0, <4>2 DEF AsideOK
            <6>2. NoClaim.exists = FALSE
              BY DEF NoClaim
            <6>3. [NoClaim EXCEPT !.verified = FALSE] = NoClaim
              <7>1. NoClaim \in [connector : {""}, verified : BOOLEAN, exists : BOOLEAN]
                BY DEF NoClaim
              <7>2. NoClaim.verified = FALSE
                BY DEF NoClaim
              <7> QED BY <7>1, <7>2
            <6>4. claim' = [NoClaim EXCEPT !.verified = NoClaim.exists]
              BY <2>2, <6>1
            <6> QED BY <6>1, <6>2, <6>3, <6>4
          <5>2. Store!Answer(c, "not found") /\ UNCHANGED Store!apart
            BY <2>0, <2>2, <4>2, <5>1 DEF Store!Answer, Answer, Store!apart
          <5> QED BY <1>0, <1>1, <5>1, <5>2, Zenon DEF Store!MarkDomainVerified, Store!Refuse
        <4> QED BY <4>1, <4>2
      <3>2. Store!Others(c)
        BY <3>1 DEF Store!Others
      <3> QED BY <1>0, <2>2, <3>2, OthersStep
    <2> QED BY <1>4, <2>1, <2>2 DEF LookUp
  <1> QED BY <1>2, <1>3, <1>4

\* What ReadGrant finds out about its own insertion: the reference answered
\* then, and answers the same again.
LEMMA ReadStep ==
    ASSUME Inv, KeysInv, NEW c \in Callers, ReadGrant(c)
    PROVE  Store!Next
  <1>1. /\ Answer(c, "ok") \/ Answer(c, "error")
        /\ UNCHANGED <<tables, apart>>
    BY DEF ReadGrant, Reads
  <1>2. CASE Answer(c, "error")
    BY <1>1, <1>2, FailsStep
  <1>3. CASE Answer(c, "ok")
    <2>1. policy' = policy /\ policy \in Store!Policies /\ UNCHANGED <<tokens, minted, claim>>
      BY <1>1 DEF apart, KeysInv, AsideOK, Store!Policies
    <2>2. UNCHANGED Store!membership
      <3>1. UNCHANGED <<SeenTeams, Joined>>
        BY <1>1, SeenSame DEF tables
      <3> QED BY <1>1, <3>1, SeenIs, SeenIsNext, Zenon DEF Store!membership, tables
    <2>3. Store!Answer(c, "ok")
      BY <1>3 DEF Store!Answer, Answer
    <2>4. Store!UpdateWorkspaceSettings(c, policy)
      BY <2>1, <2>2, <2>3, Zenon DEF Store!UpdateWorkspaceSettings
    <2>5. Store!Others(c)
      BY <2>1, <2>4 DEF Store!Others
    <2> QED BY <1>1, <1>3, <2>5, OthersStep
  <1> QED BY <1>1, <1>2, <1>3

LEMMA ExpiresStep ==
    ASSUME NEW o \in Owners, TokenExpires(o)
    PROVE  Store!Next
  <1>1. /\ tokens[o] # NoToken /\ tokens' = [tokens EXCEPT ![o].expired = TRUE]
        /\ UNCHANGED <<tables, minted, claim, policy, answer>>
    BY DEF TokenExpires
  <1>2. UNCHANGED Store!membership
    <2>1. UNCHANGED <<SeenTeams, Joined>>
      BY <1>1, SeenSame DEF tables
    <2> QED BY <1>1, <2>1, SeenIs, SeenIsNext, Zenon DEF Store!membership, tables
  <1>3. o \in Store!Owners /\ Store!NoToken = NoToken
    BY StoreNames
  <1>4. Store!TokenExpires(o)
    BY <1>1, <1>2, <1>3, Zenon DEF Store!TokenExpires
  <1> QED BY <1>3, <1>4 DEF Store!Next

LEMMA ImportStep ==
    ASSUME Inv, KeysInv, NEW c \in Callers,
           \/ BeginImport(c) \/ ImportTeam(c) \/ ImportGrant(c) \/ ImportPerson(c)
           \/ ImportStatus(c) \/ EndImport(c)
    PROVE  Store!Next \/ UNCHANGED Store!storeVars
  <1>0. calls[c] \in Call /\ CallFits(calls[c], granted, minted)
    BY DEF Inv, TypeInv, CallsOK, KeysInv, FoundOK
  <1>1. CASE BeginImport(c) \/ EndImport(c)
    BY <1>1, Stutter DEF BeginImport, EndImport, Reads
  <1>2. CASE ImportTeam(c)
    <2>1. PICK t \in calls[c].left.teams :
            LET m == [calls[c] EXCEPT !.left.teams = @ \ {t}]
            IN IF t.name = Everyone \/ (~m.overwrite /\ rows[t.name].id # 0)
                 THEN Reads(c, m) /\ answer' = answer
                 ELSE PutTeam(c, t.name, t) /\ Writes(c, m)
      BY <1>2 DEF ImportTeam
    <2>2. UNCHANGED apart
      BY <1>2 DEF ImportTeam
    <2>3. t.name \in Names /\ t.members \in SUBSET People /\ t.platform \in PlatformRoles
      BY <1>0, LeftType DEF DumpTeam
    <2>4. CASE PutTeam(c, t.name, t)
      BY <2>2, <2>3, <2>4, PutTeamStep
    <2>5. CASE UNCHANGED tables /\ answer' = answer
      BY <2>2, <2>5, Stutter
    <2> QED BY <2>1, <2>4, <2>5 DEF Reads
  <1>3. CASE ImportGrant(c)
    <2>1. PICK g \in calls[c].left.grants :
            SelectTeam(c, [calls[c] EXCEPT !.id = g.id], g.project, g.role, g.subject)
      BY <1>3 DEF ImportGrant
    <2>2. g.project \in Projects /\ g.role \in Roles /\ g.subject \in Subjects
      BY <1>0, LeftType DEF DumpGrant, CallFits, Named
    <2> QED BY <1>3, <2>1, <2>2, SelectStep DEF ImportGrant
  <1>4. CASE ImportPerson(c)
    <2>1. PICK x \in calls[c].left.people : TouchIdentity(c, x.user)
      BY <1>4 DEF ImportPerson
    <2>2. x.user \in People
      BY <1>0, LeftType
    <2> QED BY <1>4, <2>1, <2>2, TouchStep DEF ImportPerson
  <1>5. CASE ImportStatus(c)
    <2>1. calls[c].grant.user \in People
      BY <1>0, <1>5 DEF ImportStatus, CallFits
    <2> QED BY <1>5, <2>1, StatusStep DEF ImportStatus
  <1> QED BY <1>1, <1>2, <1>3, <1>4, <1>5

LEMMA MemoryStep ==
    Inv /\ KeysInv /\ [Next]_vars => Store!Next \/ UNCHANGED Store!storeVars
  <1> SUFFICES ASSUME Inv, KeysInv, [Next]_vars
               PROVE  Store!Next \/ UNCHANGED Store!storeVars
    OBVIOUS
  <1>1. CASE \E c \in Callers : Request(c)
    <2>1. PICK c \in Callers : Request(c)
      BY <1>1
    <2>2. UNCHANGED apart
      BY <2>1 DEF Request
    <2>3. CASE \E u \in People :
                 \/ TouchIdentity(c, u) \/ DeleteIdentity(c, u)
                 \/ \E status \in {"active", "suspended"} : SetIdentityStatus(c, u, status)
      BY <2>2, <2>3, TouchStep, ForgetStep, StatusStep
    <2>4. CASE \E n \in Names : DeleteTeam(c, n) \/ \E team \in Contents : PutTeam(c, n, team)
      <3>1. \A team \in Contents : team.members \in SUBSET People /\ team.platform \in PlatformRoles
        BY DEF Contents
      <3> QED BY <2>2, <2>4, <3>1, DeleteTeamStep, PutTeamStep
    <2>5. CASE \E p \in Projects : DeleteProjectGrants(c, p)
      BY <2>2, <2>5, ProjectGrantsStep
    <2> QED BY <2>1, <2>3, <2>4, <2>5 DEF Request
  <1>2. CASE \E c \in Callers : AddMember(c)
    BY <1>2, SelectStep DEF AddMember
  <1>3. CASE \E c \in Callers : InsertGrant(c) \/ ReadGrant(c) \/ DeleteGrant(c)
    BY <1>3, InsertStep, ReadStep, DeleteGrantStep
  <1>4. CASE \E c \in Callers : FindMember(c) \/ ExportPeople(c) \/ ExportTeams(c) \/ ExportGrants(c)
    <2>1. UNCHANGED <<tables, apart, answer>>
      BY <1>4 DEF FindMember, ExportPeople, ExportTeams, ExportGrants, Reads
    <2> QED BY <2>1, Stutter
  <1>5. CASE \E c \in Callers : \/ BeginImport(c) \/ ImportTeam(c) \/ ImportGrant(c)
                                \/ ImportPerson(c) \/ ImportStatus(c) \/ EndImport(c)
    BY <1>5, ImportStep
  <1>6. CASE \E c \in Callers : CreateToken(c) \/ FindToken(c) \/ DeleteToken(c)
    BY <1>6, TokensStep
  <1>7. CASE \E c \in Callers : Settings(c) \/ FindClaim(c) \/ LookUp(c)
    BY <1>7, SettingsStep
  <1>8. CASE \E c \in Callers : Fails(c)
    BY <1>8, FailsStep DEF Fails
  <1>9. CASE \E o \in Owners : TokenExpires(o)
    BY <1>9, ExpiresStep
  <1>10. CASE LoadTeams \/ LoadGrants \/ LoadPeople \/ UNCHANGED vars
    <2>1. UNCHANGED <<tables, apart, answer>>
      BY <1>10 DEF LoadTeams, LoadGrants, LoadPeople, vars
    <2> QED BY <2>1, Stutter
  <1> QED BY <1>1, <1>2, <1>3, <1>4, <1>5, <1>6, <1>7, <1>8, <1>9, <1>10 DEF Next

LEMMA MemoryInit == Init => Store!Init
  <1> SUFFICES ASSUME Init PROVE Store!Init
    OBVIOUS
  <1>1. /\ Everyone \in Names /\ TeamNames \subseteq Names /\ RowsOK /\ GrantsOK /\ TablesOK
        /\ Store!Names = Names
    BY InitInv, KeysInit, StoreNames DEF Names, KeysInv, Inv, TypeInv
  <1>2. Store!Fresh \/ Store!InUse
    <2>1. CASE Fresh
      <3>1. /\ \A n \in Names : rows[n] = IF n = Everyone THEN [NoRow EXCEPT !.id = 1] ELSE NoRow
            /\ grants = {} /\ granted = 0 /\ people = [u \in People |-> "unknown"]
        BY <2>1 DEF Fresh
      <3>2. Joined = {}
        BY <3>1 DEF Joined
      <3>3. \A n \in Names : Seen(n) = IF n = Everyone THEN [Store!Absent EXCEPT !.exists = TRUE]
                                                      ELSE Store!Absent
        <4> TAKE n \in Names
        <4>1. CASE n = Everyone
          <5>1. rows[n].id = 1 /\ rows[n].members = {} /\ rows[n].platform = "none"
            BY <3>1, <4>1 DEF NoRow
          <5>2. (rows[n].id # 0) = TRUE
            BY <5>1
          <5>3. Seen(n) = [members |-> {}, platform |-> "none", exists |-> TRUE]
            BY <5>1, <5>2, Zenon DEF Seen
          <5> QED BY <4>1, <5>3 DEF Store!Absent
        <4>2. CASE n # Everyone
          <5>1. rows[n].id = 0
            BY <3>1, <4>2 DEF NoRow
          <5>2. SeenTeams[n] = Store!Absent
            BY <1>1, <5>1, AbsentSeen
          <5> QED BY <4>2, <5>2 DEF SeenTeams
        <4> QED BY <4>1, <4>2
      <3>4. SeenTeams = [n \in Names |-> IF n = Everyone THEN [Store!Absent EXCEPT !.exists = TRUE]
                                                       ELSE Store!Absent]
        BY <3>3 DEF SeenTeams
      <3>5. Store!Fresh
        BY <1>1, <3>1, <3>2, <3>4, SeenIs, Zenon DEF Store!Fresh
      <3> QED BY <3>5
    <2>2. CASE InUse
      <3>1. PICK team \in TeamNames, p \in Projects :
              /\ rows = [n \in Names |->
                     CASE n = Everyone -> [NoRow EXCEPT !.id = 1]
                       [] n = team -> [NoRow EXCEPT !.id = 2, !.members = People]
                       [] OTHER -> NoRow]
              /\ grants = {[id |-> 1, project |-> p, role |-> "developer", user |-> Nobody, team |-> 2]}
        BY <2>2 DEF InUse
      <3>2. team # Everyone /\ people = [u \in People |-> "active"] /\ granted = 1
        BY <2>2, NamesAssumption DEF InUse
      <3>3. /\ rows[Everyone] = [NoRow EXCEPT !.id = 1]
            /\ rows[team] = [NoRow EXCEPT !.id = 2, !.members = People]
            /\ \A n \in Names : n # Everyone /\ n # team => rows[n] = NoRow
        BY <1>1, <3>1, <3>2
      <3> DEFINE seen(n) == [members |-> IF n = team THEN People ELSE {}, platform |-> "none",
                             exists |-> n \in {team, Everyone}]
                 grant == [id |-> 1, project |-> p, role |-> "developer", subject |-> team]
      <3>4. \A n \in Names : Seen(n) = seen(n)
        <4> TAKE n \in Names
        <4>1. /\ rows[n].members = IF n = team THEN People ELSE {}
              /\ rows[n].platform = "none" /\ (rows[n].id # 0 <=> n \in {team, Everyone})
          <5>1. CASE n = Everyone
            BY <3>2, <3>3, <5>1 DEF NoRow
          <5>2. CASE n = team
            <6>1. rows[team].id = 2 /\ rows[team].members = People /\ rows[team].platform = "none"
              BY <3>3 DEF NoRow
            <6> QED BY <5>2, <6>1
          <5>3. CASE n # Everyone /\ n # team
            BY <3>3, <5>3 DEF NoRow
          <5> QED BY <5>1, <5>2, <5>3
        <4>2. (rows[n].id # 0) = (n \in {team, Everyone})
          BY <4>1
        <4> QED BY <4>1, <4>2, Zenon DEF Seen
      <3>5. SeenTeams = [n \in Names |-> seen(n)]
        <4> HIDE DEF seen
        <4> QED BY <3>4 DEF SeenTeams
      <3>6. Joined = {grant}
        <4> DEFINE g == [id |-> 1, project |-> p, role |-> "developer", user |-> Nobody, team |-> 2]
        <4>1. g.user = Nobody /\ rows[team].id = g.team /\ Owned(g)
          BY <3>3 DEF NoRow, Owned
        <4>2. SubjectOf(g) = team
          BY <1>1, <4>1, SubjectFound
        <4>3. SeenGrant(g) = grant
          BY <4>2 DEF SeenGrant
        <4>4. grants = {g}
          BY <3>1
        <4> HIDE DEF g, grant
        <4> QED BY <4>3, <4>4, JoinedSeen
      <3>7. Store!InUse
        <4>1. "developer" \in Roles
          BY NamesAssumption
        <4> QED BY <1>1, <3>2, <3>5, <3>6, <4>1, SeenIs, Zenon DEF Store!InUse
      <3> QED BY <3>7
    <2> QED BY <2>1, <2>2 DEF Init
  <1>3. /\ tokens = [o \in Store!Owners |-> Store!NoToken] /\ minted = 0
        /\ claim = Store!NoClaim /\ policy = "open" /\ answer = <<>>
    BY StoreNames DEF Init
  <1> QED BY <1>2, <1>3 DEF Store!Init

\* The SQL store implements the in-memory one: whatever statements of other
\* requests come between those of a method, it has the effect and the outcome
\* of one step of the reference, or fails without an effect.
THEOREM MemoryHolds == Spec => ImplementsMemory
  <1> QED BY InvHolds, KeysHold, MemoryInit, MemoryStep, PTL DEF Spec, ImplementsMemory, Store!Spec
----------------------------------------------------------------------------
(* A workspace's projects: what their state is made of.                    *)

AppState == [deployed : BOOLEAN, replicas : Nat, size : Sizes, hosts : SUBSET Hosts]
VolumeState == [size : Nat, capacity : Nat]

CheckJob == [at : {"check"}, req : Requests]
WriteJob == [at : {"write"}, req : Requests, after : AppState \cup VolumeState,
             blind : SUBSET Axes, stale : BOOLEAN, raced : BOOLEAN]

OnVolume(r) == r.kind \in {"volume", "grow"}

\* A write of an App carries an App, one of a Volume a Volume.
WritesItsKind(j) ==
    /\ j.req.kind = "create" \/ OnApp(j.req) => j.after \in AppState
    /\ OnVolume(j.req) => j.after \in VolumeState

ProjectsTypes ==
    /\ plan \in [Axes -> Nat]
    /\ catalog \subseteq Sizes
    /\ apps \in [Slugs -> AppState \cup {None}]
    /\ vols \in [Slugs -> VolumeState]
    /\ job \in [Handlers -> {Idle} \cup CheckJob \cup WriteJob]
    /\ \A h \in Handlers : job[h].at = "write" => WritesItsKind(job[h])
    /\ excused \subseteq Axes

Over(x, n) == plan[x] > 0 /\ n > plan[x]

\* What a handler judged is still so when it writes, unless it was blind to it,
\* or another change that uses more, of the plan or of the catalog came first.
CreateJudged(j) ==
    /\ "projects" \in j.blind \/ ~Over("projects", Usage(apps).projects + 1)
    /\ Compute \subseteq j.blind \/ ~j.after.deployed

AppJudged(j) ==
    /\ apps[j.req.p] # None
    /\ \A x \in Compute \ j.blind : ~Over(x, Usage([apps EXCEPT ![j.req.p] = j.after])[x])

VolumeJudged(j) ==
    "storage" \in j.blind \/ ~Over("storage", Usage(apps).storage + j.after.size)

GrowthJudged(j) ==
    "storage" \in j.blind
        \/ ~Over("storage", Usage(apps).storage + (j.after.size - vols[j.req.p].size))

StillJudged(j) ==
    j.at = "write" /\ ~j.raced =>
        /\ j.req.kind = "create" => CreateJudged(j)
        /\ OnApp(j.req) /\ ~j.stale => AppJudged(j)
        /\ j.req.kind = "volume" => VolumeJudged(j)
        /\ j.req.kind = "grow" /\ ~j.stale => GrowthJudged(j)

ProjectsInv ==
    /\ ProjectsTypes
    /\ \A h \in Handlers : StillJudged(job[h])
    /\ OverForAReason
----------------------------------------------------------------------------
(* Sums.                                                                   *)

LEMMA UnitsFinite ==
    ASSUME NEW D, IsFiniteSet(D), NEW f \in [D -> Nat]
    PROVE  IsFiniteSet(Units(f)) /\ Sum(f) \in Nat
  <1> DEFINE T == {{x} \X (1 .. f[x]) : x \in D}
             g == [x \in D |-> {x} \X (1 .. f[x])]
  <1>1. g \in Surjection(D, T)
    BY DEF Surjection
  <1>2. IsFiniteSet(T)
    BY <1>1, FS_Surjection
  <1>3. ASSUME NEW u \in T PROVE IsFiniteSet(u)
    <2>1. PICK x \in D : u = {x} \X (1 .. f[x])
      OBVIOUS
    <2>2. f[x] \in Int /\ 1 \in Int
      OBVIOUS
    <2>3. IsFiniteSet(1 .. f[x]) /\ IsFiniteSet({x})
      BY <2>2, FS_Interval, FS_Singleton
    <2> QED BY <2>1, <2>3, FS_Product
  <1>4. Units(f) = UNION T
    BY DEF Units
  <1> HIDE DEF T, g
  <1>5. IsFiniteSet(Units(f))
    BY <1>2, <1>3, <1>4, FS_UNION
  <1> QED BY <1>5, FS_CardinalityType DEF Sum

\* A sum of less is less.
LEMMA SumGrows ==
    ASSUME NEW D, NEW E, IsFiniteSet(D), IsFiniteSet(E),
           NEW f \in [D -> Nat], NEW g \in [E -> Nat],
           \A x \in D : f[x] = 0 \/ (x \in E /\ f[x] <= g[x])
    PROVE  Sum(f) \in Nat /\ Sum(g) \in Nat /\ Sum(f) <= Sum(g)
  <1>1. IsFiniteSet(Units(g)) /\ Sum(g) \in Nat
    BY UnitsFinite
  <1>2. Units(f) \subseteq Units(g)
    <2>1. SUFFICES ASSUME NEW u \in Units(f) PROVE u \in Units(g)
      OBVIOUS
    <2>2. PICK x \in D : u \in {x} \X (1 .. f[x])
      BY DEF Units
    <2>3. f[x] # 0
      BY <2>2
    <2>4. x \in E /\ 1 .. f[x] \subseteq 1 .. g[x]
      BY <2>3
    <2>5. u \in {x} \X (1 .. g[x]) /\ x \in DOMAIN g
      BY <2>2, <2>4
    <2> QED BY <2>5 DEF Units
  <1> QED BY <1>1, <1>2, UnitsFinite, FS_Subset DEF Sum

\* One summand changes.
LEMMA SumChanges ==
    ASSUME NEW D, IsFiniteSet(D), NEW p \in D,
           NEW f \in [D -> Nat], NEW g \in [D -> Nat], \A x \in D \ {p} : f[x] = g[x]
    PROVE  Sum(f) \in Nat /\ Sum(g) = Sum(f) - f[p] + g[p]
  <1> DEFINE Of(n) == {p} \X (1 .. n)
             others == UNION {{x} \X (1 .. f[x]) : x \in D \ {p}}
  <1>1. ASSUME NEW n \in Nat PROVE IsFiniteSet(Of(n)) /\ Cardinality(Of(n)) = n
    <2>1. n \in Int /\ 1 \in Int
      OBVIOUS
    <2>2. IsFiniteSet(1 .. n) /\ Cardinality(1 .. n) = n
      <3>1. IsFiniteSet(1 .. n) /\ Cardinality(1 .. n) = IF 1 > n THEN 0 ELSE n - 1 + 1
        BY <2>1, FS_Interval
      <3> QED BY <3>1
    <2>3. IsFiniteSet({p}) /\ Cardinality({p}) = 1
      BY FS_Singleton
    <2>4. IsFiniteSet(Of(n)) /\ Cardinality(Of(n)) = Cardinality({p}) * Cardinality(1 .. n)
      BY <2>2, <2>3, FS_Product
    <2> QED BY <2>2, <2>3, <2>4
  <1>2. Units(f) = others \cup Of(f[p])
    <2>1. {{x} \X (1 .. f[x]) : x \in D}
             = {{x} \X (1 .. f[x]) : x \in D \ {p}} \cup {Of(f[p])}
      OBVIOUS
    <2> QED BY <2>1 DEF Units
  <1>3. Units(g) = others \cup Of(g[p])
    <2>1. {{x} \X (1 .. g[x]) : x \in D}
             = {{x} \X (1 .. f[x]) : x \in D \ {p}} \cup {Of(g[p])}
      OBVIOUS
    <2> QED BY <2>1 DEF Units
  <1>4. \A n \in Nat : others \cap Of(n) = {}
    OBVIOUS
  <1>5. IsFiniteSet(others)
    <2>1. IsFiniteSet(Units(f)) /\ others \subseteq Units(f)
      BY <1>2, UnitsFinite
    <2> QED BY <2>1, FS_Subset
  <1>6. f[p] \in Nat /\ g[p] \in Nat
    OBVIOUS
  <1> HIDE DEF others, Of
  <1>7. Cardinality(others) \in Nat
    BY <1>5, FS_CardinalityType
  <1>8. ASSUME NEW n \in Nat PROVE Cardinality(others \cup Of(n)) = Cardinality(others) + n
    <2>1. Cardinality(others \cup Of(n))
             = Cardinality(others) + Cardinality(Of(n)) - Cardinality(others \cap Of(n))
      BY <1>1, <1>5, FS_Union
    <2>2. Cardinality(others \cap Of(n)) = 0
      BY <1>4, FS_EmptySet
    <2> QED BY <1>1, <1>7, <2>1, <2>2
  <1>9. Sum(f) = Cardinality(others) + f[p] /\ Sum(g) = Cardinality(others) + g[p]
    BY <1>2, <1>3, <1>6, <1>8 DEF Sum
  <1> QED BY <1>6, <1>7, <1>9

----------------------------------------------------------------------------
(* Usage.                                                                  *)

LEMMA FiniteSlugs ==
    ASSUME NEW as
    PROVE  IsFiniteSet(Slugs) /\ IsFiniteSet(Existing(as)) /\ Cardinality(Existing(as)) \in Nat
  <1>1. IsFiniteSet(Slugs) /\ Existing(as) \subseteq Slugs
    BY BoundsAssumption DEF Existing
  <1> QED BY <1>1, FS_Subset, FS_CardinalityType

\* What an App uses.
LEMMA OfApp ==
    ASSUME NEW a \in AppState, catalog \subseteq Sizes
    PROVE  Instances(a) \in Nat /\ Cpu(a) \in Nat
  <1>1. Instances(a) \in Nat
    BY DEF Instances, AppState
  <1>2. a.size \in catalog => Cost[a.size] \in Nat
    BY BoundsAssumption
  <1>3. \A m, n \in Nat : m * n \in Nat
    OBVIOUS
  <1> QED BY <1>1, <1>2, <1>3 DEF Cpu

Volumes == [p \in Slugs |-> vols[p].size]

LEMMA UsageFields ==
    ASSUME NEW as
    PROVE  /\ Usage(as).projects = Cardinality(Existing(as))
           /\ Usage(as).instances = Sum([p \in Existing(as) |-> Instances(as[p])])
           /\ Usage(as).cpu = Sum([p \in Existing(as) |-> Cpu(as[p])])
           /\ Usage(as).storage = Sum(Volumes)
  BY DEF Usage, Volumes

LEMMA UsageTypes ==
    ASSUME ProjectsTypes, NEW as \in [Slugs -> AppState \cup {None}]
    PROVE  \A x \in Axes : Usage(as)[x] \in Nat
  <1>1. /\ [p \in Existing(as) |-> Instances(as[p])] \in [Existing(as) -> Nat]
        /\ [p \in Existing(as) |-> Cpu(as[p])] \in [Existing(as) -> Nat]
    <2>1. ASSUME NEW p \in Existing(as) PROVE Instances(as[p]) \in Nat /\ Cpu(as[p]) \in Nat
      <3>1. as[p] \in AppState
        BY DEF Existing
      <3> QED BY <3>1, OfApp DEF ProjectsTypes
    <2> QED BY <2>1
  <1>2. Volumes \in [Slugs -> Nat]
    BY DEF ProjectsTypes, VolumeState, Volumes
  <1>3. /\ Usage(as).projects \in Nat /\ Usage(as).instances \in Nat
        /\ Usage(as).cpu \in Nat /\ Usage(as).storage \in Nat
    BY <1>1, <1>2, FiniteSlugs, UnitsFinite, UsageFields
  <1> QED BY <1>3 DEF Axes

\* Apps that have nothing to run use nothing to run it.
LEMMA ComputeGrows ==
    ASSUME ProjectsTypes,
           NEW as \in [Slugs -> AppState \cup {None}], NEW bs \in [Slugs -> AppState \cup {None}],
           \A p \in Slugs : as[p] = bs[p] \/ as[p] = None \/ ~as[p].deployed
    PROVE  \A x \in Compute : Usage(as)[x] <= Usage(bs)[x]
  <1> DEFINE ai == [p \in Existing(as) |-> Instances(as[p])]
             bi == [p \in Existing(bs) |-> Instances(bs[p])]
             ac == [p \in Existing(as) |-> Cpu(as[p])]
             bc == [p \in Existing(bs) |-> Cpu(bs[p])]
  <1>1. /\ \A p \in Existing(as) : as[p] \in AppState
        /\ \A p \in Existing(bs) : bs[p] \in AppState
        /\ \A p \in Existing(as) : ~as[p].deployed \/ (p \in Existing(bs) /\ as[p] = bs[p])
    BY DEF Existing
  <1>2. /\ \A p \in Existing(as) : Instances(as[p]) \in Nat /\ Cpu(as[p]) \in Nat
        /\ \A p \in Existing(bs) : Instances(bs[p]) \in Nat /\ Cpu(bs[p]) \in Nat
    BY <1>1, OfApp DEF ProjectsTypes
  <1>3. /\ ai \in [Existing(as) -> Nat] /\ bi \in [Existing(bs) -> Nat]
        /\ ac \in [Existing(as) -> Nat] /\ bc \in [Existing(bs) -> Nat]
    BY <1>2
  <1>4. ASSUME NEW p \in Existing(as)
        PROVE  /\ ai[p] = 0 \/ (p \in Existing(bs) /\ ai[p] <= bi[p])
               /\ ac[p] = 0 \/ (p \in Existing(bs) /\ ac[p] <= bc[p])
    <2>1. CASE ~as[p].deployed
      <3>1. Instances(as[p]) = 0
        BY <2>1 DEF Instances
      <3>2. Cpu(as[p]) = 0
        <4>1. as[p].size \in catalog => Cost[as[p].size] \in Nat
          BY BoundsAssumption DEF ProjectsTypes
        <4>2. \A n \in Nat : 0 * n = 0
          OBVIOUS
        <4> QED BY <3>1, <4>1, <4>2 DEF Cpu
      <3> QED BY <3>1, <3>2
    <2>2. CASE p \in Existing(bs) /\ as[p] = bs[p]
      <3>1. ai[p] = bi[p] /\ ac[p] = bc[p]
        BY <2>2
      <3>2. bi[p] \in Nat /\ bc[p] \in Nat
        BY <1>3, <2>2
      <3> HIDE DEF ai, bi, ac, bc
      <3> QED BY <2>2, <3>1, <3>2
    <2> QED BY <1>1, <2>1, <2>2
  <1>5. IsFiniteSet(Existing(as)) /\ IsFiniteSet(Existing(bs))
    BY FiniteSlugs
  <1> HIDE DEF ai, bi, ac, bc
  <1>6. Sum(ai) <= Sum(bi) /\ Sum(ac) <= Sum(bc)
    BY <1>3, <1>4, <1>5, SumGrows
  <1>7. /\ Usage(as).instances = Sum(ai) /\ Usage(bs).instances = Sum(bi)
        /\ Usage(as).cpu = Sum(ac) /\ Usage(bs).cpu = Sum(bc)
    BY UsageFields DEF ai, bi, ac, bc
  <1> QED BY <1>6, <1>7 DEF Compute

\* Fewer Apps use less.
LEMMA UsageGrows ==
    ASSUME ProjectsTypes,
           NEW as \in [Slugs -> AppState \cup {None}], NEW bs \in [Slugs -> AppState \cup {None}],
           \A p \in Slugs : as[p] = bs[p] \/ as[p] = None
    PROVE  \A x \in Axes : Usage(as)[x] <= Usage(bs)[x]
  <1>1. Usage(as)["instances"] <= Usage(bs)["instances"] /\ Usage(as)["cpu"] <= Usage(bs)["cpu"]
    BY ComputeGrows DEF Compute
  <1>2. Existing(as) \subseteq Existing(bs) /\ IsFiniteSet(Existing(bs))
    BY FiniteSlugs DEF Existing
  <1>3. Cardinality(Existing(as)) <= Cardinality(Existing(bs))
    BY <1>2, FS_Subset
  <1>4. Usage(as).projects <= Usage(bs).projects
    BY <1>3, UsageFields
  <1>5. Usage(as).storage <= Usage(bs).storage
    <2>1. Usage(as).storage = Usage(bs).storage
      BY UsageFields
    <2>2. Usage(bs)["storage"] \in Nat
      BY UsageTypes DEF Axes
    <2>3. \A n \in Nat : n <= n
      OBVIOUS
    <2> QED BY <2>1, <2>2, <2>3
  <1> QED BY <1>1, <1>4, <1>5 DEF Axes
----------------------------------------------------------------------------
(* What a step changes of the usage and of what was judged.                *)

LEMMA UsageNext ==
    ASSUME catalog' = catalog, NEW as
    PROVE  /\ Usage(as)'.projects = Usage(as).projects
           /\ Usage(as)'.instances = Usage(as).instances
           /\ Usage(as)'.cpu = Usage(as).cpu
           /\ Usage(as)'.storage = Sum(Volumes)'
  <1>1. /\ Existing(as)' = Existing(as) /\ \A a : Instances(a)' = Instances(a)
        /\ \A a : Cpu(a)' = Cpu(a)
    BY DEF Existing, Instances, Cpu
  <1>2. /\ Usage(as)'.projects = Cardinality(Existing(as)')
        /\ Usage(as)'.instances = Sum([p \in Existing(as)' |-> Instances(as[p])'])
        /\ Usage(as)'.cpu = Sum([p \in Existing(as)' |-> Cpu(as[p])'])
        /\ Usage(as)'.storage = Sum(Volumes')
    BY DEF Usage, Volumes, Sum, Units
  <1>3. /\ [p \in Existing(as) |-> Instances(as[p])'] = [p \in Existing(as) |-> Instances(as[p])]
        /\ [p \in Existing(as) |-> Cpu(as[p])'] = [p \in Existing(as) |-> Cpu(as[p])]
    BY <1>1
  <1>4. Sum(Volumes)' = Sum(Volumes')
    BY DEF Sum, Units
  <1> QED BY <1>1, <1>2, <1>3, <1>4, UsageFields

\* Volumes that do not grow.
LEMMA StorageShrinks ==
    ASSUME ProjectsTypes, vols' \in [Slugs -> VolumeState],
           \A p \in Slugs : vols'[p].size <= vols[p].size
    PROVE  Sum(Volumes) \in Nat /\ Sum(Volumes)' \in Nat /\ Sum(Volumes)' <= Sum(Volumes)
  <1>1. Volumes \in [Slugs -> Nat] /\ Volumes' \in [Slugs -> Nat]
    BY DEF ProjectsTypes, VolumeState, Volumes
  <1>2. \A p \in Slugs : Volumes'[p] <= Volumes[p]
    BY DEF Volumes
  <1>3. Sum(Volumes)' = Sum(Volumes')
    BY DEF Sum, Units
  <1>4. IsFiniteSet(Slugs)
    BY BoundsAssumption
  <1> QED BY <1>1, <1>2, <1>3, <1>4, SumGrows

\* The volumes of project p become one of another size.
LEMMA StorageChanges ==
    ASSUME ProjectsTypes, NEW p \in Slugs, NEW v \in VolumeState, vols' = [vols EXCEPT ![p] = v]
    PROVE  Sum(Volumes)' = Sum(Volumes) + (v.size - vols[p].size)
  <1>1. Volumes \in [Slugs -> Nat] /\ Volumes' \in [Slugs -> Nat]
    BY DEF ProjectsTypes, VolumeState, Volumes
  <1>2. /\ \A q \in Slugs \ {p} : Volumes[q] = Volumes'[q]
        /\ Volumes[p] = vols[p].size /\ Volumes'[p] = v.size
    BY DEF Volumes, ProjectsTypes
  <1>3. Sum(Volumes)' = Sum(Volumes')
    BY DEF Sum, Units
  <1>4. IsFiniteSet(Slugs)
    BY BoundsAssumption
  <1>5. Sum(Volumes) \in Nat /\ Sum(Volumes') = Sum(Volumes) - Volumes[p] + Volumes'[p]
    BY <1>1, <1>2, <1>4, SumChanges
  <1>6. Volumes[p] \in Nat /\ Volumes'[p] \in Nat
    BY <1>1
  <1> QED BY <1>2, <1>3, <1>5, <1>6

LEMMA JudgedStays ==
    ASSUME UNCHANGED <<plan, catalog, apps, vols>>, NEW j
    PROVE  StillJudged(j)' <=> StillJudged(j)
  <1>1. Sum(Volumes)' = Sum(Volumes)
    BY DEF Volumes, Sum, Units
  <1>2. \A as : /\ Usage(as)'.projects = Usage(as).projects
                /\ Usage(as)'.instances = Usage(as).instances
                /\ Usage(as)'.cpu = Usage(as).cpu
                /\ Usage(as)'.storage = Usage(as).storage
    BY <1>1, UsageNext, UsageFields
  <1>3. \A x, n : Over(x, n)' <=> Over(x, n)
    BY DEF Over
  <1>4. CreateJudged(j)' <=> CreateJudged(j)
    BY <1>2, <1>3 DEF CreateJudged
  <1>5. AppJudged(j)' <=> AppJudged(j)
    BY <1>2, <1>3 DEF AppJudged, Compute
  <1>6. (VolumeJudged(j)' <=> VolumeJudged(j)) /\ (GrowthJudged(j)' <=> GrowthJudged(j))
    BY <1>2, <1>3 DEF VolumeJudged, GrowthJudged
  <1> QED BY <1>4, <1>5, <1>6 DEF StillJudged

\* Being over the plan is for a reason if every axis a step gives no reason
\* for was over it before.
LEMMA ExcusedStays ==
    ASSUME ProjectsTypes, OverForAReason, NEW axes \in SUBSET Axes, Excuse(axes),
           \A x \in Axes \ axes : Over(x, Usage(apps)[x])' => Over(x, Usage(apps)[x])
    PROVE  OverForAReason' /\ excused' \subseteq Axes
  <1>1. excused' = {x \in excused \cup axes : x \in Beyond(plan', Usage(apps)', Axes)}
    BY DEF Excuse
  <1>2. \A x \in Axes : x \in Beyond(plan', Usage(apps)', Axes) <=> Over(x, Usage(apps)[x])'
    BY DEF Beyond, Over
  <1>3. \A x \in Axes : Over(x, Usage(apps)[x]) => x \in excused
    BY DEF OverForAReason, Beyond, Over
  <1>4. Beyond(plan', Usage(apps)', Axes) \subseteq Axes
    BY DEF Beyond
  <1>5. Beyond(plan', Usage(apps)', Axes) \subseteq excused'
    BY <1>1, <1>2, <1>3, <1>4
  <1>6. Beyond(plan, Usage(apps), Axes)' = Beyond(plan', Usage(apps)', Axes)
    BY DEF Beyond
  <1>7. OverForAReason'
    BY <1>5, <1>6 DEF OverForAReason
  <1> QED BY <1>1, <1>4, <1>7
----------------------------------------------------------------------------
(* Steps that use nothing more and nothing less.                           *)

JobState == {Idle} \cup CheckJob \cup WriteJob

LEMMA OverLess ==
    ASSUME plan \in [Axes -> Nat], NEW x \in Axes, NEW m \in Int, NEW n \in Int, m <= n, Over(x, m)
    PROVE  Over(x, n)
  <1>1. plan[x] \in Nat
    OBVIOUS
  <1> QED BY <1>1 DEF Over

\* A handler that comes to its write has judged it.
LEMMA QuietStep ==
    ASSUME ProjectsInv, UNCHANGED <<plan, catalog, apps, vols, excused>>,
           job' \in [Handlers -> JobState],
           \A g \in Handlers : \/ job'[g] = job[g]
                               \/ job'[g].at # "write"
                               \/ WritesItsKind(job'[g]) /\ StillJudged(job'[g])
    PROVE  ProjectsInv'
  <1>1. \A g \in Handlers : job'[g].at = "write" => WritesItsKind(job'[g])
    BY DEF ProjectsInv, ProjectsTypes
  <1>2. ProjectsTypes'
    BY <1>1 DEF ProjectsInv, ProjectsTypes, JobState
  <1>3. ASSUME NEW g \in Handlers PROVE StillJudged(job[g])'
    <2>1. StillJudged(job'[g])
      BY DEF ProjectsInv, StillJudged
    <2>2. \A j : StillJudged(j)' <=> StillJudged(j)
      BY JudgedStays
    <2> QED BY <2>1, <2>2
  <1>4. OverForAReason'
    <2>1. Sum(Volumes)' = Sum(Volumes)
      BY DEF Volumes, Sum, Units
    <2>2. /\ Usage(apps)'.projects = Usage(apps).projects
          /\ Usage(apps)'.instances = Usage(apps).instances
          /\ Usage(apps)'.cpu = Usage(apps).cpu
          /\ Usage(apps)'.storage = Usage(apps).storage
      BY <2>1, UsageNext, UsageFields
    <2>3. \A x \in Axes : Usage(apps)'[x] = Usage(apps)[x]
      BY <2>2 DEF Axes
    <2>4. Beyond(plan, Usage(apps), Axes)' = Beyond(plan, Usage(apps), Axes)
      BY <2>3 DEF Beyond
    <2> QED BY <2>4 DEF ProjectsInv, OverForAReason
  <1> QED BY <1>2, <1>3, <1>4 DEF ProjectsInv
----------------------------------------------------------------------------
(* A handler judges what it read.                                          *)

LEMMA RequestParts ==
    ASSUME NEW r \in Requests
    PROVE  /\ r.p \in Slugs
           /\ r.kind = "create" => r.hosts \subseteq Hosts /\ r.source \in BOOLEAN
           /\ r.kind = "scale" => r.replicas \in Nat
           /\ r.kind = "resize" => r.size \in Sizes
           /\ r.kind \in {"add", "remove"} => r.host \in Hosts
           /\ OnVolume(r) => r.size \in Nat \ {0}
           /\ r.kind = "create" \/ OnApp(r) \/ OnVolume(r)
           /\ ~(r.kind = "create" /\ OnApp(r)) /\ ~(r.kind = "create" /\ OnVolume(r))
           /\ ~(OnApp(r) /\ OnVolume(r))
  BY BoundsAssumption DEF Requests, OnApp, OnVolume

LEMMA JobParts ==
    ASSUME ProjectsTypes, NEW h \in Handlers
    PROVE  /\ job[h].at = "check" => job[h] \in CheckJob /\ job[h].req \in Requests
           /\ job[h].at = "write" => job[h] \in WriteJob /\ job[h].req \in Requests
  BY DEF ProjectsTypes, Idle, CheckJob, WriteJob

LEMMA MutatedApp ==
    ASSUME NEW a \in AppState, NEW r \in Requests, OnApp(r)
    PROVE  Mutated(a, r) \in AppState
  <1>1. CASE r.kind = "deploy"
    BY <1>1 DEF Mutated, AppState
  <1>2. CASE r.kind = "scale"
    BY <1>2, RequestParts DEF Mutated, AppState
  <1>3. CASE r.kind = "resize"
    BY <1>3, RequestParts DEF Mutated, AppState
  <1>4. CASE r.kind = "add"
    BY <1>4, RequestParts DEF Mutated, AppState
  <1>5. CASE r.kind = "remove"
    BY <1>5, RequestParts DEF Mutated, AppState
  <1> QED BY <1>1, <1>2, <1>3, <1>4, <1>5 DEF OnApp

\* Where a handler answers, or starts over.
LEMMA IdleStep ==
    ASSUME ProjectsInv, UNCHANGED <<plan, catalog, apps, vols, excused>>, NEW h \in Handlers,
           NEW j \in {Idle} \cup CheckJob, job' = [job EXCEPT ![h] = j]
    PROVE  ProjectsInv'
  <1>1. j.at # "write" /\ j \in JobState
    BY DEF Idle, CheckJob, JobState
  <1>2. job' \in [Handlers -> JobState]
    BY <1>1 DEF ProjectsInv, ProjectsTypes, JobState
  <1>3. \A g \in Handlers : job'[g] = job[g] \/ job'[g].at # "write"
    BY <1>1 DEF ProjectsInv, ProjectsTypes
  <1> QED BY <1>2, <1>3, QuietStep

Passed(r, after, blind) ==
    [at |-> "write", req |-> r, after |-> after, blind |-> blind, stale |-> FALSE, raced |-> FALSE]

LEMMA PassesStep ==
    ASSUME ProjectsInv, UNCHANGED <<plan, catalog, apps, vols, excused>>, NEW h \in Handlers,
           NEW after \in AppState \cup VolumeState, NEW blind \in SUBSET Axes,
           job[h].req \in Requests, Passes(h, after, blind),
           WritesItsKind(Passed(job[h].req, after, blind)),
           StillJudged(Passed(job[h].req, after, blind))
    PROVE  ProjectsInv'
  <1> DEFINE j == Passed(job[h].req, after, blind)
  <1>1. job' = [job EXCEPT ![h] = j]
    BY DEF Passes, Passed
  <1>2. j \in JobState
    BY DEF Passed, JobState, WriteJob
  <1>3. WritesItsKind(j) /\ StillJudged(j)
    OBVIOUS
  <1> HIDE DEF j
  <1>4. job' \in [Handlers -> JobState]
    BY <1>1, <1>2 DEF ProjectsInv, ProjectsTypes, JobState
  <1>5. \A g \in Handlers : job'[g] = job[g] \/ job'[g] = j
    BY <1>1 DEF ProjectsInv, ProjectsTypes
  <1> QED BY <1>3, <1>4, <1>5, QuietStep

\* Within the plan the handler passes, blind to what it does not judge; if the
\* plan cannot be read it passes blind to everything.
LEMMA JudgeStep ==
    ASSUME ProjectsInv, UNCHANGED <<plan, catalog, apps, vols, excused>>, NEW h \in Handlers,
           NEW after \in AppState \cup VolumeState, NEW usage, NEW axes, NEW unjudged \in SUBSET Axes,
           job[h].req \in Requests, Judge(h, after, usage, axes, unjudged),
           OnApp(job[h].req) => apps[job[h].req.p] # None,
           \A blind \in SUBSET Axes : WritesItsKind(Passed(job[h].req, after, blind)),
           ~Exceeds(plan, usage, axes) => StillJudged(Passed(job[h].req, after, unjudged))
    PROVE  ProjectsInv'
  <1>1. CASE Answers(h)
    BY <1>1, IdleStep DEF Answers
  <1>2. CASE ~Exceeds(plan, usage, axes) /\ Passes(h, after, unjudged)
    BY <1>2, PassesStep
  <1>3. CASE Passes(h, after, Axes)
    <2>1. StillJudged(Passed(job[h].req, after, Axes))
      BY DEF StillJudged, Passed, CreateJudged, AppJudged, VolumeJudged, GrowthJudged, Axes, Compute
    <2> QED BY <1>3, <2>1, PassesStep
  <1> QED BY <1>1, <1>2, <1>3 DEF Judge

LEMMA CheckCreateKeeps ==
    ASSUME ProjectsInv, NEW h \in Handlers, CheckCreate(h)
    PROVE  ProjectsInv'
  <1> DEFINE r == job[h].req
             after == NewApp(r.hosts, r.source)
             usage == [Usage(apps) EXCEPT !.projects = @ + 1]
             unjudged == IF r.source THEN Compute ELSE {}
  <1>1. r.kind = "create" /\ r \in Requests
    BY JobParts DEF CheckCreate, ProjectsInv
  <1>2. r.hosts \subseteq Hosts /\ r.source \in BOOLEAN /\ ~OnApp(r) /\ ~OnVolume(r)
    BY <1>1, RequestParts
  <1>3. after \in AppState /\ after.deployed = r.source
    BY <1>2, BoundsAssumption DEF NewApp, AppState
  <1>4. unjudged \in SUBSET Axes
    BY DEF Compute, Axes
  <1>5. Judge(h, after, usage, {"projects"}, unjudged) /\ UNCHANGED <<plan, catalog, apps, vols, excused>>
    BY DEF CheckCreate
  <1>6. usage.projects = Usage(apps).projects + 1
    BY DEF Usage
  <1> HIDE DEF after, usage
  <1>7. ~Exceeds(plan, usage, {"projects"}) => ~Over("projects", Usage(apps).projects + 1)
    BY <1>6 DEF Exceeds, Beyond, Over
  <1>8. ~Exceeds(plan, usage, {"projects"}) => StillJudged(Passed(r, after, unjudged))
    BY <1>1, <1>2, <1>3, <1>7 DEF StillJudged, Passed, CreateJudged, OnApp
  <1>9. \A blind \in SUBSET Axes : WritesItsKind(Passed(r, after, blind))
    BY <1>2, <1>3 DEF WritesItsKind, Passed
  <1> QED BY <1>1, <1>2, <1>3, <1>4, <1>5, <1>8, <1>9, JudgeStep

LEMMA CheckAppKeeps ==
    ASSUME ProjectsInv, NEW h \in Handlers, CheckApp(h)
    PROVE  ProjectsInv'
  <1> DEFINE r == job[h].req
             after == Mutated(apps[r.p], r)
             usage == Usage([apps EXCEPT ![r.p] = after])
  <1>1. OnApp(r) /\ r \in Requests /\ UNCHANGED <<plan, catalog, apps, vols, excused>>
    BY JobParts DEF CheckApp, ProjectsInv
  <1>2. r.kind # "create" /\ ~OnVolume(r) /\ r.p \in Slugs
    BY <1>1, RequestParts
  <1>3. CASE Answers(h)
    BY <1>1, <1>3, IdleStep DEF Answers
  <1>4. CASE apps[r.p] # None /\ Judge(h, after, usage, Compute, {})
    <2>1. after \in AppState
      BY <1>1, <1>2, <1>4, MutatedApp DEF ProjectsInv, ProjectsTypes
    <2> HIDE DEF after
    <2>2. ~Exceeds(plan, usage, Compute) =>
             \A x \in Compute : ~Over(x, Usage([apps EXCEPT ![r.p] = after])[x])
      BY DEF Exceeds, Beyond, Over
    <2> HIDE DEF usage
    <2>3. ~Exceeds(plan, usage, Compute) => StillJudged(Passed(r, after, {}))
      BY <1>2, <1>4, <2>2 DEF StillJudged, Passed, AppJudged, OnVolume
    <2>4. \A blind \in SUBSET Axes : WritesItsKind(Passed(r, after, blind))
      BY <1>2, <2>1 DEF WritesItsKind, Passed
    <2> QED BY <1>1, <1>4, <2>1, <2>3, <2>4, JudgeStep
  <1> QED BY <1>3, <1>4 DEF CheckApp

LEMMA CheckVolumeKeeps ==
    ASSUME ProjectsInv, NEW h \in Handlers, CheckVolume(h)
    PROVE  ProjectsInv'
  <1> DEFINE r == job[h].req
             v == IF r.kind = "volume" THEN NoVolume ELSE vols[r.p]
             after == [v EXCEPT !.size = r.size]
             usage == [Usage(apps) EXCEPT !.storage = Usage(apps).storage + Added(r.size, v)]
  <1>1. OnVolume(r) /\ r \in Requests /\ UNCHANGED <<plan, catalog, apps, vols, excused>>
    BY JobParts DEF CheckVolume, ProjectsInv, OnVolume
  <1>2. r.kind # "create" /\ ~OnApp(r) /\ r.p \in Slugs /\ r.size \in Nat
    BY <1>1, RequestParts
  <1>3. v \in VolumeState
    BY <1>2 DEF NoVolume, VolumeState, ProjectsInv, ProjectsTypes
  <1>4. after \in VolumeState /\ after.size = r.size
    BY <1>2, <1>3 DEF VolumeState
  <1>5. CASE Answers(h)
    BY <1>1, <1>5, IdleStep DEF Answers
  <1>6. \A blind \in SUBSET Axes : WritesItsKind(Passed(r, after, blind))
    BY <1>2, <1>4 DEF WritesItsKind, Passed
  <1>7. usage.storage = Usage(apps).storage + (r.size - v.size)
    BY DEF Usage, Added
  <1>8. r.kind = "volume" => r.size - v.size = after.size
    BY <1>2, <1>4 DEF NoVolume
  <1>9. CASE Judge(h, after, usage, {"storage"}, {})
    <2> HIDE DEF after, usage
    <2>1. ~Exceeds(plan, usage, {"storage"}) => ~Over("storage", Usage(apps).storage + (r.size - v.size))
      BY <1>7 DEF Exceeds, Beyond, Over
    <2>2. r.kind = "grow" => v = vols[r.p]
      OBVIOUS
    <2>3. ~Exceeds(plan, usage, {"storage"}) => StillJudged(Passed(r, after, {}))
      <3> SUFFICES ASSUME ~Exceeds(plan, usage, {"storage"}) PROVE StillJudged(Passed(r, after, {}))
        OBVIOUS
      <3>1. r.kind = "volume" => VolumeJudged(Passed(r, after, {}))
        BY <1>8, <2>1 DEF VolumeJudged, Passed
      <3>2. r.kind = "grow" => GrowthJudged(Passed(r, after, {}))
        BY <1>4, <2>1, <2>2 DEF GrowthJudged, Passed
      <3> QED BY <1>2, <3>1, <3>2 DEF StillJudged, Passed
    <2> QED BY <1>1, <1>2, <1>4, <1>6, <1>9, <2>3, JudgeStep
  <1>10. CASE Passes(h, after, Axes)
    <2> HIDE DEF after
    <2>1. StillJudged(Passed(r, after, Axes))
      BY <1>2 DEF StillJudged, Passed, VolumeJudged, GrowthJudged, Axes
    <2> QED BY <1>1, <1>4, <1>6, <1>10, <2>1, PassesStep
  <1> QED BY <1>5, <1>9, <1>10 DEF CheckVolume
----------------------------------------------------------------------------
(* Changes disturb the handlers that judged before them.                   *)

LEMMA Disturbed ==
    ASSUME ProjectsTypes, NEW h, NEW p, NEW more \in BOOLEAN, Disturb(h, p, more)
    PROVE  /\ job' \in [Handlers -> JobState]
           /\ \A g \in Handlers : job'[g].at = "write" =>
                /\ job[g] \in WriteJob /\ job[g].at = "write" /\ WritesItsKind(job'[g])
                /\ job'[g].req = job[g].req /\ job'[g].after = job[g].after
                /\ job'[g].blind = job[g].blind
                /\ ~job'[g].raced => ~job[g].raced /\ ~more
                /\ ~job'[g].stale => ~job[g].stale /\ job[g].req.p # p
  <1>1. job \in [Handlers -> JobState] /\ \A g \in Handlers : job[g].at = "write" => WritesItsKind(job[g])
    BY DEF ProjectsTypes, JobState
  <1> DEFINE next(g) == IF g = h THEN Idle
                        ELSE IF job[g].at # "write" THEN job[g]
                        ELSE [job[g] EXCEPT !.raced = @ \/ more, !.stale = @ \/ job[g].req.p = p]
  <1>2. job' = [g \in Handlers |-> next(g)]
    BY DEF Disturb
  <1>3. ASSUME NEW g \in Handlers
        PROVE  /\ next(g) \in JobState
               /\ next(g).at = "write" =>
                    /\ job[g] \in WriteJob /\ job[g].at = "write" /\ WritesItsKind(next(g))
                    /\ next(g).req = job[g].req /\ next(g).after = job[g].after
                    /\ next(g).blind = job[g].blind
                    /\ ~next(g).raced => ~job[g].raced /\ ~more
                    /\ ~next(g).stale => ~job[g].stale /\ job[g].req.p # p
    <2>1. CASE g = h
      BY <2>1 DEF JobState, Idle
    <2>2. CASE g # h /\ job[g].at # "write"
      BY <1>1, <2>2
    <2>3. CASE g # h /\ job[g].at = "write"
      <3> DEFINE j == job[g]
                 stale == j.stale \/ j.req.p = p
                 raced == j.raced \/ more
                 k == [j EXCEPT !.raced = raced, !.stale = stale]
      <3>1. j \in WriteJob /\ j.at = "write" /\ WritesItsKind(j)
        BY <1>1, <2>3 DEF JobState, Idle, CheckJob
      <3>2. stale \in BOOLEAN /\ raced \in BOOLEAN
        OBVIOUS
      <3> HIDE DEF j, stale, raced
      <3>3. k \in WriteJob
        BY <3>1, <3>2 DEF WriteJob
      <3>4. /\ k.at = "write" /\ k.req = j.req /\ k.after = j.after /\ k.blind = j.blind
            /\ k.raced = raced /\ k.stale = stale
        BY <3>1, <3>2 DEF WriteJob
      <3>5. WritesItsKind(k)
        BY <3>1, <3>4 DEF WritesItsKind
      <3>6. next(g) = k
        BY <2>3 DEF j, stale, raced
      <3> HIDE DEF k, next
      <3> QED BY <3>1, <3>3, <3>4, <3>5, <3>6 DEF JobState, j, stale, raced
    <2> QED BY <2>1, <2>2, <2>3
  <1> HIDE DEF next
  <1> QED BY <1>2, <1>3

\* A change that may use more leaves nothing of what was judged.
LEMMA RacedStep ==
    ASSUME ProjectsInv, NEW h, NEW p, Disturb(h, p, TRUE),
           plan' \in [Axes -> Nat], catalog' \subseteq Sizes,
           apps' \in [Slugs -> AppState \cup {None}], vols' \in [Slugs -> VolumeState],
           NEW axes \in SUBSET Axes, Excuse(axes),
           \A x \in Axes \ axes : Over(x, Usage(apps)[x])' => Over(x, Usage(apps)[x])
    PROVE  ProjectsInv'
  <1>1. /\ job' \in [Handlers -> JobState]
        /\ \A g \in Handlers : job'[g].at = "write" => WritesItsKind(job'[g]) /\ job'[g].raced
    BY Disturbed DEF ProjectsInv
  <1>2. OverForAReason' /\ excused' \subseteq Axes
    BY ExcusedStays DEF ProjectsInv
  <1>3. ProjectsTypes'
    BY <1>1, <1>2 DEF ProjectsTypes, JobState
  <1>4. \A g \in Handlers : StillJudged(job[g])'
    BY <1>1 DEF StillJudged
  <1> QED BY <1>2, <1>3, <1>4 DEF ProjectsInv

\* The usage after a change of Apps, and of Volumes.
LEMMA AppUsage ==
    ASSUME catalog' = catalog, vols' = vols
    PROVE  \A x \in Axes : Usage(apps)'[x] = Usage(apps')[x]
  <1>1. Sum(Volumes)' = Sum(Volumes)
    BY DEF Volumes, Sum, Units
  <1>2. \A as : /\ Usage(as)'.projects = Usage(as).projects
                /\ Usage(as)'.instances = Usage(as).instances
                /\ Usage(as)'.cpu = Usage(as).cpu
                /\ Usage(as)'.storage = Usage(as).storage
    BY <1>1, UsageNext, UsageFields
  <1> QED BY <1>2 DEF Axes

LEMMA VolumeUsage ==
    ASSUME UNCHANGED <<catalog, apps>>
    PROVE  /\ \A x \in Axes \ {"storage"} : Usage(apps)'[x] = Usage(apps)[x]
           /\ Usage(apps)'["storage"] = Sum(Volumes)' /\ Usage(apps)["storage"] = Sum(Volumes)
  BY UsageNext, UsageFields DEF Axes

LEMMA AppWritten ==
    ASSUME ProjectsInv, NEW h \in Handlers, job[h].at = "write", UNCHANGED <<plan, catalog, vols>>,
           \/ ~job[h].stale /\ OnApp(job[h].req)
           \/ job[h].req.kind = "create" /\ apps[job[h].req.p] = None,
           apps' = [apps EXCEPT ![job[h].req.p] = job[h].after],
           Disturb(h, job[h].req.p, TRUE),
           Excuse(IF job[h].raced THEN Axes ELSE job[h].blind)
    PROVE  ProjectsInv'
  <1> DEFINE j == job[h]
             p == j.req.p
             axes == IF j.raced THEN Axes ELSE j.blind
  <1>1. j \in WriteJob /\ j.req \in Requests /\ p \in Slugs /\ StillJudged(j)
    BY JobParts, RequestParts DEF ProjectsInv
  <1>2. j.after \in AppState
    BY DEF ProjectsInv, ProjectsTypes, WritesItsKind
  <1>3. axes \in SUBSET Axes /\ j.raced \in BOOLEAN
    BY <1>1 DEF WriteJob
  <1>4. apps \in [Slugs -> AppState \cup {None}] /\ apps' \in [Slugs -> AppState \cup {None}]
    BY <1>1, <1>2 DEF ProjectsInv, ProjectsTypes
  <1>5. plan \in [Axes -> Nat] /\ plan' = plan /\ ProjectsTypes
    BY DEF ProjectsInv, ProjectsTypes
  <1>6. \A x \in Axes : Usage(apps)'[x] = Usage(apps')[x]
    BY AppUsage
  <1>7. \A x \in Axes : Usage(apps)[x] \in Nat /\ Usage(apps')[x] \in Nat
    BY <1>4, <1>5, UsageTypes
  <1>8. \A x \in Axes : Over(x, Usage(apps)[x])' <=> Over(x, Usage(apps')[x])
    BY <1>5, <1>6 DEF Over
  <1>9. ASSUME NEW x \in Axes \ axes, Over(x, Usage(apps')[x]) PROVE Over(x, Usage(apps)[x])
    <2>1. ~j.raced /\ x \notin j.blind /\ x \in Axes
      OBVIOUS
    <2>2. Usage(apps')[x] <= Usage(apps)[x] => Over(x, Usage(apps)[x])
      BY <1>5, <1>7, <1>9, <2>1, OverLess
    <2>3. CASE x = "storage"
      <3>1. Usage(apps').storage = Usage(apps).storage
        BY UsageFields
      <3> QED BY <1>9, <2>3, <3>1
    <2>4. CASE ~j.stale /\ OnApp(j.req)
      <3>1. AppJudged(j)
        BY <1>1, <2>1, <2>4 DEF StillJudged
      <3>2. x \notin Compute
        BY <1>9, <2>1, <3>1 DEF AppJudged
      <3>3. CASE x = "projects"
        <4>1. apps[p] # None
          BY <3>1 DEF AppJudged
        <4>2. Existing(apps') \subseteq Existing(apps)
          BY <1>1, <1>4, <4>1 DEF Existing
        <4>3. Cardinality(Existing(apps')) <= Cardinality(Existing(apps))
          BY <4>2, FiniteSlugs, FS_Subset
        <4>4. Usage(apps').projects <= Usage(apps).projects
          BY <4>3, UsageFields
        <4> QED BY <2>2, <3>3, <4>4
      <3> QED BY <2>1, <2>3, <3>2, <3>3 DEF Axes, Compute
    <2>5. CASE j.req.kind = "create" /\ apps[p] = None
      <3>1. CreateJudged(j)
        BY <1>1, <2>1, <2>5 DEF StillJudged
      <3>2. CASE x = "projects"
        <4>1. Existing(apps') \subseteq Existing(apps) \cup {p}
          BY <1>1, <1>4 DEF Existing
        <4>2. p \notin Existing(apps) /\ IsFiniteSet(Existing(apps)) /\ Cardinality(Existing(apps)) \in Nat
          BY <2>5, FiniteSlugs DEF Existing
        <4>3. /\ IsFiniteSet(Existing(apps) \cup {p})
              /\ Cardinality(Existing(apps) \cup {p}) = Cardinality(Existing(apps)) + 1
          BY <4>2, FS_AddElement
        <4>4. Cardinality(Existing(apps')) <= Cardinality(Existing(apps)) + 1
          <5>1. Cardinality(Existing(apps')) <= Cardinality(Existing(apps) \cup {p})
            BY <4>1, <4>3, FS_Subset
          <5> QED BY <4>3, <5>1
        <4>5. Usage(apps')["projects"] <= Usage(apps)["projects"] + 1
          BY <4>4, UsageFields
        <4>6. Usage(apps)["projects"] + 1 \in Int /\ Usage(apps')["projects"] \in Int
          BY <1>7 DEF Axes
        <4>7. Over("projects", Usage(apps)["projects"] + 1)
          BY <1>5, <1>9, <3>2, <4>5, <4>6, OverLess DEF Axes
        <4>8. ~Over("projects", Usage(apps)["projects"] + 1)
          BY <2>1, <3>1, <3>2 DEF CreateJudged
        <4> QED BY <4>7, <4>8
      <3>3. CASE x \in Compute
        <4>1. ~j.after.deployed
          BY <2>1, <3>1, <3>3 DEF CreateJudged
        <4>2. \A q \in Slugs : apps'[q] = apps[q] \/ apps'[q] = None \/ ~apps'[q].deployed
          BY <1>1, <1>4, <4>1
        <4>3. Usage(apps')[x] <= Usage(apps)[x]
          BY <1>4, <1>5, <3>3, <4>2, ComputeGrows
        <4> QED BY <2>2, <4>3
      <3> QED BY <2>1, <2>3, <3>2, <3>3 DEF Axes, Compute
    <2> QED BY <2>4, <2>5
  <1>10. Excuse(axes)
    OBVIOUS
  <1> HIDE DEF axes
  <1>11. \A x \in Axes \ axes : Over(x, Usage(apps)[x])' => Over(x, Usage(apps)[x])
    BY <1>8, <1>9
  <1>12. catalog' \subseteq Sizes /\ vols' \in [Slugs -> VolumeState] /\ plan' \in [Axes -> Nat]
    BY DEF ProjectsInv, ProjectsTypes
  <1> QED BY <1>3, <1>4, <1>10, <1>11, <1>12, RacedStep

LEMMA VolumeWritten ==
    ASSUME ProjectsInv, NEW h \in Handlers, job[h].at = "write", UNCHANGED <<plan, catalog, apps>>,
           \/ ~job[h].stale /\ job[h].req.kind = "grow"
           \/ job[h].req.kind = "volume" /\ vols[job[h].req.p].size = 0,
           vols' = [vols EXCEPT ![job[h].req.p] = job[h].after],
           Disturb(h, job[h].req.p, TRUE),
           Excuse(IF job[h].raced THEN Axes ELSE job[h].blind)
    PROVE  ProjectsInv'
  <1> DEFINE j == job[h]
             p == j.req.p
             axes == IF j.raced THEN Axes ELSE j.blind
  <1>1. j \in WriteJob /\ j.req \in Requests /\ p \in Slugs /\ StillJudged(j)
    BY JobParts, RequestParts DEF ProjectsInv
  <1>2. j.after \in VolumeState
    BY DEF ProjectsInv, ProjectsTypes, WritesItsKind, OnVolume
  <1>3. axes \in SUBSET Axes /\ j.raced \in BOOLEAN
    BY <1>1 DEF WriteJob
  <1>4. vols \in [Slugs -> VolumeState] /\ vols' \in [Slugs -> VolumeState]
    BY <1>1, <1>2 DEF ProjectsInv, ProjectsTypes
  <1>5. plan' = plan /\ ProjectsTypes
    BY DEF ProjectsInv
  <1>6. /\ \A x \in Axes \ {"storage"} : Usage(apps)'[x] = Usage(apps)[x]
        /\ Usage(apps)'["storage"] = Sum(Volumes)' /\ Usage(apps)["storage"] = Sum(Volumes)
    BY VolumeUsage
  <1>7. Sum(Volumes)' = Sum(Volumes) + (j.after.size - vols[p].size)
    BY <1>1, <1>2, <1>4, <1>5, StorageChanges
  <1>8. ASSUME NEW x \in Axes \ axes, Over(x, Usage(apps)[x])' PROVE Over(x, Usage(apps)[x])
    <2>1. ~j.raced /\ x \notin j.blind
      OBVIOUS
    <2>2. CASE x # "storage"
      BY <1>5, <1>6, <1>8, <2>2 DEF Over
    <2>3. CASE x = "storage"
      <3>1. Over("storage", Sum(Volumes) + (j.after.size - vols[p].size))
        BY <1>5, <1>6, <1>7, <1>8, <2>3 DEF Over
      <3>2. CASE ~j.stale /\ j.req.kind = "grow"
        <4>1. GrowthJudged(j)
          BY <1>1, <2>1, <3>2 DEF StillJudged
        <4> QED BY <1>6, <2>1, <2>3, <3>1, <4>1 DEF GrowthJudged
      <3>3. CASE j.req.kind = "volume" /\ vols[p].size = 0
        <4>1. VolumeJudged(j)
          BY <1>1, <2>1, <3>3 DEF StillJudged
        <4>2. j.after.size - vols[p].size = j.after.size
          BY <1>2, <3>3 DEF VolumeState
        <4> QED BY <1>6, <2>1, <2>3, <3>1, <4>1, <4>2 DEF VolumeJudged
      <3> QED BY <3>2, <3>3
    <2> QED BY <2>2, <2>3
  <1>9. Excuse(axes)
    OBVIOUS
  <1> HIDE DEF axes
  <1>10. /\ catalog' \subseteq Sizes /\ apps' \in [Slugs -> AppState \cup {None}]
         /\ plan' \in [Axes -> Nat]
    BY DEF ProjectsInv, ProjectsTypes
  <1> QED BY <1>3, <1>4, <1>8, <1>9, <1>10, RacedStep
----------------------------------------------------------------------------
(* Changes that use less, of the project q.                                *)

LEMMA LessUsed ==
    ASSUME ProjectsInv, UNCHANGED <<plan, catalog>>, NEW q,
           apps' \in [Slugs -> AppState \cup {None}], vols' \in [Slugs -> VolumeState],
           \A p \in Slugs : /\ apps'[p] = apps[p] \/ (p = q /\ apps'[p] = None)
                            /\ vols'[p] = vols[p] \/ (p = q /\ vols'[p].size <= vols[p].size)
    PROVE  /\ Sum(Volumes) \in Nat /\ Sum(Volumes)' \in Nat /\ Sum(Volumes)' <= Sum(Volumes)
           /\ Usage(apps).projects \in Nat /\ Usage(apps)'.projects \in Nat
           /\ Usage(apps)'.projects <= Usage(apps).projects
           /\ \A x \in Axes : Over(x, Usage(apps)[x])' => Over(x, Usage(apps)[x])
  <1>1. ProjectsTypes /\ plan \in [Axes -> Nat] /\ apps \in [Slugs -> AppState \cup {None}]
    BY DEF ProjectsInv, ProjectsTypes
  <1>2. \A p \in Slugs : vols'[p].size <= vols[p].size
    <2>1. \A n \in Nat : n <= n
      OBVIOUS
    <2>2. \A p \in Slugs : vols[p].size \in Nat
      BY <1>1 DEF ProjectsTypes, VolumeState
    <2> QED BY <2>1, <2>2
  <1>3. Sum(Volumes) \in Nat /\ Sum(Volumes)' \in Nat /\ Sum(Volumes)' <= Sum(Volumes)
    BY <1>1, <1>2, StorageShrinks
  <1>4. /\ \A x \in Axes : Usage(apps')[x] <= Usage(apps)[x]
        /\ \A x \in Axes : Usage(apps)[x] \in Nat /\ Usage(apps')[x] \in Nat
    BY <1>1, UsageGrows, UsageTypes
  <1>5. \A as : /\ Usage(as)'.projects = Usage(as).projects
                /\ Usage(as)'.instances = Usage(as).instances
                /\ Usage(as)'.cpu = Usage(as).cpu
                /\ Usage(as)'.storage = Sum(Volumes)'
    BY UsageNext
  <1>6. /\ Usage(apps)'["projects"] = Usage(apps')["projects"]
        /\ Usage(apps)'["instances"] = Usage(apps')["instances"]
        /\ Usage(apps)'["cpu"] = Usage(apps')["cpu"]
        /\ Usage(apps)'["storage"] = Sum(Volumes)' /\ Usage(apps)["storage"] = Sum(Volumes)
    BY <1>5, UsageFields
  <1>7. ASSUME NEW x \in Axes
        PROVE  /\ Usage(apps)[x] \in Int /\ Usage(apps)'[x] \in Int
               /\ Usage(apps)'[x] <= Usage(apps)[x]
    BY <1>3, <1>4, <1>6 DEF Axes
  <1>8. ASSUME NEW x \in Axes, Over(x, Usage(apps)[x])' PROVE Over(x, Usage(apps)[x])
    <2>1. Over(x, Usage(apps)'[x])
      BY <1>8 DEF Over
    <2> QED BY <1>1, <1>7, <2>1, OverLess
  <1>9. Usage(apps)["projects"] \in Nat /\ Usage(apps)'["projects"] \in Nat
        /\ Usage(apps)'["projects"] <= Usage(apps)["projects"]
    BY <1>4, <1>6 DEF Axes
  <1> QED BY <1>3, <1>8, <1>9

LEMMA ShrinkStep ==
    ASSUME ProjectsInv, UNCHANGED <<plan, catalog>>, NEW h, NEW q, Disturb(h, q, FALSE),
           apps' \in [Slugs -> AppState \cup {None}], vols' \in [Slugs -> VolumeState],
           \A p \in Slugs : /\ apps'[p] = apps[p] \/ (p = q /\ apps'[p] = None)
                            /\ vols'[p] = vols[p] \/ (p = q /\ vols'[p].size <= vols[p].size),
           Excuse({}) \/ excused' = excused
    PROVE  ProjectsInv'
  <1>1. ProjectsTypes /\ plan \in [Axes -> Nat] /\ apps \in [Slugs -> AppState \cup {None}]
    BY DEF ProjectsInv, ProjectsTypes
  <1>2. /\ Sum(Volumes) \in Nat /\ Sum(Volumes)' \in Nat /\ Sum(Volumes)' <= Sum(Volumes)
        /\ Usage(apps).projects \in Nat /\ Usage(apps)'.projects \in Nat
        /\ Usage(apps)'.projects <= Usage(apps).projects
        /\ \A x \in Axes : Over(x, Usage(apps)[x])' => Over(x, Usage(apps)[x])
    BY LessUsed
  <1>3. OverForAReason' /\ excused' \subseteq Axes
    <2>1. CASE Excuse({})
      <3>1. {} \in SUBSET Axes
        OBVIOUS
      <3> QED BY <1>2, <2>1, <3>1, ExcusedStays DEF ProjectsInv
    <2>2. CASE excused' = excused
      <3>1. \A x \in Axes : x \in Beyond(plan, Usage(apps), Axes)' <=> Over(x, Usage(apps)[x])'
        BY DEF Beyond, Over
      <3>2. \A x \in Axes : x \in Beyond(plan, Usage(apps), Axes) <=> Over(x, Usage(apps)[x])
        BY DEF Beyond, Over
      <3>3. Beyond(plan, Usage(apps), Axes)' \subseteq Axes
        BY DEF Beyond
      <3>4. Beyond(plan, Usage(apps), Axes)' \subseteq Beyond(plan, Usage(apps), Axes)
        BY <1>2, <3>1, <3>2, <3>3
      <3> QED BY <1>1, <2>2, <3>4 DEF ProjectsInv, OverForAReason, ProjectsTypes
    <2> QED BY <2>1, <2>2
  <1>4. /\ job' \in [Handlers -> JobState]
        /\ \A g \in Handlers : job'[g].at = "write" =>
             /\ job[g] \in WriteJob /\ job[g].at = "write" /\ WritesItsKind(job'[g])
             /\ job'[g].req = job[g].req /\ job'[g].after = job[g].after
             /\ job'[g].blind = job[g].blind
             /\ ~job'[g].raced => ~job[g].raced
             /\ ~job'[g].stale => ~job[g].stale /\ job[g].req.p # q
    <2>1. PICK more \in BOOLEAN : more = FALSE /\ Disturb(h, q, more)
      OBVIOUS
    <2> QED BY <1>1, <2>1, Disturbed
  <1>5. ProjectsTypes'
    BY <1>1, <1>3, <1>4 DEF ProjectsTypes, JobState
  <1>6. ASSUME NEW g \in Handlers PROVE StillJudged(job[g])'
    <2>1. SUFFICES ASSUME NEW j, j = job'[g], j.at = "write", ~j.raced PROVE StillJudged(j)'
      BY DEF StillJudged
    <2>2. /\ job[g] \in WriteJob /\ job[g].at = "write" /\ WritesItsKind(j)
          /\ j.req = job[g].req /\ j.after = job[g].after /\ j.blind = job[g].blind
          /\ ~job[g].raced
          /\ ~j.stale => ~job[g].stale /\ j.req.p # q
      BY <1>4, <2>1
    <2>3. StillJudged(job[g]) /\ j.req.p \in Slugs /\ j.req \in Requests
      BY <1>1, <2>2, JobParts, RequestParts DEF ProjectsInv
    <2>4. CASE j.req.kind = "create"
      <3>1. CreateJudged(job[g]) /\ ~OnApp(j.req)
        BY <2>2, <2>3, <2>4 DEF StillJudged, OnApp
      <3>2. ASSUME Over("projects", Usage(apps).projects + 1)' PROVE Over("projects", Usage(apps).projects + 1)
        <4>1. Over("projects", Usage(apps)'.projects + 1)
          BY <3>2 DEF Over
        <4>2. Usage(apps)'.projects + 1 <= Usage(apps).projects + 1
          BY <1>2
        <4> QED BY <1>1, <1>2, <4>1, <4>2, OverLess DEF Axes
      <3>3. CreateJudged(j)'
        BY <2>2, <3>1, <3>2 DEF CreateJudged
      <3> QED BY <2>4, <3>1, <3>3 DEF StillJudged
    <2>5. CASE OnApp(j.req)
      <3> DEFINE p == j.req.p
                 as == [apps EXCEPT ![p] = j.after]
                 bs == [apps' EXCEPT ![p] = j.after]
      <3>1. SUFFICES ASSUME ~j.stale PROVE AppJudged(j)'
        BY <2>3, <2>5, RequestParts DEF StillJudged, OnVolume
      <3>2. AppJudged(job[g]) /\ p # q
        BY <2>2, <2>3, <2>5, <3>1 DEF StillJudged
      <3>3. apps[p] # None /\ apps'[p] = apps[p] /\ j.after \in AppState
        BY <2>2, <2>3, <2>5, <3>2 DEF AppJudged, WritesItsKind
      <3>4. as \in [Slugs -> AppState \cup {None}] /\ bs \in [Slugs -> AppState \cup {None}]
        BY <1>1, <3>3
      <3>5. \A s \in Slugs : bs[s] = as[s] \/ bs[s] = None
        BY <1>1, <2>3
      <3> HIDE DEF as, bs
      <3>6. \A x \in Axes : Usage(bs)[x] <= Usage(as)[x] /\ Usage(bs)[x] \in Nat /\ Usage(as)[x] \in Nat
        BY <1>1, <3>4, <3>5, UsageGrows, UsageTypes
      <3>7. \A cs : Usage(cs)'.instances = Usage(cs).instances /\ Usage(cs)'.cpu = Usage(cs).cpu
        BY UsageNext
      <3>8. ASSUME NEW x \in Compute \ j.blind
            PROVE  ~Over(x, Usage([apps EXCEPT ![p] = j.after])[x])'
        <4>1. ~Over(x, Usage(as)[x])
          BY <2>2, <3>2 DEF AppJudged, as
        <4>2. x \in Axes
          BY DEF Compute, Axes
        <4>3. ~Over(x, Usage(bs)[x])
          <5> DEFINE m == Usage(bs)[x]
                     n == Usage(as)[x]
          <5>1. m <= n /\ m \in Nat /\ n \in Nat
            BY <3>6, <4>2
          <5>2. ~Over(x, n)
            BY <4>1
          <5> HIDE DEF m, n
          <5>3. m \in Int /\ n \in Int
            BY <5>1
          <5>4. ~Over(x, m)
            BY <1>1, <4>2, <5>1, <5>2, <5>3, OverLess
          <5> QED BY <5>4 DEF m
        <4>4. Usage([apps EXCEPT ![p] = j.after])'[x] = Usage(bs)[x]
          BY <3>7 DEF bs, Compute
        <4> QED BY <4>3, <4>4 DEF Over
      <3> QED BY <3>3, <3>8 DEF AppJudged
    <2>6. CASE OnVolume(j.req)
      <3>1. j.req.kind # "create" /\ ~OnApp(j.req) /\ j.after.size \in Nat
        BY <2>2, <2>3, <2>6, RequestParts DEF WritesItsKind, VolumeState
      <3>2. Usage(apps)'.storage = Sum(Volumes)' /\ Usage(apps).storage = Sum(Volumes)
        <4>1. \A as : Usage(as)'.storage = Sum(Volumes)'
          BY UsageNext
        <4> QED BY <4>1, UsageFields
      <3>3. ASSUME j.req.kind = "volume" PROVE VolumeJudged(j)'
        <4>1. VolumeJudged(job[g])
          BY <2>2, <2>3, <3>3 DEF StillJudged
        <4>2. ASSUME Over("storage", Usage(apps).storage + j.after.size)'
              PROVE  Over("storage", Usage(apps).storage + j.after.size)
          <5>1. Over("storage", Sum(Volumes)' + j.after.size)
            BY <3>2, <4>2 DEF Over
          <5>2. Sum(Volumes)' + j.after.size <= Sum(Volumes) + j.after.size
            BY <1>2, <3>1
          <5>3. Over("storage", Sum(Volumes) + j.after.size)
            BY <1>1, <1>2, <3>1, <5>1, <5>2, OverLess DEF Axes
          <5> QED BY <3>2, <5>3
        <4> QED BY <2>2, <4>1, <4>2 DEF VolumeJudged
      <3>4. ASSUME j.req.kind = "grow", ~j.stale PROVE GrowthJudged(j)'
        <4> DEFINE d == j.after.size - vols[j.req.p].size
        <4>1. GrowthJudged(job[g]) /\ j.req.p # q
          BY <2>2, <2>3, <3>4 DEF StillJudged
        <4>2. vols'[j.req.p] = vols[j.req.p] /\ d \in Int
          BY <1>1, <2>3, <3>1, <4>1 DEF ProjectsTypes, VolumeState
        <4>3. ASSUME Over("storage", Usage(apps).storage + (j.after.size - vols[j.req.p].size))'
              PROVE  Over("storage", Usage(apps).storage + d)
          <5>1. Over("storage", Sum(Volumes)' + d)
            BY <3>2, <4>2, <4>3 DEF Over
          <5> HIDE DEF d
          <5>2. Sum(Volumes)' + d <= Sum(Volumes) + d
            BY <1>2, <4>2
          <5>3. Over("storage", Sum(Volumes) + d)
            BY <1>1, <1>2, <4>2, <5>1, <5>2, OverLess DEF Axes
          <5> QED BY <3>2, <5>3
        <4> QED BY <2>2, <4>1, <4>3 DEF GrowthJudged
      <3> QED BY <2>6, <3>1, <3>3, <3>4 DEF StillJudged, OnVolume
    <2> QED BY <2>3, <2>4, <2>5, <2>6, RequestParts
  <1> QED BY <1>3, <1>5, <1>6 DEF ProjectsInv
----------------------------------------------------------------------------
(* Every step.                                                             *)

LEMMA BeginKeeps ==
    ASSUME ProjectsInv, NEW h \in Handlers, NEW r \in Requests, Begin(h, r)
    PROVE  ProjectsInv'
  BY IdleStep DEF Begin, CheckJob

LEMMA WriteKeeps ==
    ASSUME ProjectsInv, NEW h \in Handlers, Write(h)
    PROVE  ProjectsInv'
  <1> DEFINE j == job[h]
             p == j.req.p
             axes == IF j.raced THEN Axes ELSE j.blind
  <1>1. j.at = "write" /\ j.req \in Requests /\ UNCHANGED <<plan, catalog>>
    BY JobParts DEF Write, ProjectsInv
  <1>2. CASE job' = [job EXCEPT ![h] = [at |-> "check", req |-> j.req]] /\ UNCHANGED <<apps, vols, excused>>
    BY <1>1, <1>2, IdleStep DEF CheckJob
  <1>3. CASE Answers(h) /\ UNCHANGED <<apps, vols, excused>>
    BY <1>1, <1>3, IdleStep DEF Answers
  <1>4. CASE /\ (~j.stale /\ OnApp(j.req)) \/ (j.req.kind = "create" /\ apps[p] = None)
             /\ apps' = [apps EXCEPT ![p] = j.after] /\ Disturb(h, p, TRUE) /\ UNCHANGED vols
             /\ Excuse(axes)
    BY <1>1, <1>4, AppWritten
  <1>5. CASE /\ (~j.stale /\ j.req.kind = "grow") \/ (j.req.kind = "volume" /\ vols[p].size = 0)
             /\ vols' = [vols EXCEPT ![p] = j.after] /\ Disturb(h, p, TRUE) /\ UNCHANGED apps
             /\ Excuse(axes)
    BY <1>1, <1>5, VolumeWritten
  <1> QED BY <1>2, <1>3, <1>4, <1>5 DEF Write

LEMMA DestroyKeeps ==
    ASSUME ProjectsInv, NEW p \in Slugs, Destroy(p)
    PROVE  ProjectsInv'
  <1>1. apps \in [Slugs -> AppState \cup {None}] /\ vols \in [Slugs -> VolumeState]
    BY DEF ProjectsInv, ProjectsTypes
  <1>2. apps' = [apps EXCEPT ![p] = None] /\ vols' = [vols EXCEPT ![p] = NoVolume]
    BY DEF Destroy
  <1>3. NoVolume \in VolumeState /\ NoVolume.size <= vols[p].size
    BY <1>1 DEF NoVolume, VolumeState
  <1>4. apps' \in [Slugs -> AppState \cup {None}] /\ vols' \in [Slugs -> VolumeState]
    BY <1>1, <1>2, <1>3
  <1>5. \A s \in Slugs : /\ apps'[s] = apps[s] \/ (s = p /\ apps'[s] = None)
                         /\ vols'[s] = vols[s] \/ (s = p /\ vols'[s].size <= vols[s].size)
    BY <1>1, <1>2, <1>3
  <1> QED BY <1>4, <1>5, ShrinkStep DEF Destroy

LEMMA RemoveVolumeKeeps ==
    ASSUME ProjectsInv, NEW p \in Slugs, RemoveVolume(p)
    PROVE  ProjectsInv'
  <1>1. apps \in [Slugs -> AppState \cup {None}] /\ vols \in [Slugs -> VolumeState]
    BY DEF ProjectsInv, ProjectsTypes
  <1>2. apps' = apps /\ vols' = [vols EXCEPT ![p] = NoVolume]
    BY DEF RemoveVolume
  <1>3. NoVolume \in VolumeState /\ NoVolume.size <= vols[p].size
    BY <1>1 DEF NoVolume, VolumeState
  <1>4. apps' \in [Slugs -> AppState \cup {None}] /\ vols' \in [Slugs -> VolumeState]
    BY <1>1, <1>2, <1>3
  <1>5. \A s \in Slugs : /\ apps'[s] = apps[s] \/ (s = p /\ apps'[s] = None)
                         /\ vols'[s] = vols[s] \/ (s = p /\ vols'[s].size <= vols[s].size)
    BY <1>1, <1>2, <1>3
  <1> QED BY <1>4, <1>5, ShrinkStep DEF RemoveVolume

LEMMA ExpandKeeps ==
    ASSUME ProjectsInv, NEW p \in Slugs, Expand(p)
    PROVE  ProjectsInv'
  <1>1. apps \in [Slugs -> AppState \cup {None}] /\ vols \in [Slugs -> VolumeState]
    BY DEF ProjectsInv, ProjectsTypes
  <1> DEFINE v == [vols[p] EXCEPT !.capacity = vols[p].size]
  <1>2. apps' = apps /\ vols' = [vols EXCEPT ![p] = v]
    BY DEF Expand
  <1>3. v \in VolumeState /\ v.size <= vols[p].size
    BY <1>1 DEF VolumeState
  <1> HIDE DEF v
  <1>4. apps' \in [Slugs -> AppState \cup {None}] /\ vols' \in [Slugs -> VolumeState]
    BY <1>1, <1>2, <1>3
  <1>5. \A s \in Slugs : /\ apps'[s] = apps[s] \/ (s = p /\ apps'[s] = None)
                         /\ vols'[s] = vols[s] \/ (s = p /\ vols'[s].size <= vols[s].size)
    BY <1>1, <1>2, <1>3
  <1> QED BY <1>4, <1>5, ShrinkStep DEF Expand

LEMMA SetPlanKeeps ==
    ASSUME ProjectsInv, NEW l \in Plans, SetPlan(l)
    PROVE  ProjectsInv'
  <1>1. plan' \in [Axes -> Nat]
    BY PlansAssumption DEF SetPlan
  <1>2. /\ catalog' \subseteq Sizes /\ apps' \in [Slugs -> AppState \cup {None}]
        /\ vols' \in [Slugs -> VolumeState]
    BY DEF SetPlan, ProjectsInv, ProjectsTypes
  <1>3. Axes \in SUBSET Axes /\ Axes \ Axes = {}
    OBVIOUS
  <1> QED BY <1>1, <1>2, <1>3, RacedStep DEF SetPlan

\* The catalog says what CPU a size has, and nothing else of the usage.
LEMMA SetCatalogKeeps ==
    ASSUME ProjectsInv, NEW c \in SUBSET Sizes, SetCatalog(c)
    PROVE  ProjectsInv'
  <1>1. /\ plan' \in [Axes -> Nat] /\ plan' = plan
        /\ catalog' \subseteq Sizes /\ apps' \in [Slugs -> AppState \cup {None}]
        /\ vols' \in [Slugs -> VolumeState]
    BY DEF SetCatalog, ProjectsInv, ProjectsTypes
  <1>2. apps' = apps /\ vols' = vols
    BY DEF SetCatalog
  <1>3. /\ Usage(apps)'.projects = Usage(apps).projects
        /\ Usage(apps)'.instances = Usage(apps).instances
        /\ Usage(apps)'.storage = Usage(apps).storage
    BY <1>2 DEF Usage, Existing, Instances, Sum, Units
  <1>4. \A x \in Axes \ {"cpu"} : Usage(apps)'[x] = Usage(apps)[x]
    BY <1>3 DEF Axes
  <1>5. \A x \in Axes \ {"cpu"} : Over(x, Usage(apps)[x])' => Over(x, Usage(apps)[x])
    BY <1>1, <1>4 DEF Over
  <1>6. {"cpu"} \in SUBSET Axes
    BY DEF Axes
  <1> QED BY <1>1, <1>5, <1>6, RacedStep DEF SetCatalog

LEMMA CrashKeeps ==
    ASSUME ProjectsInv, Crash
    PROVE  ProjectsInv'
  <1>1. job' \in [Handlers -> JobState] /\ \A g \in Handlers : job'[g].at # "write"
    BY DEF Crash, JobState, Idle
  <1> QED BY <1>1, QuietStep DEF Crash

LEMMA ProjectsInvInit == ProjectsInit => ProjectsInv
  <1> SUFFICES ASSUME ProjectsInit PROVE ProjectsInv
    OBVIOUS
  <1>1. plan \in [Axes -> Nat]
    BY PlansAssumption DEF ProjectsInit
  <1>2. job \in [Handlers -> JobState] /\ \A h \in Handlers : job[h].at # "write"
    BY DEF ProjectsInit, JobState, Idle
  <1>3. vols \in [Slugs -> VolumeState] /\ \A p \in Slugs : vols[p].size = 0
    BY DEF ProjectsInit, NoVolume, VolumeState
  <1>4. ProjectsTypes
    BY <1>1, <1>2, <1>3 DEF ProjectsInit, ProjectsTypes, JobState
  <1>5. Existing(apps) = {}
    BY DEF ProjectsInit, Existing
  <1>6. /\ Units([p \in Existing(apps) |-> Instances(apps[p])]) = {}
        /\ Units([p \in Existing(apps) |-> Cpu(apps[p])]) = {}
    BY <1>5 DEF Units
  <1>7. Units(Volumes) = {}
    BY <1>3 DEF Units, Volumes
  <1>8. Cardinality({}) = 0
    BY FS_EmptySet
  <1>9. /\ Usage(apps).projects = 0 /\ Usage(apps).instances = 0
        /\ Usage(apps).cpu = 0 /\ Usage(apps).storage = 0
    BY <1>5, <1>6, <1>7, <1>8, UsageFields DEF Sum
  <1>10. \A x \in Axes : Usage(apps)[x] = 0 /\ plan[x] \in Nat
    BY <1>1, <1>9 DEF Axes
  <1>11. Beyond(plan, Usage(apps), Axes) = {}
    BY <1>10 DEF Beyond
  <1> QED BY <1>2, <1>4, <1>11 DEF ProjectsInv, OverForAReason, StillJudged

LEMMA ProjectsInvNext == ProjectsInv /\ [ProjectsNext]_projectsVars => ProjectsInv'
  <1> SUFFICES ASSUME ProjectsInv, [ProjectsNext]_projectsVars PROVE ProjectsInv'
    OBVIOUS
  <1>1. ASSUME UNCHANGED <<plan, catalog, apps, vols, excused, job>> PROVE ProjectsInv'
    <2>1. job' \in [Handlers -> JobState] /\ \A g \in Handlers : job'[g] = job[g]
      BY <1>1 DEF ProjectsInv, ProjectsTypes, JobState
    <2> QED BY <1>1, <2>1, QuietStep
  <1>2. ASSUME NEW h \in Handlers, NEW r \in Requests, Begin(h, r) PROVE ProjectsInv'
    BY <1>2, BeginKeeps
  <1>3. ASSUME NEW h \in Handlers, CheckCreate(h) PROVE ProjectsInv'
    BY <1>3, CheckCreateKeeps
  <1>4. ASSUME NEW h \in Handlers, CheckApp(h) PROVE ProjectsInv'
    BY <1>4, CheckAppKeeps
  <1>5. ASSUME NEW h \in Handlers, CheckVolume(h) PROVE ProjectsInv'
    BY <1>5, CheckVolumeKeeps
  <1>6. ASSUME NEW h \in Handlers, Write(h) PROVE ProjectsInv'
    BY <1>6, WriteKeeps
  <1>7. ASSUME NEW h \in Handlers, WriteFails(h) PROVE ProjectsInv'
    BY <1>7, IdleStep DEF WriteFails, Answers
  <1>8. ASSUME NEW p \in Slugs, Destroy(p) PROVE ProjectsInv'
    BY <1>8, DestroyKeeps
  <1>9. ASSUME NEW p \in Slugs, RemoveVolume(p) PROVE ProjectsInv'
    BY <1>9, RemoveVolumeKeeps
  <1>10. ASSUME NEW p \in Slugs, Expand(p) PROVE ProjectsInv'
    BY <1>10, ExpandKeeps
  <1>11. ASSUME NEW p \in Slugs, Sync(p) \/ Reconcile(p) \/ ReconcileUnplanned(p) PROVE ProjectsInv'
    BY <1>1, <1>11 DEF Sync, Reconcile, ReconcileUnplanned
  <1>12. ASSUME NEW l \in Plans, SetPlan(l) PROVE ProjectsInv'
    BY <1>12, SetPlanKeeps
  <1>13. ASSUME NEW c \in SUBSET Sizes, SetCatalog(c) PROVE ProjectsInv'
    BY <1>13, SetCatalogKeeps
  <1>14. CASE Expire \/ UNCHANGED projectsVars
    BY <1>1, <1>14 DEF Expire, projectsVars
  <1>15. CASE Crash
    BY <1>15, CrashKeeps
  <1> QED BY <1>2, <1>3, <1>4, <1>5, <1>6, <1>7, <1>8, <1>9, <1>10, <1>11, <1>12, <1>13,
             <1>14, <1>15 DEF ProjectsNext

(***************************************************************************)
(* What a handler judged stays within the plan until it writes, unless it  *)
(* could not judge it or a change that uses more was written in between:   *)
(* of what plan.go checks, and of the object's version in mutateApp.       *)
(***************************************************************************)
THEOREM ProjectsInvHolds == ProjectsSpec => []ProjectsInv
  <1> QED BY ProjectsInvInit, ProjectsInvNext, PTL DEF ProjectsSpec

(***************************************************************************)
(* For any projects, plans and number of handlers, a workspace is over its *)
(* plan on an axis only for a reason (plan.go, apps.go, volumes.go).       *)
(***************************************************************************)
THEOREM OverHolds == ProjectsSpec => []OverForAReason
  <1>1. ProjectsInv => OverForAReason
    BY DEF ProjectsInv
  <1> QED BY <1>1, ProjectsInvHolds, PTL
=============================================================================
