------------------------------ MODULE Accounts ------------------------------
(***************************************************************************)
(* Organizations, their teams and tokens, users, and the roles of teams on *)
(* workspaces (organization, team, user, tokens, workspace/policy.go).     *)
(*                                                                         *)
(* A request is authenticated first: its subject is read from the tables,  *)
(* with the teams it belongs to.  Everything the request does later is     *)
(* authorized for the subject as it was then.                              *)
(***************************************************************************)
EXTENDS Requests, Authz

CONSTANTS
  User, Team, Org, TeamName, Token,
  SiteAdmin,   \* the built-in account that the site token stands for
  Home,        \* the organization of the workspaces
  RestrictOrganizationCreation

ASSUME AccountsAssumption ==
  /\ SiteAdmin \in User /\ Home \in Org /\ "owners" \in TeamName /\ RestrictOrganizationCreation \in BOOLEAN
  /\ NoOne \notin Org
  /\ IsFiniteSet(User)

VARIABLES
  organizations,  \* table organizations: the names
  users,          \* table users: the names
  admins,         \* column site_admin of table users
  teams,          \* table teams
  members,        \* table team_memberships
  roles,          \* table workspace_permissions
  tokens          \* tables tokens, team_tokens and organization_tokens: whose

accountVars == <<organizations, users, admins, teams, members, roles, tokens>>

\* Ids are not used again: a team or a token is unused, then there, then gone.
UnusedTeam == [name |-> "unused", organization |-> NoOne, manage |-> {}]
GoneTeam == [UnusedTeam EXCEPT !.name = "gone"]
UnusedToken == [kind |-> "unused", name |-> NoOne]
GoneToken == [UnusedToken EXCEPT !.kind = "gone"]

TeamExists(t) == teams[t] \notin {UnusedTeam, GoneTeam}

AccountsInit ==
  /\ organizations = {Home}
  /\ users = budget.start.users
  /\ admins = budget.start.admins
  /\ teams = budget.start.teams
  /\ members = budget.start.members
  /\ roles = [w \in Workspace |-> [t \in Team |-> NoRole]]
  /\ tokens = [k \in Token |-> UnusedToken]

-----------------------------------------------------------------------------
(* Authentication *)

TeamRow(t) == [id |-> t, name |-> teams[t].name, organization |-> teams[t].organization, manage |-> teams[t].manage]

\* The teams of a user.
Memberships(u) == { TeamRow(t) : t \in { t \in Team : u \in members[t] } }

UserSubject(u) == [kind |-> "user", name |-> u, admin |-> u \in admins \/ u = SiteAdmin,
                   teams |-> Memberships(u)]
SiteAdminSubject == [kind |-> "user", name |-> SiteAdmin, admin |-> TRUE, teams |-> {}]

\* The subject that a token stands for.
TokenSubject(owner) ==
  CASE owner.kind = "user" -> UserSubject(owner.name)
    [] owner.kind = "team" -> [kind |-> "team", name |-> owner.name, admin |-> FALSE, teams |-> {TeamRow(owner.name)}]
    [] owner.kind = "organization" -> [kind |-> "organization", name |-> owner.name, admin |-> FALSE, teams |-> {}]

ValidToken(k) == tokens[k] \notin {UnusedToken, GoneToken}

\* GetSubject: a user's session, a token, or the site token.
GetSubject ==
  { UserSubject(u) : u \in users \ {SiteAdmin} } \union
  { TokenSubject(tokens[k]) : k \in { k \in Token : ValidToken(k) } } \union {SiteAdminSubject}

Authenticate(s, call) ==
  /\ Spend("calls")
  /\ \E subject \in GetSubject : Begin(s, [op |-> call.op, at |-> "get", call |-> call, subject |-> subject])
  /\ UNCHANGED <<workspaces, accountVars>>

\* The request of a session, and whether it may do something.
Call(s) == session[s].call
Subject(s) == session[s].subject
Authorize(s, kind, action, req) == CanAccess(Subject(s), <<kind, action>>, req)

Proceed(s, step) == session' = [session EXCEPT ![s].at = step]
Refuse(s) == End(s) /\ UNCHANGED <<workspaces, budget, accountVars>>

-----------------------------------------------------------------------------
(* Organizations and teams *)

\* CreateOrganization: in one transaction the organization, its team of owners
\* and the creator's membership, with the creator's account if it is gone.
CreateOrganization(s) ==
  /\ At(s, "createOrganization", "get")
  /\ LET o == Call(s).organization
         allowed == /\ Authorize(s, "organization", "create", SiteRequest)
                    /\ RestrictOrganizationCreation => Subject(s).admin
                    /\ o \notin organizations
     IN \/ /\ allowed
           /\ \E t \in Team :
                /\ teams[t] = UnusedTeam
                /\ teams' = [teams EXCEPT ![t] = [name |-> "owners", organization |-> o, manage |-> {}]]
                /\ members' = [members EXCEPT ![t] = {Subject(s).name}]
           /\ organizations' = organizations \union {o}
           /\ users' = users \union {Subject(s).name}
           /\ End(s)
           /\ UNCHANGED <<workspaces, budget, admins, roles, tokens>>
        \/ ~allowed /\ Refuse(s)

NameFree(o, name) == \A t \in Team : teams[t].organization = o => teams[t].name # name

\* CreateTeam: whoever creates a team of owners becomes its member.
CreateTeam(s) ==
  /\ At(s, "createTeam", "get")
  /\ LET o == Call(s).organization
         name == Call(s).name
         owner == IF name = "owners" THEN {Subject(s).name} ELSE {}
         allowed == /\ Authorize(s, "team", "create", OrganizationRequest(o))
                    /\ o \in organizations
                    /\ NameFree(o, name)
                    /\ name = "owners" => /\ Subject(s).kind = "user"
                                          /\ Authorize(s, "team", "add", OrganizationRequest(o))
     IN \/ /\ allowed
           /\ \E t \in Team :
                /\ teams[t] = UnusedTeam
                /\ teams' = [teams EXCEPT ![t] = [name |-> name, organization |-> o, manage |-> Call(s).manage]]
                /\ members' = [members EXCEPT ![t] = owner]
           /\ users' = users \union owner
           /\ End(s)
           /\ UNCHANGED <<workspaces, budget, organizations, admins, roles, tokens>>
        \/ ~allowed /\ Refuse(s)

\* The first statement of a request that is about a team reads the team.
ReadTeam(s, op, action) ==
  /\ At(s, op, "get")
  /\ TeamExists(Call(s).team)
  /\ Authorize(s, "team", action, OrganizationRequest(teams[Call(s).team].organization))

TeamUnreadable(s, op, action) == At(s, op, "get") /\ ~ReadTeam(s, op, action) /\ Refuse(s)

\* UpdateTeam
UpdateTeam(s) ==
  \/ /\ ReadTeam(s, "updateTeam", "update")
     /\ Proceed(s, "write")
     /\ UNCHANGED <<workspaces, budget, accountVars>>
  \/ TeamUnreadable(s, "updateTeam", "update")

UpdateTeamCommits(s) ==
  /\ At(s, "updateTeam", "write")
  /\ LET t == Call(s).team
         row == [teams[t] EXCEPT !.name = Call(s).name, !.manage = Call(s).manage]
         allowed == TeamExists(t) /\ (row.name # teams[t].name => NameFree(row.organization, row.name))
     IN \/ /\ allowed
           /\ teams' = [teams EXCEPT ![t] = row]
           /\ End(s)
           /\ UNCHANGED <<workspaces, budget, organizations, users, admins, members, roles, tokens>>
        \/ ~allowed /\ Refuse(s)

\* DeleteTeam: the owners are not deleted.
DeleteTeam(s) ==
  \/ /\ ReadTeam(s, "deleteTeam", "delete")
     /\ IF teams[Call(s).team].name = "owners" THEN End(s) ELSE Proceed(s, "write")
     /\ UNCHANGED <<workspaces, budget, accountVars>>
  \/ TeamUnreadable(s, "deleteTeam", "delete")

WithoutTokens(kind, name) == [k \in Token |-> IF tokens[k] = [kind |-> kind, name |-> name] THEN GoneToken ELSE tokens[k]]

DeleteTeamCommits(s) ==
  /\ At(s, "deleteTeam", "write")
  /\ LET t == Call(s).team IN
     \/ /\ TeamExists(t)
        /\ teams' = [teams EXCEPT ![t] = GoneTeam]
        /\ members' = [members EXCEPT ![t] = {}]
        /\ roles' = [w \in Workspace |-> [roles[w] EXCEPT ![t] = NoRole]]
        /\ tokens' = WithoutTokens("team", t)
        /\ End(s)
        /\ UNCHANGED <<workspaces, budget, organizations, users, admins>>
     \/ ~TeamExists(t) /\ Refuse(s)

-----------------------------------------------------------------------------
(* Members *)

\* AddTeamMembership: accounts that do not exist are created.
AddTeamMembership(s) ==
  \/ /\ ReadTeam(s, "addTeamMembership", "add")
     /\ Proceed(s, "write")
     /\ UNCHANGED <<workspaces, budget, accountVars>>
  \/ TeamUnreadable(s, "addTeamMembership", "add")

AddTeamMembershipCommits(s) ==
  /\ At(s, "addTeamMembership", "write")
  /\ LET t == Call(s).team
         allowed == /\ TeamExists(t)
                    /\ Call(s).users \subseteq users \/ Authorize(s, "user", "create", SiteRequest)
     IN \/ /\ allowed
           /\ users' = users \union Call(s).users
           /\ members' = [members EXCEPT ![t] = @ \union Call(s).users]
           /\ End(s)
           /\ UNCHANGED <<workspaces, budget, organizations, admins, teams, roles, tokens>>
        \/ ~allowed /\ Refuse(s)

\* RemoveTeamMembership: a team of owners is listed first.
RemoveTeamMembership(s) ==
  \/ /\ ReadTeam(s, "removeTeamMembership", "remove")
     /\ Proceed(s, IF teams[Call(s).team].name = "owners" THEN "list" ELSE "write")
     /\ UNCHANGED <<workspaces, budget, accountVars>>
  \/ TeamUnreadable(s, "removeTeamMembership", "remove")

\* Mutant: as many owners as there are names may go.
SparesAnOwnerNot(owners, names) == Cardinality(owners) >= Cardinality(names)

\* The names are fewer than the owners.
SparesAnOwner(owners, names) == Cardinality(owners) > Cardinality(names)

ListOwners(s) ==
  /\ At(s, "removeTeamMembership", "list")
  /\ LET t == Call(s).team
         allowed == /\ TeamExists(t)
                    /\ Authorize(s, "user", "list", OrganizationRequest(teams[t].organization))
                    /\ SparesAnOwner(members[t], Call(s).users)
     IN \/ /\ allowed
           /\ session' = [session EXCEPT ![s] = [op |-> @.op, at |-> "write", call |-> @.call, subject |-> @.subject,
                                                 listed |-> members[t]]]
           /\ UNCHANGED <<workspaces, budget, accountVars>>
        \/ ~allowed /\ Refuse(s)

RemoveTeamMembershipCommits(s) ==
  /\ At(s, "removeTeamMembership", "write")
  /\ members' = [members EXCEPT ![Call(s).team] = @ \ Call(s).users]
  /\ End(s)
  /\ UNCHANGED <<workspaces, budget, organizations, users, admins, teams, roles, tokens>>

-----------------------------------------------------------------------------
(* Users *)

\* Create
CreateUser(s) ==
  /\ At(s, "createUser", "get")
  /\ LET allowed == Authorize(s, "user", "create", SiteRequest) /\ Call(s).user \notin users IN
     \/ /\ allowed
        /\ users' = users \union {Call(s).user}
        /\ End(s)
        /\ UNCHANGED <<workspaces, budget, organizations, admins, teams, members, roles, tokens>>
     \/ ~allowed /\ Refuse(s)

\* A row that another transaction has changed is locked until that one commits.
RowFree(s, us) == \A t \in Others(s) : At(t, "setSiteAdmins", "promote") => session[t].demoted \intersect us = {}

\* Delete: the memberships and the tokens of the user go too.
DeleteUser(s) ==
  /\ At(s, "deleteUser", "get")
  /\ LET u == Call(s).user
         allowed == Authorize(s, "user", "delete", SiteRequest) /\ u \in users
     IN \/ /\ allowed
           /\ RowFree(s, {u})
           /\ users' = users \ {u}
           /\ admins' = admins \ {u}
           /\ members' = [t \in Team |-> members[t] \ {u}]
           /\ tokens' = WithoutTokens("user", u)
           /\ End(s)
           /\ UNCHANGED <<workspaces, budget, organizations, teams, roles>>
        \/ ~allowed /\ Refuse(s)

\* GetOrCreateUser: someone logs in for the first time,
Login(s, u) ==
  /\ Spend("logins")
  /\ u \notin users
  /\ Begin(s, [op |-> "login", at |-> "create", user |-> u])
  /\ UNCHANGED <<workspaces, accountVars>>

\* and the account is created, unless another request has created it.
LoginCreates(s) ==
  /\ At(s, "login", "create")
  /\ users' = users \union {session[s].user}
  /\ End(s)
  /\ UNCHANGED <<workspaces, budget, organizations, admins, teams, members, roles, tokens>>

\* SetSiteAdmins, when otfd starts: missing accounts are created,
SetSiteAdmins(s, us) ==
  /\ Spend("starts")
  /\ users' = users \union us
  /\ Begin(s, [op |-> "setSiteAdmins", at |-> "demote", users |-> us])
  /\ UNCHANGED <<workspaces, organizations, admins, teams, members, roles, tokens>>

\* those who are admins when the first statement begins are demoted, once no
\* one else has changed them without having committed,
DemoteAdmins(s) ==
  /\ At(s, "setSiteAdmins", "demote")
  /\ session' = [session EXCEPT ![s] = [op |-> @.op, at |-> "demoting", users |-> @.users, demoted |-> admins]]
  /\ UNCHANGED <<workspaces, budget, accountVars>>

DemoteLocks(s) ==
  /\ At(s, "setSiteAdmins", "demoting")
  /\ RowFree(s, session[s].demoted)
  /\ Proceed(s, "promote")
  /\ UNCHANGED <<workspaces, budget, accountVars>>

\* and those who are named are promoted.
PromoteAdmins(s) ==
  /\ At(s, "setSiteAdmins", "promote")
  /\ RowFree(s, session[s].users)
  /\ admins' = (admins \ session[s].demoted) \union (session[s].users \intersect users)
  /\ End(s)
  /\ UNCHANGED <<workspaces, budget, organizations, users, teams, members, roles, tokens>>

-----------------------------------------------------------------------------
(* Tokens *)

Issue(owner, table) ==
  \E k \in Token :
    /\ table[k] = UnusedToken
    /\ tokens' = [table EXCEPT ![k] = owner]

\* CreateToken: a user may have many tokens, and only its own.
CreateToken(s) ==
  /\ At(s, "createToken", "get")
  /\ LET allowed == Subject(s).kind = "user" /\ Subject(s).name \in users IN
     \/ /\ allowed
        /\ Issue([kind |-> "user", name |-> Subject(s).name], tokens)
        /\ End(s)
        /\ UNCHANGED <<workspaces, budget, organizations, users, admins, teams, members, roles>>
     \/ ~allowed /\ Refuse(s)

\* DeleteToken
DeleteToken(s) ==
  /\ At(s, "deleteToken", "get")
  /\ IF Subject(s).kind = "user" /\ tokens[Call(s).token] = [kind |-> "user", name |-> Subject(s).name]
     THEN Proceed(s, "write") ELSE End(s)
  /\ UNCHANGED <<workspaces, budget, accountVars>>

DeleteTokenCommits(s) ==
  /\ At(s, "deleteToken", "write")
  /\ tokens' = [tokens EXCEPT ![Call(s).token] = GoneToken]
  /\ End(s)
  /\ UNCHANGED <<workspaces, budget, organizations, users, admins, teams, members, roles>>

\* CreateTeamToken and CreateOrganizationToken: the token that the team or the
\* organization has is replaced.
CreateOwnersToken(s) ==
  /\ \/ At(s, "createTeamToken", "get")
     \/ At(s, "createOrganizationToken", "get")
  /\ LET team == session[s].op = "createTeamToken"
         owner == IF team THEN [kind |-> "team", name |-> Call(s).team]
                  ELSE [kind |-> "organization", name |-> Call(s).organization]
         allowed == IF team
                    THEN /\ TeamExists(owner.name)
                         /\ Authorize(s, "team-token", "create", TeamRequest(teams[owner.name].organization, owner.name))
                    ELSE /\ owner.name \in organizations
                         /\ Authorize(s, "organization-token", "create", OrganizationRequest(owner.name))
     IN \/ /\ allowed
           /\ Issue(owner, WithoutTokens(owner.kind, owner.name))
           /\ End(s)
           /\ UNCHANGED <<workspaces, budget, organizations, users, admins, teams, members, roles>>
        \/ ~allowed /\ Refuse(s)

\* DeleteTeamToken and DeleteOrganizationToken
DeleteOwnersToken(s) ==
  /\ \/ At(s, "deleteTeamToken", "get")
     \/ At(s, "deleteOrganizationToken", "get")
  /\ LET team == session[s].op = "deleteTeamToken"
         owner == IF team THEN [kind |-> "team", name |-> Call(s).team]
                  ELSE [kind |-> "organization", name |-> Call(s).organization]
         allowed == IF team
                    THEN /\ TeamExists(owner.name)
                         /\ Authorize(s, "team-token", "delete", TeamRequest(teams[owner.name].organization, owner.name))
                    ELSE Authorize(s, "organization", "delete", OrganizationRequest(owner.name))
     IN \/ /\ allowed
           /\ tokens' = WithoutTokens(owner.kind, owner.name)
           /\ End(s)
           /\ UNCHANGED <<workspaces, budget, organizations, users, admins, teams, members, roles>>
        \/ ~allowed /\ Refuse(s)

-----------------------------------------------------------------------------
(* Roles on workspaces *)

\* SetWorkspacePermission and UnsetWorkspacePermission: the request is
\* authorized by the roles that teams have then,
ChangePermission(s) ==
  /\ \/ At(s, "setPermission", "get")
     \/ At(s, "unsetPermission", "get")
  /\ LET w == Call(s).workspace
         action == IF session[s].op = "setPermission" THEN "set-permission" ELSE "unset-permission"
     IN IF w \in workspaces /\ Authorize(s, "workspace", action, WorkspaceRequest(Home, roles[w]))
        THEN Proceed(s, "write") ELSE End(s)
  /\ UNCHANGED <<workspaces, budget, accountVars>>

\* and the role is written for a team that there is.
ChangePermissionCommits(s) ==
  /\ \/ At(s, "setPermission", "write")
     \/ At(s, "unsetPermission", "write")
  /\ LET w == Call(s).workspace
         t == Call(s).team
         role == IF session[s].op = "setPermission" THEN Call(s).role ELSE NoRole
     IN \/ /\ w \in workspaces /\ TeamExists(t)
           /\ roles' = [roles EXCEPT ![w][t] = role]
           /\ End(s)
           /\ UNCHANGED <<workspaces, budget, organizations, users, admins, teams, members, tokens>>
        \/ /\ ~(w \in workspaces /\ TeamExists(t))
           /\ Refuse(s)

\* The roles on a workspace go with it.
RolesCascade(w) ==
  /\ roles' = [roles EXCEPT ![w] = [t \in Team |-> NoRole]]
  /\ UNCHANGED <<organizations, users, admins, teams, members, tokens>>

-----------------------------------------------------------------------------
(* Properties *)

\* The tables refer to what exists: members to accounts, roles to teams, tokens
\* to accounts, teams and organizations; a team and an organization have at
\* most one token (the foreign and unique keys of the tables in migrations/001).
AccountsTypeOK ==
  /\ organizations \subseteq Org /\ users \subseteq User /\ admins \subseteq users
  /\ \A t \in Team : /\ TeamExists(t) => /\ teams[t].name \in TeamName
                                         /\ teams[t].organization \in organizations
                                         /\ teams[t].manage \subseteq DOMAIN ManagerRole
                     /\ members[t] \subseteq users
                     /\ ~TeamExists(t) => members[t] = {}
  /\ \A w \in Workspace, t \in Team : /\ roles[w][t] \in RoleName \union {NoRole}
                                      /\ roles[w][t] # NoRole => w \in workspaces /\ TeamExists(t)
  /\ \A k \in Token : ValidToken(k) =>
       CASE tokens[k].kind = "user" -> tokens[k].name \in users
         [] tokens[k].kind = "team" -> TeamExists(tokens[k].name)
         [] tokens[k].kind = "organization" -> tokens[k].name \in organizations
  /\ \A k, l \in Token : tokens[k] = tokens[l] /\ tokens[k].kind \in {"team", "organization"} => k = l

\* A single removal leaves the team of owners a member: it can only take the
\* last one if the members have changed since it listed them
\* (user.RemoveTeamMembership, ErrCannotDeleteOnlyOwner).
OwnersAreKept ==
  [][\A s \in Session :
       /\ At(s, "removeTeamMembership", "write") /\ session'[s] = Idle
       /\ "listed" \in DOMAIN session[s]
       /\ members[Call(s).team] = session[s].listed
       => members'[Call(s).team] # {}]_<<session, members>>

\* The organizations that a subject speaks for.
OwnerOf(subject, o) ==
  \/ subject.admin
  \/ \E team \in subject.teams : team.organization = o /\ team.name = "owners"
  \/ subject.kind = "organization" /\ subject.name = o

\* Only those who were an organization's owners when they were authenticated,
\* or hold its token, change its teams and their members; besides, a site admin
\* may delete an account (docs/rbac.md, "Only owners can create teams and
\* manage team membership").
OwnersManageTeams ==
  [][\A t \in Team :
       LET o == IF TeamExists(t) THEN teams[t].organization ELSE teams'[t].organization IN
       /\ o \in organizations
       /\ teams'[t] # teams[t] \/ members'[t] # members[t]
       => \E s \in Session : /\ session'[s] # session[s]
                             /\ OwnerOf(Subject(s), o)]_<<session, teams, members>>

\* Every organization has a team of owners with a member (docs/rbac.md:23).
\* The removal of two owners at the same time, the deletion of an account and a
\* new name for the team all break it.
OrganizationHasOwner ==
  \A o \in organizations : \E t \in Team :
    teams[t].organization = o /\ teams[t].name = "owners" /\ members[t] # {}

\* Site admins are those named by the last otfd that set them: others "that are
\* currently site admins are demoted" (user/service.go:292-294).  Two daemons
\* that start together with different names leave both names promoted.
SiteAdminsAreSet ==
  [][\A s \in Session : At(s, "setSiteAdmins", "promote") /\ session'[s] = Idle
       => admins' \subseteq session[s].users]_<<session, admins>>
=============================================================================
