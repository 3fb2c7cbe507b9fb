-------------------------------- MODULE Authz --------------------------------
(***************************************************************************)
(* Who may do what (authz, and CanAccess of user.User, team.Team and       *)
(* organization.OrganizationToken).                                        *)
(*                                                                         *)
(* A permission is a pair of a kind of resource and an action; a role is a *)
(* set of them.  A subject is a user with the teams it belongs to, a team, *)
(* or an organization's token.  What is asked for is the site, an          *)
(* organization, a team of it, or a workspace of it with the roles that    *)
(* teams have on that workspace.                                           *)
(***************************************************************************)

Perms(kind, actions) == {kind} \X actions

\* What every member of a team may do in its organization.
OrganizationMinPermissions ==
  Perms("organization", {"get"}) \union Perms("user", {"get", "list"}) \union
  Perms("module", {"get", "list"}) \union Perms("team", {"get", "list"}) \union
  Perms("vcs-provider", {"get", "list"}) \union Perms("variable-set", {"get", "list"}) \union
  Perms("ssh-key", {"get", "list"}) \union Perms("run-trigger", {"get", "list"}) \union
  Perms("runner", {"get", "list", "watch"}) \union Perms("entitlement", {"get"}) \union Perms("tag", {"list"})

\* Roles on a workspace, each with what the one before it has.
WorkspaceReadRole ==
  Perms("run", {"get", "list", "watch"}) \union Perms("plan-file", {"get"}) \union
  Perms("workspace", {"get"}) \union Perms("state-version", {"get", "download"}) \union
  Perms("state-version-output", {"get"}) \union Perms("config-version", {"get", "download"}) \union
  Perms("notification", {"get", "list"}) \union Perms("variable", {"get", "list"}) \union Perms("chunk", {"tail"})

WorkspacePlanRole ==
  Perms("run", {"create"}) \union Perms("config-version", {"create"}) \union WorkspaceReadRole

WorkspaceWriteRole ==
  Perms("run", {"apply", "cancel"}) \union Perms("workspace", {"lock", "unlock"}) \union
  Perms("notification", {"create", "update", "delete"}) \union
  Perms("variable", {"create", "update", "delete"}) \union WorkspacePlanRole

WorkspaceAdminRole ==
  Perms("workspace", {"update", "delete", "force-unlock", "set-permission", "unset-permission"}) \union
  Perms("run-trigger", {"create", "delete"}) \union WorkspaceWriteRole

\* Roles in an organization.
WorkspaceManagerRole ==
  Perms("workspace", {"create", "list", "update"}) \union Perms("tag", {"add", "remove"}) \union WorkspaceAdminRole

VCSManagerRole == Perms("vcs-provider", {"create", "delete"})

RegistryManagerRole == Perms("module", {"create", "update", "delete"}) \union Perms("module-version", {"create"})

WorkspaceRoleFromString ==
  [read |-> WorkspaceReadRole, plan |-> WorkspacePlanRole, write |-> WorkspaceWriteRole, admin |-> WorkspaceAdminRole]

RoleName == DOMAIN WorkspaceRoleFromString
NoRole == "none"

ManagerRole == [workspaces |-> WorkspaceManagerRole, vcs |-> VCSManagerRole, modules |-> RegistryManagerRole]

-----------------------------------------------------------------------------
(* What is asked for *)

NoOne == "none"
NoPolicy == [none |-> NoRole]

SiteRequest == [kind |-> "site", organization |-> NoOne, team |-> NoOne, policy |-> NoPolicy]
OrganizationRequest(o) == [SiteRequest EXCEPT !.kind = "organization", !.organization = o]
TeamRequest(o, t) == [SiteRequest EXCEPT !.kind = "team", !.organization = o, !.team = t]
WorkspaceRequest(o, policy) == [SiteRequest EXCEPT !.kind = "workspace", !.organization = o, !.policy = policy]

-----------------------------------------------------------------------------
(* Who asks *)

\* Policy.Check: the role that was given to the team on the workspace.
Check(policy, t, perm) == policy[t] # NoRole /\ perm \in WorkspaceRoleFromString[policy[t]]

\* Mutant: the organization of what is asked for is not compared.
TeamCanAccessAnywhere(team, perm, req) ==
  /\ req.kind # "site"
  /\ \/ team.name = "owners"
     \/ perm \in OrganizationMinPermissions

\* Team.CanAccess: the owners may do everything in their organization.  What
\* belongs to no organization that is known is not denied for that.
TeamCanAccess(team, perm, req) ==
  /\ req.kind # "site"
  /\ req.organization \in {NoOne, team.organization}
  /\ \/ team.name = "owners"
     \/ perm \in OrganizationMinPermissions
     \/ \E m \in team.manage : perm \in ManagerRole[m]
     \/ req.kind = "team" /\ req.team = team.id
     \/ req.kind = "workspace" /\ Check(req.policy, team.id, perm)

\* OrganizationToken.CanAccess: everything in its organization but a few things.
RefusedToTokens ==
  Perms("run", {"enqueue-plan", "apply", "cancel", "force-cancel", "discard", "create", "get", "list"}) \union
  Perms("state-version", {"create", "rollback"}) \union Perms("chunk", {"get", "upload"})

TokenCanAccess(organization, perm, req) ==
  /\ req.kind # "site"
  /\ req.organization \in {NoOne, organization}
  /\ perm \notin RefusedToTokens

\* User.CanAccess: a site admin may do everything, a user what one of its
\* teams may.  Owners of any organization may look for users and create them.
UserCanAccess(user, perm, req) ==
  \/ user.admin
  \/ perm \in {<<"organization", "create">>, <<"user", "get">>, <<"github-app", "get">>}
  \/ perm \in Perms("user", {"create", "list"}) /\ \E team \in user.teams : team.name = "owners"
  \/ \E team \in user.teams : TeamCanAccess(team, perm, req)

CanAccess(subject, perm, req) ==
  CASE subject.kind = "user" -> UserCanAccess(subject, perm, req)
    [] subject.kind = "team" -> \E team \in subject.teams : TeamCanAccess(team, perm, req)
    [] subject.kind = "organization" -> TokenCanAccess(subject.name, perm, req)
=============================================================================
