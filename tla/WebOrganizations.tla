-------------------------- MODULE WebOrganizations --------------------------
(***************************************************************************)
(* Pages and handlers of organizations, teams and users (organization/ui,  *)
(* team/ui, user/ui), named like those of WebRuns.                         *)
(***************************************************************************)
EXTENDS Services

-----------------------------------------------------------------------------
(* Organizations *)

\* The button is disabled without the permission.
organizationListActions == { IfCan("create", "organization", Site, Link(New("organization", Site))) }
organizationTable == { If(Org, Link(Get(Org))) }
listOrganizations ==
  Renders(<<Do(ListOrganizations)>>,
          Layout \union Table(List("organization", Site)) \union organizationListActions \union organizationTable, {})

organizationNew == { Form(Create("organization", Site)) }
newOrganization == Renders(<<>>, Layout \union {Link(List("organization", Site))} \union organizationNew, {})
createOrganization == Redirects(<<Do(CreateOrganization)>>, "success", Get(Org))
getOrganization == Redirects(<<>>, "none", List("workspace", Org))

organizationEdit == { Form(Update(Org)) }
editOrganization == Renders(<<Do(GetOrganization)>>, OrganizationSettings(Org) \union organizationEdit, {})
updateOrganization == Redirects(<<Do(UpdateOrganization)>>, "success", Edit(Org))
editAdvancedPage == { Form(Delete(Org)) }
editAdvancedOrganization == Renders(<<Do(GetOrganization)>>, OrganizationSettings(Org) \union editAdvancedPage, {})
deleteOrganization == Redirects(<<Do(DeleteOrganization)>>, "success", List("organization", Site))

organizationTokenTable ==
  { If("orgToken", Form(CreateOrganizationToken(Org))), If("orgToken", Form(DeleteOrganizationToken(Org))) }
getToken == { Unless("orgToken", Form(CreateOrganizationToken(Org))) } \union organizationTokenTable
organizationToken == Renders(<<Do(ListOrganizationTokens)>>, OrganizationSettings(Org) \union getToken, {})
createOrganizationToken == Redirects(<<Do(UpsertOrganizationToken)>>, "token", OrganizationToken(Org))
deleteOrganizationToken == Redirects(<<Do(RemoveOrganizationToken)>>, "success", OrganizationToken(Org))

organizationHandlers ==
  Route("GET", List("organization", Site), listOrganizations) @@
  Route("GET", New("organization", Site), newOrganization) @@
  Route("POST", Create("organization", Site), createOrganization) @@
  Route("GET", Get(Org), getOrganization) @@
  Route("GET", Edit(Org), editOrganization) @@
  Route("POST", Update(Org), updateOrganization) @@
  Route("POST", Delete(Org), deleteOrganization) @@
  Route("GET", Resource("edit-advanced", Org), editAdvancedOrganization) @@
  Route("GET", OrganizationToken(Org), organizationToken) @@
  Route("POST", DeleteOrganizationToken(Org), deleteOrganizationToken) @@
  Route("POST", CreateOrganizationToken(Org), createOrganizationToken)

-----------------------------------------------------------------------------
(* Teams *)

listTeamsActions == { IfCan("create", "team", Org, Link(New("team", Org))) }
teamTable == { If(t, Link(Get(t))) : t \in Teams }
listTeams ==
  Renders(<<Do(ListTeams)>>,
          OrganizationLayout(Org) \union Table(List("team", Org)) \union listTeamsActions \union teamTable, {})

newTeamView == { Form(Create("team", Org)) }
newTeam == Renders(<<>>, OrganizationLayout(Org) \union {Link(List("team", Org))} \union newTeamView, {})
createTeam == Redirects(<<Do(CreateTeam)>>, "success", Get("devs"))

UserTable(team) == { If(m, IfCan("remove", "team", Org, Form(Resource("remove-member", team)))) : m \in Membership(team) }
\* The owners' permissions are shown, but cannot be updated.
getTeamPage(team) ==
  (IF team = "owners" THEN {}
   ELSE { IfCan("update", "team", Org, Form(Update(team))), IfCan("delete", "team", Org, Form(Delete(team))) }) \union
  { IfCan("add", "team", Org, Form(Resource("add-member", team))) } \union UserTable(team)
\* All users are listed only for those who may.
getTeam(team) ==
  Renders(<<Do(GetTeamByID(team)), Do(ListTeamUsers(team)), IfPermitted(ListUsers)>>,
          OrganizationLayout(Org) \union {Link(List("team", Org))} \union getTeamPage(team), {})
updateTeam(team) == Redirects(<<Do(UpdateTeam(team))>>, "success", Get(team))
\* A mutant: the team is looked up, for its organization, after it is deleted.
deleteTeamFirst(team) == Redirects(<<Do(DeleteTeam(team)), Do(GetTeamByID(team))>>, "success", List("team", Org))
deleteTeam(team) == Redirects(<<Do(GetTeamByID(team)), Do(DeleteTeam(team))>>, "success", List("team", Org))

teamHandlers(team) ==
  Route("GET", List("team", Org), listTeams) @@
  Route("GET", New("team", Org), newTeam) @@
  Route("POST", Create("team", Org), createTeam) @@
  Route("GET", Get(team), getTeam(team)) @@
  Route("POST", Update(team), updateTeam(team)) @@
  Route("POST", Delete(team), deleteTeam(team))

-----------------------------------------------------------------------------
(* Users and their tokens *)

addTeamMember(team) == Redirects(<<Do(AddTeamMembership(team))>>, "success", Get(team))
removeTeamMember(team) == Redirects(<<Do(RemoveTeamMembership(team))>>, "success", Get(team))
listOrganizationUsers ==
  Renders(<<Do(ListOrganizationUsers)>>, OrganizationLayout(Org) \union Table(List("user", Org)), {})
profileActions == { Form(Logout) }
profileHandler == Renders(<<>>, Layout \union profileActions, {})
logout == Redirects(<<>>, "none", Login)
site == Redirects(<<>>, "none", List("organization", Site))

tokenListActions == { Link(NewToken) }
tokensTable == { If("myToken", Form(DeleteToken)) }
userTokens == Renders(<<Do(ListTokens)>>, Layout \union tokenListActions \union tokensTable, {})
newToken == { Link(Tokens), Form(CreateToken) }
newUserToken == Renders(<<>>, Layout \union newToken, {})
createUserToken == Redirects(<<Do(CreateUserToken)>>, "token", Tokens)
deleteUserToken == Redirects(<<Do(DeleteUserToken)>>, "success", Tokens)

memberHandlers(team) ==
  Route("POST", Resource("add-member", team), addTeamMember(team)) @@
  Route("POST", Resource("remove-member", team), removeTeamMember(team))

userHandlers ==
  Route("POST", Logout, logout) @@
  Route("GET", List("user", Org), listOrganizationUsers) @@
  Route("GET", Profile, profileHandler) @@
  Route("GET", Admin, site) @@
  Route("GET", Tokens, userTokens) @@
  Route("GET", Resource("settings-tokens", Site), userTokens) @@
  Route("POST", DeleteToken, deleteUserToken) @@
  Route("GET", NewToken, newUserToken) @@
  Route("POST", CreateToken, createUserToken)
=============================================================================
