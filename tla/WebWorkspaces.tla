---------------------------- MODULE WebWorkspaces ----------------------------
(***************************************************************************)
(* Pages and handlers of workspaces (workspace/ui), named like those of    *)
(* WebRuns.                                                                *)
(***************************************************************************)
EXTENDS WebRuns

workspaceListActions == { IfCan("create", "workspace", Org, Link(New("workspace", Org))) }
\* With the status of the latest run.
workspacesTable == { If(w, Link(Get(w))) : w \in Workspaces } \union { If("workspace", If("latest", Link(Get("run")))) }
workspaceList == Polled(List("workspace", Org))

listWorkspaces == Renders(<<Do(ListTags), Do(ListWorkspaces)>>,
                          OrganizationLayout(Org) \union workspaceList \union workspaceListActions, workspacesTable)

workspaceNew == { Form(Create("workspace", Org)) }
newWorkspace == Renders(<<>>, OrganizationLayout(Org) \union {Link(List("workspace", Org))} \union workspaceNew, {})
createWorkspace == Redirects(<<Do(CreateWorkspace)>>, "success", Get("workspace"))

Unlocked(offer) == [offer EXCEPT !.unless = Locks]
\* A mutant: who may unlock may force it.
lockButtonHelperUnforced(ws) ==
  { IfCan("lock", "workspace", ws, Unlocked(Form(Resource("lock", ws)))),
    If("lockMe", IfCan("unlock", "workspace", ws, Form(Resource("unlock", ws)))) } \union
  { If(l, IfCan("unlock", "workspace", ws, Form(Resource("force-unlock", ws)))) : l \in {"lockThem", "lockRun"} }
\* The button is disabled without the permission.
lockButtonHelper(ws) ==
  { IfCan("lock", "workspace", ws, Unlocked(Form(Resource("lock", ws)))),
    If("lockMe", IfCan("unlock", "workspace", ws, Form(Resource("unlock", ws)))) } \union
  { If(l, IfCan("unlock", "workspace", ws, IfCan("force-unlock", "workspace", ws, Form(Resource("force-unlock", ws))))) :
      l \in {"lockThem", "lockRun"} }
lockWidget(ws) == lockButtonHelper(ws) \union { If("lockRun", Link(Get("run"))) }

workspaceTags(ws) ==
  { If("tag", Form(Resource("delete-tag", ws))), IfCan("add", "workspace", ws, Form(Resource("create-tag", ws))) }

workspaceGet(ws) ==
  { SSE(Resources("watch-latest", "run", ws)), Fragment(Resource("state", ws)), Link(Resource("edit-engine", ws)) }
  \union workspaceTags(ws) \union lockWidget(ws)

getWorkspace(ws) ==
  Renders(<<Do(GetWorkspace(ws)), OnlyIf("connection", GetVCSProvider), Do(ListTags)>> \o latestRow,
          WorkspaceLayout(ws, Org) \union workspaceGet(ws), latestRun)
\* The path with a name instead of an id.
getWorkspaceByName(ws) == Redirects(<<Do(GetWorkspace(ws))>>, "none", Get(ws))

workspaceEdit(ws) ==
  { Form(Update(ws)), Fragment(Resource("pools", ws)), Link(List("agent-pool", Org)) }
editWorkspace(ws) == Renders(<<Do(GetWorkspace(ws))>>, WorkspaceSettings(ws, Org) \union workspaceEdit(ws), {})
updateWorkspace(ws) == Redirects(<<Do(AssignPool(ws))>>, "success", Edit(ws))

workspaceEditSSHKey(ws) == { Link(List("ssh-key", Org)), Form(Resource("update-ssh-key", ws)) }
editWorkspaceSSHKey(ws) ==
  Renders(<<Do(GetWorkspace(ws)), Do(ListSSHKeys)>>, WorkspaceSettings(ws, Org) \union workspaceEditSSHKey(ws), {})
updateWorkspaceSSHKey(ws) == Redirects(<<Do(UpdateWorkspace(ws))>>, "success", Resource("edit-ssh-key", ws))

\* A mutant: back to the workspace, as after the other actions.
deleteWorkspaceStay(ws) == Redirects(<<Do(DeleteWorkspace(ws))>>, "success", Get(ws))
deleteWorkspace(ws) == Redirects(<<Do(DeleteWorkspace(ws))>>, "success", List("workspace", Org))
lockWorkspace(ws) == Redirects(<<Do(Lock(ws))>>, "none", Get(ws))
unlockWorkspace(ws) == Redirects(<<Do(Unlock(ws))>>, "none", Get(ws))
forceUnlockWorkspace(ws) == Redirects(<<Do(ForceUnlock(ws))>>, "none", Get(ws))

vcsProviderSelector(ws) == { If("provider", Link(Resource("setup-connection-repo", ws))) }
listVCSProviders(ws) ==
  { Link(List("vcs-provider", Org)), If("provider", Link(Edit("provider"))) } \union vcsProviderSelector(ws)
listWorkspaceVCSProviders(ws) ==
  Renders(<<Do(GetWorkspace(ws)), Do(ListVCSProviders)>>, WorkspaceLayout(ws, Org) \union listVCSProviders(ws), {})

\* Connects to the repository that is entered, or to one that is listed.
workspaceRepoSelector(ws) == { Form(Resource("connect", ws)) }
listVCSRepos(ws) == { Form(Resource("connect", ws)) } \union workspaceRepoSelector(ws)
listWorkspaceVCSRepos(ws) ==
  Renders(<<Do(GetWorkspace(ws)), Do(GetVCSProvider), Do(ListRepositories)>>,
          WorkspaceLayout(ws, Org) \union listVCSRepos(ws), {})
connect(ws) == Redirects(<<Do(Connect(ws))>>, "success", Resource("edit-vcs", ws))
disconnect(ws) == Redirects(<<Do(Disconnect(ws))>>, "success", Get(ws))

\* A team that has a role on the workspace is listed with it.
permissionsTable(ws) ==
  { Form(Resource("set-permission", ws)), If("grant", Link(Get("devs"))),
    If("grant", Form(Resource("unset-permission", ws))) }
editPermissions(ws) ==
  Renders(<<Do(GetWorkspace(ws)), Do(GetWorkspacePolicy(ws)), Do(ListTeams)>>,
          WorkspaceSettings(ws, Org) \union permissionsTable(ws), {})
setWorkspacePermission(ws) ==
  Redirects(<<Do(SetWorkspacePermission(ws))>>, "success", Resource("edit-permissions", ws))
unsetWorkspacePermission(ws) ==
  Redirects(<<Do(UnsetWorkspacePermission(ws))>>, "success", Resource("edit-permissions", ws))

engineForm(ws) == { Form(Resource("update-engine", ws)) }
editEngine(ws) == Renders(<<Do(GetWorkspace(ws)), Do(GetLatest)>>, WorkspaceSettings(ws, Org) \union engineForm(ws), {})
updateEngine(ws) == Redirects(<<Do(UpdateWorkspace(ws))>>, "success", Resource("edit-engine", ws))

editConnection(ws) == { If("connection", Form(Resource("update-vcs", ws))) }
vcsSettings(ws) ==
  { If("connection", Form(Resource("disconnect", ws))),
    Unless("connection", Link(Resource("setup-connection-provider", ws))) }
  \union editConnection(ws)
editVCS(ws) ==
  Renders(<<Do(GetWorkspace(ws)), OnlyIf("connection", GetVCSProvider)>>,
          WorkspaceSettings(ws, Org) \union vcsSettings(ws), {})
updateVCS(ws) ==
  Redirects(<<Do(GetWorkspace(ws)), Do(UpdateWorkspace(ws))>>, "success", Resource("edit-vcs", ws))

advancedSettings(ws) ==
  { Form(Resource("start-run", ws)), IfCan("delete", "workspace", ws, Form(Delete(ws))) }
editAdvanced(ws) == Renders(<<Do(GetWorkspace(ws))>>, WorkspaceSettings(ws, Org) \union advancedSettings(ws), {})

createTag(ws) == Redirects(<<Do(AddTags(ws))>>, "success", Get(ws))
deleteTag(ws) == Redirects(<<Do(RemoveTags(ws))>>, "success", Get(ws))

\* AddHandlers
workspaceHandlers(ws) ==
  Route("GET", List("workspace", Org), listWorkspaces) @@
  Route("GET", New("workspace", Org), newWorkspace) @@
  Route("POST", Create("workspace", Org), createWorkspace) @@
  Route("GET", Resources("by-name", "workspace", Org), getWorkspaceByName(ws)) @@
  Route("GET", Get(ws), getWorkspace(ws)) @@
  Route("GET", Edit(ws), editWorkspace(ws)) @@
  Route("POST", Update(ws), updateWorkspace(ws)) @@
  Route("POST", Delete(ws), deleteWorkspace(ws)) @@
  Route("POST", Resource("lock", ws), lockWorkspace(ws)) @@
  Route("POST", Resource("unlock", ws), unlockWorkspace(ws)) @@
  Route("POST", Resource("force-unlock", ws), forceUnlockWorkspace(ws)) @@
  Route("GET", Resource("edit-permissions", ws), editPermissions(ws)) @@
  Route("POST", Resource("set-permission", ws), setWorkspacePermission(ws)) @@
  Route("POST", Resource("unset-permission", ws), unsetWorkspacePermission(ws)) @@
  Route("GET", Resource("edit-engine", ws), editEngine(ws)) @@
  Route("POST", Resource("update-engine", ws), updateEngine(ws)) @@
  Route("GET", Resource("edit-vcs", ws), editVCS(ws)) @@
  Route("POST", Resource("update-vcs", ws), updateVCS(ws)) @@
  Route("GET", Resource("setup-connection-provider", ws), listWorkspaceVCSProviders(ws)) @@
  Route("GET", Resource("setup-connection-repo", ws), listWorkspaceVCSRepos(ws)) @@
  Route("POST", Resource("connect", ws), connect(ws)) @@
  Route("POST", Resource("disconnect", ws), disconnect(ws)) @@
  Route("POST", Resource("create-tag", ws), createTag(ws)) @@
  Route("POST", Resource("delete-tag", ws), deleteTag(ws)) @@
  Route("GET", Resource("edit-ssh-key", ws), editWorkspaceSSHKey(ws)) @@
  Route("POST", Resource("update-ssh-key", ws), updateWorkspaceSSHKey(ws)) @@
  Route("GET", Resource("edit-advanced", ws), editAdvanced(ws))
=============================================================================
