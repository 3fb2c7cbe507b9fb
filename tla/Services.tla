------------------------------ MODULE Services ------------------------------
(***************************************************************************)
(* The methods of the services, as far as the web interface depends on     *)
(* them: what permission each asks for and on what, which rows it reads,   *)
(* what it needs to be there, and which rows it inserts and deletes.       *)
(*                                                                         *)
(* There is one organization with one or two rows of every kind; a column  *)
(* that a page or a method decides on (a run's status, a lock) is a row of *)
(* its own.  What the methods do inside is the subject of the other        *)
(* modules.                                                                *)
(***************************************************************************)
EXTENDS Authz, Paths

\* Rows and what they belong to.  Me is the user of the browser, them another.
\* The run may be its workspace's latest; a run of the other workspace has
\* triggered it (cause), another was triggered when it was applied (effect).
Parents ==
  [organization |-> {}, orgToken |-> {"organization"},
   owners |-> {"organization"}, meOwner |-> {"owners"}, themOwner |-> {"owners"},
   devs |-> {"organization"}, meMember |-> {"devs"}, themMember |-> {"devs"},
   myToken |-> {}, app |-> {}, install |-> {"app"},
   provider |-> {"organization"}, key |-> {"organization"},
   pool |-> {"organization"}, agentToken |-> {"pool"}, appKind |-> {"provider"},
   set |-> {"organization"}, setVariable |-> {"set"},
   module |-> {"organization"}, published |-> {"module"},
   workspace |-> {"organization"}, upstream |-> {"organization"},
   assigned |-> {"workspace", "pool"}, allowed |-> {"workspace", "pool"},
   tag |-> {"workspace"}, grant |-> {"workspace", "devs"}, connection |-> {"workspace", "provider"},
   lockMe |-> {"workspace"}, lockThem |-> {"workspace"}, lockRun |-> {"workspace", "run"},
   run |-> {"workspace"}, planned |-> {"run"}, signaled |-> {"run"}, done |-> {"run"}, applied |-> {"done"},
   latest |-> {"run"}, cause |-> {"upstream"}, effect |-> {"upstream"},
   started |-> {"workspace"}, retried |-> {"workspace"}, trigger |-> {"workspace", "upstream"},
   oldState |-> {"workspace"}, state |-> {"workspace"}, variable |-> {"workspace"}]

Row == DOMAIN Parents
Workspaces == {"workspace", "upstream"}
Teams == {"owners", "devs"}
Runs == {"run", "started", "retried"}
Versions == {"oldState", "state"}

\* Deletions cascade along foreign keys.
Under(S) == S \union { r \in Row : Parents[r] \intersect S # {} }
Cascade == [r \in Row |-> Under(Under(Under(Under({r}))))]

\* Rows whose lineage leads to a workspace, and to which.
Upstream == {"upstream", "cause", "effect"}
InWorkspace(row) == row \in Cascade["workspace"] \union Upstream
WorkspaceOf(row) == IF row \in Upstream THEN "upstream" ELSE "workspace"

-----------------------------------------------------------------------------
(* The form of a method *)

NoPerm == <<"none", "none">>

\* Reads what is found; rows in needs have to be there.
Reads(perm, on, needs, found) ==
  [perm |-> perm, on |-> on, also |-> {}, own |-> FALSE, fails |-> FALSE, write |-> FALSE,
   needs |-> needs, reads |-> found, does |-> {}, leaves |-> {}]

\* Changes rows in one of several ways.
Does(needs, free, adds, removes) == [needs |-> needs, free |-> free, adds |-> adds, removes |-> removes]
Writes(perm, on, does) ==
  [Reads(perm, on, {}, {}) EXCEPT !.fails = TRUE, !.write = TRUE, !.does = does]

Adding(parent, row) == Does({parent}, {row}, {row}, {})
Removing(row) == Does({row}, {}, {}, {row})
Changing(row) == Does({row}, {}, {}, {})

\* Without the permission a user sees what it is a member of.
OrOwn(op) == [op EXCEPT !.own = TRUE]
\* Needs another permission, too, if a row is there.
Also(row, perm, on, op) == [op EXCEPT !.also = {[row |-> row, perm |-> perm, on |-> on]}]
\* Something else may go wrong: an answer from another server, a conversion.
MayFail(op) == [op EXCEPT !.fails = TRUE]
\* Once permitted, nothing that goes wrong is returned.
Surely(op) == [op EXCEPT !.fails = FALSE]
\* What a failure leaves behind.
Leaving(row, op) == [op EXCEPT !.leaves = {row}]

-----------------------------------------------------------------------------
(* Organizations, teams and users *)

Org == "organization"

ListOrganizations == OrOwn(Reads(<<"organization", "list">>, Site, {}, {Org}))
GetOrganization == Reads(<<"organization", "get">>, Org, {Org}, {Org})
CreateOrganization == Writes(<<"organization", "create">>, Site, {Does({}, {Org}, {Org, "owners", "meOwner"}, {})})
UpdateOrganization == Writes(<<"organization", "update">>, Org, {Changing(Org)})
DeleteOrganization == Writes(<<"organization", "delete">>, Org, {Removing(Org)})
ListOrganizationTokens == Reads(NoPerm, Org, {}, {"orgToken"})
UpsertOrganizationToken == Writes(<<"organization-token", "create">>, Org, {Does({Org}, {}, {"orgToken"}, {})})
RemoveOrganizationToken == Writes(<<"organization", "delete">>, Org, {Does({}, {}, {}, {"orgToken"})})

Membership(team) == IF team = "owners" THEN {"meOwner", "themOwner"} ELSE {"meMember", "themMember"}

ListTeams == Reads(<<"team", "list">>, Org, {}, Teams)
GetTeamByID(team) == Reads(<<"team", "get">>, team, {}, {team})
CreateTeam == Writes(<<"team", "create">>, Org, {Adding(Org, "devs")})
UpdateTeam(team) == Writes(<<"team", "update">>, team, {Changing(team)})
\* The owners cannot be deleted, nor can the last of them be removed.
DeleteTeam(team) == Writes(<<"team", "delete">>, team, IF team = "owners" THEN {} ELSE {Removing(team)})
ListOrganizationUsers == Reads(<<"user", "list">>, Org, {}, {})
ListTeamUsers(team) == Reads(<<"user", "list">>, team, {}, Membership(team))
ListUsers == Reads(<<"user", "list">>, Site, {}, {})
GetUser == Reads(<<"user", "get">>, Site, {}, {})
AddTeamMembership(team) == Writes(<<"team", "add">>, team, { Adding(team, m) : m \in Membership(team) })
RemoveTeamMembership(team) ==
  Writes(<<"team", "remove">>, team,
         { Does(IF team = "owners" THEN Membership(team) ELSE {team}, {}, {}, {m}) : m \in Membership(team) })
ListTokens == Reads(NoPerm, Site, {}, {"myToken"})
CreateUserToken == Writes(NoPerm, Site, {Does({}, {"myToken"}, {"myToken"}, {})})
DeleteUserToken == [Writes(NoPerm, Site, {Removing("myToken")}) EXCEPT !.needs = {"myToken"}]

-----------------------------------------------------------------------------
(* Keys, runners, providers and modules *)

ListSSHKeys == Reads(<<"ssh-key", "list">>, Org, {}, {"key"})
CreateSSHKey == Writes(<<"ssh-key", "create">>, Org, {Adding(Org, "key")})
DeleteSSHKey == Writes(<<"ssh-key", "delete">>, "key", {Removing("key")})

ListRunners == Reads(<<"runner", "list">>, Org, {}, {})
\* A pool is asked for by its id, of which no organization is known.
ListPoolRunners == Reads(<<"runner", "list">>, Org, {}, {})
ListAgentPoolsByOrganization == Reads(<<"agent-pool", "list">>, Org, {}, {"pool"})
GetAgentPool == Reads(<<"agent-pool", "get">>, "pool", {}, {"pool", "assigned", "allowed"})
CreateAgentPool == Writes(<<"agent-pool", "create">>, Org, {Adding(Org, "pool")})
UpdateAgentPool ==
  Writes(<<"agent-pool", "update">>, "pool",
         {Changing("pool"), Does({"pool", "workspace"}, {}, {"allowed"}, {}), Does({"pool"}, {}, {}, {"allowed"})})
DeleteAgentPool == Writes(<<"agent-pool", "delete">>, "pool", {Does({"pool"}, {"assigned"}, {}, {"pool"})})
ListAgentTokens == Reads(<<"agent-token", "list">>, "pool", {}, {"agentToken"})
CreateAgentToken == Writes(<<"agent-token", "create">>, "pool", {Adding("pool", "agentToken")})
DeleteAgentToken == Writes(<<"agent-token", "delete">>, "agentToken", {Removing("agentToken")})

ListVCSProviders == Reads(<<"vcs-provider", "list">>, Org, {}, {"provider"})
GetVCSProvider == Reads(<<"vcs-provider", "get">>, "provider", {}, {"provider", "appKind"})
CreateVCSProvider ==
  Writes(<<"vcs-provider", "create">>, Org,
         {Adding(Org, "provider"), Does({Org, "install"}, {"provider"}, {"provider", "appKind"}, {})})
UpdateVCSProvider == Writes(<<"vcs-provider", "update">>, "provider", {Changing("provider")})
DeleteVCSProvider == Writes(<<"vcs-provider", "delete">>, "provider", {Removing("provider")})
ListRepositories == MayFail(Reads(NoPerm, Site, {}, {}))

GetApp == Reads(<<"github-app", "get">>, Site, {"app"}, {"app"})
CreateApp == Writes(<<"github-app", "create">>, Site, {Does({}, {"app"}, {"app"}, {})})
DeleteApp == Writes(<<"github-app", "delete">>, Site, {Does({}, {}, {}, {"app"})})
ListInstallations == MayFail(Reads(NoPerm, Site, {"app"}, {"install"}))
DeleteInstallation == [Writes(NoPerm, Site, {Does({}, {}, {}, {"install"})}) EXCEPT !.needs = {"app"}]
ExchangeCode == MayFail(Reads(NoPerm, Site, {}, {}))

ListModules == Reads(<<"module", "list">>, Org, {}, {"module"})
ListProviders == Reads(NoPerm, Org, {}, {})
GetModuleByID == Reads(<<"module", "get">>, "module", {}, {"module", "published"})
GetModuleInfo == Reads(NoPerm, Org, {"published"}, {})
\* What goes wrong once the module is there marks it as not set up.
PublishModule ==
  Leaving("module", Writes(<<"module", "create">>, "provider",
    {Does({"provider"}, {"module"}, {"module"}, {}), Does({"provider"}, {"module"}, {"module", "published"}, {})}))
DeleteModule == Writes(<<"module", "delete">>, "module", {Removing("module")})

-----------------------------------------------------------------------------
(* Workspaces *)

Locks == {"lockMe", "lockThem", "lockRun"}

WorkspaceRow(ws) ==
  IF ws = "workspace" THEN {"workspace", "tag", "connection", "latest"} \union Locks ELSE {ws}

ListTags == Reads(<<"tag", "list">>, Org, {}, {"tag"})
ListWorkspaces == OrOwn(Reads(<<"workspace", "list">>, Org, {}, Workspaces \union {"latest"}))
GetWorkspace(ws) == Reads(<<"workspace", "get">>, ws, {ws}, WorkspaceRow(ws))
CreateWorkspace == Writes(<<"workspace", "create">>, Org, {Adding(Org, "workspace")})
\* The runner service looks at the pool that is assigned before every update.
Updates(ws, does) ==
  Also("assigned", <<"agent-pool", "get">>, Org, Writes(<<"workspace", "update">>, ws, does))
UpdateWorkspace(ws) == Updates(ws, {Changing(ws)})
AssignPool(ws) ==
  Updates(ws, {Changing(ws), Does({ws, "pool"}, {}, {"assigned"}, {}), Does({ws}, {}, {}, {"assigned"})})
Connect(ws) == Updates(ws, {Does({ws, "provider"}, {"connection"}, {"connection"}, {})})
Disconnect(ws) == Updates(ws, {Removing("connection")})
DeleteWorkspace(ws) == Writes(<<"workspace", "delete">>, ws, {Removing(ws)})
Lock(ws) == Writes(<<"workspace", "lock">>, ws, {Does({ws}, Locks, {"lockMe"}, {})})
Unlock(ws) == Writes(<<"workspace", "unlock">>, ws, {Removing("lockMe")})
ForceUnlock(ws) == Writes(<<"workspace", "force-unlock">>, ws, { Removing(l) : l \in Locks })
GetWorkspacePolicy(ws) == Reads(NoPerm, ws, {}, {"grant"})
SetWorkspacePermission(ws) == Writes(<<"workspace", "set-permission">>, ws, {Does({ws, "devs"}, {}, {"grant"}, {})})
UnsetWorkspacePermission(ws) == Writes(<<"workspace", "unset-permission">>, ws, {Removing("grant")})
AddTags(ws) == Writes(<<"tag", "add">>, ws, {Adding(ws, "tag")})
RemoveTags(ws) == Writes(<<"tag", "remove">>, ws, {Removing("tag")})
GetLatest == Reads(NoPerm, Site, {}, {})

-----------------------------------------------------------------------------
(* Runs, triggers, state and variables *)

\* Columns of the run; those that were started from here are in progress.
RunRow(run) == IF run = "run" THEN {"run", "planned", "signaled", "done", "applied", "cause"} ELSE {run}

ListRuns(parent) ==
  Reads(IF parent = Org THEN <<"run", "list">> ELSE <<"workspace", "get">>, parent, {}, Runs \union RunRow("run"))
GetRun(run) == Reads(<<"run", "get">>, run, {run}, RunRow(run))
GetChunk(run) == Reads(NoPerm, run, {}, {})
TailRun(run) == Reads(<<"chunk", "tail">>, run, {}, {})
ListTriggeredRunIDs(run) == Reads(NoPerm, run, {}, IF run = "run" THEN {"effect"} ELSE {})
\* Events of all runs, those of a run that was triggered, too.
WatchRuns == Reads(NoPerm, Site, {}, {"effect"})
CreateRun(ws, run) == Writes(<<"run", "create">>, ws, {Adding(ws, run)})
DeleteRun(run) == Writes(<<"run", "delete">>, run, {Removing(run)})
Ends(run) == IF run = "run" THEN Does({run}, {}, {"done"}, {"planned", "applied"}) ELSE Changing(run)
\* A run in progress is signaled, once.
Signals == {Does({"run"}, {"signaled", "done"}, {"signaled"}, {}), Changing("signaled")}
OnRun(run, ways) == IF run = "run" THEN ways ELSE {}
CancelRun(run) == Surely(Writes(<<"run", "cancel">>, run, {Ends(run)} \union OnRun(run, Signals)))
ForceCancelRun(run) ==
  Writes(<<"run", "force-cancel">>, run, OnRun(run, {[Ends(run) EXCEPT !.needs = {"signaled"}, !.free = {"done"}]}))
ApplyRun(run) == Writes(<<"run", "apply">>, run, OnRun(run, {Removing("planned")}))
DiscardRun(run) == Writes(<<"run", "discard">>, run, OnRun(run, {[Ends(run) EXCEPT !.free = {"done"}]}))

ListRunTriggers(ws) == Reads(<<"run-trigger", "list">>, ws, {}, {"trigger"})
\* The runs of the workspace that triggers have to be readable, too.
CreateRunTrigger(ws) ==
  Also(ws, <<"run", "get">>, "upstream",
       Writes(<<"run-trigger", "create">>, ws, {Does({ws, "upstream"}, {"trigger"}, {"trigger"}, {})}))
DeleteRunTrigger == Writes(<<"run-trigger", "delete">>, "trigger", {Removing("trigger")})

ListStateVersions(ws) == Reads(<<"state-version", "list">>, ws, {}, Versions)
GetCurrentStateVersion(ws) == Reads(<<"state-version", "get">>, ws, {"state"}, {"state"})
GetPreviousStateVersion(ws) == Reads(<<"state-version", "get">>, ws, {}, {})
GetStateVersion(sv) == Reads(<<"state-version", "get">>, sv, {sv}, {sv})
\* The state of a version, formatted or compared.
ParseState == MayFail(Reads(NoPerm, Site, {}, {}))
RollbackStateVersion(sv) == Writes(<<"state-version", "rollback">>, sv, {Changing(sv)})
\* The current version cannot be deleted.
DeleteStateVersion(sv) ==
  Writes(<<"state-version", "delete">>, sv, IF sv = "state" THEN {} ELSE {Removing(sv)})

ListVariables(ws) == Reads(<<"variable", "list">>, ws, {}, {"variable"})
GetVariable(v) == Reads(<<"variable", "get">>, v, {v}, {v})
CreateVariable(parent, v) == Writes(<<"variable", "create">>, parent, {Adding(parent, v)})
UpdateVariable(v) == Writes(<<"variable", "update">>, v, {Changing(v)})
DeleteVariable(v) == Writes(<<"variable", "delete">>, v, {Removing(v)})
ListVariableSets == Reads(<<"variable-set", "list">>, Org, {}, {"set"})
ListWorkspaceVariableSets(ws) == Reads(<<"variable-set", "list">>, ws, {}, {"set", "setVariable"})
GetVariableSet == Reads(<<"variable-set", "get">>, "set", {}, {"set", "setVariable"})
CreateVariableSet == Writes(<<"variable-set", "create">>, Org, {Adding(Org, "set")})
UpdateVariableSet == Writes(<<"variable-set", "update">>, "set", {Changing("set")})
DeleteVariableSet == Writes(<<"variable-set", "delete">>, "set", {Removing("set")})

-----------------------------------------------------------------------------
(* Handlers *)

\* What a handler calls, in order: always, or only if one of some rows was read before.
\* What goes wrong ends the handler, unless it does not mind.
Do(op) == [op |-> op, when |-> {}, minds |-> {"missing", "refused"}]
OnlyIfAny(S, op) == [Do(op) EXCEPT !.when = S]
OnlyIf(row, op) == OnlyIfAny({row}, op)
IfFound(op) == [Do(op) EXCEPT !.minds = {"refused"}]
IfPermitted(op) == [Do(op) EXCEPT !.minds = {"missing"}]
Trying(op) == [Do(op) EXCEPT !.minds = {}]

\* What it ends with: a page, part of which may be kept up to date, or a redirect.
Renders(calls, page, live) == [calls |-> calls, page |-> page, live |-> live, to |-> NoPath, flash |-> "none"]
Redirects(calls, flash, path) == [calls |-> calls, page |-> {}, live |-> {}, to |-> path, flash |-> flash]

\* The page that the request came from.
Referer == <<"referer">>

Route(method, path, handler) == (<<method, path>>) :> handler
=============================================================================
