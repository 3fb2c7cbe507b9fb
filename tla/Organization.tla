---------------------------- MODULE Organization ----------------------------
(***************************************************************************)
(* The tables of an organization: workspaces with their settings, tags and *)
(* agent pools, variables and variable sets, and state versions, changed   *)
(* by requests at the same time, and the accounts of those who may send    *)
(* them.  What belongs to a workspace goes with it.                        *)
(***************************************************************************)
EXTENDS Workspaces, Variables, StateVersions, Accounts

CONSTANTS VariableOptions, SetOptions, SettingOptions, Calls  \* bounds: the options of requests

vars == <<requestVars, settingVars, variableVars, stateVars, accountVars>>

Init == RequestsInit /\ SettingsInit /\ VariablesInit /\ StatesInit /\ AccountsInit

\* DeleteWorkspace disconnects the workspace in a transaction of its own,
DeleteWorkspace(s, w) ==
  /\ Spend("removals")
  /\ w \in workspaces
  /\ \A t \in Others(s) : ~LocksWorkspace(t, w)
  /\ Begin(s, [op |-> "deleteWorkspace", at |-> "delete", workspace |-> w])
  /\ settings' = [settings EXCEPT ![w] = [@ EXCEPT !.connected = FALSE, !.tagsRegex = FALSE]]
  /\ UNCHANGED <<workspaces, pools, tags, tagged, variableVars, stateVars, accountVars>>

\* then deletes it.  Which tags the trigger deletes is decided with the statement,
\* on what others have committed and without the deletions in progress,
DeleteWorkspaceStatement(s) ==
  /\ At(s, "deleteWorkspace", "delete")
  /\ LET w == session[s].workspace
         doomed == tags \ delete_tags([tagged EXCEPT ![w] = {}])
     IN \/ /\ w \in workspaces
           /\ \A t \in Others(s) : Deletes(t) =>
                session[t].workspace # w /\ session[t].doomed \intersect doomed = {}
           /\ session' = [session EXCEPT ![s] =
                [op |-> "deleteWorkspace", at |-> "commit", workspace |-> w, doomed |-> doomed]]
        \/ w \notin workspaces /\ End(s)
  /\ UNCHANGED <<workspaces, budget, settingVars, variableVars, stateVars, accountVars>>

\* and what belongs to the workspace goes with it.
DeleteWorkspaceCommits(s) ==
  /\ At(s, "deleteWorkspace", "commit")
  /\ LET w == session[s].workspace IN
     /\ workspaces' = workspaces \ {w}
     /\ SettingsCascade(w, session[s].doomed)
     /\ VariablesCascade(w)
     /\ StatesCascade(w)
     /\ RolesCascade(w)
  /\ End(s)
  /\ UNCHANGED budget

\* What is offered to the requests of a behaviour.
RowOf(parents) == [parent : parents, key : Key, sensitive : BOOLEAN]
Option(values) == {{}} \union { {x} : x \in values }
VariableOption == [key : Option(Key), sensitive : Option(BOOLEAN)]
SetOption == [name : Option(SetName), global : Option(BOOLEAN), workspaces : Option(SUBSET Workspace)]
SettingOption == { opts \in [mode : Option(Mode), always : BOOLEAN, patterns : Option(BOOLEAN),
                             connect : BOOLEAN, tagsRegex : BOOLEAN, disconnect : BOOLEAN] :
                     opts.tagsRegex => opts.connect }


Manages == SUBSET DOMAIN ManagerRole
CallOption ==
  [op : {"createOrganization", "createOrganizationToken", "deleteOrganizationToken"}, organization : Org] \union
  [op : {"createTeam"}, organization : Org, name : TeamName, manage : Manages] \union
  [op : {"updateTeam"}, team : Team, name : TeamName, manage : Manages] \union
  [op : {"deleteTeam", "createTeamToken", "deleteTeamToken"}, team : Team] \union
  [op : {"addTeamMembership", "removeTeamMembership"}, team : Team, users : SUBSET User] \union
  [op : {"createUser", "deleteUser"}, user : User] \union
  [op : {"createToken"}] \union [op : {"deleteToken"}, token : Token] \union
  [op : {"setPermission"}, workspace : Workspace, team : Team, role : RoleName] \union
  [op : {"unsetPermission"}, workspace : Workspace, team : Team]

ASSUME OptionsAssumption ==
  /\ VariableOptions \subseteq VariableOption /\ SetOptions \subseteq SetOption
  /\ SettingOptions \subseteq SettingOption /\ Calls \subseteq CallOption

\* The tables that a behaviour may start with: rows refer to rows that exist, no
\* variables are in conflict, and the teams are those of the organization Home.
MayStart(start) ==
  /\ start.workspaces \subseteq Workspace
  /\ start.pools \in [Pool -> {NoAgentPool} \union
       [exists : {TRUE}, scoped : BOOLEAN, allowed : SUBSET start.workspaces]]
  /\ start.sets \in [VariableSet -> {NoSet} \union
       [name : SetName, global : BOOLEAN, workspaces : SUBSET start.workspaces, exists : {TRUE}]]
  /\ LET someSets == { x \in VariableSet : start.sets[x].exists }
         globalSets == { x \in VariableSet : start.sets[x].global }
     IN /\ start.variables \in [Variable -> {NoRow} \union RowOf(start.workspaces \union someSets)]
        /\ \A u, v \in { v \in Variable : start.variables[v] # NoRow } :
             LET p == start.variables[u].parent
                 q == start.variables[v].parent
             IN u # v /\ (p = q \/ {p, q} \subseteq globalSets) => start.variables[u].key # start.variables[v].key
  /\ start.users \subseteq User /\ start.admins \subseteq start.users
  /\ start.teams \in [Team -> {UnusedTeam} \union [name : TeamName, organization : {Home}, manage : Manages]]
  /\ start.members \in [Team -> SUBSET start.users]
  /\ \A t \in Team : start.teams[t] = UnusedTeam => start.members[t] = {}

ASSUME StartAssumption == \A b \in Budgets : MayStart(b.start)

SettingsNext(s) ==
  /\ \/ \E w \in Workspace, opts \in SettingOptions : CreateWorkspace(s, w, opts) \/ UpdateWorkspace(s, w, opts)
     \/ CreateWorkspaceCommits(s)
     \/ UpdateWorkspaceCommits(s)
     \/ \E p \in Pool, scoped \in BOOLEAN, allowed \in SUBSET Workspace :
          CreateAgentPool(s, p, scoped, allowed) \/ UpdateAgentPool(s, p, scoped, allowed)
     \/ UpdateAgentPoolCommits(s)
     \/ \E p \in Pool : DeleteAgentPool(s, p)
     \/ \E w \in Workspace, names \in (SUBSET TagName) \ {{}} : AddTags(s, w, names) \/ RemoveTags(s, w, names)
     \/ \E name \in TagName, ws \in (SUBSET Workspace) \ {{}} : TagWorkspaces(s, name, ws)
     \/ \E names \in (SUBSET TagName) \ {{}} : DeleteTags(s, names)
  /\ UNCHANGED <<variableVars, stateVars, accountVars>>

VariablesNext(s) ==
  /\ \/ \E v \in Variable, row \in RowOf(Workspace \union VariableSet) : CreateVariable(s, v, row)
     \/ CreateVariableCommits(s)
     \/ \E v \in Variable, opts \in VariableOptions : UpdateVariable(s, v, opts)
     \/ UpdateVariableCommits(s)
     \/ \E v \in Variable : DeleteVariable(s, v)
     \/ \E x \in VariableSet, name \in SetName, global \in BOOLEAN, ws \in SUBSET Workspace :
          CreateVariableSet(s, x, name, global, ws)
     \/ \E x \in VariableSet, opts \in SetOptions : UpdateVariableSet(s, x, opts)
     \/ UpdateVariableSetChecks(s)
     \/ UpdateVariableSetCommits(s)
     \/ \E x \in VariableSet : DeleteVariableSet(s, x)
     \/ DeleteVariableSetCascades(s)
     \/ \E x \in VariableSet, ws \in (SUBSET Workspace) \ {{}} :
          ApplySetToWorkspaces(s, x, ws) \/ DeleteSetFromWorkspaces(s, x, ws)
     \/ DeadlockDetected(s)
  /\ UNCHANGED <<settingVars, stateVars, accountVars>>

StatesNext(s) ==
  /\ \/ \E v \in Version, w \in Workspace, serial \in 0..MaxSerial, state \in State \union {NoState} :
          CreateStateVersion(s, v, w, serial, state)
     \/ \E v, from \in Version : RollbackStateVersion(s, v, from)
     \/ CreateStateVersionCommits(s)
     \/ \E v \in Version, state \in State : UploadState(s, v, state)
     \/ UploadStateCommits(s)
     \/ UploadsDeadlock(s)
     \/ \E v \in Version : DeleteStateVersion(s, v)
  /\ UNCHANGED <<settingVars, variableVars, accountVars>>

AccountsNext(s) ==
  /\ \/ \E call \in Calls : call.op \in budget.ops /\ Authenticate(s, call)
     \/ CreateOrganization(s)
     \/ CreateTeam(s)
     \/ UpdateTeam(s) \/ UpdateTeamCommits(s)
     \/ DeleteTeam(s) \/ DeleteTeamCommits(s)
     \/ AddTeamMembership(s) \/ AddTeamMembershipCommits(s)
     \/ RemoveTeamMembership(s) \/ ListOwners(s) \/ RemoveTeamMembershipCommits(s)
     \/ CreateUser(s) \/ DeleteUser(s)
     \/ \E u \in User : Login(s, u)
     \/ LoginCreates(s)
     \/ \E us \in SUBSET User : SetSiteAdmins(s, us)
     \/ DemoteAdmins(s) \/ DemoteLocks(s) \/ PromoteAdmins(s)
     \/ CreateToken(s) \/ DeleteToken(s) \/ DeleteTokenCommits(s)
     \/ CreateOwnersToken(s) \/ DeleteOwnersToken(s)
     \/ ChangePermission(s) \/ ChangePermissionCommits(s)
  /\ UNCHANGED <<settingVars, variableVars, stateVars>>

Next == \E s \in Session :
          \/ SettingsNext(s)
          \/ VariablesNext(s)
          \/ StatesNext(s)
          \/ AccountsNext(s)
          \/ \E w \in Workspace : DeleteWorkspace(s, w)
          \/ DeleteWorkspaceStatement(s)
          \/ DeleteWorkspaceCommits(s)

Spec == Init /\ [][Next]_vars

TypeOK == SettingsTypeOK /\ VariablesTypeOK /\ StatesTypeOK /\ AccountsTypeOK

\* What single requests check holds between the tables however requests are
\* interleaved: no variables in conflict, no current version without state, no
\* workspace with a tag that is gone.
TablesAgree == TypeOK /\ NoConflicts /\ CurrentHasState /\ TagsExist

\* A state that was written is never overwritten, a version that was pending when
\* another became current never becomes so, and serials go forward as long as
\* the check of serials is in time (uploadStateAndOutputs, discardAnyPending).
StatesMoveForward == StateWrittenOnce /\ OvertakenIsDiscarded /\ OvertakenIsNotUploaded

\* An update never takes back what others rely on: access to a pool that is in
\* use, and that a value is kept secret.
UpdatesTakeNothingBack == PoolIsNotTakenAway /\ SensitiveStaysSensitive

\* An organization is in the hands of its owners: one removal leaves it one, and
\* nobody else changes its teams.
OwnersGovern == OwnersAreKept /\ OwnersManageTeams
=============================================================================
