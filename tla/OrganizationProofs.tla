-------------------------- MODULE OrganizationProofs --------------------------
(***************************************************************************)
(* Proofs about Organization, for any number of requests at the same time  *)
(* and any workspaces, pools, variables, versions and accounts.            *)
(*                                                                         *)
(* A request reads and checks in one statement and writes in a later one.  *)
(* What it checked is part of the invariant until it writes: either a lock *)
(* keeps it true, or what others may do in the meantime does not disturb   *)
(* it.  The four parts of the invariant share no variables but workspaces  *)
(* and session; a request belongs to one part, and its steps leave the     *)
(* other parts as they are.                                                *)
(***************************************************************************)
EXTENDS Organization, TLAPS, FiniteSetTheorems

-----------------------------------------------------------------------------
(* The inductive invariant: workspaces, pools and tags *)

WorkspaceRow == [mode : Mode, connected : BOOLEAN, tagsRegex : BOOLEAN, patterns : BOOLEAN]
PoolRow == [exists : BOOLEAN, scoped : BOOLEAN, allowed : SUBSET Workspace]

\* An update of a pool leaves it open to every workspace that uses it: no
\* workspace is assigned to the pool while the update holds the lock.
SettingsRequest(q) ==
  /\ q.op \in {"createWorkspace", "updateWorkspace"} => q.workspace \in Workspace /\ q.row \in WorkspaceRow
  /\ q.op = "deleteWorkspace" => q.workspace \in Workspace
  /\ q.op = "updatePool" => q.pool \in Pool /\ q.row \in PoolRow /\ q.row.exists /\ PoolUpdateAllowed(q.pool, q.row)

SettingsInv ==
  /\ SettingsTypeOK
  /\ TagsExist
  /\ \A p \in Pool : ~pools[p].exists => ~pools[p].scoped /\ pools[p].allowed = {}
  /\ \A s \in Session : SettingsRequest(session[s])

-----------------------------------------------------------------------------
(* Variables and their sets *)

VariableRow == RowOf(Workspace \union VariableSet)
SetRow == [name : SetName \union {0}, global : BOOLEAN, workspaces : SUBSET Workspace, exists : BOOLEAN]

\* What the request that holds the variables has checked.
CreatesVariable(q) ==
  /\ q.variable \in Variable /\ q.row \in VariableRow
  /\ ~Exists(q.variable)
  /\ checkVariable(q.variable, q.row)

UpdatesVariable(q) ==
  /\ q.variable \in Variable /\ q.row \in VariableRow
  /\ Exists(q.variable)
  /\ LET row == variables[q.variable] IN
     /\ q.row.parent = row.parent
     /\ row.sensitive => q.row.sensitive /\ q.row.key = row.key
  /\ checkVariable(q.variable, q.row)

UpdatesSet(q) ==
  /\ q \in [op : {"updateSet"}, at : {"lock", "write"}, set : VariableSet, opts : SetOption, after : SetRow]
  /\ q.at = "write" => sets[q.set].exists /\ q.after.exists /\ checkSet(q.set, q.after)

VariablesRequest(q) ==
  /\ q.op = "createVariable" => CreatesVariable(q)
  /\ q.op = "updateVariable" => UpdatesVariable(q)
  /\ q.op = "updateSet" => UpdatesSet(q)
  /\ q.op = "deleteSet" => q.set \in VariableSet

\* The variables of a set that is gone are gone.
ParentsExist == \A v \in Variable, x \in VariableSet : Exists(v) /\ variables[v].parent = x => sets[x].exists

VariablesInv ==
  /\ VariablesTypeOK
  /\ NoConflicts
  /\ ParentsExist
  /\ \A s, t \in Session : LocksVariables(s) /\ LocksVariables(t) => s = t
  /\ \A s \in Session : VariablesRequest(session[s])

-----------------------------------------------------------------------------
(* State versions *)

VersionRow == [workspace : Workspace, serial : 0..MaxSerial, state : State \union {NoState},
               status : {"pending", "finalized", "discarded"}]

StatesRequest(q) ==
  /\ q.op = "createVersion" => /\ q.version \in Version /\ q.row \in VersionRow
                               /\ q.row.status = "pending"
                               /\ ~Stored(q.version)
  /\ q.op = "uploadState" => /\ q.at = "write" /\ q.version \in Version /\ q.state \in State
                             /\ Stored(q.version)
                             /\ versions[q.version].status = "pending"

\* What is pending may become current: its serial is not behind, unless the
\* workspace has a version that the check came too early for.
PendingIsAhead ==
  \A w \in Workspace \ unchecked, v \in Version :
    v \in Pending(w) /\ current[w] # None => versions[v].serial >= versions[current[w]].serial

\* A version is created, or its state uploaded, by one request.
OneWriter ==
  \A s, t \in Session, op \in {"createVersion", "uploadState"} :
    session[s].op = op /\ session[t].op = op /\ session[s].version = session[t].version => s = t

StatesInv ==
  /\ StatesTypeOK
  /\ CurrentHasState
  /\ PendingIsAhead
  /\ OneWriter
  /\ \A s \in Session : StatesRequest(session[s])

-----------------------------------------------------------------------------
(* Accounts *)

TeamState == {UnusedTeam, GoneTeam} \union [name : TeamName, organization : Org, manage : Manages]
TokenState == {UnusedToken, GoneToken} \union [kind : {"user"}, name : User] \union
              [kind : {"team"}, name : Team] \union [kind : {"organization"}, name : Org]

TeamRows == [id : Team, name : TeamName, organization : Org, manage : Manages]
Subjects ==
  [kind : {"user"}, name : User, admin : BOOLEAN, teams : SUBSET TeamRows] \union
  [kind : {"team"}, name : Team, admin : BOOLEAN, teams : SUBSET TeamRows] \union
  [kind : {"organization"}, name : Org, admin : BOOLEAN, teams : SUBSET TeamRows]

TeamChanges == {"updateTeam", "deleteTeam", "addTeamMembership", "removeTeamMembership"}
CallOps == {"createOrganization", "createOrganizationToken", "deleteOrganizationToken", "createTeam",
            "createTeamToken", "deleteTeamToken", "createUser", "deleteUser", "createToken", "deleteToken",
            "setPermission", "unsetPermission"} \union TeamChanges

CallRow == [op : CallOps, at : {"get", "list", "write"}, call : CallOption, subject : Subjects]
ListedRow == [op : CallOps, at : {"write"}, call : CallOption, subject : Subjects, listed : SUBSET User]

\* A request that was let through to a team speaks for the team's organization,
\* and one that listed the owners spares one of them.
CallRequest(q) ==
  /\ q \in CallRow \union ListedRow
  /\ q.call.op = q.op
  /\ q.op \in TeamChanges /\ q.at # "get" =>
       /\ teams[q.call.team] # UnusedTeam
       /\ TeamExists(q.call.team) => OwnerOf(q.subject, teams[q.call.team].organization)
  /\ "listed" \in DOMAIN q => q.op = "removeTeamMembership" /\ SparesAnOwner(q.listed, q.call.users)

AccountsRequest(q) ==
  /\ q.op \in CallOps => CallRequest(q)
  /\ q.op = "login" => q.user \in User
  /\ q.op = "setSiteAdmins" =>
       q \in [op : {"setSiteAdmins"}, at : {"demote"}, users : SUBSET User] \union
             [op : {"setSiteAdmins"}, at : {"demoting", "promote"}, users : SUBSET User, demoted : SUBSET User]

UsersOK == organizations \subseteq Org /\ users \subseteq User /\ admins \subseteq users

TeamsOK ==
  /\ teams \in [Team -> TeamState]
  /\ \A t \in Team : TeamExists(t) => teams[t].organization \in organizations

MembersOK ==
  /\ members \in [Team -> SUBSET User]
  /\ \A t \in Team : members[t] \subseteq users /\ (~TeamExists(t) => members[t] = {})

RolesOK ==
  /\ roles \in [Workspace -> [Team -> RoleName \union {NoRole}]]
  /\ \A w \in Workspace, t \in Team : roles[w][t] # NoRole => w \in workspaces /\ TeamExists(t)

TokensOK ==
  /\ tokens \in [Token -> TokenState]
  /\ \A k \in Token : /\ tokens[k].kind = "user" => tokens[k].name \in users
                      /\ tokens[k].kind = "team" => TeamExists(tokens[k].name)
                      /\ tokens[k].kind = "organization" => tokens[k].name \in organizations
  /\ \A k, l \in Token : tokens[k] = tokens[l] /\ tokens[k].kind \in {"team", "organization"} => k = l

AccountsTables == UsersOK /\ TeamsOK /\ MembersOK /\ RolesOK /\ TokensOK

AccountsInv == AccountsTables /\ \A s \in Session : AccountsRequest(session[s])

IInv == DOMAIN session = Session /\ SettingsInv /\ VariablesInv /\ StatesInv /\ AccountsInv

-----------------------------------------------------------------------------
(* The parts do not disturb each other *)

SettingsOps == {"createWorkspace", "updateWorkspace", "updatePool"}
VariablesOps == {"createVariable", "updateVariable", "updateSet", "deleteSet"}
StatesOps == {"createVersion", "uploadState"}
AccountsOps == CallOps \union {"login", "setSiteAdmins"}

\* A step of the request s, which is one of ops or becomes one.
Only(s, ops) ==
  /\ DOMAIN session' = Session
  /\ \A t \in Session \ {s} : session'[t] = session[t]
  /\ session[s].op \in ops \union {"idle"}
  /\ session'[s].op \in ops \union {"idle"}

LEMMA SettingsOnly ==
  ASSUME DOMAIN session = Session, NEW s \in Session, SettingsNext(s)
  PROVE  Only(s, SettingsOps)
<1> USE DEF Only, SettingsOps, Begin, AtOnce, End, At, Idle
<1>1. ASSUME NEW w, NEW opts, CreateWorkspace(s, w, opts) \/ UpdateWorkspace(s, w, opts)
      PROVE  Only(s, SettingsOps)
  BY <1>1 DEF CreateWorkspace, UpdateWorkspace
<1>2. ASSUME CreateWorkspaceCommits(s) \/ UpdateWorkspaceCommits(s)
      PROVE  Only(s, SettingsOps)
  BY <1>2 DEF CreateWorkspaceCommits, UpdateWorkspaceCommits
<1>3. ASSUME NEW p, NEW scoped, NEW allowed, CreateAgentPool(s, p, scoped, allowed) \/ UpdateAgentPool(s, p, scoped, allowed)
      PROVE  Only(s, SettingsOps)
  BY <1>3 DEF CreateAgentPool, UpdateAgentPool
<1>4. ASSUME UpdateAgentPoolCommits(s)
      PROVE  Only(s, SettingsOps)
  BY <1>4 DEF UpdateAgentPoolCommits
<1>5. ASSUME NEW p, DeleteAgentPool(s, p)
      PROVE  Only(s, SettingsOps)
  BY <1>5 DEF DeleteAgentPool
<1>6. ASSUME NEW w, NEW names, AddTags(s, w, names) \/ RemoveTags(s, w, names)
      PROVE  Only(s, SettingsOps)
  BY <1>6 DEF AddTags, RemoveTags
<1>7. ASSUME NEW name, NEW ws, TagWorkspaces(s, name, ws)
      PROVE  Only(s, SettingsOps)
  BY <1>7 DEF TagWorkspaces
<1>8. ASSUME NEW names, DeleteTags(s, names)
      PROVE  Only(s, SettingsOps)
  BY <1>8 DEF DeleteTags
<1> QED BY <1>1, <1>2, <1>3, <1>4, <1>5, <1>6, <1>7, <1>8 DEF SettingsNext

LEMMA VariablesOnly ==
  ASSUME DOMAIN session = Session, NEW s \in Session, VariablesNext(s)
  PROVE  Only(s, VariablesOps)
<1> USE DEF Only, VariablesOps, Begin, AtOnce, End, At, Idle
<1>1. ASSUME NEW v, NEW row, CreateVariable(s, v, row)
      PROVE  Only(s, VariablesOps)
  BY <1>1 DEF CreateVariable
<1>2. ASSUME CreateVariableCommits(s) \/ UpdateVariableCommits(s)
      PROVE  Only(s, VariablesOps)
  BY <1>2 DEF CreateVariableCommits, UpdateVariableCommits
<1>3. ASSUME NEW v, NEW opts, UpdateVariable(s, v, opts)
      PROVE  Only(s, VariablesOps)
  BY <1>3 DEF UpdateVariable
<1>4. ASSUME NEW v, DeleteVariable(s, v)
      PROVE  Only(s, VariablesOps)
  BY <1>4 DEF DeleteVariable
<1>5. ASSUME NEW x, NEW name, NEW global, NEW ws, CreateVariableSet(s, x, name, global, ws)
      PROVE  Only(s, VariablesOps)
  BY <1>5 DEF CreateVariableSet
<1>6. ASSUME NEW x, NEW opts, UpdateVariableSet(s, x, opts)
      PROVE  Only(s, VariablesOps)
  BY <1>6 DEF UpdateVariableSet
<1>7. ASSUME UpdateVariableSetChecks(s)
      PROVE  Only(s, VariablesOps)
  BY <1>7 DEF UpdateVariableSetChecks
<1>8. ASSUME UpdateVariableSetCommits(s)
      PROVE  Only(s, VariablesOps)
  BY <1>8 DEF UpdateVariableSetCommits
<1>9. ASSUME NEW x, DeleteVariableSet(s, x)
      PROVE  Only(s, VariablesOps)
  BY <1>9 DEF DeleteVariableSet
<1>10. ASSUME DeleteVariableSetCascades(s)
      PROVE  Only(s, VariablesOps)
  BY <1>10 DEF DeleteVariableSetCascades
<1>11. ASSUME NEW x, NEW ws, ApplySetToWorkspaces(s, x, ws) \/ DeleteSetFromWorkspaces(s, x, ws)
      PROVE  Only(s, VariablesOps)
  BY <1>11 DEF ApplySetToWorkspaces, DeleteSetFromWorkspaces
<1>12. ASSUME DeadlockDetected(s)
      PROVE  Only(s, VariablesOps)
  BY <1>12 DEF DeadlockDetected, Deadlocked
<1> QED BY <1>1, <1>2, <1>3, <1>4, <1>5, <1>6, <1>7, <1>8, <1>9, <1>10, <1>11, <1>12 DEF VariablesNext

LEMMA StatesOnly ==
  ASSUME DOMAIN session = Session, NEW s \in Session, StatesNext(s)
  PROVE  Only(s, StatesOps)
<1> USE DEF Only, StatesOps, Begin, AtOnce, End, At, Idle
<1>1. ASSUME NEW v, NEW w, NEW serial, NEW state, CreateStateVersion(s, v, w, serial, state)
      PROVE  Only(s, StatesOps)
  BY <1>1 DEF CreateStateVersion
<1>2. ASSUME NEW v, NEW from, RollbackStateVersion(s, v, from)
      PROVE  Only(s, StatesOps)
  BY <1>2 DEF RollbackStateVersion
<1>3. ASSUME CreateStateVersionCommits(s)
      PROVE  Only(s, StatesOps)
  BY <1>3 DEF CreateStateVersionCommits, Creating
<1>4. ASSUME NEW v, NEW state, UploadState(s, v, state)
      PROVE  Only(s, StatesOps)
  BY <1>4 DEF UploadState
<1>5. ASSUME UploadStateCommits(s) \/ UploadsDeadlock(s)
      PROVE  Only(s, StatesOps)
  BY <1>5 DEF UploadStateCommits, UploadsDeadlock
<1>6. ASSUME NEW v, DeleteStateVersion(s, v)
      PROVE  Only(s, StatesOps)
  BY <1>6 DEF DeleteStateVersion
<1> QED BY <1>1, <1>2, <1>3, <1>4, <1>5, <1>6 DEF StatesNext

LEMMA DeletionOnly ==
  ASSUME DOMAIN session = Session, NEW s \in Session,
         (\E w \in Workspace : DeleteWorkspace(s, w)) \/ DeleteWorkspaceStatement(s) \/ DeleteWorkspaceCommits(s)
  PROVE  Only(s, {"deleteWorkspace"})
<1> USE DEF Only, Begin, End, At, Idle
<1>1. ASSUME NEW w, DeleteWorkspace(s, w)
      PROVE  Only(s, {"deleteWorkspace"})
  <2>1. session[s] = Idle /\ session' = [session EXCEPT ![s] = [op |-> "deleteWorkspace", at |-> "delete", workspace |-> w]]
    BY <1>1 DEF DeleteWorkspace
  <2> QED BY <2>1
<1>2. ASSUME DeleteWorkspaceStatement(s) \/ DeleteWorkspaceCommits(s)
      PROVE  Only(s, {"deleteWorkspace"})
  BY <1>2 DEF DeleteWorkspaceStatement, DeleteWorkspaceCommits
<1> QED BY <1>1, <1>2

-----------------------------------------------------------------------------
(* Workspaces, pools and tags *)

\* Steps of other parts: workspaces are not taken away, nothing else changes.
LEMMA SettingsAside ==
  ASSUME SettingsInv, DOMAIN session = Session, NEW s \in Session, NEW ops, Only(s, ops),
         ops \cap (SettingsOps \union {"deleteWorkspace"}) = {},
         UNCHANGED settingVars, UNCHANGED workspaces
  PROVE  SettingsInv'
<1>1. SettingsTypeOK' /\ TagsExist' /\ (\A p \in Pool : ~pools'[p].exists => ~pools'[p].scoped /\ pools'[p].allowed = {})
  BY DEF SettingsInv, SettingsTypeOK, TagsExist, settingVars
<1>2. ASSUME NEW t \in Session
      PROVE  SettingsRequest(session[t])'
  <2>1. CASE t = s
    BY <2>1 DEF Only, SettingsRequest, SettingsOps
  <2>2. CASE t # s
    BY <2>2 DEF SettingsInv, Only, SettingsRequest, PoolUpdateAllowed, AssignedWorkspaces, settingVars
  <2> QED BY <2>1, <2>2
<1> QED BY <1>1, <1>2 DEF SettingsInv

\* The rows that requests write.
LEMMA NewWorkspaceTyped ==
  ASSUME NEW opts \in SettingOptions
  PROVE  NewWorkspace(opts) \in WorkspaceRow
<1>1. opts \in [mode : Option(Mode), always : BOOLEAN, patterns : Option(BOOLEAN),
                connect : BOOLEAN, tagsRegex : BOOLEAN, disconnect : BOOLEAN]
  BY OptionsAssumption DEF SettingOption
<1>2. NoSettings.mode \in Mode
  BY DEF NoSettings, Mode
<1>3. ModeAfter(NoSettings, opts) \in Mode
  BY <1>1, <1>2 DEF ModeAfter, Option
<1> QED BY <1>1, <1>3 DEF NewWorkspace, WorkspaceRow

LEMMA UpdateTyped ==
  ASSUME NEW ws \in WorkspaceRow, NEW opts \in SettingOptions
  PROVE  Update(ws, opts) \in WorkspaceRow
<1>1. opts \in [mode : Option(Mode), always : BOOLEAN, patterns : Option(BOOLEAN),
                connect : BOOLEAN, tagsRegex : BOOLEAN, disconnect : BOOLEAN]
  BY OptionsAssumption DEF SettingOption
<1>2. ModeAfter(ws, opts) \in Mode
  BY <1>1 DEF ModeAfter, Option, WorkspaceRow
<1>3. PatternsAfter(ws, opts) \in BOOLEAN
  BY DEF PatternsAfter
<1> QED BY <1>1, <1>2, <1>3 DEF Update, WorkspaceRow

\* A pool that a workspace uses stays open to it (PoolIsNotTakenAway).
PoolsKept ==
  \A w \in workspaces \intersect workspaces' :
    LET p == settings[w].mode.pool IN
    (p # NoPool /\ settings'[w].mode.pool = p /\ CanUse(w, p, pools)) =>
      pools'[p].exists /\ CanUse(w, p, pools')

LEMMA PoolOfMode ==
  ASSUME NEW m \in Mode
  PROVE  m.pool # NoPool => m.pool \in Pool
BY DEF Mode

\* Requests of others: the pool that one of them has locked gets no workspace.
LEMMA OthersSettings ==
  ASSUME SettingsInv, NEW s \in Session, Only(s, SettingsOps), NEW t \in Session, t # s,
         LocksPools(t) => AssignedWorkspaces(session[t].pool)' \subseteq AssignedWorkspaces(session[t].pool)
  PROVE  SettingsRequest(session[t])'
<1>1. session'[t] = session[t] /\ SettingsRequest(session[t])
  BY DEF SettingsInv, Only
<1> QED BY <1>1 DEF SettingsRequest, LocksPools, PoolUpdateAllowed

LEMMA BeginSettings ==
  ASSUME SettingsInv, DOMAIN session = Session, NEW s \in Session, SettingsNext(s),
         (\E w \in Workspace, opts \in SettingOptions : CreateWorkspace(s, w, opts) \/ UpdateWorkspace(s, w, opts))
         \/ (\E p \in Pool, scoped \in BOOLEAN, allowed \in SUBSET Workspace : UpdateAgentPool(s, p, scoped, allowed))
  PROVE  SettingsInv' /\ UNCHANGED settingVars
<1>1. Only(s, SettingsOps)
  BY SettingsOnly
<1>2. UNCHANGED <<workspaces, settings, pools, tags, tagged>>
  BY DEF CreateWorkspace, UpdateWorkspace, UpdateAgentPool, settingVars
<1>3. SettingsRequest(session[s])'
  <2>1. ASSUME NEW w \in Workspace, NEW opts \in SettingOptions, CreateWorkspace(s, w, opts)
        PROVE  SettingsRequest(session[s])'
    BY <2>1, NewWorkspaceTyped DEF CreateWorkspace, Begin, AtOnce, Idle, SettingsRequest
  <2>2. ASSUME NEW w \in Workspace, NEW opts \in SettingOptions, UpdateWorkspace(s, w, opts)
        PROVE  SettingsRequest(session[s])'
    <3>1. Update(settings[w], opts) \in WorkspaceRow
      BY UpdateTyped DEF SettingsInv, SettingsTypeOK, WorkspaceRow
    <3> QED BY <2>2, <3>1 DEF UpdateWorkspace, Begin, AtOnce, Idle, SettingsRequest
  <2>3. ASSUME NEW p \in Pool, NEW scoped \in BOOLEAN, NEW allowed \in SUBSET Workspace,
               UpdateAgentPool(s, p, scoped, allowed)
        PROVE  SettingsRequest(session[s])'
    <3> DEFINE after == [exists |-> TRUE, scoped |-> scoped, allowed |-> allowed]
    <3>1. after \in PoolRow /\ after.exists
      BY DEF PoolRow
    <3>2. \/ PoolUpdateAllowed(p, after) /\ session'[s] = [op |-> "updatePool", at |-> "write", pool |-> p, row |-> after]
          \/ session'[s] = Idle
      BY <2>3 DEF UpdateAgentPool, Begin, AtOnce
    <3>3. PoolUpdateAllowed(p, after)' <=> PoolUpdateAllowed(p, after)
      BY <1>2 DEF PoolUpdateAllowed, AssignedWorkspaces
    <3> HIDE DEF after
    <3> QED BY <3>1, <3>2, <3>3 DEF SettingsRequest, Idle
  <2> QED BY <2>1, <2>2, <2>3
<1>4. ASSUME NEW t \in Session
      PROVE  SettingsRequest(session[t])'
  <2>1. CASE t = s
    BY <1>3, <2>1
  <2>2. CASE t # s
    <3>1. AssignedWorkspaces(session[t].pool)' = AssignedWorkspaces(session[t].pool)
      BY <1>1, <1>2, <2>2 DEF AssignedWorkspaces, Only
    <3> QED BY <1>1, <2>2, <3>1, OthersSettings
  <2> QED BY <2>1, <2>2
<1>5. SettingsTypeOK' /\ TagsExist' /\ (\A p \in Pool : ~pools'[p].exists => ~pools'[p].scoped /\ pools'[p].allowed = {})
  BY <1>2 DEF SettingsInv, SettingsTypeOK, TagsExist
<1> QED BY <1>2, <1>4, <1>5 DEF SettingsInv, settingVars

\* A row is written: a pool that is locked is assigned to no workspace that did
\* not use it before.
LEMMA CommitsSettings ==
  ASSUME SettingsInv, DOMAIN session = Session, NEW s \in Session, SettingsNext(s),
         CreateWorkspaceCommits(s) \/ UpdateWorkspaceCommits(s)
  PROVE  SettingsInv' /\ PoolsKept
<1> DEFINE w == session[s].workspace
           row == session[s].row
<1>1. Only(s, SettingsOps) /\ session'[s] = Idle
  BY SettingsOnly DEF CreateWorkspaceCommits, UpdateWorkspaceCommits, End
<1>2. w \in Workspace /\ row \in WorkspaceRow
  BY DEF SettingsInv, SettingsRequest, CreateWorkspaceCommits, UpdateWorkspaceCommits, At
<1>3. /\ UNCHANGED <<pools, tags, tagged>>
      /\ \/ UNCHANGED <<workspaces, settings>>
         \/ /\ settings' = [settings EXCEPT ![w] = row]
            /\ \/ /\ workspaces' = workspaces
                  /\ RefersToPool(row, settings[w]) => PoolsFree(s)
               \/ /\ workspaces' = workspaces \union {w}
                  /\ RefersToPool(row, NoSettings) => PoolsFree(s)
  BY DEF CreateWorkspaceCommits, UpdateWorkspaceCommits
<1>4. ASSUME NEW t \in Session, t # s, LocksPools(t)
      PROVE  AssignedWorkspaces(session[t].pool)' \subseteq AssignedWorkspaces(session[t].pool)
  <2> DEFINE p == session[t].pool
  <2>1. p \in Pool /\ p # NoPool
    BY <1>4, PoolAssumption DEF SettingsInv, SettingsRequest, LocksPools
  <2>2. session'[t].pool = p
    BY <1>1, <1>4 DEF Only
  <2>3. ~PoolsFree(s)
    BY <1>4 DEF PoolsFree, Others
  <2>4. settings \in [Workspace -> WorkspaceRow] /\ workspaces \subseteq Workspace
    BY DEF SettingsInv, SettingsTypeOK, WorkspaceRow
  <2>5. NoSettings.mode.pool = NoPool
    BY DEF NoSettings
  <2>6. row.mode.pool = p => (workspaces' = workspaces /\ settings[w].mode.pool = p)
        \/ UNCHANGED <<workspaces, settings>>
    BY <1>3, <2>1, <2>3, <2>5 DEF RefersToPool
  <2> HIDE DEF p, w, row
  <2> QED BY <1>2, <1>3, <2>2, <2>4, <2>6 DEF AssignedWorkspaces, p
<1>5. \A t \in Session : SettingsRequest(session[t])'
  BY <1>1, <1>4, OthersSettings DEF SettingsRequest, Idle
<1>6. SettingsTypeOK' /\ TagsExist' /\ (\A p \in Pool : ~pools'[p].exists => ~pools'[p].scoped /\ pools'[p].allowed = {})
  <2> HIDE DEF w, row
  <2> QED BY <1>2, <1>3 DEF SettingsInv, SettingsTypeOK, TagsExist, WorkspaceRow
<1>7. PoolsKept
  <2>1. ASSUME NEW v \in workspaces, NEW p, p = settings[v].mode.pool, p # NoPool, CanUse(v, p, pools)
        PROVE  pools'[p].exists /\ CanUse(v, p, pools')
    <3>1. p \in Pool
      BY <2>1, PoolOfMode DEF SettingsInv, SettingsTypeOK
    <3> QED BY <1>3, <2>1, <3>1 DEF SettingsInv, CanUse
  <2> QED BY <2>1 DEF PoolsKept
<1> QED BY <1>5, <1>6, <1>7 DEF SettingsInv

\* The pools are changed: they are not locked, or by the request that writes.
LEMMA PoolsChange ==
  ASSUME SettingsInv, DOMAIN session = Session, NEW s \in Session, SettingsNext(s),
         \/ \E p \in Pool, scoped \in BOOLEAN, allowed \in SUBSET Workspace : CreateAgentPool(s, p, scoped, allowed)
         \/ UpdateAgentPoolCommits(s)
         \/ \E p \in Pool : DeleteAgentPool(s, p)
  PROVE  SettingsInv' /\ PoolsKept
<1>1. Only(s, SettingsOps)
  BY SettingsOnly
<1>2. UNCHANGED <<workspaces, settings, tags, tagged>> /\ session'[s] = Idle
  BY DEF CreateAgentPool, UpdateAgentPoolCommits, DeleteAgentPool, AtOnce, End
<1>3. \A t \in Session : SettingsRequest(session[t])'
  <2> TAKE t \in Session
  <2>1. CASE t = s
    BY <1>2, <2>1 DEF SettingsRequest, Idle
  <2>2. CASE t # s
    <3>1. AssignedWorkspaces(session[t].pool)' = AssignedWorkspaces(session[t].pool)
      BY <1>1, <1>2, <2>2 DEF AssignedWorkspaces, Only
    <3> QED BY <1>1, <2>2, <3>1, OthersSettings
  <2> QED BY <2>1, <2>2
<1>4. pools \in [Pool -> PoolRow] /\ workspaces \subseteq Workspace
  BY DEF SettingsInv, SettingsTypeOK, PoolRow
\* One pool gets another row; what uses the pool may still use it.
<1>5. \/ UNCHANGED pools
      \/ \E p \in Pool, row \in PoolRow :
           /\ pools' = [pools EXCEPT ![p] = row]
           /\ ~row.exists => ~row.scoped /\ row.allowed = {}
           /\ \A w \in AssignedWorkspaces(p) : CanUse(w, p, pools) => row.exists /\ (row.scoped \/ w \in row.allowed)
  <2>1. ASSUME NEW p \in Pool, NEW scoped \in BOOLEAN, NEW allowed \in SUBSET Workspace,
               CreateAgentPool(s, p, scoped, allowed)
        PROVE  <1>5!2
    <3> DEFINE row == [exists |-> TRUE, scoped |-> scoped, allowed |-> allowed]
    <3>1. row \in PoolRow /\ row.exists
      BY DEF PoolRow
    <3>2. pools' = [pools EXCEPT ![p] = row] /\ ~pools[p].exists
      BY <2>1 DEF CreateAgentPool
    <3>3. \A w \in Workspace : ~CanUse(w, p, pools)
      BY <3>2 DEF SettingsInv, CanUse
    <3>4. AssignedWorkspaces(p) \subseteq Workspace
      BY <1>4 DEF AssignedWorkspaces
    <3> HIDE DEF row
    <3> QED BY <3>1, <3>2, <3>3, <3>4
  <2>2. ASSUME UpdateAgentPoolCommits(s)
        PROVE  <1>5
    <3> DEFINE p == session[s].pool
               row == [session[s].row EXCEPT !.allowed = @ \intersect workspaces]
    <3>1. p \in Pool /\ session[s].row \in PoolRow /\ session[s].row.exists /\ PoolUpdateAllowed(p, session[s].row)
      BY <2>2 DEF UpdateAgentPoolCommits, At, SettingsInv, SettingsRequest
    <3>2. /\ row \in PoolRow /\ row.exists
          /\ row.scoped = session[s].row.scoped
          /\ row.allowed = session[s].row.allowed \intersect workspaces
      BY <3>1 DEF PoolRow
    <3>3. UNCHANGED pools \/ pools' = [pools EXCEPT ![p] = row]
      BY <2>2 DEF UpdateAgentPoolCommits
    <3>4. \A w \in AssignedWorkspaces(p) : row.scoped \/ w \in row.allowed
      <4> HIDE DEF row, p
      <4> QED BY <3>1, <3>2 DEF PoolUpdateAllowed, AssignedWorkspaces
    <3> HIDE DEF row, p
    <3> QED BY <3>1, <3>2, <3>3, <3>4
  <2>3. ASSUME NEW p \in Pool, DeleteAgentPool(s, p)
        PROVE  <1>5!2
    <3>1. NoAgentPool \in PoolRow /\ ~NoAgentPool.exists /\ ~NoAgentPool.scoped /\ NoAgentPool.allowed = {}
      BY DEF NoAgentPool, PoolRow
    <3>2. pools' = [pools EXCEPT ![p] = NoAgentPool] /\ AssignedWorkspaces(p) = {}
      BY <2>3 DEF DeleteAgentPool
    <3> QED BY <3>1, <3>2
  <2> QED BY <2>1, <2>2, <2>3
<1>6. SettingsTypeOK' /\ TagsExist' /\ (\A p \in Pool : ~pools'[p].exists => ~pools'[p].scoped /\ pools'[p].allowed = {})
  <2>1. TagsExist'
    BY <1>2 DEF SettingsInv, TagsExist
  <2>2. pools' \in [Pool -> PoolRow]
    BY <1>4, <1>5
  <2>3. \A p \in Pool : ~pools'[p].exists => ~pools'[p].scoped /\ pools'[p].allowed = {}
    <3> TAKE p \in Pool
    <3>1. ~pools[p].exists => ~pools[p].scoped /\ pools[p].allowed = {}
      BY DEF SettingsInv
    <3> QED BY <1>4, <1>5, <3>1
  <2> QED BY <1>2, <2>1, <2>2, <2>3 DEF SettingsInv, SettingsTypeOK, PoolRow
<1>7. ASSUME NEW w \in workspaces, NEW p, p = settings[w].mode.pool, p # NoPool, CanUse(w, p, pools)
      PROVE  pools'[p].exists /\ CanUse(w, p, pools')
  <2>1. p \in Pool /\ w \in AssignedWorkspaces(p)
    BY <1>7, PoolOfMode DEF SettingsInv, SettingsTypeOK, AssignedWorkspaces
  <2>2. pools[p].exists
    BY <1>7, <2>1 DEF SettingsInv, CanUse
  <2> QED BY <1>4, <1>5, <1>7, <2>1, <2>2 DEF CanUse
<1> QED BY <1>2, <1>3, <1>6, <1>7 DEF SettingsInv, PoolsKept

\* A tag is put on a workspace together with its row, and goes with the last
\* workspace that has it.
LEMMA TagsChange ==
  ASSUME SettingsInv, DOMAIN session = Session, NEW s \in Session, SettingsNext(s),
         \/ \E w \in Workspace, names \in (SUBSET TagName) \ {{}} : AddTags(s, w, names) \/ RemoveTags(s, w, names)
         \/ \E name \in TagName, ws \in (SUBSET Workspace) \ {{}} : TagWorkspaces(s, name, ws)
         \/ \E names \in (SUBSET TagName) \ {{}} : DeleteTags(s, names)
  PROVE  SettingsInv' /\ UNCHANGED <<settings, pools>>
<1>1. UNCHANGED <<session, workspaces, settings, pools>>
  BY DEF AddTags, RemoveTags, TagWorkspaces, DeleteTags, AtOnce
<1>2. tags \subseteq TagName /\ tagged \in [Workspace -> SUBSET TagName] /\ \A w \in Workspace : tagged[w] \subseteq tags
  BY DEF SettingsInv, SettingsTypeOK, TagsExist
<1>3. tags' \subseteq TagName /\ tagged' \in [Workspace -> SUBSET TagName] /\ \A w \in Workspace : tagged'[w] \subseteq tags'
  <2>1. ASSUME NEW w \in Workspace, NEW names \in SUBSET TagName, AddTags(s, w, names)
        PROVE  <1>3
    BY <1>2, <2>1 DEF AddTags
  <2>2. ASSUME NEW w \in Workspace, NEW names \in SUBSET TagName, RemoveTags(s, w, names)
        PROVE  <1>3
    BY <1>2, <2>2 DEF RemoveTags, delete_tags
  <2>3. ASSUME NEW name \in TagName, NEW ws \in (SUBSET Workspace) \ {{}}, TagWorkspaces(s, name, ws)
        PROVE  <1>3
    BY <1>2, <2>3 DEF TagWorkspaces
  <2>4. ASSUME NEW names \in SUBSET TagName, DeleteTags(s, names)
        PROVE  <1>3
    BY <1>2, <2>4 DEF DeleteTags, delete_tags
  <2> QED BY <2>1, <2>2, <2>3, <2>4
<1> QED BY <1>1, <1>3 DEF SettingsInv, SettingsTypeOK, TagsExist, SettingsRequest, PoolUpdateAllowed, AssignedWorkspaces

\* A workspace is disconnected, and then deleted with all that is its own.
LEMMA DisconnectTyped ==
  ASSUME NEW ws \in WorkspaceRow
  PROVE  /\ [ws EXCEPT !.connected = FALSE, !.tagsRegex = FALSE] \in WorkspaceRow
         /\ [ws EXCEPT !.connected = FALSE, !.tagsRegex = FALSE].mode = ws.mode
BY DEF WorkspaceRow

LEMMA DeletionSettings ==
  ASSUME SettingsInv, DOMAIN session = Session, NEW s \in Session,
         (\E w \in Workspace : DeleteWorkspace(s, w)) \/ DeleteWorkspaceStatement(s) \/ DeleteWorkspaceCommits(s)
  PROVE  SettingsInv' /\ PoolsKept
<1>1. Only(s, {"deleteWorkspace"})
  BY DeletionOnly
<1>2. /\ settings \in [Workspace -> WorkspaceRow] /\ workspaces \subseteq Workspace
      /\ pools \in [Pool -> PoolRow]
      /\ tags \subseteq TagName /\ tagged \in [Workspace -> SUBSET TagName]
      /\ \A w \in Workspace : tagged[w] \subseteq tags
  BY DEF SettingsInv, SettingsTypeOK, WorkspaceRow, PoolRow, TagsExist
<1>3. SettingsRequest(session[s])'
  <2>1. session[s].op = "deleteWorkspace" => session[s].workspace \in Workspace
    BY DEF SettingsInv, SettingsRequest
  <2>2. session'[s].op = "deleteWorkspace" => session'[s].workspace \in Workspace
    <3>1. CASE \E w \in Workspace : DeleteWorkspace(s, w)
      <4>1. PICK w \in Workspace : session' = [session EXCEPT ![s] = [op |-> "deleteWorkspace", at |-> "delete", workspace |-> w]]
        BY <3>1 DEF DeleteWorkspace, Begin
      <4> QED BY <4>1
    <3>2. CASE DeleteWorkspaceStatement(s)
      <4>1. session[s].workspace \in Workspace
        BY <2>1, <3>2 DEF DeleteWorkspaceStatement, At
      <4>2. \/ \E doomed : session' = [session EXCEPT ![s] = [op |-> "deleteWorkspace", at |-> "commit",
                                                            workspace |-> session[s].workspace, doomed |-> doomed]]
            \/ End(s)
        BY <3>2 DEF DeleteWorkspaceStatement
      <4> QED BY <4>1, <4>2 DEF End, Idle
    <3>3. CASE DeleteWorkspaceCommits(s)
      BY <3>3 DEF DeleteWorkspaceCommits, End, Idle
    <3> QED BY <3>1, <3>2, <3>3
  <2>3. session'[s].op \in {"deleteWorkspace", "idle"}
    BY <1>1 DEF Only
  <2> QED BY <2>2, <2>3 DEF SettingsRequest
<1>4. ASSUME NEW w \in Workspace, DeleteWorkspace(s, w)
      PROVE  SettingsInv' /\ PoolsKept
  <2> DEFINE row == [settings[w] EXCEPT !.connected = FALSE, !.tagsRegex = FALSE]
  <2>1. row \in WorkspaceRow /\ row.mode = settings[w].mode
    BY <1>2, DisconnectTyped
  <2>2. settings' = [settings EXCEPT ![w] = row] /\ UNCHANGED <<workspaces, pools, tags, tagged>>
    BY <1>4 DEF DeleteWorkspace
  <2> HIDE DEF row
  <2>3. settings' \in [Workspace -> WorkspaceRow] /\ \A v \in Workspace : settings'[v].mode = settings[v].mode
    BY <1>2, <2>1, <2>2
  <2>4. \A t \in Session \ {s} : SettingsRequest(session[t])'
    <3> TAKE t \in Session \ {s}
    <3>1. session'[t] = session[t] /\ SettingsRequest(session[t])
      BY <1>1 DEF SettingsInv, Only
    <3>2. AssignedWorkspaces(session[t].pool)' = AssignedWorkspaces(session[t].pool)
      BY <1>2, <2>2, <2>3, <3>1 DEF AssignedWorkspaces
    <3> QED BY <3>1, <3>2 DEF SettingsRequest, PoolUpdateAllowed
  <2>5. PoolsKept
    BY <1>2, <2>2, <2>3, PoolOfMode DEF PoolsKept, SettingsInv, CanUse, WorkspaceRow
  <2>6. SettingsTypeOK' /\ TagsExist'
    BY <1>2, <2>2, <2>3 DEF SettingsTypeOK, TagsExist, WorkspaceRow, PoolRow
  <2> QED BY <1>3, <2>2, <2>4, <2>5, <2>6 DEF SettingsInv
<1>5. ASSUME DeleteWorkspaceStatement(s)
      PROVE  SettingsInv' /\ PoolsKept
  <2>1. UNCHANGED <<workspaces, settings, pools, tags, tagged>>
    BY <1>5 DEF DeleteWorkspaceStatement, settingVars
  <2>2. \A t \in Session \ {s} : SettingsRequest(session[t])'
    <3> TAKE t \in Session \ {s}
    <3>1. session'[t] = session[t] /\ SettingsRequest(session[t])
      BY <1>1 DEF SettingsInv, Only
    <3>2. AssignedWorkspaces(session[t].pool)' = AssignedWorkspaces(session[t].pool)
      BY <2>1, <3>1 DEF AssignedWorkspaces
    <3> QED BY <3>1, <3>2 DEF SettingsRequest, PoolUpdateAllowed
  <2>3. PoolsKept
    BY <1>2, <2>1, PoolOfMode DEF PoolsKept, SettingsInv, CanUse, WorkspaceRow
  <2>4. SettingsTypeOK' /\ TagsExist'
    BY <2>1 DEF SettingsInv, SettingsTypeOK, TagsExist
  <2> QED BY <1>3, <2>1, <2>2, <2>3, <2>4 DEF SettingsInv
<1>6. ASSUME DeleteWorkspaceCommits(s)
      PROVE  SettingsInv' /\ PoolsKept
  <2> DEFINE w == session[s].workspace
             doomed == session[s].doomed
  <2>1. w \in Workspace /\ workspaces' = workspaces \ {w} /\ SettingsCascade(w, doomed)
    BY <1>6 DEF DeleteWorkspaceCommits, At, SettingsInv, SettingsRequest
  <2> HIDE DEF w, doomed
  <2>2. NoSettings \in WorkspaceRow
    BY DEF NoSettings, WorkspaceRow, Mode
  <2>3. /\ settings' = [settings EXCEPT ![w] = NoSettings]
        /\ pools' = [p \in Pool |-> [pools[p] EXCEPT !.allowed = @ \ {w}]]
        /\ tagged' = [v \in Workspace |-> IF v = w THEN {} ELSE tagged[v] \ doomed]
        /\ tags' = tags \ doomed
    BY <2>1 DEF SettingsCascade
  <2>4. \A p \in Pool : /\ pools'[p] \in PoolRow
                        /\ pools'[p].exists = pools[p].exists /\ pools'[p].scoped = pools[p].scoped
                        /\ pools'[p].allowed = pools[p].allowed \ {w}
    <3> TAKE p \in Pool
    <3>1. pools[p] \in PoolRow /\ pools'[p] = [pools[p] EXCEPT !.allowed = @ \ {w}]
      BY <1>2, <2>3
    <3> QED BY <3>1 DEF PoolRow
  <2>5. /\ settings' \in [Workspace -> WorkspaceRow] /\ workspaces' \subseteq Workspace
        /\ pools' \in [Pool -> PoolRow]
    BY <1>2, <2>1, <2>2, <2>3, <2>4
  <2>6. tags' \subseteq TagName /\ tagged' \in [Workspace -> SUBSET TagName] /\ TagsExist'
    BY <1>2, <2>3 DEF TagsExist
  <2>7. \A t \in Session \ {s} : SettingsRequest(session[t])'
    <3> TAKE t \in Session \ {s}
    <3>1. session'[t] = session[t] /\ SettingsRequest(session[t]) /\ ~LocksPools(t)
      BY <1>1, <2>1 DEF SettingsInv, Only, SettingsCascade
    <3> QED BY <3>1 DEF SettingsRequest, LocksPools
  <2>8. \A p \in Pool : ~pools'[p].exists => ~pools'[p].scoped /\ pools'[p].allowed = {}
    BY <2>4 DEF SettingsInv
  <2>9. PoolsKept
    <3>1. ASSUME NEW v \in workspaces', NEW p, p = settings[v].mode.pool, p # NoPool, CanUse(v, p, pools)
          PROVE  pools'[p].exists /\ CanUse(v, p, pools')
      <4>1. v \in Workspace /\ v # w /\ p \in Pool
        BY <1>2, <2>1, <3>1, PoolOfMode DEF WorkspaceRow
      <4> QED BY <2>4, <3>1, <4>1 DEF SettingsInv, CanUse
    <3> QED BY <3>1 DEF PoolsKept
  <2> QED BY <1>3, <2>5, <2>6, <2>7, <2>8, <2>9 DEF SettingsInv, SettingsTypeOK, WorkspaceRow, PoolRow
<1> QED BY <1>4, <1>5, <1>6

LEMMA SettingsStep ==
  ASSUME SettingsInv, DOMAIN session = Session, NEW s \in Session, SettingsNext(s)
  PROVE  SettingsInv' /\ [PoolsKept]_<<settings, pools>>
<1>1. ASSUME \/ \E w \in Workspace, opts \in SettingOptions : CreateWorkspace(s, w, opts) \/ UpdateWorkspace(s, w, opts)
             \/ \E p \in Pool, scoped \in BOOLEAN, allowed \in SUBSET Workspace : UpdateAgentPool(s, p, scoped, allowed)
      PROVE  SettingsInv' /\ UNCHANGED <<settings, pools>>
  BY <1>1, BeginSettings DEF settingVars
<1>2. ASSUME CreateWorkspaceCommits(s) \/ UpdateWorkspaceCommits(s)
      PROVE  SettingsInv' /\ PoolsKept
  BY <1>2, CommitsSettings
<1>3. ASSUME \/ \E p \in Pool, scoped \in BOOLEAN, allowed \in SUBSET Workspace : CreateAgentPool(s, p, scoped, allowed)
             \/ UpdateAgentPoolCommits(s)
             \/ \E p \in Pool : DeleteAgentPool(s, p)
      PROVE  SettingsInv' /\ PoolsKept
  BY <1>3, PoolsChange
<1>4. ASSUME \/ \E w \in Workspace, names \in (SUBSET TagName) \ {{}} : AddTags(s, w, names) \/ RemoveTags(s, w, names)
             \/ \E name \in TagName, ws \in (SUBSET Workspace) \ {{}} : TagWorkspaces(s, name, ws)
             \/ \E names \in (SUBSET TagName) \ {{}} : DeleteTags(s, names)
      PROVE  SettingsInv' /\ UNCHANGED <<settings, pools>>
  BY <1>4, TagsChange
<1> QED BY <1>1, <1>2, <1>3, <1>4 DEF SettingsNext

-----------------------------------------------------------------------------
(* Variables and their sets *)

\* Two variables that a run could get, or whose sets are global.
Global(x) == x \in VariableSet /\ sets[x].global
Together(p, q) == p = q \/ (Global(p) /\ Global(q))

Distinct == \A u, v \in Variable : u # v /\ Exists(u) /\ Exists(v) /\ Together(variables[u].parent, variables[v].parent)
                                     => variables[u].key # variables[v].key

LEMMA RowsTyped ==
  ASSUME VariablesTypeOK
  PROVE  /\ variables \in [Variable -> {NoRow} \union VariableRow]
         /\ sets \in [VariableSet -> SetRow]
         /\ \A v \in Variable : Exists(v) => variables[v] \in VariableRow /\ variables[v].parent \in Workspace \union VariableSet
BY DEF VariablesTypeOK, VariableRow, RowOf, SetRow, Exists

LEMMA InGlobals ==
  \A v : v \in listGlobalVariables <=> v \in Variable /\ Exists(v) /\ Global(variables[v].parent)
BY DEF listGlobalVariables, listVariables, Global

LEMMA DistinctRows == VariablesTypeOK => (NoConflicts <=> Distinct)
<1> SUFFICES ASSUME VariablesTypeOK
             PROVE  NoConflicts <=> Distinct
  OBVIOUS
<1>1. \A v \in Variable : Exists(v) => variables[v].parent \in Workspace \union VariableSet
  BY RowsTyped
<1>2. ASSUME NoConflicts
      PROVE  Distinct
  BY <1>1, <1>2, InGlobals DEF NoConflicts, Distinct, Together, InConflict, listVariables
<1>3. ASSUME Distinct
      PROVE  NoConflicts
  BY <1>3, InGlobals DEF NoConflicts, Distinct, Together, InConflict, listVariables
<1> QED BY <1>2, <1>3

\* The same after a step.
LEMMA DistinctAfter == VariablesTypeOK' => (NoConflicts' <=> Distinct')
<1>1. VariablesTypeOK => (NoConflicts <=> Distinct)
  BY DistinctRows
<1> QED BY <1>1, PTL

\* What the conflict checker has seen.
LEMMA Checked ==
  ASSUME NEW v \in Variable, NEW row \in VariableRow, checkVariable(v, row)
  PROVE  /\ row.parent \in VariableSet => sets[row.parent].exists
         /\ \A u \in Variable : u # v /\ Exists(u) /\ Together(variables[u].parent, row.parent) => variables[u].key # row.key
<1>1. row.parent \in VariableSet => sets[row.parent].exists
  BY DEF checkVariable
<1>2. \A u \in Scope(row.parent) : u # v => variables[u].key # row.key
  BY DEF checkVariable, checkConflicts
<1>3. ASSUME NEW u \in Variable, Exists(u), Together(variables[u].parent, row.parent)
      PROVE  u \in Scope(row.parent)
  BY <1>3, InGlobals DEF Scope, Together, Global, listVariables
<1> QED BY <1>1, <1>2, <1>3

\* Whoever holds the variables finds them as it has checked them.
LEMMA OthersVariables ==
  ASSUME VariablesInv, NEW s \in Session, Only(s, VariablesOps), NEW t \in Session, t # s,
         LocksVariables(t) =>
           /\ UNCHANGED variables
           /\ \A x \in VariableSet : sets[x].exists => sets'[x].exists /\ sets'[x].global = sets[x].global
           /\ \A v \in Variable : Exists(v) => (Global(variables[v].parent)' <=> Global(variables[v].parent))
  PROVE  VariablesRequest(session[t])'
<1>1. session'[t] = session[t] /\ VariablesRequest(session[t])
  BY DEF VariablesInv, Only
<1>2. ASSUME LocksVariables(t)
      PROVE  /\ \A p : listVariables(p)' = listVariables(p)
             /\ listGlobalVariables' = listGlobalVariables
             /\ \A v : Exists(v)' <=> Exists(v)
  <2>1. UNCHANGED variables
    BY <1>2
  <2>2. \A v : v \in listGlobalVariables' <=> v \in Variable /\ Exists(v)' /\ Global(variables[v].parent)'
    BY DEF listGlobalVariables, listVariables, Global
  <2>3. \A v : v \in listGlobalVariables' <=> v \in listGlobalVariables
    BY <1>2, <2>1, <2>2, InGlobals DEF Exists
  <2> QED BY <2>1, <2>3 DEF listVariables, Exists
<1>3. ASSUME LocksVariables(t), NEW v \in Variable, NEW row \in VariableRow, checkVariable(v, row)
      PROVE  checkVariable(v, row)'
  <2>1. Scope(row.parent)' = Scope(row.parent) /\ UNCHANGED variables
    BY <1>2, <1>3 DEF Scope, checkVariable
  <2> QED BY <1>3, <2>1 DEF checkVariable, checkConflicts
<1>4. ASSUME session[t].op = "createVariable"
      PROVE  CreatesVariable(session[t])'
  <2>1. LocksVariables(t) /\ CreatesVariable(session[t])
    BY <1>1, <1>4 DEF LocksVariables, VariablesRequest
  <2> QED BY <1>1, <1>2, <1>3, <2>1 DEF CreatesVariable
<1>5. ASSUME session[t].op = "updateVariable"
      PROVE  UpdatesVariable(session[t])'
  <2>1. LocksVariables(t) /\ UpdatesVariable(session[t])
    BY <1>1, <1>5 DEF LocksVariables, VariablesRequest
  <2>2. UNCHANGED variables
    BY <2>1
  <2> QED BY <1>1, <1>2, <1>3, <2>1, <2>2 DEF UpdatesVariable
<1>6. ASSUME session[t].op = "updateSet"
      PROVE  UpdatesSet(session[t])'
  <2>1. LocksVariables(t) /\ UpdatesSet(session[t])
    BY <1>1, <1>6 DEF LocksVariables, VariablesRequest
  <2>2. session[t].set \in VariableSet
    BY <2>1 DEF UpdatesSet
  <2>3. checkSet(session[t].set, session[t].after) => checkSet(session[t].set, session[t].after)'
    BY <1>1, <1>2, <2>1 DEF checkSet, checkConflicts
  <2>4. /\ session[t] \in [op : {"updateSet"}, at : {"lock", "write"}, set : VariableSet, opts : SetOption, after : SetRow]
        /\ session[t].at = "write" => sets[session[t].set].exists /\ session[t].after.exists
                                        /\ checkSet(session[t].set, session[t].after)
    BY <2>1 DEF UpdatesSet
  <2>5. sets[session[t].set].exists => sets'[session[t].set].exists
    BY <2>1, <2>2
  <2> QED BY <1>1, <2>3, <2>4, <2>5 DEF UpdatesSet
<1> QED BY <1>1, <1>4, <1>5, <1>6 DEF VariablesRequest

LEMMA TogetherSymmetric == \A p, q : Together(p, q) <=> Together(q, p)
BY DEF Together

LEMMA VariablesAside ==
  ASSUME VariablesInv, NEW s \in Session, NEW ops, Only(s, ops), ops \cap VariablesOps = {}, UNCHANGED variableVars
  PROVE  VariablesInv'
<1>1. UNCHANGED <<variables, sets>> /\ ~LocksVariables(s) /\ ~LocksVariables(s)' /\ VariablesRequest(session[s])'
  BY DEF variableVars, Only, VariablesOps, LocksVariables, VariablesRequest
<1>2. \A t \in Session \ {s} : session'[t] = session[t]
  BY DEF Only
<1>3. \A t \in Session \ {s} : VariablesRequest(session[t])'
  BY <1>1, <1>2 DEF VariablesInv, VariablesRequest, CreatesVariable, UpdatesVariable, UpdatesSet, Exists,
                    checkVariable, checkSet, checkConflicts, Scope, listGlobalVariables, listVariables
<1>4. VariablesTypeOK' /\ NoConflicts' /\ ParentsExist'
  BY <1>1 DEF VariablesInv, VariablesTypeOK, NoConflicts, ParentsExist, InConflict, Exists, listGlobalVariables, listVariables
<1>5. \A t, u \in Session : LocksVariables(t)' /\ LocksVariables(u)' => t = u
  BY <1>1, <1>2 DEF VariablesInv, LocksVariables
<1> QED BY <1>1, <1>3, <1>4, <1>5 DEF VariablesInv

\* A request begins, or takes its next lock: nobody else holds the variables if
\* it does.
LEMMA VariablesBegin ==
  ASSUME VariablesInv, NEW s \in Session, Only(s, VariablesOps), UNCHANGED <<variables, sets>>,
         VariablesRequest(session[s])',
         LocksVariables(s)' => LocksVariables(s) \/ VariablesFree(s)
  PROVE  VariablesInv'
<1>1. \A t \in Session \ {s} : session'[t] = session[t] /\ (LocksVariables(t)' <=> LocksVariables(t))
  BY DEF Only, LocksVariables
<1>2. \A t \in Session \ {s} : VariablesRequest(session[t])'
  BY OthersVariables DEF Global
<1>3. VariablesTypeOK' /\ NoConflicts' /\ ParentsExist'
  BY DEF VariablesInv, VariablesTypeOK, NoConflicts, ParentsExist, InConflict, Exists, listGlobalVariables, listVariables
<1>4. \A t, u \in Session : LocksVariables(t)' /\ LocksVariables(u)' => t = u
  BY <1>1 DEF VariablesInv, VariablesFree, Others
<1> QED BY <1>2, <1>3, <1>4 DEF VariablesInv

\* A sensitive variable keeps its key, and stays sensitive (SensitiveStaysSensitive).
SensitiveKept ==
  \A v \in Variable : (Exists(v) /\ variables[v].sensitive /\ Exists(v)') =>
    variables'[v].sensitive /\ variables'[v].key = variables[v].key

\* A request ends with a write.
LEMMA VariablesWrite ==
  ASSUME VariablesInv, NEW s \in Session, Only(s, VariablesOps), session'[s] = Idle,
         VariablesTypeOK', Distinct', ParentsExist',
         \A t \in Session \ {s} : LocksVariables(t) =>
           /\ UNCHANGED variables
           /\ \A x \in VariableSet : sets[x].exists => sets'[x].exists /\ sets'[x].global = sets[x].global
           /\ \A v \in Variable : Exists(v) => (Global(variables[v].parent)' <=> Global(variables[v].parent))
  PROVE  VariablesInv'
<1>1. \A t \in Session \ {s} : VariablesRequest(session[t])'
  BY OthersVariables
<1>2. VariablesRequest(session[s])' /\ ~LocksVariables(s)'
  BY DEF VariablesRequest, LocksVariables, Idle
<1>3. \A t, u \in Session : LocksVariables(t)' /\ LocksVariables(u)' => t = u
  <2>1. \A t \in Session \ {s} : LocksVariables(t)' <=> LocksVariables(t)
    BY DEF Only, LocksVariables
  <2> QED BY <1>2, <2>1 DEF VariablesInv
<1>4. NoConflicts'
  BY DistinctAfter
<1> QED BY <1>1, <1>2, <1>3, <1>4 DEF VariablesInv

LEMMA GivenTyped ==
  ASSUME NEW S, NEW option \in Option(S), NEW value \in S
  PROVE  /\ Given(option, value) \in S
         /\ option # {} => Given(option, value) \in option
BY DEF Given, Option

LEMMA UpdatedTyped ==
  ASSUME NEW row \in VariableRow, NEW opts \in VariableOptions
  PROVE  /\ Updated(row, opts) \in VariableRow
         /\ Updated(row, opts).parent = row.parent
         /\ row.sensitive /\ UpdateAllowed(row, opts) => Updated(row, opts).sensitive /\ Updated(row, opts).key = row.key
<1>1. opts.key \in Option(Key) /\ opts.sensitive \in Option(BOOLEAN)
  BY OptionsAssumption DEF VariableOption
<1>2. row.key \in Key /\ row.sensitive \in BOOLEAN
  BY DEF VariableRow, RowOf
<1> DEFINE k == Given(opts.key, row.key)
           b == Given(opts.sensitive, row.sensitive)
<1>3. k \in Key /\ b \in BOOLEAN
  BY <1>1, <1>2, GivenTyped
<1>4. /\ Updated(row, opts) \in VariableRow
      /\ Updated(row, opts).parent = row.parent
      /\ Updated(row, opts).key = k
      /\ Updated(row, opts).sensitive = b
  <2> HIDE DEF k, b
  <2>1. Updated(row, opts) = [row EXCEPT !.key = k, !.sensitive = b]
    BY DEF Updated, k, b
  <2> QED BY <1>3, <2>1 DEF VariableRow, RowOf
<1>5. ASSUME row.sensitive, UpdateAllowed(row, opts)
      PROVE  k = row.key /\ b
  <2>1. opts.key = {} /\ FALSE \notin opts.sensitive
    BY <1>5 DEF UpdateAllowed
  <2>2. k = row.key
    BY <2>1 DEF Given
  <2>3. b
    <3>1. CASE opts.sensitive = {}
      <4>1. b = row.sensitive
        BY <3>1 DEF Given
      <4> QED BY <1>5, <4>1
    <3>2. CASE opts.sensitive # {}
      <4>1. b \in opts.sensitive
        BY <1>1, <1>2, <3>2, GivenTyped
      <4>2. b # FALSE
        BY <2>1, <4>1
      <4> HIDE DEF b
      <4> QED BY <1>3, <4>2
    <3> QED BY <3>1, <3>2
  <2> QED BY <2>2, <2>3
<1> QED BY <1>4, <1>5

LEMMA SetUpdatedTyped ==
  ASSUME NEW set \in SetRow, NEW opts \in SetOption
  PROVE  SetUpdated(set, opts) \in SetRow /\ SetUpdated(set, opts).exists = set.exists
<1>1. /\ opts.name \in Option(SetName) /\ opts.global \in Option(BOOLEAN)
      /\ opts.workspaces \in Option(SUBSET Workspace)
  BY DEF SetOption
<1>2. set.name \in SetName \union {0} /\ set.global \in BOOLEAN /\ set.workspaces \in SUBSET Workspace /\ set.exists \in BOOLEAN
  BY DEF SetRow
<1> DEFINE n == Given(opts.name, set.name)
           g == Given(opts.global, set.global)
           ws == Given(opts.workspaces, set.workspaces)
<1>3. n \in SetName \union {0}
  BY <1>1, <1>2 DEF Given, Option
<1>4. g \in BOOLEAN /\ ws \in SUBSET Workspace
  BY <1>1, <1>2, GivenTyped
<1>5. SetUpdated(set, opts) = [set EXCEPT !.name = n, !.global = g, !.workspaces = ws]
  BY DEF SetUpdated
<1> HIDE DEF n, g, ws
<1> QED BY <1>3, <1>4, <1>5 DEF SetRow

\* Requests on variables.
LEMMA VariableRequests ==
  ASSUME VariablesInv, NEW s \in Session, Only(s, VariablesOps),
         \/ \E v \in Variable, row \in VariableRow : CreateVariable(s, v, row)
         \/ \E v \in Variable, opts \in VariableOptions : UpdateVariable(s, v, opts)
  PROVE  VariablesInv' /\ UNCHANGED variables
<1>1. ASSUME NEW v \in Variable, NEW row \in VariableRow, CreateVariable(s, v, row)
      PROVE  VariablesInv' /\ UNCHANGED variables
  <2>1. UNCHANGED <<variables, sets>> /\ VariablesFree(s) /\ ~Exists(v)
    BY <1>1 DEF CreateVariable
  <2>2. VariablesRequest(session[s])'
    <3>1. CASE session'[s] = session[s]
      BY <1>1, <3>1 DEF CreateVariable, Begin, AtOnce, Idle, VariablesRequest
    <3>2. CASE checkVariable(v, row) /\ session'[s] = [op |-> "createVariable", at |-> "write", variable |-> v, row |-> row]
      <4>1. checkVariable(v, row)' /\ ~Exists(v)'
        BY <2>1, <3>2 DEF checkVariable, checkConflicts, Scope, listGlobalVariables, listVariables, Exists
      <4> QED BY <3>2, <4>1 DEF VariablesRequest, CreatesVariable
    <3> QED BY <1>1, <3>1, <3>2 DEF CreateVariable, Begin, AtOnce, Only
  <2> QED BY <2>1, <2>2, VariablesBegin
<1>2. ASSUME NEW v \in Variable, NEW opts \in VariableOptions, UpdateVariable(s, v, opts)
      PROVE  VariablesInv' /\ UNCHANGED variables
  <2>1. UNCHANGED <<variables, sets>> /\ VariablesFree(s) /\ Exists(v)
    BY <1>2 DEF UpdateVariable
  <2> DEFINE after == Updated(variables[v], opts)
  <2>2. variables[v] \in VariableRow
    BY <2>1, RowsTyped DEF VariablesInv
  <2>3. VariablesRequest(session[s])'
    <3>1. CASE session'[s] = session[s]
      BY <1>2, <3>1 DEF UpdateVariable, Begin, AtOnce, Idle, VariablesRequest
    <3>2. CASE UpdateAllowed(variables[v], opts) /\ checkVariable(v, after) /\
               session'[s] = [op |-> "updateVariable", at |-> "write", variable |-> v, row |-> after]
      <4>1. after \in VariableRow /\ after.parent = variables[v].parent
            /\ (variables[v].sensitive => after.sensitive /\ after.key = variables[v].key)
        BY <2>2, <3>2, UpdatedTyped
      <4>2. PICK row : row = after
        OBVIOUS
      <4> HIDE DEF after
      <4>3. checkVariable(v, row)' /\ Exists(v)' /\ variables'[v] = variables[v]
        BY <2>1, <3>2, <4>2 DEF checkVariable, checkConflicts, Scope, listGlobalVariables, listVariables, Exists
      <4> QED BY <3>2, <4>1, <4>2, <4>3 DEF VariablesRequest, UpdatesVariable
    <3> QED BY <1>2, <3>1, <3>2 DEF UpdateVariable, Begin, AtOnce, Only
  <2> QED BY <2>1, <2>3, VariablesBegin
<1> QED BY <1>1, <1>2

LEMMA CreatesVariableStep ==
  ASSUME VariablesInv, NEW s \in Session, Only(s, VariablesOps), CreateVariableCommits(s)
  PROVE  VariablesInv' /\ SensitiveKept
<1> DEFINE v == session[s].variable
           row == session[s].row
<1>1. session[s].op = "createVariable" /\ session'[s] = Idle /\ UNCHANGED sets
  BY DEF CreateVariableCommits, At, End, Only
<1>2. CreatesVariable(session[s])
  BY <1>1 DEF VariablesInv, VariablesRequest
<1>3. v \in Variable /\ row \in VariableRow /\ ~Exists(v) /\ checkVariable(v, row)
  BY <1>2 DEF CreatesVariable
<1> HIDE DEF v, row
<1>4. \/ variables' = [variables EXCEPT ![v] = row]
      \/ UNCHANGED variables
  BY DEF CreateVariableCommits, v, row
<1>5. \A t \in Session \ {s} : ~LocksVariables(t)
  BY <1>1 DEF VariablesInv, LocksVariables
<1>6. variables \in [Variable -> {NoRow} \union VariableRow] /\ VariablesTypeOK /\ ParentsExist /\ Distinct
  BY RowsTyped, DistinctRows DEF VariablesInv
<1>7. CASE UNCHANGED variables
  <2>1. VariablesTypeOK' /\ ParentsExist' /\ Distinct'
    BY <1>1, <1>6, <1>7 DEF VariablesTypeOK, ParentsExist, Distinct, Exists, Together, Global
  <2> QED BY <1>1, <1>5, <1>7, <2>1, VariablesWrite DEF SensitiveKept
<1>8. CASE variables' = [variables EXCEPT ![v] = row]
  <2>1. variables'[v] = row /\ (\A u \in Variable : u # v => variables'[u] = variables[u])
        /\ variables' \in [Variable -> {NoRow} \union VariableRow]
    BY <1>3, <1>6, <1>8
  <2>2. VariablesTypeOK'
    BY <1>1, <1>6, <2>1 DEF VariablesTypeOK, VariableRow, RowOf
  <2>3. ParentsExist'
    BY <1>1, <1>3, <1>6, <2>1, Checked DEF ParentsExist, Exists
  <2>4. Distinct'
    <3>1. \A u \in Variable : u # v /\ Exists(u) /\ Together(variables[u].parent, row.parent) => variables[u].key # row.key
      BY <1>3, Checked
    <3>2. \A p, q : Together(p, q)' <=> Together(p, q)
      BY <1>1 DEF Together, Global
    <3> QED BY <1>3, <1>6, <2>1, <3>1, <3>2, TogetherSymmetric DEF Distinct, Exists
  <2>5. SensitiveKept
    BY <1>3, <2>1 DEF SensitiveKept, Exists
  <2> QED BY <1>1, <1>5, <2>2, <2>3, <2>4, <2>5, VariablesWrite
<1> QED BY <1>4, <1>7, <1>8

LEMMA UpdatesVariableStep ==
  ASSUME VariablesInv, NEW s \in Session, Only(s, VariablesOps), UpdateVariableCommits(s)
  PROVE  VariablesInv' /\ SensitiveKept
<1>1. session[s].op = "updateVariable" /\ session'[s] = Idle /\ UNCHANGED sets
  BY DEF UpdateVariableCommits, At, End, Only
<1>2. UpdatesVariable(session[s])
  BY <1>1 DEF VariablesInv, VariablesRequest
<1>3. PICK v \in Variable, row \in VariableRow : v = session[s].variable /\ row = session[s].row
  BY <1>2 DEF UpdatesVariable
<1>4. /\ Exists(v) /\ checkVariable(v, row) /\ row.parent = variables[v].parent
      /\ variables[v].sensitive => row.sensitive /\ row.key = variables[v].key
  BY <1>2, <1>3 DEF UpdatesVariable
<1>5. variables \in [Variable -> {NoRow} \union VariableRow] /\ VariablesTypeOK /\ ParentsExist /\ Distinct
  BY RowsTyped, DistinctRows DEF VariablesInv
<1>6. variables' = [variables EXCEPT ![v] = row]
  BY <1>3, <1>4 DEF UpdateVariableCommits, Exists
<1>7. variables'[v] = row /\ (\A u \in Variable : u # v => variables'[u] = variables[u])
      /\ variables' \in [Variable -> {NoRow} \union VariableRow]
  BY <1>3, <1>5, <1>6
<1>8. VariablesTypeOK'
  BY <1>1, <1>5, <1>7 DEF VariablesTypeOK, VariableRow, RowOf
<1>9. ParentsExist'
  BY <1>1, <1>4, <1>5, <1>7, Checked DEF ParentsExist, Exists
<1>10. Distinct'
  <2>1. \A u \in Variable : u # v /\ Exists(u) /\ Together(variables[u].parent, row.parent) => variables[u].key # row.key
    BY <1>4, Checked
  <2>2. \A p, q : Together(p, q)' <=> Together(p, q)
    BY <1>1 DEF Together, Global
  <2> QED BY <1>3, <1>5, <1>7, <2>1, <2>2, TogetherSymmetric DEF Distinct, Exists
<1>11. SensitiveKept
  BY <1>4, <1>7 DEF SensitiveKept
<1>12. \A t \in Session \ {s} : ~LocksVariables(t)
  BY <1>1 DEF VariablesInv, LocksVariables
<1> QED BY <1>1, <1>8, <1>9, <1>10, <1>11, <1>12, VariablesWrite

\* Rows are deleted: what is left is without conflict.
LEMMA RowsDeleted ==
  ASSUME VariablesInv, NEW gone, variables' = [v \in Variable |-> IF v \in gone THEN NoRow ELSE variables[v]],
         \A x \in VariableSet : sets'[x].global => sets[x].global
  PROVE  /\ variables' \in [Variable -> {NoRow} \union VariableRow]
         /\ \A v \in Variable : Exists(v)' => Exists(v) /\ variables'[v] = variables[v] /\ v \notin gone
         /\ Distinct'
         /\ SensitiveKept
<1>1. variables \in [Variable -> {NoRow} \union VariableRow] /\ Distinct
  BY RowsTyped, DistinctRows DEF VariablesInv
<1>2. /\ variables' \in [Variable -> {NoRow} \union VariableRow]
      /\ \A v \in Variable : Exists(v)' => Exists(v) /\ variables'[v] = variables[v] /\ v \notin gone
  BY <1>1 DEF Exists
<1>3. \A p, q : Together(p, q)' => Together(p, q)
  BY DEF Together, Global
<1>4. Distinct'
  BY <1>1, <1>2, <1>3 DEF Distinct
<1>5. SensitiveKept
  BY <1>2 DEF SensitiveKept
<1> QED BY <1>2, <1>4, <1>5

LEMMA DeletesVariableStep ==
  ASSUME VariablesInv, NEW s \in Session, Only(s, VariablesOps), NEW v \in Variable, DeleteVariable(s, v)
  PROVE  VariablesInv' /\ SensitiveKept
<1>1. session'[s] = Idle /\ UNCHANGED sets /\ variables' = [variables EXCEPT ![v] = NoRow]
      /\ \A t \in Session \ {s} : ~LocksVariables(t)
  BY DEF DeleteVariable, AtOnce, VariablesFree, Others
<1>2. variables \in [Variable -> {NoRow} \union VariableRow] /\ VariablesTypeOK /\ ParentsExist
  BY RowsTyped DEF VariablesInv
<1>3. variables' = [u \in Variable |-> IF u \in {v} THEN NoRow ELSE variables[u]]
  BY <1>1, <1>2
<1>4. /\ variables' \in [Variable -> {NoRow} \union VariableRow]
      /\ \A u \in Variable : Exists(u)' => Exists(u) /\ variables'[u] = variables[u]
      /\ Distinct' /\ SensitiveKept
  BY <1>1, <1>3, RowsDeleted
<1>5. VariablesTypeOK' /\ ParentsExist'
  BY <1>1, <1>2, <1>4 DEF VariablesTypeOK, ParentsExist, VariableRow, RowOf
<1> QED BY <1>1, <1>4, <1>5, VariablesWrite

\* A request on a set takes its last lock.
LEMMA RequestChecked ==
  ASSUME NEW q \in [op : {"updateSet"}, at : {"lock", "write"}, set : VariableSet, opts : SetOption, after : SetRow],
         NEW after \in SetRow
  PROVE  /\ [q EXCEPT !.at = "write", !.after = after] \in
              [op : {"updateSet"}, at : {"lock", "write"}, set : VariableSet, opts : SetOption, after : SetRow]
         /\ [q EXCEPT !.at = "write", !.after = after].set = q.set
         /\ [q EXCEPT !.at = "write", !.after = after].after = after
OBVIOUS

\* Requests on sets that have not written yet, and those that are aborted.
LEMMA SetRequests ==
  ASSUME VariablesInv, NEW s \in Session, Only(s, VariablesOps),
         \/ \E x \in VariableSet, opts \in SetOptions : UpdateVariableSet(s, x, opts)
         \/ UpdateVariableSetChecks(s)
         \/ \E x \in VariableSet : DeleteVariableSet(s, x)
         \/ DeadlockDetected(s)
  PROVE  VariablesInv' /\ UNCHANGED variables
<1>1. ASSUME NEW x \in VariableSet, NEW opts \in SetOptions, UpdateVariableSet(s, x, opts)
      PROVE  VariablesInv' /\ UNCHANGED variables
  <2>1. UNCHANGED <<variables, sets>> /\ VariablesFree(s)
        /\ session'[s] = [op |-> "updateSet", at |-> "lock", set |-> x, opts |-> opts, after |-> NoSet]
    BY <1>1 DEF UpdateVariableSet, Begin, Only
  <2>2. opts \in SetOption /\ NoSet \in SetRow
    BY OptionsAssumption DEF NoSet, SetRow
  <2>3. VariablesRequest(session[s])'
    BY <2>1, <2>2 DEF VariablesRequest, UpdatesSet
  <2> QED BY <2>1, <2>3, VariablesBegin
<1>2. ASSUME UpdateVariableSetChecks(s)
      PROVE  VariablesInv' /\ UNCHANGED variables
  <2>1. UNCHANGED <<variables, sets>> /\ At(s, "updateSet", "lock") /\ LocksVariables(s)
    BY <1>2 DEF UpdateVariableSetChecks, At, LocksVariables
  <2>2. UpdatesSet(session[s])
    BY <2>1 DEF VariablesInv, VariablesRequest, At
  <2>3. PICK q \in [op : {"updateSet"}, at : {"lock", "write"}, set : VariableSet, opts : SetOption, after : SetRow] :
          session[s] = q
    BY <2>2 DEF UpdatesSet
  <2>4. PICK x \in VariableSet, after \in SetRow :
          x = q.set /\ after = SetUpdated(sets[x], q.opts) /\ after.exists = sets[x].exists
    BY SetUpdatedTyped, RowsTyped DEF VariablesInv
  <2>5. CASE session'[s] = Idle
    BY <2>1, <2>5, VariablesBegin DEF VariablesRequest, Idle
  <2>6. PICK r \in [op : {"updateSet"}, at : {"lock", "write"}, set : VariableSet, opts : SetOption, after : SetRow] :
          r = [q EXCEPT !.at = "write", !.after = after] /\ r.set = x /\ r.after = after
    <3> DEFINE next == [q EXCEPT !.at = "write", !.after = after]
    <3>1. /\ next \in [op : {"updateSet"}, at : {"lock", "write"}, set : VariableSet, opts : SetOption, after : SetRow]
          /\ next.set = x /\ next.after = after
      BY <2>4, RequestChecked
    <3> QED BY <3>1
  <2>7. CASE sets[x].exists /\ checkSet(x, after) /\ session'[s] = r
    <3>1. checkSet(x, after)' /\ sets'[x].exists
      BY <2>1, <2>7 DEF checkSet, checkConflicts, listVariables, listGlobalVariables, Exists
    <3>2. r.op = "updateSet"
      OBVIOUS
    <3>3. UpdatesSet(r)'
      BY <2>4, <2>6, <2>7, <3>1 DEF UpdatesSet
    <3>4. VariablesRequest(session[s])'
      BY <2>7, <3>2, <3>3 DEF VariablesRequest
    <3> QED BY <2>1, <3>4, VariablesBegin
  <2>8. session'[s] = IF sets[x].exists /\ checkSet(x, after) THEN r ELSE Idle
    BY <1>2, <2>3, <2>4, <2>6 DEF UpdateVariableSetChecks, Only
  <2> QED BY <2>5, <2>7, <2>8
<1>3. ASSUME NEW x \in VariableSet, DeleteVariableSet(s, x)
      PROVE  VariablesInv' /\ UNCHANGED variables
  <2>1. UNCHANGED <<variables, sets>> /\ session'[s] = [op |-> "deleteSet", at |-> "cascade", set |-> x]
    BY <1>3 DEF DeleteVariableSet, Begin, Only
  <2> QED BY <2>1, VariablesBegin DEF VariablesRequest, LocksVariables
<1>4. ASSUME DeadlockDetected(s)
      PROVE  VariablesInv' /\ UNCHANGED variables
  <2>1. UNCHANGED <<variables, sets>> /\ session'[s] = Idle
    BY <1>4 DEF DeadlockDetected, End, Only
  <2> QED BY <2>1, VariablesBegin DEF VariablesRequest, LocksVariables, Idle
<1> QED BY <1>1, <1>2, <1>3, <1>4

LEMMA CreatesSetStep ==
  ASSUME VariablesInv, NEW s \in Session, Only(s, VariablesOps), NEW x \in VariableSet, NEW name \in SetName,
         NEW global \in BOOLEAN, NEW applied \in SUBSET Workspace, CreateVariableSet(s, x, name, global, applied)
  PROVE  VariablesInv' /\ UNCHANGED variables
<1>1. /\ session'[s] = Idle /\ UNCHANGED variables /\ ~sets[x].exists
      /\ sets' = [sets EXCEPT ![x] = [name |-> name, global |-> global, workspaces |-> applied, exists |-> TRUE]]
  BY DEF CreateVariableSet, AtOnce
<1>2. VariablesTypeOK /\ ParentsExist /\ Distinct /\ sets \in [VariableSet -> SetRow]
  BY RowsTyped, DistinctRows DEF VariablesInv
<1>3. /\ \A y \in VariableSet : y # x => sets'[y] = sets[y]
      /\ sets' \in [VariableSet -> SetRow] /\ sets'[x].exists
  BY <1>1, <1>2 DEF SetRow
<1>4. VariablesTypeOK' /\ ParentsExist'
  BY <1>1, <1>2, <1>3 DEF VariablesTypeOK, ParentsExist, Exists, SetRow
<1>5. \A v \in Variable : Exists(v) => (Global(variables[v].parent)' <=> Global(variables[v].parent))
  BY <1>1, <1>2, <1>3 DEF Global, ParentsExist
<1>6. Distinct'
  BY <1>1, <1>2, <1>5 DEF Distinct, Together, Exists
<1>7. \A y \in VariableSet : sets[y].exists => sets'[y].exists /\ sets'[y].global = sets[y].global
  BY <1>1, <1>3
<1> QED BY <1>1, <1>4, <1>5, <1>6, <1>7, VariablesWrite

LEMMA UpdatesSetStep ==
  ASSUME VariablesInv, NEW s \in Session, Only(s, VariablesOps), UpdateVariableSetCommits(s)
  PROVE  VariablesInv' /\ UNCHANGED variables
<1>1. session'[s] = Idle /\ UNCHANGED variables /\ session[s].op = "updateSet" /\ session[s].at = "write"
  BY DEF UpdateVariableSetCommits, End, At, Only
<1>2. UpdatesSet(session[s])
  BY <1>1 DEF VariablesInv, VariablesRequest
<1>3. PICK x \in VariableSet, after \in SetRow : x = session[s].set /\ after = session[s].after
  BY <1>2 DEF UpdatesSet
<1>4. sets[x].exists /\ after.exists /\ checkSet(x, after)
  BY <1>1, <1>2, <1>3 DEF UpdatesSet
<1>5. VariablesTypeOK /\ ParentsExist /\ NoConflicts /\ Distinct /\ sets \in [VariableSet -> SetRow]
  BY RowsTyped, DistinctRows DEF VariablesInv
<1>6. \A t \in Session \ {s} : ~LocksVariables(t)
  BY <1>1 DEF VariablesInv, LocksVariables
<1>7. \/ UNCHANGED sets
      \/ sets' = [sets EXCEPT ![x] = after]
  BY <1>3 DEF UpdateVariableSetCommits
<1>8. CASE UNCHANGED sets
  <2>1. VariablesTypeOK' /\ ParentsExist' /\ Distinct'
    BY <1>1, <1>5, <1>8 DEF VariablesTypeOK, ParentsExist, Distinct, Together, Global, Exists
  <2> QED BY <1>1, <1>6, <2>1, VariablesWrite
<1>9. CASE sets' = [sets EXCEPT ![x] = after]
  <2>1. /\ sets'[x] = after /\ \A y \in VariableSet : y # x => sets'[y] = sets[y]
        /\ sets' \in [VariableSet -> SetRow]
    BY <1>5, <1>9
  <2>2. VariablesTypeOK' /\ ParentsExist'
    BY <1>1, <1>4, <1>5, <2>1 DEF VariablesTypeOK, ParentsExist, Exists, SetRow
  <2>3. ASSUME after.global, NEW u \in Variable, NEW v \in Variable, u # v, Exists(u), Exists(v),
               variables[u].parent = x, Global(variables[v].parent)
        PROVE  variables[u].key # variables[v].key
    <3>1. u \in listVariables(x) /\ v \in listGlobalVariables
      BY <2>3, InGlobals DEF listVariables
    <3> QED BY <1>4, <2>3, <3>1 DEF checkSet, checkConflicts
  <2>4. \A p, q : Together(p, q)' => \/ Together(p, q)
                                     \/ after.global /\ p = x /\ Global(q)
                                     \/ after.global /\ q = x /\ Global(p)
    BY <2>1 DEF Together, Global
  <2>5. Distinct'
    <3> SUFFICES ASSUME NEW u \in Variable, NEW v \in Variable, u # v, Exists(u), Exists(v),
                        Together(variables[u].parent, variables[v].parent)'
                 PROVE  variables[u].key # variables[v].key
      BY <1>1 DEF Distinct, Exists
    <3>1. Together(variables[u].parent, variables[v].parent) \/
          (after.global /\ variables[u].parent = x /\ Global(variables[v].parent)) \/
          (after.global /\ variables[v].parent = x /\ Global(variables[u].parent))
      BY <1>1, <2>4
    <3> QED BY <1>5, <2>3, <3>1 DEF Distinct
  <2> QED BY <1>1, <1>6, <2>2, <2>5, VariablesWrite
<1> QED BY <1>7, <1>8, <1>9

LEMMA DeletesSetStep ==
  ASSUME VariablesInv, NEW s \in Session, Only(s, VariablesOps), DeleteVariableSetCascades(s)
  PROVE  VariablesInv' /\ SensitiveKept
<1>1. session'[s] = Idle /\ session[s].op = "deleteSet" /\ \A t \in Session \ {s} : ~LocksVariables(t)
  BY DEF DeleteVariableSetCascades, End, At, Only, VariablesFree, Others
<1>2. PICK x \in VariableSet : x = session[s].set
  BY <1>1 DEF VariablesInv, VariablesRequest
<1> DEFINE gone == { v \in Variable : variables[v].parent = x }
<1>3. /\ sets' = [sets EXCEPT ![x] = NoSet]
      /\ variables' = [v \in Variable |-> IF v \in gone THEN NoRow ELSE variables[v]]
  BY <1>2 DEF DeleteVariableSetCascades, SetsVariablesGone
<1>4. VariablesTypeOK /\ ParentsExist /\ sets \in [VariableSet -> SetRow]
  BY RowsTyped DEF VariablesInv
<1>5. /\ \A y \in VariableSet : y # x => sets'[y] = sets[y]
      /\ sets'[x] = NoSet /\ sets' \in [VariableSet -> SetRow]
  <2>1. NoSet \in SetRow
    BY DEF NoSet, SetRow
  <2> QED BY <1>3, <1>4, <2>1
<1>6. \A y \in VariableSet : sets'[y].global => sets[y].global
  BY <1>5 DEF NoSet
<1>7. /\ variables' \in [Variable -> {NoRow} \union VariableRow]
      /\ \A v \in Variable : Exists(v)' => Exists(v) /\ variables'[v] = variables[v] /\ v \notin gone
      /\ Distinct' /\ SensitiveKept
  <2> HIDE DEF gone
  <2> QED BY <1>3, <1>6, RowsDeleted
<1>8. VariablesTypeOK'
  BY <1>5, <1>7 DEF VariablesTypeOK, VariableRow, RowOf, SetRow
<1>9. ParentsExist'
  BY <1>4, <1>5, <1>7 DEF ParentsExist
<1> QED BY <1>1, <1>7, <1>8, <1>9, VariablesWrite

LEMMA AppliesSetStep ==
  ASSUME VariablesInv, NEW s \in Session, Only(s, VariablesOps), NEW x \in VariableSet, NEW ws \in SUBSET Workspace,
         ApplySetToWorkspaces(s, x, ws) \/ DeleteSetFromWorkspaces(s, x, ws)
  PROVE  VariablesInv' /\ UNCHANGED variables
<1>1. session'[s] = Idle /\ UNCHANGED variables
  BY DEF ApplySetToWorkspaces, DeleteSetFromWorkspaces, AtOnce
<1>2. VariablesTypeOK /\ ParentsExist /\ Distinct /\ sets \in [VariableSet -> SetRow]
  BY RowsTyped, DistinctRows DEF VariablesInv
<1>3. PICK applied \in SUBSET Workspace : sets' = [sets EXCEPT ![x].workspaces = applied]
  <2>1. sets[x].workspaces \union ws \in SUBSET Workspace /\ sets[x].workspaces \ ws \in SUBSET Workspace
    BY <1>2 DEF SetRow
  <2> QED BY <2>1 DEF ApplySetToWorkspaces, DeleteSetFromWorkspaces
<1>4. /\ sets' \in [VariableSet -> SetRow]
      /\ \A y \in VariableSet : sets'[y].exists = sets[y].exists /\ sets'[y].global = sets[y].global
  BY <1>2, <1>3 DEF SetRow
<1>5. VariablesTypeOK' /\ ParentsExist' /\ Distinct'
  BY <1>1, <1>2, <1>4 DEF VariablesTypeOK, ParentsExist, Distinct, Together, Global, Exists, SetRow
<1>6. \A v \in Variable : Exists(v) => (Global(variables[v].parent)' <=> Global(variables[v].parent))
  BY <1>1, <1>4 DEF Global
<1> QED BY <1>1, <1>4, <1>5, <1>6, VariablesWrite

\* A workspace is deleted, and its variables with it.
LEMMA DeletionVariables ==
  ASSUME VariablesInv, NEW s \in Session, Only(s, {"deleteWorkspace"}), NEW w \in Workspace, VariablesCascade(w)
  PROVE  VariablesInv' /\ SensitiveKept
<1> DEFINE gone == { v \in Variable : variables[v].parent = w }
<1>1. /\ \A t \in Session : ~LocksVariables(t)
      /\ variables' = [v \in Variable |-> IF v \in gone THEN NoRow ELSE variables[v]]
      /\ sets' = [x \in VariableSet |-> [sets[x] EXCEPT !.workspaces = @ \ {w}]]
  BY DEF VariablesCascade, SetsVariablesGone
<1>2. VariablesTypeOK /\ ParentsExist /\ sets \in [VariableSet -> SetRow]
  BY RowsTyped DEF VariablesInv
<1>3. /\ sets' \in [VariableSet -> SetRow]
      /\ \A x \in VariableSet : sets'[x].exists = sets[x].exists /\ sets'[x].global = sets[x].global
  BY <1>1, <1>2 DEF SetRow
<1>4. /\ variables' \in [Variable -> {NoRow} \union VariableRow]
      /\ \A v \in Variable : Exists(v)' => Exists(v) /\ variables'[v] = variables[v] /\ v \notin gone
      /\ Distinct' /\ SensitiveKept
  <2> HIDE DEF gone
  <2> QED BY <1>1, <1>3, RowsDeleted
<1>5. VariablesTypeOK' /\ ParentsExist'
  BY <1>2, <1>3, <1>4 DEF VariablesTypeOK, ParentsExist, VariableRow, RowOf, SetRow
<1>6. NoConflicts'
  BY <1>4, <1>5, DistinctAfter
<1>7. ASSUME NEW t \in Session
      PROVE  ~LocksVariables(t)' /\ VariablesRequest(session[t])'
  BY <1>1 DEF VariablesInv, Only, LocksVariables, VariablesRequest
<1> QED BY <1>4, <1>5, <1>6, <1>7 DEF VariablesInv

LEMMA VariablesStep ==
  ASSUME VariablesInv, DOMAIN session = Session, NEW s \in Session, VariablesNext(s)
  PROVE  VariablesInv' /\ [SensitiveKept]_variables
<1>1. Only(s, VariablesOps)
  BY VariablesOnly
<1>2. CASE \E v \in Variable, row \in RowOf(Workspace \union VariableSet) : CreateVariable(s, v, row)
  BY <1>1, <1>2, VariableRequests DEF VariableRow
<1>3. CASE CreateVariableCommits(s)
  BY <1>1, <1>3, CreatesVariableStep
<1>4. CASE \E v \in Variable, opts \in VariableOptions : UpdateVariable(s, v, opts)
  BY <1>1, <1>4, VariableRequests
<1>5. CASE UpdateVariableCommits(s)
  BY <1>1, <1>5, UpdatesVariableStep
<1>6. ASSUME NEW v \in Variable, DeleteVariable(s, v)
      PROVE  VariablesInv' /\ [SensitiveKept]_variables
  BY <1>1, <1>6, DeletesVariableStep
<1>7. ASSUME NEW x \in VariableSet, NEW name \in SetName, NEW global \in BOOLEAN, NEW ws \in SUBSET Workspace,
             CreateVariableSet(s, x, name, global, ws)
      PROVE  VariablesInv' /\ [SensitiveKept]_variables
  BY <1>1, <1>7, CreatesSetStep
<1>8. CASE \/ \E x \in VariableSet, opts \in SetOptions : UpdateVariableSet(s, x, opts)
           \/ UpdateVariableSetChecks(s)
           \/ \E x \in VariableSet : DeleteVariableSet(s, x)
           \/ DeadlockDetected(s)
  BY <1>1, <1>8, SetRequests
<1>9. CASE UpdateVariableSetCommits(s)
  BY <1>1, <1>9, UpdatesSetStep
<1>10. CASE DeleteVariableSetCascades(s)
  BY <1>1, <1>10, DeletesSetStep
<1>11. ASSUME NEW x \in VariableSet, NEW ws \in (SUBSET Workspace) \ {{}},
              ApplySetToWorkspaces(s, x, ws) \/ DeleteSetFromWorkspaces(s, x, ws)
      PROVE  VariablesInv' /\ [SensitiveKept]_variables
  BY <1>1, <1>11, AppliesSetStep
<1> QED BY <1>2, <1>3, <1>4, <1>5, <1>6, <1>7, <1>8, <1>9, <1>10, <1>11 DEF VariablesNext

-----------------------------------------------------------------------------
(* State versions *)

LEMMA VersionsTyped ==
  ASSUME StatesTypeOK
  PROVE  /\ versions \in [Version -> {NoVersion} \union VersionRow]
         /\ current \in [Workspace -> Version \union {None}]
         /\ \A v \in Version : Stored(v) => versions[v] \in VersionRow
         /\ \A v \in Version : Stored(v) <=> versions[v].status # "none"
<1>1. \A row \in VersionRow : row # NoVersion /\ row.status # "none"
  BY DEF VersionRow, NoVersion
<1> QED BY <1>1 DEF StatesTypeOK, VersionRow, Stored, NoVersion

\* The same after a step.
LEMMA StoredAfter == StatesTypeOK' => \A v \in Version : Stored(v)' <=> versions'[v].status # "none"
<1>1. \A row \in VersionRow : row.status # "none"
  BY DEF VersionRow
<1> QED BY <1>1 DEF StatesTypeOK, VersionRow, Stored, NoVersion

LEMMA StatesAside ==
  ASSUME StatesInv, NEW s \in Session, NEW ops, Only(s, ops), ops \cap StatesOps = {}, UNCHANGED stateVars
  PROVE  StatesInv'
<1>1. UNCHANGED <<versions, current, unchecked>> /\ session[s].op \notin StatesOps /\ session'[s].op \notin StatesOps
      /\ \A t \in Session \ {s} : session'[t] = session[t]
  BY DEF stateVars, Only, StatesOps
<1>2. StatesTypeOK' /\ CurrentHasState' /\ PendingIsAhead'
  BY <1>1 DEF StatesInv, StatesTypeOK, CurrentHasState, PendingIsAhead, Pending, Stored
<1>3. OneWriter'
  BY <1>1 DEF StatesInv, OneWriter, StatesOps
<1>4. \A t \in Session : StatesRequest(session[t])'
  BY <1>1 DEF StatesInv, StatesRequest, StatesOps, Stored
<1> QED BY <1>2, <1>3, <1>4 DEF StatesInv

\* A request begins or gives up.
LEMMA StatesBegin ==
  ASSUME StatesInv, NEW s \in Session, Only(s, StatesOps), UNCHANGED <<versions, current, unchecked>>,
         StatesRequest(session[s])',
         \A t \in Session \ {s}, op \in StatesOps :
           session'[s].op = op /\ session[t].op = op => session'[s].version # session[t].version
  PROVE  StatesInv'
<1>1. \A t \in Session \ {s} : session'[t] = session[t]
  BY DEF Only
<1>2. StatesTypeOK' /\ CurrentHasState' /\ PendingIsAhead'
  BY DEF StatesInv, StatesTypeOK, CurrentHasState, PendingIsAhead, Pending, Stored
<1>3. OneWriter'
  BY <1>1 DEF StatesInv, OneWriter, StatesOps
<1>4. \A t \in Session : StatesRequest(session[t])'
  BY <1>1 DEF StatesInv, StatesRequest, Stored
<1> QED BY <1>2, <1>3, <1>4 DEF StatesInv

\* A request ends with a write that leaves others what they work on.
LEMMA StatesWrite ==
  ASSUME StatesInv, NEW s \in Session, NEW ops, Only(s, ops), session'[s] = Idle,
         StatesTypeOK', CurrentHasState', PendingIsAhead',
         \A t \in Session \ {s} :
           /\ session[t].op = "createVersion" => versions'[session[t].version] = NoVersion
           /\ session[t].op = "uploadState" => /\ versions'[session[t].version] # NoVersion
                                               /\ versions'[session[t].version].status = "pending"
  PROVE  StatesInv'
<1>1. \A t \in Session \ {s} : session'[t] = session[t]
  BY DEF Only
<1>2. OneWriter'
  BY <1>1 DEF StatesInv, OneWriter, Idle
<1>3. \A t \in Session \ {s} : StatesRequest(session[t])'
  BY <1>1 DEF StatesInv, StatesRequest, Stored
<1>4. StatesRequest(session[s])'
  BY DEF StatesRequest, Idle
<1> QED BY <1>2, <1>3, <1>4 DEF StatesInv

\* StateWrittenOnce; OvertakenIsDiscarded and OvertakenIsNotUploaded.
StatesKept ==
  \A v \in Version : (Stored(v) /\ Stored(v)' /\ versions[v].status # "pending") => versions'[v] = versions[v]
PendingDiscarded ==
  \A w \in Workspace : current'[w] \notin {None, current[w]} =>
    \A v \in Pending(w) \ {current'[w]} : versions'[v].status = "discarded"
SerialsGoForward ==
  \A w \in Workspace \ unchecked' : (current[w] # None /\ current'[w] # None) =>
    versions'[current'[w]].serial >= versions[current[w]].serial
SerialsKept == PendingDiscarded /\ SerialsGoForward

\* A version is finalized: it was pending or is new.
LEMMA FinalizedRow ==
  ASSUME NEW row \in VersionRow, NEW state \in State
  PROVE  /\ [row EXCEPT !.state = state, !.status = "finalized"] \in VersionRow
         /\ [row EXCEPT !.state = state, !.status = "finalized"].workspace = row.workspace
         /\ [row EXCEPT !.state = state, !.status = "finalized"].serial = row.serial
         /\ [row EXCEPT !.state = state, !.status = "finalized"].state = state
         /\ [row EXCEPT !.state = state, !.status = "finalized"].status = "finalized"
BY DEF VersionRow

LEMMA DiscardedRow ==
  ASSUME NEW row \in VersionRow
  PROVE  /\ [row EXCEPT !.status = "discarded"] \in VersionRow
         /\ [row EXCEPT !.status = "discarded"].status = "discarded"
BY DEF VersionRow

LEMMA PendingRow ==
  ASSUME NEW row \in VersionRow
  PROVE  /\ [row EXCEPT !.status = "pending"] \in VersionRow
         /\ [row EXCEPT !.status = "pending"].status = "pending"
BY DEF VersionRow

LEMMA Finalized ==
  ASSUME StatesInv, NEW v \in Version, NEW row \in VersionRow, NEW state \in State, Finalize(v, row, state),
         row.status = "pending", Stored(v) => versions[v] = row,
         unchecked \subseteq unchecked',
         row.workspace \notin unchecked' /\ current[row.workspace] # None =>
           row.serial >= versions[current[row.workspace]].serial
  PROVE  /\ StatesTypeOK' /\ CurrentHasState' /\ PendingIsAhead'
         /\ StatesKept /\ SerialsKept
         /\ \A u \in Version \ {v} : Stored(u)' <=> Stored(u)
         /\ \A u \in Version \ {v} : versions[u].status = "pending" /\ versions[u].workspace # row.workspace =>
              versions'[u].status = "pending"
<1> DEFINE final == [row EXCEPT !.state = state, !.status = "finalized"]
           after(u) == IF Stored(u) /\ Discarded(versions[u], row.workspace)
                       THEN [versions[u] EXCEPT !.status = "discarded"] ELSE versions[u]
<1>1. /\ versions \in [Version -> {NoVersion} \union VersionRow]
      /\ current \in [Workspace -> Version \union {None}]
      /\ \A u \in Version : Stored(u) => versions[u] \in VersionRow
      /\ \A u \in Version : Stored(u) <=> versions[u].status # "none"
  BY VersionsTyped DEF StatesInv
<1>2. /\ final \in VersionRow /\ final.workspace = row.workspace /\ final.serial = row.serial
      /\ final.state = state /\ final.status = "finalized"
  BY FinalizedRow
<1>3. \A u \in Version : after(u) \in {NoVersion} \union VersionRow
  BY <1>1, DiscardedRow
<1>4. \A u \in Version : \/ after(u) = versions[u] /\ ~(Stored(u) /\ Discarded(versions[u], row.workspace))
                         \/ /\ Stored(u) /\ versions[u].status = "pending" /\ versions[u].workspace = row.workspace
                            /\ after(u).status = "discarded"
  BY <1>1, DiscardedRow DEF Discarded
<1>5. /\ versions' = [[u \in Version |-> after(u)] EXCEPT ![v] = final]
      /\ current' = [current EXCEPT ![row.workspace] = v]
  BY DEF Finalize
<1> HIDE DEF final, after
<1>6. /\ versions' \in [Version -> {NoVersion} \union VersionRow]
      /\ versions'[v] = final
      /\ \A u \in Version \ {v} : versions'[u] = after(u)
  BY <1>2, <1>3, <1>5
<1>7. row.workspace \in Workspace /\ current' \in [Workspace -> Version \union {None}]
      /\ current'[row.workspace] = v
      /\ \A w \in Workspace : w # row.workspace => current'[w] = current[w]
  BY <1>1, <1>5 DEF VersionRow
<1>8. StatesTypeOK'
  BY <1>6, <1>7 DEF StatesTypeOK, VersionRow
<1>9. \A u \in Version : Stored(u)' <=> versions'[u].status # "none"
  BY <1>8, StoredAfter
<1>10. \A u \in Version \ {v} : Stored(u)' <=> Stored(u)
  BY <1>1, <1>4, <1>6, <1>9
<1>11. \A u \in Version \ {v} : versions[u].status = "pending" /\ versions[u].workspace # row.workspace =>
         versions'[u].status = "pending"
  BY <1>4, <1>6
<1>12. \A u \in Version : Stored(u) /\ versions[u].status # "pending" => u # v /\ versions'[u] = versions[u]
  BY <1>4, <1>6
<1>13. \A w \in Workspace : current[w] # None => /\ current[w] \in Version /\ Stored(current[w]) /\ current[w] # v
                                                  /\ versions[current[w]].workspace = w
                                                  /\ versions[current[w]].state # NoState
                                                  /\ versions[current[w]].status = "finalized"
                                                  /\ versions'[current[w]] = versions[current[w]]
  BY <1>1, <1>12 DEF StatesInv, CurrentHasState
<1>14. CurrentHasState'
  <2> SUFFICES ASSUME NEW w \in Workspace, current'[w] # None
               PROVE  /\ Stored(current[w])'
                      /\ versions'[current'[w]].workspace = w
                      /\ versions'[current'[w]].status = "finalized"
                      /\ versions'[current'[w]].state # NoState
    BY DEF CurrentHasState
  <2>1. CASE w = row.workspace
    BY <1>2, <1>6, <1>7, <1>9, <2>1, StateAssumption
  <2>2. CASE w # row.workspace
    BY <1>7, <1>9, <1>13, <2>2
  <2> QED BY <2>1, <2>2
<1>15. PendingIsAhead'
  <2> SUFFICES ASSUME NEW w \in Workspace \ unchecked', NEW u \in Version, (u \in Pending(w))', current'[w] # None
               PROVE  versions'[u].serial >= versions'[current'[w]].serial
    BY DEF PendingIsAhead
  <2>1. Stored(u)' /\ versions'[u].workspace = w /\ versions'[u].status = "pending"
    BY DEF Pending
  <2>2. u # v
    BY <1>2, <1>6, <2>1
  <2>3. after(u) = versions[u] /\ versions'[u] = versions[u]
    BY <1>4, <1>6, <2>1, <2>2
  <2>4. Stored(u) /\ w # row.workspace
    BY <1>4, <1>10, <2>1, <2>2, <2>3 DEF Discarded
  <2>5. u \in Pending(w) /\ current'[w] = current[w] /\ w \in Workspace \ unchecked
    BY <1>7, <2>1, <2>3, <2>4 DEF Pending
  <2> QED BY <1>13, <2>3, <2>5 DEF StatesInv, PendingIsAhead
<1>16. StatesKept
  BY <1>12 DEF StatesKept
<1>18. PendingDiscarded
  <2> SUFFICES ASSUME NEW w \in Workspace, current'[w] \notin {None, current[w]}, NEW u \in Pending(w) \ {current'[w]}
               PROVE  versions'[u].status = "discarded"
    BY DEF PendingDiscarded
  <2>1. w = row.workspace /\ u # v /\ u \in Version
    BY <1>7 DEF Pending
  <2>2. Stored(u) /\ Discarded(versions[u], row.workspace)
    BY <2>1 DEF Pending, Discarded
  <2> QED BY <1>4, <1>6, <2>1, <2>2
<1>17. SerialsGoForward
  <2> SUFFICES ASSUME NEW w \in Workspace \ unchecked', current[w] # None, current'[w] # None
               PROVE  versions'[current'[w]].serial >= versions[current[w]].serial
    BY DEF SerialsGoForward
  <2>1. CASE w = row.workspace
    BY <1>2, <1>6, <1>7, <2>1
  <2>2. CASE w # row.workspace
    <3>1. versions[current[w]].serial \in Nat
      BY <1>1, <1>13, StateAssumption DEF VersionRow
    <3> QED BY <1>7, <1>13, <2>2, <3>1
  <2> QED BY <2>1, <2>2
<1> QED BY <1>8, <1>10, <1>11, <1>14, <1>15, <1>16, <1>17, <1>18 DEF SerialsKept

LEMMA CreatesVersionStep ==
  ASSUME StatesInv, NEW s \in Session, Only(s, StatesOps), CreateStateVersionCommits(s)
  PROVE  StatesInv' /\ StatesKept /\ SerialsKept
<1>1. session[s].op = "createVersion" /\ session'[s] = Idle
  BY DEF CreateStateVersionCommits, Creating, End, Only
<1>2. StatesRequest(session[s])
  BY DEF StatesInv
<1>3. PICK v \in Version, row \in VersionRow : v = session[s].version /\ row = session[s].row
  BY <1>1, <1>2 DEF StatesRequest
<1>4. row.status = "pending" /\ ~Stored(v)
  BY <1>1, <1>2, <1>3 DEF StatesRequest
<1>5. /\ versions \in [Version -> {NoVersion} \union VersionRow]
      /\ current \in [Workspace -> Version \union {None}]
      /\ \A u \in Version : Stored(u) => versions[u] \in VersionRow
      /\ \A u \in Version : Stored(u) <=> versions[u].status # "none"
      /\ StatesTypeOK /\ CurrentHasState /\ PendingIsAhead
  BY VersionsTyped DEF StatesInv
<1>6. \A t \in Session \ {s} :
        /\ session[t].op = "createVersion" => session[t].version # v /\ session[t].version \in Version /\ ~Stored(session[t].version)
        /\ session[t].op = "uploadState" => /\ session[t].version \in Version /\ Stored(session[t].version) /\ session[t].version # v
                                            /\ session[t].at = "write"
                                            /\ versions[session[t].version].status = "pending"
  BY <1>1, <1>3, <1>4 DEF StatesInv, StatesRequest, OneWriter
<1>7. CASE UNCHANGED stateVars
  <2>1. StatesTypeOK' /\ CurrentHasState' /\ PendingIsAhead'
    BY <1>5, <1>7 DEF StatesTypeOK, CurrentHasState, PendingIsAhead, Pending, Stored, stateVars
  <2>2. StatesKept
    BY <1>7 DEF StatesKept, stateVars
  <2>3. SerialsKept
    BY <1>5, <1>7, StateAssumption DEF SerialsKept, PendingDiscarded, SerialsGoForward, CurrentHasState,
                                          VersionRow, stateVars
  <2>4. StatesInv'
    BY <1>1, <1>6, <1>7, <2>1, StatesWrite DEF Stored, stateVars
  <2> QED BY <2>2, <2>3, <2>4
<1>8. ASSUME row.workspace \in workspaces, ~UNCHANGED stateVars
      PROVE  unchecked' = unchecked \union
               (IF SerialAccepted(row.workspace, row.serial, row.state) THEN {} ELSE {row.workspace})
  BY <1>3, <1>8 DEF CreateStateVersionCommits
<1>9. ASSUME unchecked' = unchecked \union
               (IF SerialAccepted(row.workspace, row.serial, row.state) THEN {} ELSE {row.workspace})
      PROVE  /\ unchecked \subseteq unchecked'
             /\ row.workspace \notin unchecked' /\ current[row.workspace] # None =>
                  row.serial >= versions[current[row.workspace]].serial
  <2> SUFFICES ASSUME row.workspace \notin unchecked', current[row.workspace] # None
               PROVE  row.serial >= versions[current[row.workspace]].serial
    BY <1>9
  <2>1. SerialAccepted(row.workspace, row.serial, row.state)
    BY <1>9
  <2>2. row.workspace \in Workspace /\ row.serial \in Nat /\ versions[current[row.workspace]].serial \in Nat
    BY <1>5, StateAssumption DEF VersionRow, CurrentHasState
  <2> QED BY <2>1, <2>2 DEF SerialAccepted
<1>10. CASE /\ versions' = [versions EXCEPT ![v] = row] /\ UNCHANGED current
            /\ unchecked' = unchecked \union
                 (IF SerialAccepted(row.workspace, row.serial, row.state) THEN {} ELSE {row.workspace})
  <2>1. /\ versions'[v] = row /\ \A u \in Version : u # v => versions'[u] = versions[u]
        /\ versions' \in [Version -> {NoVersion} \union VersionRow]
    BY <1>5, <1>10
  <2>2. StatesTypeOK'
    BY <1>5, <1>10, <2>1 DEF StatesTypeOK, VersionRow
  <2>3. \A u \in Version \ {v} : Stored(u)' <=> Stored(u)
    BY <2>1 DEF Stored
  <2>4. \A w \in Workspace : current[w] # None => current[w] \in Version \ {v} /\ versions'[current[w]] = versions[current[w]]
                                                    /\ versions[current[w]].serial \in Nat
    BY <1>4, <1>5, <2>1, StateAssumption DEF CurrentHasState, VersionRow
  <2>5. CurrentHasState'
    BY <1>5, <1>10, <2>3, <2>4 DEF CurrentHasState
  <2>6. PendingIsAhead'
    <3> SUFFICES ASSUME NEW w \in Workspace \ unchecked', NEW u \in Version, (u \in Pending(w))', current[w] # None
                 PROVE  versions'[u].serial >= versions'[current[w]].serial
      BY <1>10 DEF PendingIsAhead
    <3>1. Stored(u)' /\ versions'[u].workspace = w /\ versions'[u].status = "pending"
      BY DEF Pending
    <3>2. CASE u = v
      BY <1>9, <1>10, <2>1, <2>4, <3>1, <3>2
    <3>3. CASE u # v
      <4>1. u \in Pending(w) /\ w \in Workspace \ unchecked
        BY <1>9, <1>10, <2>1, <2>3, <3>1, <3>3 DEF Pending
      <4> QED BY <1>5, <2>1, <2>4, <3>3, <4>1 DEF PendingIsAhead
    <3> QED BY <3>2, <3>3
  <2>7. StatesKept
    BY <1>4, <2>1 DEF StatesKept
  <2>8. SerialsKept
    BY <1>10, <2>4 DEF SerialsKept, PendingDiscarded, SerialsGoForward
  <2>9. StatesInv'
    BY <1>1, <1>6, <2>1, <2>2, <2>3, <2>5, <2>6, StatesWrite DEF Stored
  <2> QED BY <2>7, <2>8, <2>9
<1>11. CASE /\ row.state # NoState /\ PendingFree(s, row.workspace, v) /\ Finalize(v, row, row.state)
            /\ unchecked' = unchecked \union
                 (IF SerialAccepted(row.workspace, row.serial, row.state) THEN {} ELSE {row.workspace})
  <2>1. row.state \in State
    BY <1>11 DEF VersionRow
  <2>2. /\ StatesTypeOK' /\ CurrentHasState' /\ PendingIsAhead' /\ StatesKept /\ SerialsKept
        /\ \A u \in Version \ {v} : Stored(u)' <=> Stored(u)
        /\ \A u \in Version \ {v} : versions[u].status = "pending" /\ versions[u].workspace # row.workspace =>
             versions'[u].status = "pending"
    BY <1>4, <1>9, <1>11, <2>1, Finalized
  <2>3. \A t \in Session \ {s} : session[t].op = "uploadState" => versions[session[t].version].workspace # row.workspace
    BY <1>6, <1>11 DEF PendingFree, HoldsVersion, At, Others, Pending
  <2>4. StatesInv'
    BY <1>1, <1>6, <2>2, <2>3, StatesWrite DEF Stored
  <2> QED BY <2>2, <2>4
<1>12. \/ UNCHANGED stateVars
       \/ /\ row.workspace \in workspaces
          /\ \/ versions' = [versions EXCEPT ![v] = row] /\ UNCHANGED current
             \/ row.state # NoState /\ PendingFree(s, row.workspace, v) /\ Finalize(v, row, row.state)
          /\ unchecked' = unchecked \union
               (IF SerialAccepted(row.workspace, row.serial, row.state) THEN {} ELSE {row.workspace})
  BY <1>3 DEF CreateStateVersionCommits
<1> QED BY <1>7, <1>10, <1>11, <1>12

LEMMA UploadsStateStep ==
  ASSUME StatesInv, NEW s \in Session, Only(s, StatesOps), UploadStateCommits(s)
  PROVE  StatesInv' /\ StatesKept /\ SerialsKept
<1>1. session[s].op = "uploadState" /\ session'[s] = Idle /\ UNCHANGED unchecked
  BY DEF UploadStateCommits, At, End, Only
<1>2. StatesRequest(session[s])
  BY DEF StatesInv
<1>3. PICK v \in Version, state \in State : v = session[s].version /\ state = session[s].state
  BY <1>1, <1>2 DEF StatesRequest
<1>4. versions[v].status = "pending" /\ Stored(v)
  BY <1>1, <1>2, <1>3 DEF StatesRequest
<1>5. PICK row \in VersionRow : row = versions[v]
  BY <1>4, VersionsTyped DEF StatesInv
<1>6. PendingFree(s, row.workspace, v) /\ Finalize(v, row, state)
  BY <1>3, <1>5 DEF UploadStateCommits
<1>7. row.workspace \notin unchecked' /\ current[row.workspace] # None =>
        row.serial >= versions[current[row.workspace]].serial
  BY <1>1, <1>4, <1>5 DEF StatesInv, PendingIsAhead, Pending, VersionRow
<1>8. /\ StatesTypeOK' /\ CurrentHasState' /\ PendingIsAhead' /\ StatesKept /\ SerialsKept
      /\ \A u \in Version \ {v} : Stored(u)' <=> Stored(u)
      /\ \A u \in Version \ {v} : versions[u].status = "pending" /\ versions[u].workspace # row.workspace =>
           versions'[u].status = "pending"
  BY <1>1, <1>4, <1>5, <1>6, <1>7, Finalized
<1>9. \A t \in Session \ {s} :
        /\ session[t].op = "createVersion" => /\ session[t].version \in Version /\ ~Stored(session[t].version)
        /\ session[t].op = "uploadState" => /\ session[t].version \in Version /\ Stored(session[t].version) /\ session[t].version # v
                                            /\ session[t].at = "write"
                                            /\ versions[session[t].version].status = "pending"
  BY <1>1, <1>3, <1>4 DEF StatesInv, StatesRequest, OneWriter
<1>10. \A t \in Session \ {s} : session[t].op = "uploadState" => versions[session[t].version].workspace # row.workspace
  BY <1>6, <1>9 DEF PendingFree, HoldsVersion, At, Others, Pending
<1>11. StatesInv'
  BY <1>1, <1>4, <1>8, <1>9, <1>10, StatesWrite DEF Stored
<1> QED BY <1>8, <1>11

\* A row of versions goes: a version that is not current, or those of a workspace.
LEMMA VersionsDeleted ==
  ASSUME StatesInv, NEW s \in Session, NEW ops, Only(s, ops), session'[s] = Idle, NEW gone \in SUBSET Version,
         \A v \in Version : versions'[v] = IF v \in gone THEN NoVersion ELSE versions[v],
         versions' \in [Version -> {NoVersion} \union VersionRow],
         current' \in [Workspace -> Version \union {None}],
         \A w \in Workspace : current'[w] # None => current'[w] = current[w] /\ current[w] \notin gone
                                                      /\ (w \in unchecked => w \in unchecked'),
         \A t \in Session \ {s} : session[t].op = "uploadState" => session[t].version \notin gone
  PROVE  StatesInv' /\ StatesKept /\ SerialsKept
<1>1. /\ versions \in [Version -> {NoVersion} \union VersionRow]
      /\ current \in [Workspace -> Version \union {None}]
      /\ \A u \in Version : Stored(u) => versions[u] \in VersionRow
      /\ CurrentHasState /\ PendingIsAhead
  BY VersionsTyped DEF StatesInv
<1>2. StatesTypeOK'
  BY DEF StatesTypeOK, VersionRow
<1>3. \A u \in Version : /\ Stored(u)' <=> Stored(u) /\ u \notin gone
                         /\ Stored(u)' => versions'[u] = versions[u]
  BY DEF Stored
<1>4. CurrentHasState'
  BY <1>1, <1>3 DEF CurrentHasState
<1>5. PendingIsAhead'
  BY <1>1, <1>3, <1>4 DEF PendingIsAhead, Pending, CurrentHasState
<1>6. StatesKept
  BY <1>3 DEF StatesKept
<1>10. PendingDiscarded
  BY DEF PendingDiscarded
<1>7. SerialsGoForward
  <2> SUFFICES ASSUME NEW w \in Workspace, current[w] # None, current'[w] # None
               PROVE  versions'[current'[w]].serial >= versions[current[w]].serial
    BY DEF SerialsGoForward
  <2>1. current'[w] = current[w] /\ current[w] \in Version \ gone /\ versions[current[w]].serial \in Nat
    BY <1>1, StateAssumption DEF CurrentHasState, VersionRow
  <2> QED BY <2>1
<1>8. \A t \in Session \ {s} :
        /\ session[t].op = "createVersion" => session[t].version \in Version /\ ~Stored(session[t].version)
        /\ session[t].op = "uploadState" => /\ session[t].version \in Version /\ Stored(session[t].version)
                                            /\ versions[session[t].version].status = "pending"
  BY DEF StatesInv, StatesRequest
<1>9. StatesInv'
  BY <1>2, <1>3, <1>4, <1>5, <1>8, StatesWrite DEF Stored
<1> QED BY <1>6, <1>7, <1>9, <1>10 DEF SerialsKept

LEMMA DeletesVersionStep ==
  ASSUME StatesInv, NEW s \in Session, Only(s, StatesOps), NEW v \in Version, DeleteStateVersion(s, v)
  PROVE  StatesInv' /\ StatesKept /\ SerialsKept
<1>1. session'[s] = Idle /\ UNCHANGED <<current, unchecked>> /\ versions' = [versions EXCEPT ![v] = NoVersion]
      /\ \A w \in Workspace : current[w] # v
  BY DEF DeleteStateVersion, AtOnce, Deletable
<1>2. /\ versions \in [Version -> {NoVersion} \union VersionRow]
      /\ current \in [Workspace -> Version \union {None}]
  BY VersionsTyped DEF StatesInv
<1>3. \A t \in Session \ {s} : session[t].op = "uploadState" => session[t].version \notin {v}
  BY DEF DeleteStateVersion, HoldsVersion, At, StatesInv, StatesRequest
<1>4. /\ \A u \in Version : versions'[u] = IF u \in {v} THEN NoVersion ELSE versions[u]
      /\ versions' \in [Version -> {NoVersion} \union VersionRow]
  BY <1>1, <1>2
<1>5. /\ current' \in [Workspace -> Version \union {None}] /\ {v} \in SUBSET Version
      /\ \A w \in Workspace : current'[w] = current[w] /\ current[w] \notin {v} /\ (w \in unchecked => w \in unchecked')
  BY <1>1, <1>2
<1> DEFINE gone == {v}
<1> HIDE DEF gone
<1>6. /\ gone \in SUBSET Version
      /\ \A w \in Workspace : current'[w] = current[w] /\ current[w] \notin gone /\ (w \in unchecked => w \in unchecked')
      /\ \A t \in Session \ {s} : session[t].op = "uploadState" => session[t].version \notin gone
      /\ \A u \in Version : versions'[u] = IF u \in gone THEN NoVersion ELSE versions[u]
  BY <1>3, <1>4, <1>5 DEF gone
<1> QED BY <1>1, <1>4, <1>5, <1>6, VersionsDeleted

LEMMA StatesStep ==
  ASSUME StatesInv, DOMAIN session = Session, NEW s \in Session, StatesNext(s)
  PROVE  StatesInv' /\ [StatesKept]_versions /\ [SerialsKept]_current
<1>1. Only(s, StatesOps)
  BY StatesOnly
<1>3. ASSUME NEW v \in Version, NEW w \in Workspace, NEW serial \in 0..MaxSerial, NEW state \in State \union {NoState},
             CreateStateVersion(s, v, w, serial, state)
      PROVE  StatesInv' /\ UNCHANGED <<versions, current>>
  <2>1. UNCHANGED <<versions, current, unchecked>> /\ IsNew(v)
    BY <1>3 DEF CreateStateVersion
  <2>2. CASE session[s] = Idle /\ UNCHANGED session
    BY <1>1, <2>1, <2>2, StatesBegin DEF StatesRequest, Idle, StatesOps
  <2>3. PICK row \in VersionRow : row = [workspace |-> w, serial |-> serial, state |-> state, status |-> "pending"]
    BY DEF VersionRow
  <2>4. CASE session'[s] = [op |-> "createVersion", at |-> "write", version |-> v, row |-> row]
    <3>1. StatesRequest(session[s])'
      BY <2>1, <2>3, <2>4 DEF StatesRequest, IsNew, Stored
    <3> QED BY <1>1, <2>1, <2>4, <3>1, StatesBegin DEF IsNew
  <2> QED BY <1>1, <1>3, <2>2, <2>3, <2>4 DEF CreateStateVersion, Begin, AtOnce, Only
<1>4. ASSUME NEW v \in Version, NEW from \in Version, RollbackStateVersion(s, v, from)
      PROVE  StatesInv' /\ UNCHANGED <<versions, current>>
  <2>1. UNCHANGED <<versions, current, unchecked>> /\ IsNew(v) /\ versions[from] \in VersionRow
    BY <1>4, VersionsTyped DEF RollbackStateVersion, StatesInv
  <2> DEFINE row == [versions[from] EXCEPT !.status = "pending"]
  <2>2. row \in VersionRow /\ row.status = "pending"
    BY <2>1, PendingRow
  <2> HIDE DEF row
  <2>3. session'[s] = [op |-> "createVersion", at |-> "rollback", version |-> v, row |-> row]
    BY <1>4 DEF RollbackStateVersion, Begin, Only, row
  <2>4. StatesRequest(session[s])'
    BY <2>1, <2>2, <2>3 DEF StatesRequest, IsNew, Stored
  <2> QED BY <1>1, <2>1, <2>3, <2>4, StatesBegin DEF IsNew
<1>5. ASSUME NEW v \in Version, NEW state \in State, UploadState(s, v, state)
      PROVE  StatesInv' /\ UNCHANGED <<versions, current>>
  <2>1. UNCHANGED <<versions, current, unchecked>> /\ Stored(v) /\ VersionFree(s, v)
    BY <1>5 DEF UploadState
  <2>2. CASE session[s] = Idle /\ UNCHANGED session
    BY <1>1, <2>1, <2>2, StatesBegin DEF StatesRequest, Idle, StatesOps
  <2>3. CASE versions[v].status = "pending" /\
             session'[s] = [op |-> "uploadState", at |-> "write", version |-> v, state |-> state]
    <3>1. StatesRequest(session[s])'
      BY <2>1, <2>3 DEF StatesRequest, Stored
    <3>2. \A t \in Session \ {s} : session[t].op = "uploadState" => session[t].version # v
      BY <2>1 DEF StatesInv, StatesRequest, VersionFree, HoldsVersion, At, Others
    <3> QED BY <1>1, <2>1, <2>3, <3>1, <3>2, StatesBegin
  <2> QED BY <1>1, <1>5, <2>2, <2>3 DEF UploadState, Begin, AtOnce, Only
<1>6. ASSUME UploadsDeadlock(s)
      PROVE  StatesInv' /\ UNCHANGED <<versions, current>>
  <2>1. UNCHANGED <<versions, current, unchecked>> /\ session'[s] = Idle
    BY <1>1, <1>6 DEF UploadsDeadlock, End, Only
  <2> QED BY <1>1, <2>1, StatesBegin DEF StatesRequest, Idle, StatesOps
<1>7. CASE CreateStateVersionCommits(s)
  BY <1>1, <1>7, CreatesVersionStep
<1>8. CASE UploadStateCommits(s)
  BY <1>1, <1>8, UploadsStateStep
<1>9. ASSUME NEW v \in Version, DeleteStateVersion(s, v)
      PROVE  StatesInv' /\ StatesKept /\ SerialsKept
  BY <1>1, <1>9, DeletesVersionStep
<1> QED BY <1>3, <1>4, <1>5, <1>6, <1>7, <1>8, <1>9 DEF StatesNext

\* A workspace is deleted, and its versions with it.
LEMMA DeletionStates ==
  ASSUME StatesInv, NEW s \in Session, Only(s, {"deleteWorkspace"}), session'[s] = Idle, NEW w \in Workspace, StatesCascade(w)
  PROVE  StatesInv' /\ StatesKept /\ SerialsKept
<1>1. /\ versions \in [Version -> {NoVersion} \union VersionRow]
      /\ current \in [Workspace -> Version \union {None}]
  BY VersionsTyped DEF StatesInv
<1> DEFINE gone == { v \in Version : Stored(v) /\ versions[v].workspace = w }
<1>2. /\ \A v \in Version : versions'[v] = IF v \in gone THEN NoVersion ELSE versions[v]
      /\ versions' \in [Version -> {NoVersion} \union VersionRow]
  BY <1>1 DEF StatesCascade
<1>3. current' = [current EXCEPT ![w] = None] /\ unchecked' = unchecked \ {w}
  BY DEF StatesCascade
<1>4. current' \in [Workspace -> Version \union {None}]
  BY <1>1, <1>3
<1>5. \A u \in Workspace : current'[u] # None => current'[u] = current[u] /\ current[u] \notin gone
                                                  /\ (u \in unchecked => u \in unchecked')
  BY <1>1, <1>3 DEF StatesInv, CurrentHasState
<1>6. \A t \in Session \ {s} : session[t].op = "uploadState" => session[t].version \notin gone
  BY DEF StatesCascade
<1> HIDE DEF gone
<1>7. gone \in SUBSET Version
  BY DEF gone
<1> QED BY <1>2, <1>4, <1>5, <1>6, <1>7, VersionsDeleted

-----------------------------------------------------------------------------
(* Accounts: who is let through *)

LEMMA InPerms == \A kind, actions, k, a : <<k, a>> \in Perms(kind, actions) <=> k = kind /\ a \in actions
BY DEF Perms

LEMMA RequestsTyped ==
  ASSUME NEW o
  PROVE  /\ OrganizationRequest(o).kind = "organization"
         /\ OrganizationRequest(o).organization = o
         /\ SiteRequest.kind = "site"
BY DEF OrganizationRequest, SiteRequest

\* No role but that of the owners lets anyone change teams.
LEMMA TeamPermissions ==
  ASSUME NEW action \in {"create", "update", "delete", "add", "remove"}
  PROVE  /\ <<"team", action>> \notin OrganizationMinPermissions
         /\ \A m \in DOMAIN ManagerRole : <<"team", action>> \notin ManagerRole[m]
         /\ <<"team", action>> \notin {<<"organization", "create">>, <<"user", "get">>, <<"github-app", "get">>}
         /\ <<"team", action>> \notin Perms("user", {"create", "list"})
<1>1. <<"team", action>> \notin OrganizationMinPermissions
  BY InPerms DEF OrganizationMinPermissions
<1>2. <<"team", action>> \notin WorkspaceManagerRole
  BY InPerms DEF WorkspaceManagerRole, WorkspaceAdminRole, WorkspaceWriteRole, WorkspacePlanRole, WorkspaceReadRole
<1>3. <<"team", action>> \notin VCSManagerRole /\ <<"team", action>> \notin RegistryManagerRole
  BY InPerms DEF VCSManagerRole, RegistryManagerRole
<1>4. \A m \in DOMAIN ManagerRole : <<"team", action>> \notin ManagerRole[m]
  BY <1>2, <1>3 DEF ManagerRole
<1> QED BY <1>1, <1>4, InPerms

LEMMA OwnersChangeTeams ==
  ASSUME NEW subject \in Subjects, NEW o \in Org, NEW action \in {"create", "update", "delete", "add", "remove"},
         CanAccess(subject, <<"team", action>>, OrganizationRequest(o))
  PROVE  OwnerOf(subject, o)
<1> DEFINE req == OrganizationRequest(o)
<1>1. req.kind = "organization" /\ req.organization = o /\ o # NoOne
  BY RequestsTyped, AccountsAssumption
<1> HIDE DEF req
<1>2. ASSUME NEW team \in subject.teams, TeamCanAccess(team, <<"team", action>>, req)
      PROVE  OwnerOf(subject, o)
  <2>1. team \in TeamRows
    BY DEF Subjects
  <2>2. team.organization = o /\ team.name = "owners"
    BY <1>1, <1>2, <2>1, TeamPermissions DEF TeamCanAccess, TeamRows, Manages
  <2> QED BY <2>2 DEF OwnerOf
<1>3. CASE subject.kind = "user"
  <2>1. UserCanAccess(subject, <<"team", action>>, req)
    BY <1>3 DEF CanAccess, req
  <2>2. \/ subject.admin
        \/ \E team \in subject.teams : TeamCanAccess(team, <<"team", action>>, req)
    BY <2>1, TeamPermissions DEF UserCanAccess
  <2> QED BY <1>2, <2>2 DEF OwnerOf
<1>4. CASE subject.kind = "team"
  BY <1>2, <1>4 DEF CanAccess, req
<1>5. CASE subject.kind = "organization"
  <2>1. TokenCanAccess(subject.name, <<"team", action>>, req)
    BY <1>5 DEF CanAccess, req
  <2> QED BY <1>1, <1>5, <2>1 DEF TokenCanAccess, OwnerOf
<1> QED BY <1>3, <1>4, <1>5 DEF Subjects

\* On the site only users are let through, and only admins delete accounts.
LEMMA SiteAccess ==
  ASSUME NEW subject \in Subjects, NEW perm, CanAccess(subject, perm, SiteRequest)
  PROVE  /\ subject.kind = "user" /\ subject.name \in User
         /\ perm = <<"user", "delete">> => subject.admin
<1>1. SiteRequest.kind = "site"
  BY RequestsTyped
<1>2. \A team, p : ~TeamCanAccess(team, p, SiteRequest) /\ ~TokenCanAccess(team, p, SiteRequest)
  BY <1>1 DEF TeamCanAccess, TokenCanAccess
<1>3. subject.kind = "user"
  <2>1. CASE subject.kind = "team"
    BY <1>2, <2>1 DEF CanAccess
  <2>2. CASE subject.kind = "organization"
    BY <1>2, <2>2 DEF CanAccess
  <2> QED BY <2>1, <2>2 DEF Subjects
<1>4. UserCanAccess(subject, perm, SiteRequest)
  BY <1>3 DEF CanAccess
<1>5. perm = <<"user", "delete">> => subject.admin
  <2> SUFFICES ASSUME perm = <<"user", "delete">>
               PROVE  subject.admin
    OBVIOUS
  <2>1. perm \notin {<<"organization", "create">>, <<"user", "get">>, <<"github-app", "get">>}
    OBVIOUS
  <2>2. perm \notin Perms("user", {"create", "list"})
    BY InPerms
  <2> QED BY <1>2, <1>4, <2>1, <2>2 DEF UserCanAccess
<1> QED BY <1>3, <1>5 DEF Subjects

-----------------------------------------------------------------------------
(* Accounts: the tables *)

LEMMA TeamStates ==
  ASSUME TeamsOK, NEW t \in Team
  PROVE  /\ TeamExists(t) => teams[t] \in [name : TeamName, organization : Org, manage : Manages]
         /\ TeamExists(t) <=> teams[t].organization \in Org
         /\ teams[t] = UnusedTeam \/ teams[t] = GoneTeam => ~TeamExists(t)
         /\ GoneTeam # UnusedTeam
<1>1. UnusedTeam.organization = NoOne /\ GoneTeam.organization = NoOne /\ UnusedTeam.name = "unused" /\ GoneTeam.name = "gone"
  BY DEF UnusedTeam, GoneTeam
<1>2. teams[t] \in TeamState
  BY DEF TeamsOK
<1>3. teams[t] = UnusedTeam \/ teams[t] = GoneTeam \/ teams[t] \in [name : TeamName, organization : Org, manage : Manages]
  BY <1>2 DEF TeamState
<1> HIDE DEF UnusedTeam, GoneTeam
<1> QED BY <1>1, <1>3, AccountsAssumption DEF TeamExists

LEMMA TypedTables == AccountsTables => AccountsTypeOK
<1> SUFFICES ASSUME AccountsTables
             PROVE  AccountsTypeOK
  OBVIOUS
<1> USE DEF AccountsTables
<1>1. organizations \subseteq Org /\ users \subseteq User /\ admins \subseteq users
  BY DEF UsersOK
<1>2. ASSUME NEW t \in Team
      PROVE  /\ TeamExists(t) => /\ teams[t].name \in TeamName
                                 /\ teams[t].organization \in organizations
                                 /\ teams[t].manage \subseteq DOMAIN ManagerRole
             /\ members[t] \subseteq users
             /\ ~TeamExists(t) => members[t] = {}
  BY TeamStates DEF TeamsOK, MembersOK, Manages
<1>3. ASSUME NEW w \in Workspace, NEW t \in Team
      PROVE  /\ roles[w][t] \in RoleName \union {NoRole}
             /\ roles[w][t] # NoRole => w \in workspaces /\ TeamExists(t)
  BY DEF RolesOK
<1>4. ASSUME NEW k \in Token, ValidToken(k)
      PROVE  CASE tokens[k].kind = "user" -> tokens[k].name \in users
               [] tokens[k].kind = "team" -> TeamExists(tokens[k].name)
               [] tokens[k].kind = "organization" -> tokens[k].name \in organizations
  <2>1. tokens[k].kind \in {"user", "team", "organization"}
    BY <1>4 DEF TokensOK, ValidToken, TokenState
  <2>2. CASE tokens[k].kind = "user"
    BY <2>2 DEF TokensOK
  <2>3. CASE tokens[k].kind = "team"
    BY <2>3 DEF TokensOK
  <2>4. CASE tokens[k].kind = "organization"
    BY <2>4 DEF TokensOK
  <2> QED BY <2>1, <2>2, <2>3, <2>4
<1>5. \A k, l \in Token : tokens[k] = tokens[l] /\ tokens[k].kind \in {"team", "organization"} => k = l
  BY DEF TokensOK
<1> QED BY <1>1, <1>2, <1>3, <1>4, <1>5 DEF AccountsTypeOK

LEMMA SubjectsTyped ==
  ASSUME AccountsTables, NEW subject \in GetSubject
  PROVE  subject \in Subjects
<1> USE DEF AccountsTables
<1>1. \A t \in Team : TeamExists(t) => TeamRow(t) \in TeamRows
  BY TeamStates DEF TeamRow, TeamRows
<1>2. \A u : Memberships(u) \in SUBSET TeamRows
  BY <1>1 DEF Memberships, MembersOK
<1>3. \A u \in User : UserSubject(u) \in Subjects
  <2> TAKE u \in User
  <2>1. (u \in admins \/ u = SiteAdmin) \in BOOLEAN
    OBVIOUS
  <2> QED BY <1>2, <2>1 DEF UserSubject, Subjects
<1>4. SiteAdminSubject \in Subjects
  BY AccountsAssumption DEF SiteAdminSubject, Subjects
<1>5. ASSUME NEW k \in Token, ValidToken(k)
      PROVE  TokenSubject(tokens[k]) \in Subjects
  <2>1. \/ tokens[k].kind = "user" /\ tokens[k].name \in User
        \/ tokens[k].kind = "team" /\ tokens[k].name \in Team /\ TeamExists(tokens[k].name)
        \/ tokens[k].kind = "organization" /\ tokens[k].name \in Org
    BY <1>5 DEF TokensOK, ValidToken, TokenState
  <2>2. CASE tokens[k].kind = "user" /\ tokens[k].name \in User
    BY <1>3, <2>2 DEF TokenSubject
  <2>3. CASE tokens[k].kind = "team" /\ tokens[k].name \in Team /\ TeamExists(tokens[k].name)
    <3>1. TokenSubject(tokens[k]) = [kind |-> "team", name |-> tokens[k].name, admin |-> FALSE, teams |-> {TeamRow(tokens[k].name)}]
      BY <2>3 DEF TokenSubject
    <3> QED BY <1>1, <2>3, <3>1 DEF Subjects
  <2>4. CASE tokens[k].kind = "organization" /\ tokens[k].name \in Org
    <3>1. TokenSubject(tokens[k]) = [kind |-> "organization", name |-> tokens[k].name, admin |-> FALSE, teams |-> {}]
      BY <2>4 DEF TokenSubject
    <3> QED BY <2>4, <3>1 DEF Subjects
  <2> QED BY <2>1, <2>2, <2>3, <2>4
<1> QED BY <1>3, <1>4, <1>5 DEF GetSubject, UsersOK

LEMMA CallsTyped ==
  ASSUME NEW call \in CallOption
  PROVE  /\ call.op \in CallOps
         /\ call.op \in {"createOrganization", "createOrganizationToken", "deleteOrganizationToken", "createTeam"} =>
              call.organization \in Org
         /\ call.op \in {"createTeam", "updateTeam"} => call.name \in TeamName /\ call.manage \in Manages
         /\ call.op \in TeamChanges \union {"createTeamToken", "deleteTeamToken", "setPermission", "unsetPermission"} =>
              call.team \in Team
         /\ call.op \in {"addTeamMembership", "removeTeamMembership"} => call.users \in SUBSET User
         /\ call.op \in {"createUser", "deleteUser"} => call.user \in User
         /\ call.op \in {"setPermission", "unsetPermission"} => call.workspace \in Workspace
         /\ call.op = "setPermission" => call.role \in RoleName
         /\ call.op = "deleteToken" => call.token \in Token
BY DEF CallOption, CallOps, TeamChanges

\* The request of a session, and its subject.
LEMMA RequestOf ==
  ASSUME AccountsInv, NEW s \in Session, session[s].op \in CallOps
  PROVE  /\ session[s] \in CallRow \union ListedRow
         /\ Call(s) \in CallOption /\ Call(s).op = session[s].op /\ Subject(s) \in Subjects
         /\ CallRequest(session[s])
         /\ session[s].at # "write" => session[s] \in CallRow
BY DEF AccountsInv, AccountsRequest, CallRequest, CallRow, ListedRow, Call, Subject

\* What a request may do to the teams: they are created, renamed and deleted.
TeamsGoForward ==
  \A t \in Team : /\ teams[t] # UnusedTeam => teams'[t] # UnusedTeam
                  /\ TeamExists(t)' /\ teams[t] # UnusedTeam => /\ TeamExists(t)
                                                              /\ teams'[t].organization = teams[t].organization

\* OwnersAreKept and OwnersManageTeams.
OwnersKept ==
  \A s \in Session :
    /\ At(s, "removeTeamMembership", "write") /\ session'[s] = Idle
    /\ "listed" \in DOMAIN session[s]
    /\ members[Call(s).team] = session[s].listed
    => members'[Call(s).team] # {}

OwnersManage ==
  \A t \in Team :
    LET o == IF TeamExists(t) THEN teams[t].organization ELSE teams'[t].organization IN
    /\ o \in organizations
    /\ teams'[t] # teams[t] \/ members'[t] # members[t]
    => \E s \in Session : /\ session'[s] # session[s]
                          /\ OwnerOf(Subject(s), o)

AccountsKept == AccountsInv' /\ OwnersKept /\ OwnersManage

\* Other steps than a removal remove nobody.
LEMMA KeptByOthers ==
  ASSUME NEW s \in Session, NEW ops, Only(s, ops), ~At(s, "removeTeamMembership", "write")
  PROVE  OwnersKept
BY DEF OwnersKept, Only, At, Idle

\* What others have been let through for stays true.
LEMMA OthersAccounts ==
  ASSUME AccountsInv, NEW s \in Session, NEW ops, Only(s, ops), TeamsGoForward, NEW t \in Session, t # s
  PROVE  AccountsRequest(session[t])'
<1>1. session'[t] = session[t] /\ AccountsRequest(session[t])
  BY DEF AccountsInv, Only
<1>2. CASE session[t].op \in CallOps
  <2>1. /\ CallRequest(session[t]) /\ Call(t) \in CallOption /\ Call(t).op = session[t].op
    BY <1>2, RequestOf
  <2>2. session[t].op \in TeamChanges => Call(t).team \in Team
    BY <2>1, CallsTyped
  <2>3. CallRequest(session[t])'
    BY <1>1, <2>1, <2>2 DEF CallRequest, TeamsGoForward, Call
  <2>4. session'[t].op \notin {"login", "setSiteAdmins"}
    BY <1>1, <1>2 DEF CallOps, TeamChanges
  <2> QED BY <2>3, <2>4 DEF AccountsRequest
<1>3. CASE session[t].op \notin CallOps
  BY <1>1, <1>3 DEF AccountsRequest
<1> QED BY <1>2, <1>3

LEMMA AccountsAside ==
  ASSUME AccountsInv, NEW s \in Session, NEW ops, Only(s, ops), ops \cap AccountsOps = {}, UNCHANGED accountVars,
         workspaces \subseteq workspaces'
  PROVE  AccountsKept
<1>1. UNCHANGED <<organizations, users, admins, teams, members, roles, tokens>>
  BY DEF accountVars
<1>2. AccountsTables'
  BY <1>1 DEF AccountsInv, AccountsTables, UsersOK, TeamsOK, MembersOK, RolesOK, TokensOK, TeamExists
<1>3. TeamsGoForward
  BY <1>1 DEF TeamsGoForward, TeamExists
<1>4. AccountsRequest(session[s])' /\ ~At(s, "removeTeamMembership", "write")
  <2>1. session[s].op \notin AccountsOps /\ session'[s].op \notin AccountsOps
    BY DEF Only, AccountsOps, CallOps, TeamChanges
  <2> QED BY <2>1 DEF AccountsRequest, AccountsOps, CallOps, TeamChanges, At
<1>5. AccountsInv'
  BY <1>2, <1>3, <1>4, OthersAccounts DEF AccountsInv
<1>6. OwnersManage
  BY <1>1 DEF OwnersManage
<1> QED BY <1>4, <1>5, <1>6, KeptByOthers DEF AccountsKept

\* A request goes on: the tables stay.
LEMMA AccountsQuiet ==
  ASSUME AccountsInv, NEW s \in Session, Only(s, AccountsOps), UNCHANGED <<workspaces, accountVars>>,
         AccountsRequest(session[s])', ~At(s, "removeTeamMembership", "write")
  PROVE  AccountsKept
<1>1. UNCHANGED <<organizations, users, admins, teams, members, roles, tokens>>
  BY DEF accountVars
<1>2. AccountsTables'
  BY <1>1 DEF AccountsInv, AccountsTables, UsersOK, TeamsOK, MembersOK, RolesOK, TokensOK, TeamExists
<1>3. TeamsGoForward
  BY <1>1 DEF TeamsGoForward, TeamExists
<1>4. AccountsInv'
  BY <1>2, <1>3, OthersAccounts DEF AccountsInv
<1>5. OwnersManage
  BY <1>1 DEF OwnersManage
<1> QED BY <1>4, <1>5, KeptByOthers DEF AccountsKept

LEMMA Ending ==
  ASSUME DOMAIN session = Session, NEW s \in Session, End(s), session[s].op \in AccountsOps
  PROVE  Only(s, AccountsOps) /\ session'[s] = Idle /\ session'[s] # session[s] /\ AccountsRequest(session[s])'
<1>1. session'[s] = Idle /\ session'[s] # session[s] /\ DOMAIN session' = Session
      /\ \A t \in Session \ {s} : session'[t] = session[t]
  BY DEF End, Idle, AccountsOps, CallOps, TeamChanges
<1> QED BY <1>1 DEF Only, Idle, AccountsRequest, CallOps, TeamChanges

\* A request is refused, or fails.
LEMMA AccountsRefused ==
  ASSUME AccountsInv, DOMAIN session = Session, NEW s \in Session, session[s].op \in AccountsOps,
         End(s), UNCHANGED <<workspaces, accountVars>>, ~At(s, "removeTeamMembership", "write")
  PROVE  AccountsKept /\ Only(s, AccountsOps)
BY Ending, AccountsQuiet

\* A request ends with a write.
LEMMA AccountsWrite ==
  ASSUME AccountsInv, DOMAIN session = Session, NEW s \in Session, session[s].op \in AccountsOps, End(s),
         AccountsTables', TeamsGoForward, OwnersManage, ~At(s, "removeTeamMembership", "write")
  PROVE  AccountsKept /\ Only(s, AccountsOps)
<1>1. Only(s, AccountsOps) /\ AccountsRequest(session[s])'
  BY Ending
<1>2. AccountsInv'
  BY <1>1, OthersAccounts DEF AccountsInv
<1> QED BY <1>1, <1>2, KeptByOthers DEF AccountsKept

LEMMA Proceeding ==
  ASSUME AccountsInv, DOMAIN session = Session, NEW s \in Session, session[s].op \in CallOps, session[s].at = "get",
         NEW step \in {"list", "write"}, Proceed(s, step)
  PROVE  /\ Only(s, AccountsOps)
         /\ session'[s] \in CallRow
         /\ session'[s].op = session[s].op /\ session'[s].at = step
         /\ session'[s].call = session[s].call /\ session'[s].subject = session[s].subject
<1>1. session[s] \in CallRow
  BY RequestOf
<1> DEFINE next == [session[s] EXCEPT !.at = step]
<1>2. /\ next \in CallRow /\ next.op = session[s].op /\ next.at = step
      /\ next.call = session[s].call /\ next.subject = session[s].subject
  BY <1>1 DEF CallRow
<1>3. session' = [session EXCEPT ![s] = next]
  BY DEF Proceed
<1> HIDE DEF next
<1>4. session'[s] = next /\ DOMAIN session' = Session /\ \A t \in Session \ {s} : session'[t] = session[t]
  BY <1>3
<1> QED BY <1>2, <1>4 DEF Only, AccountsOps

\* A request is let through to a team.
LEMMA AccountsReads ==
  ASSUME AccountsInv, DOMAIN session = Session, NEW s \in Session, NEW op \in TeamChanges,
         NEW action \in {"update", "delete", "add", "remove"}, ReadTeam(s, op, action),
         NEW step \in {"list", "write"}, Proceed(s, step), UNCHANGED <<workspaces, accountVars>>
  PROVE  AccountsKept /\ Only(s, AccountsOps)
<1>1. session[s].op = op /\ session[s].at = "get" /\ op \in CallOps /\ TeamExists(Call(s).team)
      /\ CanAccess(Subject(s), <<"team", action>>, OrganizationRequest(teams[Call(s).team].organization))
  BY DEF ReadTeam, At, CallOps, Authorize
<1>2. Call(s) \in CallOption /\ Call(s).op = op /\ Subject(s) \in Subjects
  BY <1>1, RequestOf
<1>3. Call(s).team \in Team
  BY <1>2, CallsTyped
<1>4. teams[Call(s).team].organization \in Org /\ teams[Call(s).team] # UnusedTeam
  BY <1>1, <1>3, TeamStates DEF AccountsInv, AccountsTables
<1>5. OwnerOf(Subject(s), teams[Call(s).team].organization)
  BY <1>1, <1>2, <1>4, OwnersChangeTeams
<1>6. /\ Only(s, AccountsOps)
      /\ session'[s] \in CallRow
      /\ session'[s].op = session[s].op /\ session'[s].at = step
      /\ session'[s].call = session[s].call /\ session'[s].subject = session[s].subject
  BY <1>1, Proceeding
<1>7. "listed" \notin DOMAIN session'[s]
  BY <1>6 DEF CallRow
<1>8. UNCHANGED teams
  BY DEF accountVars
<1>9. CallRequest(session[s])'
  <2>1. session'[s].call = Call(s) /\ session'[s].subject = Subject(s)
    BY <1>6 DEF Call, Subject
  <2>2. /\ teams'[session'[s].call.team] # UnusedTeam
        /\ OwnerOf(session'[s].subject, teams'[session'[s].call.team].organization)
    BY <1>4, <1>5, <1>8, <2>1
  <2>3. session'[s].call.op = session'[s].op
    BY <1>1, <1>2, <1>6, <2>1
  <2> QED BY <1>6, <1>7, <2>2, <2>3 DEF CallRequest
<1>10. AccountsRequest(session[s])'
  BY <1>1, <1>6, <1>9 DEF AccountsRequest, TeamChanges
<1> QED BY <1>1, <1>6, <1>10, AccountsQuiet DEF At

-----------------------------------------------------------------------------
(* Accounts: organizations and teams *)

TeamStored == [name : TeamName, organization : Org, manage : Manages]

LEMMA RowExists == \A row \in TeamStored : row \notin {UnusedTeam, GoneTeam}
<1>1. UnusedTeam.organization = NoOne /\ GoneTeam.organization = NoOne
  BY DEF UnusedTeam, GoneTeam
<1> QED BY <1>1, AccountsAssumption DEF TeamStored

LEMMA RenamedRow ==
  ASSUME NEW row \in TeamStored, NEW name \in TeamName, NEW manage \in Manages
  PROVE  /\ [row EXCEPT !.name = name, !.manage = manage] \in TeamStored
         /\ [row EXCEPT !.name = name, !.manage = manage].organization = row.organization
BY DEF TeamStored

LEMMA TokensOfTeams == TokensOK => \A k \in Token : tokens[k].kind = "team" => tokens[k].name \in Team
BY DEF TokensOK, TokenState, UnusedToken, GoneToken

\* A team is created, with its first members and their accounts.
LEMMA TeamAdded ==
  ASSUME AccountsTables, NEW t \in Team, teams[t] = UnusedTeam, NEW row \in TeamStored, NEW us \in SUBSET User,
         teams' = [teams EXCEPT ![t] = row], members' = [members EXCEPT ![t] = us], users' = users \union us,
         organizations \subseteq organizations', organizations' \subseteq Org, row.organization \in organizations',
         UNCHANGED <<workspaces, admins, roles, tokens>>
  PROVE  /\ AccountsTables' /\ TeamsGoForward
         /\ ~TeamExists(t) /\ teams'[t] = row
         /\ \A u \in Team : u # t => teams'[u] = teams[u] /\ members'[u] = members[u]
<1> USE DEF AccountsTables
<1>1. /\ teams \in [Team -> TeamState] /\ members \in [Team -> SUBSET User]
      /\ organizations \subseteq Org /\ users \subseteq User /\ admins \subseteq users
  BY DEF TeamsOK, MembersOK, UsersOK
<1>2. row \in TeamState /\ row \notin {UnusedTeam, GoneTeam} /\ ~TeamExists(t)
  BY RowExists DEF TeamState, TeamStored, TeamExists
<1>3. /\ teams' \in [Team -> TeamState] /\ members' \in [Team -> SUBSET User]
      /\ teams'[t] = row /\ members'[t] = us
      /\ \A u \in Team : u # t => teams'[u] = teams[u] /\ members'[u] = members[u]
  BY <1>1, <1>2
<1>4. TeamExists(t)' /\ \A u \in Team : u # t => (TeamExists(u)' <=> TeamExists(u))
  BY <1>2, <1>3 DEF TeamExists
<1>5. UsersOK' /\ TeamsOK' /\ MembersOK'
  BY <1>1, <1>3, <1>4 DEF UsersOK, TeamsOK, MembersOK
<1>6. RolesOK'
  BY <1>2, <1>4 DEF RolesOK
<1>7. TokensOK'
  BY <1>2, <1>4, TokensOfTeams DEF TokensOK
<1>8. TeamsGoForward
  BY <1>3, <1>4 DEF TeamsGoForward
<1> QED BY <1>2, <1>3, <1>5, <1>6, <1>7, <1>8

LEMMA CreatesOrganizationStep ==
  ASSUME AccountsInv, DOMAIN session = Session, NEW s \in Session, CreateOrganization(s)
  PROVE  AccountsKept /\ Only(s, AccountsOps)
<1>1. session[s].op = "createOrganization" /\ session[s].op \in CallOps /\ End(s) /\ ~At(s, "removeTeamMembership", "write")
  BY DEF CreateOrganization, At, CallOps, Refuse
<1>2. Call(s) \in CallOption /\ Call(s).op = "createOrganization" /\ Subject(s) \in Subjects
  BY <1>1, RequestOf
<1>3. PICK o \in Org : o = Call(s).organization
  BY <1>2, CallsTyped
<1>4. CASE Refuse(s)
  BY <1>1, <1>4, AccountsRefused DEF Refuse, AccountsOps
<1>5. CASE ~Refuse(s)
  <2>1. /\ Authorize(s, "organization", "create", SiteRequest) /\ o \notin organizations
        /\ organizations' = organizations \union {o} /\ users' = users \union {Subject(s).name}
        /\ UNCHANGED <<workspaces, admins, roles, tokens>>
    BY <1>3, <1>5 DEF CreateOrganization
  <2>2. PICK t \in Team : /\ teams[t] = UnusedTeam
                          /\ teams' = [teams EXCEPT ![t] = [name |-> "owners", organization |-> o, manage |-> {}]]
                          /\ members' = [members EXCEPT ![t] = {Subject(s).name}]
    BY <1>3, <1>5 DEF CreateOrganization
  <2>3. PICK us \in SUBSET User : us = {Subject(s).name}
    BY <1>2, <2>1, SiteAccess DEF Authorize
  <2>4. PICK row \in TeamStored : row = [name |-> "owners", organization |-> o, manage |-> {}]
    BY AccountsAssumption DEF TeamStored, Manages
  <2>5. /\ AccountsTables' /\ TeamsGoForward
        /\ ~TeamExists(t) /\ teams'[t] = row
        /\ \A u \in Team : u # t => teams'[u] = teams[u] /\ members'[u] = members[u]
    <3>1. organizations \subseteq organizations' /\ organizations' \subseteq Org /\ row.organization \in organizations'
      BY <2>1, <2>4 DEF AccountsInv, AccountsTables, UsersOK
    <3> QED BY <2>1, <2>2, <2>3, <2>4, <3>1, TeamAdded DEF AccountsInv
  <2>6. OwnersManage
    BY <2>1, <2>4, <2>5 DEF OwnersManage
  <2> QED BY <1>1, <2>5, <2>6, AccountsWrite DEF AccountsOps
<1> QED BY <1>4, <1>5

LEMMA CreatesTeamStep ==
  ASSUME AccountsInv, DOMAIN session = Session, NEW s \in Session, CreateTeam(s)
  PROVE  AccountsKept /\ Only(s, AccountsOps)
<1>1. session[s].op = "createTeam" /\ session[s].op \in CallOps /\ End(s) /\ ~At(s, "removeTeamMembership", "write")
  BY DEF CreateTeam, At, CallOps, Refuse
<1>2. Call(s) \in CallOption /\ Call(s).op = "createTeam" /\ Subject(s) \in Subjects
  BY <1>1, RequestOf
<1>3. PICK o \in Org, name \in TeamName, manage \in Manages :
        o = Call(s).organization /\ name = Call(s).name /\ manage = Call(s).manage
  BY <1>2, CallsTyped
<1>4. CASE Refuse(s)
  BY <1>1, <1>4, AccountsRefused DEF Refuse, AccountsOps
<1>5. CASE ~Refuse(s)
  <2> DEFINE owner == IF name = "owners" THEN {Subject(s).name} ELSE {}
  <2>1. /\ Authorize(s, "team", "create", OrganizationRequest(o)) /\ o \in organizations
        /\ name = "owners" => Subject(s).kind = "user"
        /\ users' = users \union owner
        /\ UNCHANGED <<workspaces, organizations, admins, roles, tokens>>
    BY <1>3, <1>5 DEF CreateTeam
  <2>2. PICK t \in Team : /\ teams[t] = UnusedTeam
                          /\ teams' = [teams EXCEPT ![t] = [name |-> name, organization |-> o, manage |-> manage]]
                          /\ members' = [members EXCEPT ![t] = owner]
    BY <1>3, <1>5 DEF CreateTeam
  <2>3. PICK us \in SUBSET User : us = owner
    BY <1>2, <2>1 DEF Subjects
  <2> HIDE DEF owner
  <2>4. PICK row \in TeamStored : row = [name |-> name, organization |-> o, manage |-> manage]
    BY DEF TeamStored
  <2>5. /\ AccountsTables' /\ TeamsGoForward
        /\ ~TeamExists(t) /\ teams'[t] = row
        /\ \A u \in Team : u # t => teams'[u] = teams[u] /\ members'[u] = members[u]
    <3>1. organizations \subseteq organizations' /\ organizations' \subseteq Org /\ row.organization \in organizations'
      BY <2>1, <2>4 DEF AccountsInv, AccountsTables, UsersOK
    <3> QED BY <2>1, <2>2, <2>3, <2>4, <3>1, TeamAdded DEF AccountsInv
  <2>6. OwnerOf(Subject(s), o) /\ session'[s] # session[s]
    BY <1>1, <1>2, <2>1, OwnersChangeTeams, Ending DEF Authorize, AccountsOps
  <2>7. OwnersManage
    BY <2>4, <2>5, <2>6 DEF OwnersManage
  <2> QED BY <1>1, <2>5, <2>7, AccountsWrite DEF AccountsOps
<1> QED BY <1>4, <1>5

\* A request that was let through to a team writes it.
LEMMA LetThrough ==
  ASSUME AccountsInv, DOMAIN session = Session, NEW s \in Session, NEW op \in TeamChanges, At(s, op, "write")
  PROVE  /\ session[s].op \in CallOps /\ Call(s) \in CallOption /\ Call(s).op = op /\ Call(s).team \in Team
         /\ teams[Call(s).team] # UnusedTeam
         /\ TeamExists(Call(s).team) => OwnerOf(Subject(s), teams[Call(s).team].organization)
<1>1. session[s].op = op /\ session[s].at = "write" /\ session[s].op \in CallOps
  BY DEF At, CallOps
<1>2. CallRequest(session[s]) /\ Call(s) \in CallOption /\ Call(s).op = op
  BY <1>1, RequestOf
<1>3. Call(s).team \in Team
  BY <1>2, CallsTyped
<1> QED BY <1>1, <1>2, <1>3 DEF CallRequest, Call, Subject

LEMMA UpdatesTeamStep ==
  ASSUME AccountsInv, DOMAIN session = Session, NEW s \in Session, UpdateTeamCommits(s)
  PROVE  AccountsKept /\ Only(s, AccountsOps)
<1>1. At(s, "updateTeam", "write") /\ End(s) /\ ~At(s, "removeTeamMembership", "write") /\ session[s].op = "updateTeam"
  BY DEF UpdateTeamCommits, At, Refuse
<1>2. /\ session[s].op \in CallOps /\ Call(s) \in CallOption /\ Call(s).op = "updateTeam"
      /\ TeamExists(Call(s).team) => OwnerOf(Subject(s), teams[Call(s).team].organization)
  BY <1>1, LetThrough DEF TeamChanges
<1>3. PICK t \in Team, name \in TeamName, manage \in Manages :
        t = Call(s).team /\ name = Call(s).name /\ manage = Call(s).manage
  BY <1>2, CallsTyped DEF TeamChanges
<1>4. CASE Refuse(s)
  BY <1>1, <1>2, <1>4, AccountsRefused DEF Refuse, AccountsOps
<1>5. CASE ~Refuse(s)
  <2> DEFINE row == [teams[t] EXCEPT !.name = name, !.manage = manage]
  <2>1. /\ TeamExists(t) /\ teams' = [teams EXCEPT ![t] = row]
        /\ UNCHANGED <<workspaces, organizations, users, admins, members, roles, tokens>>
    BY <1>3, <1>5 DEF UpdateTeamCommits
  <2>2. teams[t] \in TeamStored
    BY <2>1, TeamStates DEF AccountsInv, AccountsTables, TeamStored
  <2>3. row \in TeamStored /\ row.organization = teams[t].organization
    BY <2>2, RenamedRow
  <2> HIDE DEF row
  <2>4. row \in TeamState /\ row \notin {UnusedTeam, GoneTeam}
    BY <2>3, RowExists DEF TeamState, TeamStored
  <2>5. /\ teams' \in [Team -> TeamState] /\ teams'[t] = row
        /\ \A u \in Team : u # t => teams'[u] = teams[u]
    BY <2>1, <2>4 DEF AccountsInv, AccountsTables, TeamsOK
  <2>6. \A u \in Team : (TeamExists(u)' <=> TeamExists(u)) /\ teams'[u].organization = teams[u].organization
    BY <2>1, <2>3, <2>4, <2>5 DEF TeamExists
  <2>7. TeamsOK' /\ MembersOK' /\ RolesOK' /\ UsersOK'
    BY <2>1, <2>5, <2>6 DEF AccountsInv, AccountsTables, TeamsOK, MembersOK, RolesOK, UsersOK
  <2>8. TokensOK'
    BY <2>1, <2>6, TokensOfTeams DEF AccountsInv, AccountsTables, TokensOK
  <2>9. TeamsGoForward
    BY <2>5, <2>6, <2>1 DEF TeamsGoForward, TeamExists
  <2>10. OwnersManage
    <3>1. session'[s] # session[s]
      BY <1>1, <1>2, Ending DEF AccountsOps
    <3> QED BY <1>2, <1>3, <2>1, <2>5, <3>1 DEF OwnersManage
  <2> QED BY <1>1, <1>2, <2>7, <2>8, <2>9, <2>10, AccountsWrite DEF AccountsOps, AccountsTables
<1> QED BY <1>4, <1>5

\* Tokens are taken away.
LEMMA TokensTaken ==
  ASSUME TokensOK, NEW kind, NEW name
  PROVE  /\ WithoutTokens(kind, name) \in [Token -> TokenState]
         /\ \A k \in Token : \/ WithoutTokens(kind, name)[k] = GoneToken
                             \/ WithoutTokens(kind, name)[k] = tokens[k] /\ tokens[k] # [kind |-> kind, name |-> name]
         /\ GoneToken.kind = "gone" /\ UnusedToken.kind = "unused"
         /\ \A k \in Token : tokens[k].kind \in {"user", "team", "organization"} =>
              tokens[k] = [kind |-> tokens[k].kind, name |-> tokens[k].name]
<1>1. GoneToken.kind = "gone" /\ UnusedToken.kind = "unused" /\ GoneToken \in TokenState
  BY DEF GoneToken, UnusedToken, TokenState
<1>2. \A k \in Token : tokens[k].kind \in {"user", "team", "organization"} =>
        tokens[k] = [kind |-> tokens[k].kind, name |-> tokens[k].name]
  BY <1>1 DEF TokensOK, TokenState
<1>3. tokens \in [Token -> TokenState]
  BY DEF TokensOK
<1> QED BY <1>1, <1>2, <1>3 DEF WithoutTokens

LEMMA DeletesTeamStep ==
  ASSUME AccountsInv, DOMAIN session = Session, NEW s \in Session, DeleteTeamCommits(s)
  PROVE  AccountsKept /\ Only(s, AccountsOps)
<1>1. At(s, "deleteTeam", "write") /\ End(s) /\ ~At(s, "removeTeamMembership", "write") /\ session[s].op = "deleteTeam"
  BY DEF DeleteTeamCommits, At, Refuse
<1>2. /\ session[s].op \in CallOps /\ Call(s).team \in Team
      /\ TeamExists(Call(s).team) => OwnerOf(Subject(s), teams[Call(s).team].organization)
  BY <1>1, LetThrough DEF TeamChanges
<1>3. PICK t \in Team : t = Call(s).team
  BY <1>2
<1>4. CASE Refuse(s)
  BY <1>1, <1>2, <1>4, AccountsRefused DEF Refuse, AccountsOps
<1>5. CASE ~Refuse(s)
  <2>1. /\ TeamExists(t) /\ teams' = [teams EXCEPT ![t] = GoneTeam] /\ members' = [members EXCEPT ![t] = {}]
        /\ roles' = [w \in Workspace |-> [roles[w] EXCEPT ![t] = NoRole]]
        /\ tokens' = WithoutTokens("team", t)
        /\ UNCHANGED <<workspaces, organizations, users, admins>>
    BY <1>3, <1>5 DEF DeleteTeamCommits
  <2>2. UsersOK /\ TeamsOK /\ MembersOK /\ RolesOK /\ TokensOK
    BY DEF AccountsInv, AccountsTables
  <2>3. teams[t] # UnusedTeam /\ GoneTeam # UnusedTeam /\ GoneTeam \in TeamState
    BY <2>1, <2>2, TeamStates DEF TeamState, TeamExists
  <2>4. /\ teams' \in [Team -> TeamState] /\ teams'[t] = GoneTeam
        /\ \A u \in Team : u # t => teams'[u] = teams[u]
    BY <2>1, <2>2, <2>3 DEF TeamsOK
  <2>5. ~TeamExists(t)' /\ \A u \in Team : u # t => (TeamExists(u)' <=> TeamExists(u))
    BY <2>4 DEF TeamExists
  <2>6. UsersOK' /\ TeamsOK'
    BY <2>1, <2>2, <2>4, <2>5 DEF UsersOK, TeamsOK
  <2>7. MembersOK' /\ \A u \in Team : u # t => members'[u] = members[u]
    BY <2>1, <2>2, <2>5 DEF MembersOK
  <2>8. RolesOK'
    BY <2>1, <2>2, <2>5 DEF RolesOK
  <2>9. TokensOK'
    <3>1. /\ tokens' \in [Token -> TokenState]
          /\ \A k \in Token : \/ tokens'[k] = GoneToken
                              \/ tokens'[k] = tokens[k] /\ tokens[k] # [kind |-> "team", name |-> t]
          /\ GoneToken.kind = "gone"
      BY <2>1, <2>2, TokensTaken
    <3>2. \A k \in Token : tokens[k].kind = "team" =>
            tokens[k].name \in Team /\ tokens[k] = [kind |-> "team", name |-> tokens[k].name]
      BY <2>2, TokensTaken, TokensOfTeams
    <3> QED BY <2>1, <2>2, <2>5, <3>1, <3>2 DEF TokensOK
  <2>10. TeamsGoForward
    BY <2>3, <2>4, <2>5 DEF TeamsGoForward
  <2>11. OwnersManage
    <3>1. session'[s] # session[s]
      BY <1>1, <1>2, Ending DEF AccountsOps
    <3> QED BY <1>2, <1>3, <2>1, <2>4, <2>7, <3>1 DEF OwnersManage
  <2> QED BY <1>1, <1>2, <2>6, <2>7, <2>8, <2>9, <2>10, <2>11, AccountsWrite DEF AccountsOps, AccountsTables
<1> QED BY <1>4, <1>5

-----------------------------------------------------------------------------
(* Accounts: members and users *)

LEMMA AddsMembersStep ==
  ASSUME AccountsInv, DOMAIN session = Session, NEW s \in Session, AddTeamMembershipCommits(s)
  PROVE  AccountsKept /\ Only(s, AccountsOps)
<1>1. At(s, "addTeamMembership", "write") /\ End(s) /\ ~At(s, "removeTeamMembership", "write")
      /\ session[s].op = "addTeamMembership"
  BY DEF AddTeamMembershipCommits, At, Refuse
<1>2. /\ session[s].op \in CallOps /\ Call(s) \in CallOption /\ Call(s).op = "addTeamMembership"
      /\ TeamExists(Call(s).team) => OwnerOf(Subject(s), teams[Call(s).team].organization)
  BY <1>1, LetThrough DEF TeamChanges
<1>3. PICK t \in Team, us \in SUBSET User : t = Call(s).team /\ us = Call(s).users
  BY <1>2, CallsTyped DEF TeamChanges
<1>4. CASE Refuse(s)
  BY <1>1, <1>2, <1>4, AccountsRefused DEF Refuse, AccountsOps
<1>5. CASE ~Refuse(s)
  <2>1. /\ TeamExists(t) /\ users' = users \union us /\ members' = [members EXCEPT ![t] = @ \union us]
        /\ UNCHANGED <<workspaces, organizations, admins, teams, roles, tokens>>
    BY <1>3, <1>5 DEF AddTeamMembershipCommits
  <2>2. UsersOK /\ TeamsOK /\ MembersOK /\ RolesOK /\ TokensOK
    BY DEF AccountsInv, AccountsTables
  <2>3. UsersOK' /\ TeamsOK' /\ RolesOK' /\ TokensOK'
    BY <2>1, <2>2 DEF UsersOK, TeamsOK, RolesOK, TokensOK, TeamExists
  <2>4. MembersOK' /\ \A u \in Team : u # t => members'[u] = members[u]
    BY <2>1, <2>2 DEF MembersOK, TeamExists
  <2>5. TeamsGoForward
    BY <2>1 DEF TeamsGoForward, TeamExists
  <2>6. OwnersManage
    <3>1. session'[s] # session[s]
      BY <1>1, <1>2, Ending DEF AccountsOps
    <3> QED BY <1>2, <1>3, <2>1, <2>4, <3>1 DEF OwnersManage
  <2> QED BY <1>1, <1>2, <2>3, <2>4, <2>5, <2>6, AccountsWrite DEF AccountsOps, AccountsTables
<1> QED BY <1>4, <1>5

\* The owners are listed before some of them are removed.
LEMMA ListsOwnersStep ==
  ASSUME AccountsInv, DOMAIN session = Session, NEW s \in Session, ListOwners(s)
  PROVE  AccountsKept /\ Only(s, AccountsOps)
<1>1. session[s].op = "removeTeamMembership" /\ session[s].at = "list" /\ ~At(s, "removeTeamMembership", "write")
      /\ session[s].op \in CallOps /\ UNCHANGED <<workspaces, accountVars>>
  BY DEF ListOwners, At, CallOps, TeamChanges, Refuse
<1>2. session[s] \in CallRow /\ CallRequest(session[s])
      /\ Call(s) \in CallOption /\ Call(s).op = "removeTeamMembership" /\ Subject(s) \in Subjects
  BY <1>1, RequestOf
<1>3. PICK t \in Team : t = Call(s).team
  BY <1>2, CallsTyped DEF TeamChanges
<1>4. CASE Refuse(s)
  BY <1>1, <1>4, AccountsRefused DEF Refuse, AccountsOps
<1>5. CASE ~Refuse(s)
  <2> DEFINE next == [op |-> session[s].op, at |-> "write", call |-> session[s].call, subject |-> session[s].subject,
                      listed |-> members[t]]
  <2>1. session' = [session EXCEPT ![s] = next] /\ SparesAnOwner(members[t], Call(s).users)
    BY <1>3, <1>5 DEF ListOwners
  <2>2. members[t] \in SUBSET User
    BY DEF AccountsInv, AccountsTables, MembersOK
  <2>3. /\ next \in ListedRow /\ next.op = session[s].op /\ next.call = Call(s) /\ next.subject = Subject(s)
        /\ next.listed = members[t] /\ next.at = "write"
    BY <1>1, <1>2, <2>2 DEF CallRow, ListedRow, Call, Subject
  <2> HIDE DEF next
  <2>4. session'[s] = next /\ DOMAIN session' = Session /\ \A u \in Session \ {s} : session'[u] = session[u]
    BY <2>1
  <2>5. Only(s, AccountsOps)
    BY <1>1, <2>3, <2>4 DEF Only, AccountsOps
  <2>6. UNCHANGED teams
    BY <1>1 DEF accountVars
  <2>7. CallRequest(session[s])'
    <3>1. /\ teams[t] # UnusedTeam
          /\ TeamExists(t) => OwnerOf(Subject(s), teams[t].organization)
      BY <1>1, <1>2, <1>3 DEF CallRequest, Call, Subject, TeamChanges
    <3>2. /\ teams'[session'[s].call.team] # UnusedTeam
          /\ teams'[session'[s].call.team] \notin {UnusedTeam, GoneTeam} =>
               OwnerOf(session'[s].subject, teams'[session'[s].call.team].organization)
      BY <1>3, <2>3, <2>4, <2>6, <3>1 DEF TeamExists
    <3>3. SparesAnOwner(session'[s].listed, session'[s].call.users)
      BY <2>1, <2>3, <2>4
    <3>4. session'[s] \in ListedRow /\ session'[s].call.op = session'[s].op /\ session'[s].op = "removeTeamMembership"
      BY <1>1, <1>2, <2>3, <2>4
    <3> QED BY <3>2, <3>3, <3>4 DEF CallRequest, TeamExists
  <2>8. AccountsRequest(session[s])'
    BY <1>1, <2>3, <2>4, <2>7 DEF AccountsRequest
  <2> QED BY <1>1, <2>5, <2>8, AccountsQuiet
<1> QED BY <1>4, <1>5

LEMMA RemovesMembersStep ==
  ASSUME AccountsInv, DOMAIN session = Session, NEW s \in Session, RemoveTeamMembershipCommits(s)
  PROVE  AccountsKept /\ Only(s, AccountsOps)
<1>1. At(s, "removeTeamMembership", "write") /\ End(s) /\ session[s].op = "removeTeamMembership"
  BY DEF RemoveTeamMembershipCommits, At
<1>2. /\ session[s].op \in CallOps /\ Call(s) \in CallOption /\ Call(s).op = "removeTeamMembership"
      /\ TeamExists(Call(s).team) => OwnerOf(Subject(s), teams[Call(s).team].organization)
  BY <1>1, LetThrough DEF TeamChanges
<1>3. PICK t \in Team, us \in SUBSET User : t = Call(s).team /\ us = Call(s).users
  BY <1>2, CallsTyped DEF TeamChanges
<1>4. /\ members' = [members EXCEPT ![t] = @ \ us]
      /\ UNCHANGED <<workspaces, organizations, users, admins, teams, roles, tokens>>
  BY <1>3 DEF RemoveTeamMembershipCommits
<1>5. UsersOK /\ TeamsOK /\ MembersOK /\ RolesOK /\ TokensOK
  BY DEF AccountsInv, AccountsTables
<1>6. UsersOK' /\ TeamsOK' /\ RolesOK' /\ TokensOK'
  BY <1>4, <1>5 DEF UsersOK, TeamsOK, RolesOK, TokensOK, TeamExists
<1>7. /\ MembersOK' /\ members'[t] = members[t] \ us
      /\ \A u \in Team : u # t => members'[u] = members[u]
  BY <1>4, <1>5 DEF MembersOK, TeamExists
<1>8. TeamsGoForward
  BY <1>4 DEF TeamsGoForward, TeamExists
<1>9. Only(s, AccountsOps) /\ session'[s] = Idle /\ session'[s] # session[s] /\ AccountsRequest(session[s])'
  BY <1>1, <1>2, Ending DEF AccountsOps
<1>10. OwnersManage
  <2>1. ~TeamExists(t) => members'[t] = members[t]
    BY <1>5, <1>7 DEF MembersOK
  <2> QED BY <1>2, <1>3, <1>4, <1>7, <1>9, <2>1 DEF OwnersManage
<1>11. OwnersKept
  <2> SUFFICES ASSUME "listed" \in DOMAIN session[s], members[t] = session[s].listed
               PROVE  members'[t] # {}
    BY <1>3, <1>9 DEF OwnersKept, Only, At, Idle
  <2>1. SparesAnOwner(members[t], us)
    BY <1>2, <1>3, RequestOf DEF CallRequest, Call
  <2>2. IsFiniteSet(us) /\ IsFiniteSet(members[t])
    BY <1>5, FS_Subset, AccountsAssumption DEF MembersOK
  <2>3. members[t] \subseteq us => Cardinality(members[t]) <= Cardinality(us)
    BY <2>2, FS_Subset
  <2>4. Cardinality(members[t]) \in Nat /\ Cardinality(us) \in Nat
    BY <2>2, FS_CardinalityType
  <2> QED BY <1>7, <2>1, <2>3, <2>4 DEF SparesAnOwner
<1>12. AccountsInv'
  BY <1>6, <1>7, <1>8, <1>9, OthersAccounts DEF AccountsInv, AccountsTables
<1> QED BY <1>9, <1>10, <1>11, <1>12 DEF AccountsKept

\* Accounts are created by whoever needs them.
LEMMA AccountsAdded ==
  ASSUME AccountsTables, NEW us \in SUBSET User, users' = users \union us,
         UNCHANGED <<workspaces, organizations, admins, teams, members, roles, tokens>>
  PROVE  AccountsTables' /\ TeamsGoForward /\ OwnersManage
<1>1. AccountsTables'
  BY DEF AccountsTables, UsersOK, TeamsOK, MembersOK, RolesOK, TokensOK, TeamExists
<1> QED BY <1>1 DEF TeamsGoForward, TeamExists, OwnersManage

LEMMA UsersStep ==
  ASSUME AccountsInv, DOMAIN session = Session, NEW s \in Session, CreateUser(s) \/ LoginCreates(s)
  PROVE  AccountsKept /\ Only(s, AccountsOps)
<1>1. /\ session[s].op \in {"createUser", "login"} /\ session[s].op \in AccountsOps /\ End(s)
      /\ ~At(s, "removeTeamMembership", "write")
  BY DEF CreateUser, LoginCreates, At, Refuse, AccountsOps, CallOps
<1>2. CASE Refuse(s)
  BY <1>1, <1>2, AccountsRefused DEF Refuse
<1>3. CASE ~Refuse(s)
  <2>1. PICK u \in User : /\ users' = users \union {u}
                          /\ UNCHANGED <<workspaces, organizations, admins, teams, members, roles, tokens>>
    <3>1. CASE CreateUser(s)
      <4>1. session[s].op = "createUser" /\ session[s].op \in CallOps
        BY <3>1 DEF CreateUser, At, CallOps
      <4>2. Call(s).user \in User
        BY <4>1, RequestOf, CallsTyped
      <4> QED BY <1>3, <3>1, <4>2 DEF CreateUser
    <3>2. CASE LoginCreates(s)
      <4>1. session[s].op = "login"
        BY <3>2 DEF LoginCreates, At
      <4>2. session[s].user \in User
        BY <4>1 DEF AccountsInv, AccountsRequest
      <4> QED BY <3>2, <4>2 DEF LoginCreates
    <3> QED BY <3>1, <3>2
  <2>2. AccountsTables' /\ TeamsGoForward /\ OwnersManage
    <3>1. PICK us \in SUBSET User : us = {u}
      OBVIOUS
    <3> QED BY <2>1, <3>1, AccountsAdded DEF AccountsInv
  <2> QED BY <1>1, <2>2, AccountsWrite
<1> QED BY <1>2, <1>3

LEMMA DeletesUserStep ==
  ASSUME AccountsInv, DOMAIN session = Session, NEW s \in Session, DeleteUser(s)
  PROVE  AccountsKept /\ Only(s, AccountsOps)
<1>1. session[s].op = "deleteUser" /\ session[s].op \in CallOps /\ End(s) /\ ~At(s, "removeTeamMembership", "write")
  BY DEF DeleteUser, At, CallOps, Refuse
<1>2. Call(s) \in CallOption /\ Call(s).op = "deleteUser" /\ Subject(s) \in Subjects
  BY <1>1, RequestOf
<1>3. CASE Refuse(s)
  BY <1>1, <1>3, AccountsRefused DEF Refuse, AccountsOps
<1>4. CASE ~Refuse(s)
  <2>1. PICK u \in User : u = Call(s).user
    BY <1>2, CallsTyped
  <2>2. /\ Authorize(s, "user", "delete", SiteRequest)
        /\ users' = users \ {u} /\ admins' = admins \ {u} /\ members' = [t \in Team |-> members[t] \ {u}]
        /\ tokens' = WithoutTokens("user", u)
        /\ UNCHANGED <<workspaces, organizations, teams, roles>>
    BY <1>4, <2>1 DEF DeleteUser
  <2>3. UsersOK /\ TeamsOK /\ MembersOK /\ RolesOK /\ TokensOK
    BY DEF AccountsInv, AccountsTables
  <2>4. UsersOK' /\ TeamsOK' /\ MembersOK' /\ RolesOK'
    BY <2>2, <2>3 DEF UsersOK, TeamsOK, MembersOK, RolesOK, TeamExists
  <2>5. TokensOK'
    <3>1. /\ tokens' \in [Token -> TokenState]
          /\ \A k \in Token : \/ tokens'[k] = GoneToken
                              \/ tokens'[k] = tokens[k] /\ tokens[k] # [kind |-> "user", name |-> u]
          /\ GoneToken.kind = "gone"
      BY <2>2, <2>3, TokensTaken
    <3>2. \A k \in Token : tokens[k].kind = "user" => tokens[k] = [kind |-> "user", name |-> tokens[k].name]
      BY <2>3, TokensTaken
    <3> QED BY <2>2, <2>3, <3>1, <3>2 DEF TokensOK, TeamExists
  <2>6. TeamsGoForward
    BY <2>2 DEF TeamsGoForward, TeamExists
  <2>7. OwnersManage
    <3>1. session'[s] # session[s]
      BY <1>1, Ending DEF AccountsOps
    <3>2. Subject(s).admin
      BY <1>2, <2>2, SiteAccess DEF Authorize
    <3> QED BY <3>1, <3>2 DEF OwnersManage, OwnerOf
  <2> QED BY <1>1, <2>4, <2>5, <2>6, <2>7, AccountsWrite DEF AccountsOps, AccountsTables
<1> QED BY <1>3, <1>4

\* A request begins.
LEMMA AccountsBegin ==
  ASSUME AccountsInv, DOMAIN session = Session, NEW s \in Session,
         (\E call \in Calls : Authenticate(s, call)) \/ (\E u \in User : Login(s, u)) \/ (\E us \in SUBSET User : SetSiteAdmins(s, us))
  PROVE  AccountsKept /\ Only(s, AccountsOps)
<1>1. ~At(s, "removeTeamMembership", "write") /\ session[s] = Idle
  BY DEF Authenticate, Login, SetSiteAdmins, Begin, At, Idle
<1>2. ASSUME NEW call \in Calls, Authenticate(s, call)
      PROVE  AccountsKept /\ Only(s, AccountsOps)
  <2>1. call \in CallOption
    BY OptionsAssumption
  <2>2. PICK subject \in Subjects : session' = [session EXCEPT ![s] = [op |-> call.op, at |-> "get", call |-> call, subject |-> subject]]
    BY <1>2, SubjectsTyped DEF Authenticate, Begin, AccountsInv
  <2>3. /\ session'[s] = [op |-> call.op, at |-> "get", call |-> call, subject |-> subject]
        /\ DOMAIN session' = Session /\ \A t \in Session \ {s} : session'[t] = session[t]
    BY <2>2
  <2>4. call.op \in CallOps
    BY <2>1, CallsTyped
  <2>5. Only(s, AccountsOps)
    BY <1>1, <2>3, <2>4 DEF Only, AccountsOps, Idle
  <2>6. session'[s] \in CallRow /\ "listed" \notin DOMAIN session'[s] /\ session'[s].at = "get"
        /\ session'[s].call.op = session'[s].op
    BY <2>1, <2>3, <2>4 DEF CallRow
  <2>7. CallRequest(session[s])'
    BY <2>6 DEF CallRequest
  <2>8. AccountsRequest(session[s])'
    BY <2>3, <2>4, <2>7 DEF AccountsRequest, CallOps, TeamChanges
  <2>9. UNCHANGED <<workspaces, accountVars>>
    BY <1>2 DEF Authenticate
  <2> QED BY <1>1, <2>5, <2>8, <2>9, AccountsQuiet
<1>3. ASSUME NEW u \in User, Login(s, u)
      PROVE  AccountsKept /\ Only(s, AccountsOps)
  <2>1. /\ session'[s] = [op |-> "login", at |-> "create", user |-> u]
        /\ DOMAIN session' = Session /\ \A t \in Session \ {s} : session'[t] = session[t]
        /\ UNCHANGED <<workspaces, accountVars>>
    BY <1>3 DEF Login, Begin
  <2>2. Only(s, AccountsOps) /\ AccountsRequest(session[s])'
    BY <1>1, <2>1 DEF Only, AccountsOps, Idle, AccountsRequest, CallOps, TeamChanges
  <2> QED BY <1>1, <2>1, <2>2, AccountsQuiet
<1>4. ASSUME NEW us \in SUBSET User, SetSiteAdmins(s, us)
      PROVE  AccountsKept /\ Only(s, AccountsOps)
  <2>1. /\ session'[s] = [op |-> "setSiteAdmins", at |-> "demote", users |-> us]
        /\ DOMAIN session' = Session /\ \A t \in Session \ {s} : session'[t] = session[t]
        /\ users' = users \union us
        /\ UNCHANGED <<workspaces, organizations, admins, teams, members, roles, tokens>>
    BY <1>4 DEF SetSiteAdmins, Begin
  <2>2. Only(s, AccountsOps) /\ AccountsRequest(session[s])'
    BY <1>1, <2>1 DEF Only, AccountsOps, Idle, AccountsRequest, CallOps, TeamChanges
  <2>3. AccountsTables' /\ TeamsGoForward /\ OwnersManage
    BY <2>1, AccountsAdded DEF AccountsInv
  <2>4. AccountsInv'
    BY <2>2, <2>3, OthersAccounts DEF AccountsInv
  <2> QED BY <1>1, <2>2, <2>3, <2>4, KeptByOthers DEF AccountsKept
<1> QED BY <1>2, <1>3, <1>4

\* Site admins are set when a daemon starts.
LEMMA SiteAdminsStep ==
  ASSUME AccountsInv, DOMAIN session = Session, NEW s \in Session, DemoteAdmins(s) \/ DemoteLocks(s) \/ PromoteAdmins(s)
  PROVE  AccountsKept /\ Only(s, AccountsOps)
<1>1. session[s].op = "setSiteAdmins" /\ ~At(s, "removeTeamMembership", "write") /\ session[s].op \in AccountsOps
  BY DEF DemoteAdmins, DemoteLocks, PromoteAdmins, At, AccountsOps
<1> DEFINE Named == [op : {"setSiteAdmins"}, at : {"demote"}, users : SUBSET User]
           Demoting == [op : {"setSiteAdmins"}, at : {"demoting", "promote"}, users : SUBSET User, demoted : SUBSET User]
<1>2. session[s] \in Named \union Demoting
  BY <1>1 DEF AccountsInv, AccountsRequest
<1>3. UsersOK /\ TeamsOK /\ MembersOK /\ RolesOK /\ TokensOK
  BY DEF AccountsInv, AccountsTables
<1>4. ASSUME NEW next \in Demoting, session' = [session EXCEPT ![s] = next], UNCHANGED <<workspaces, accountVars>>
      PROVE  AccountsKept /\ Only(s, AccountsOps)
  <2>1. /\ session'[s] = next /\ next.op = "setSiteAdmins"
        /\ DOMAIN session' = Session /\ \A t \in Session \ {s} : session'[t] = session[t]
    BY <1>4
  <2>2. Only(s, AccountsOps)
    BY <1>1, <2>1 DEF Only, AccountsOps
  <2>3. AccountsRequest(session[s])'
    BY <1>4, <2>1 DEF AccountsRequest, CallOps, TeamChanges
  <2> QED BY <1>1, <1>4, <2>2, <2>3, AccountsQuiet
<1>5. CASE DemoteAdmins(s)
  <2>1. session[s].at = "demote" /\ session[s].users \in SUBSET User /\ admins \in SUBSET User
    BY <1>2, <1>3, <1>5 DEF DemoteAdmins, At, UsersOK
  <2>2. PICK next \in Demoting : next = [op |-> session[s].op, at |-> "demoting", users |-> session[s].users, demoted |-> admins]
    BY <1>1, <2>1
  <2> QED BY <1>4, <1>5, <2>2 DEF DemoteAdmins
<1>6. CASE DemoteLocks(s)
  <2>1. session[s] \in Demoting
    BY <1>2, <1>6 DEF DemoteLocks, At
  <2>2. [session[s] EXCEPT !.at = "promote"] \in Demoting
    BY <2>1
  <2>3. session' = [session EXCEPT ![s] = [session[s] EXCEPT !.at = "promote"]]
    BY <1>6 DEF DemoteLocks, Proceed
  <2>4. UNCHANGED <<workspaces, accountVars>>
    BY <1>6 DEF DemoteLocks
  <2> HIDE DEF Demoting
  <2> QED BY <1>4, <2>2, <2>3, <2>4
<1>7. CASE PromoteAdmins(s)
  <2>1. /\ End(s) /\ admins' \subseteq admins \union users
        /\ UNCHANGED <<workspaces, organizations, users, teams, members, roles, tokens>>
    BY <1>7 DEF PromoteAdmins
  <2>2. AccountsTables'
    BY <1>3, <2>1 DEF AccountsTables, UsersOK, TeamsOK, MembersOK, RolesOK, TokensOK, TeamExists
  <2>3. TeamsGoForward /\ OwnersManage
    BY <2>1 DEF TeamsGoForward, TeamExists, OwnersManage
  <2> QED BY <1>1, <2>1, <2>2, <2>3, AccountsWrite
<1> QED BY <1>5, <1>6, <1>7

-----------------------------------------------------------------------------
(* Accounts: tokens and roles *)

\* Only the tokens change.
LEMMA TokensWrite ==
  ASSUME AccountsInv, DOMAIN session = Session, NEW s \in Session, session[s].op \in AccountsOps, End(s),
         ~At(s, "removeTeamMembership", "write"), TokensOK',
         UNCHANGED <<workspaces, organizations, users, admins, teams, members, roles>>
  PROVE  AccountsKept /\ Only(s, AccountsOps)
<1>1. AccountsTables'
  BY DEF AccountsInv, AccountsTables, UsersOK, TeamsOK, MembersOK, RolesOK, TeamExists
<1>2. TeamsGoForward /\ OwnersManage
  BY DEF TeamsGoForward, TeamExists, OwnersManage
<1> QED BY <1>1, <1>2, AccountsWrite

\* A token is issued to someone who has none, or who may have many.
LEMMA TokenIssued ==
  ASSUME AccountsTables, NEW owner, NEW table \in [Token -> TokenState], Issue(owner, table),
         UNCHANGED <<users, teams, organizations>>,
         \A k \in Token : table[k] = GoneToken \/ (table[k] = tokens[k] /\ (tokens[k] # owner \/ owner.kind = "user")),
         \/ owner \in [kind : {"user"}, name : User] /\ owner.name \in users
         \/ owner \in [kind : {"team"}, name : Team] /\ TeamExists(owner.name)
         \/ owner \in [kind : {"organization"}, name : Org] /\ owner.name \in organizations
  PROVE  TokensOK'
<1>1. TokensOK /\ GoneToken.kind = "gone" /\ UnusedToken.kind = "unused"
  BY DEF AccountsTables, GoneToken, UnusedToken
<1>2. PICK k \in Token : table[k] = UnusedToken /\ tokens' = [table EXCEPT ![k] = owner]
  BY DEF Issue
<1>3. owner \in TokenState
  BY DEF TokenState
<1>4. /\ tokens' \in [Token -> TokenState] /\ tokens'[k] = owner
      /\ \A l \in Token : l # k => tokens'[l] = table[l]
  BY <1>2, <1>3
<1>5. \A l \in Token : l # k => tokens'[l] = GoneToken \/ (tokens'[l] = tokens[l] /\ (tokens[l] # owner \/ owner.kind = "user"))
  BY <1>4
<1>6. /\ owner.kind = "user" => owner.name \in users
      /\ owner.kind = "team" => TeamExists(owner.name)
      /\ owner.kind = "organization" => owner.name \in organizations
  OBVIOUS
<1>7. \A l \in Token : /\ tokens'[l].kind = "user" => tokens'[l].name \in users'
                       /\ tokens'[l].kind = "team" => TeamExists(tokens'[l].name)
                       /\ tokens'[l].kind = "organization" => tokens'[l].name \in organizations'
  BY <1>1, <1>4, <1>5, <1>6 DEF TokensOK
<1>8. \A l, m \in Token : tokens'[l] = tokens'[m] /\ tokens'[l].kind \in {"team", "organization"} => l = m
  BY <1>1, <1>4, <1>5 DEF TokensOK
<1> QED BY <1>4, <1>7, <1>8 DEF TokensOK, TeamExists

LEMMA CreatesTokenStep ==
  ASSUME AccountsInv, DOMAIN session = Session, NEW s \in Session, CreateToken(s)
  PROVE  AccountsKept /\ Only(s, AccountsOps)
<1>1. session[s].op = "createToken" /\ session[s].op \in CallOps /\ End(s) /\ ~At(s, "removeTeamMembership", "write")
  BY DEF CreateToken, At, CallOps, Refuse
<1>2. CASE Refuse(s)
  BY <1>1, <1>2, AccountsRefused DEF Refuse, AccountsOps
<1>3. CASE ~Refuse(s)
  <2>1. /\ Subject(s).name \in users /\ Issue([kind |-> "user", name |-> Subject(s).name], tokens)
        /\ UNCHANGED <<workspaces, organizations, users, admins, teams, members, roles>>
    BY <1>3 DEF CreateToken
  <2>2. PICK owner \in [kind : {"user"}, name : User] : owner = [kind |-> "user", name |-> Subject(s).name]
    BY <2>1 DEF AccountsInv, AccountsTables, UsersOK
  <2>3. tokens \in [Token -> TokenState] /\ owner.name \in users /\ owner.kind = "user"
    BY <2>1, <2>2 DEF AccountsInv, AccountsTables, TokensOK
  <2>4. TokensOK'
    BY <2>1, <2>2, <2>3, TokenIssued DEF AccountsInv
  <2> QED BY <1>1, <2>1, <2>4, TokensWrite DEF AccountsOps
<1> QED BY <1>2, <1>3

LEMMA CreatesOwnersTokenStep ==
  ASSUME AccountsInv, DOMAIN session = Session, NEW s \in Session, CreateOwnersToken(s)
  PROVE  AccountsKept /\ Only(s, AccountsOps)
<1>1. /\ session[s].op \in {"createTeamToken", "createOrganizationToken"} /\ session[s].op \in CallOps /\ End(s)
      /\ ~At(s, "removeTeamMembership", "write")
  BY DEF CreateOwnersToken, At, CallOps, Refuse
<1>2. Call(s) \in CallOption /\ Call(s).op = session[s].op
  BY <1>1, RequestOf
<1>3. CASE Refuse(s)
  BY <1>1, <1>3, AccountsRefused DEF Refuse, AccountsOps
<1>4. CASE ~Refuse(s)
  <2> DEFINE owner == IF session[s].op = "createTeamToken" THEN [kind |-> "team", name |-> Call(s).team]
                      ELSE [kind |-> "organization", name |-> Call(s).organization]
  <2>1. /\ Issue(owner, WithoutTokens(owner.kind, owner.name))
        /\ UNCHANGED <<workspaces, organizations, users, admins, teams, members, roles>>
        /\ session[s].op = "createTeamToken" => TeamExists(owner.name)
        /\ session[s].op # "createTeamToken" => owner.name \in organizations
    BY <1>4 DEF CreateOwnersToken
  <2>2. /\ session[s].op = "createTeamToken" => owner \in [kind : {"team"}, name : Team]
        /\ session[s].op # "createTeamToken" => owner \in [kind : {"organization"}, name : Org]
    BY <1>1, <1>2, CallsTyped
  <2>3. owner = [kind |-> owner.kind, name |-> owner.name]
    OBVIOUS
  <2>4. PICK o : o = owner
    OBVIOUS
  <2> HIDE DEF owner
  <2>5. PICK table : table = WithoutTokens(o.kind, o.name)
    OBVIOUS
  <2>6. /\ table \in [Token -> TokenState]
        /\ \A k \in Token : table[k] = GoneToken \/ (table[k] = tokens[k] /\ tokens[k] # o)
    BY <2>3, <2>4, <2>5, TokensTaken DEF AccountsInv, AccountsTables
  <2>7. TokensOK'
    BY <2>1, <2>2, <2>4, <2>5, <2>6, TokenIssued DEF AccountsInv
  <2> QED BY <1>1, <2>1, <2>7, TokensWrite DEF AccountsOps
<1> QED BY <1>3, <1>4

LEMMA DeletesTokenStep ==
  ASSUME AccountsInv, DOMAIN session = Session, NEW s \in Session, DeleteTokenCommits(s) \/ DeleteOwnersToken(s)
  PROVE  AccountsKept /\ Only(s, AccountsOps)
<1>1. /\ session[s].op \in {"deleteToken", "deleteTeamToken", "deleteOrganizationToken"} /\ session[s].op \in CallOps /\ End(s)
      /\ ~At(s, "removeTeamMembership", "write")
  BY DEF DeleteTokenCommits, DeleteOwnersToken, At, CallOps, Refuse
<1>2. CASE Refuse(s)
  BY <1>1, <1>2, AccountsRefused DEF Refuse, AccountsOps
<1>3. CASE ~Refuse(s)
  <2>1. UNCHANGED <<workspaces, organizations, users, admins, teams, members, roles>>
    BY <1>3 DEF DeleteTokenCommits, DeleteOwnersToken
  <2>2. TokensOK /\ GoneToken.kind = "gone" /\ GoneToken \in TokenState
    BY DEF AccountsInv, AccountsTables, GoneToken, UnusedToken, TokenState
  <2>3. tokens' \in [Token -> TokenState] /\ \A k \in Token : tokens'[k] = GoneToken \/ tokens'[k] = tokens[k]
    <3>1. CASE DeleteTokenCommits(s)
      <4>1. tokens' = [tokens EXCEPT ![Call(s).token] = GoneToken]
        BY <3>1 DEF DeleteTokenCommits
      <4> QED BY <2>2, <4>1 DEF TokensOK
    <3>2. CASE DeleteOwnersToken(s)
      <4>1. PICK kind, name : tokens' = WithoutTokens(kind, name)
        BY <1>3, <3>2 DEF DeleteOwnersToken
      <4>2. /\ WithoutTokens(kind, name) \in [Token -> TokenState]
            /\ \A k \in Token : \/ WithoutTokens(kind, name)[k] = GoneToken
                                \/ WithoutTokens(kind, name)[k] = tokens[k] /\ tokens[k] # [kind |-> kind, name |-> name]
        BY <2>2, TokensTaken
      <4> QED BY <4>1, <4>2
    <3> QED BY <3>1, <3>2
  <2>4. TokensOK'
    BY <2>1, <2>2, <2>3 DEF TokensOK, TeamExists
  <2> QED BY <1>1, <2>1, <2>4, TokensWrite DEF AccountsOps
<1> QED BY <1>2, <1>3

LEMMA ChangesPermissionStep ==
  ASSUME AccountsInv, DOMAIN session = Session, NEW s \in Session, ChangePermissionCommits(s)
  PROVE  AccountsKept /\ Only(s, AccountsOps)
<1>1. /\ session[s].op \in {"setPermission", "unsetPermission"} /\ session[s].op \in CallOps /\ End(s)
      /\ ~At(s, "removeTeamMembership", "write")
  BY DEF ChangePermissionCommits, At, CallOps, Refuse
<1>2. Call(s) \in CallOption /\ Call(s).op = session[s].op
  BY <1>1, RequestOf
<1>3. PICK w \in Workspace, t \in Team : w = Call(s).workspace /\ t = Call(s).team
  BY <1>1, <1>2, CallsTyped
<1>4. CASE Refuse(s)
  BY <1>1, <1>4, AccountsRefused DEF Refuse, AccountsOps
<1>5. CASE ~Refuse(s)
  <2> DEFINE given == IF session[s].op = "setPermission" THEN Call(s).role ELSE NoRole
  <2>1. given \in RoleName \union {NoRole}
    BY <1>2, CallsTyped
  <2>2. /\ w \in workspaces /\ TeamExists(t) /\ roles' = [roles EXCEPT ![w][t] = given]
        /\ UNCHANGED <<workspaces, organizations, users, admins, teams, members, tokens>>
    BY <1>3, <1>5 DEF ChangePermissionCommits
  <2> HIDE DEF given
  <2>3. RolesOK'
    <3>1. /\ roles' \in [Workspace -> [Team -> RoleName \union {NoRole}]]
          /\ \A x \in Workspace, u \in Team : roles'[x][u] = roles[x][u] \/ (x = w /\ u = t)
      BY <2>1, <2>2 DEF AccountsInv, AccountsTables, RolesOK
    <3> QED BY <2>2, <3>1 DEF AccountsInv, AccountsTables, RolesOK, TeamExists
  <2>4. AccountsTables'
    BY <2>2, <2>3 DEF AccountsInv, AccountsTables, UsersOK, TeamsOK, MembersOK, TokensOK, TeamExists
  <2>5. TeamsGoForward /\ OwnersManage
    BY <2>2 DEF TeamsGoForward, TeamExists, OwnersManage
  <2> QED BY <1>1, <2>4, <2>5, AccountsWrite DEF AccountsOps
<1> QED BY <1>4, <1>5

\* A request goes on with what it was let through to, or is refused.
LEMMA GoesOnStep ==
  ASSUME AccountsInv, DOMAIN session = Session, NEW s \in Session,
         \/ UpdateTeam(s) \/ DeleteTeam(s) \/ AddTeamMembership(s) \/ RemoveTeamMembership(s)
         \/ DeleteToken(s) \/ ChangePermission(s)
  PROVE  AccountsKept /\ Only(s, AccountsOps)
<1>1. /\ session[s].op \in {"updateTeam", "deleteTeam", "addTeamMembership", "removeTeamMembership", "deleteToken",
                            "setPermission", "unsetPermission"}
      /\ session[s].op \in CallOps /\ session[s].op \in AccountsOps
      /\ session[s].at = "get" /\ ~At(s, "removeTeamMembership", "write")
      /\ UNCHANGED <<workspaces, accountVars>>
  BY DEF UpdateTeam, DeleteTeam, AddTeamMembership, RemoveTeamMembership, DeleteToken, ChangePermission,
         ReadTeam, TeamUnreadable, At, Refuse, CallOps, TeamChanges, AccountsOps
<1>2. CASE End(s)
  BY <1>1, <1>2, AccountsRefused
<1>3. ASSUME NEW op \in TeamChanges, NEW action \in {"update", "delete", "add", "remove"}, ReadTeam(s, op, action),
             NEW step \in {"list", "write"}, Proceed(s, step)
      PROVE  AccountsKept /\ Only(s, AccountsOps)
  BY <1>1, <1>3, AccountsReads
<1>4. ASSUME session[s].op \in {"deleteToken", "setPermission", "unsetPermission"}, Proceed(s, "write")
      PROVE  AccountsKept /\ Only(s, AccountsOps)
  <2>1. /\ Only(s, AccountsOps)
        /\ session'[s] \in CallRow /\ session'[s].op = session[s].op
        /\ session'[s].call = session[s].call
    BY <1>1, <1>4, Proceeding
  <2>2. "listed" \notin DOMAIN session'[s] /\ session'[s].op \notin TeamChanges
    BY <1>4, <2>1 DEF CallRow, TeamChanges
  <2>3. session'[s].call.op = session'[s].op
    BY <1>1, <2>1, RequestOf DEF Call
  <2>4. CallRequest(session[s])'
    BY <2>1, <2>2, <2>3 DEF CallRequest
  <2>5. AccountsRequest(session[s])'
    BY <1>1, <1>4, <2>1, <2>4 DEF AccountsRequest
  <2> QED BY <1>1, <2>1, <2>5, AccountsQuiet
<1>5. CASE UpdateTeam(s)
  BY <1>2, <1>3, <1>5 DEF UpdateTeam, TeamUnreadable, Refuse, TeamChanges
<1>6. CASE DeleteTeam(s)
  BY <1>2, <1>3, <1>6 DEF DeleteTeam, TeamUnreadable, Refuse, TeamChanges
<1>7. CASE AddTeamMembership(s)
  BY <1>2, <1>3, <1>7 DEF AddTeamMembership, TeamUnreadable, Refuse, TeamChanges
<1>8. CASE RemoveTeamMembership(s)
  BY <1>2, <1>3, <1>8 DEF RemoveTeamMembership, TeamUnreadable, Refuse, TeamChanges
<1>9. CASE DeleteToken(s) \/ ChangePermission(s)
  BY <1>2, <1>4, <1>9 DEF DeleteToken, ChangePermission, At
<1> QED BY <1>5, <1>6, <1>7, <1>8, <1>9

LEMMA AccountsStep ==
  ASSUME AccountsInv, DOMAIN session = Session, NEW s \in Session, AccountsNext(s)
  PROVE  AccountsKept /\ Only(s, AccountsOps)
BY AccountsBegin, CreatesOrganizationStep, CreatesTeamStep, UpdatesTeamStep, DeletesTeamStep, AddsMembersStep,
   ListsOwnersStep, RemovesMembersStep, UsersStep, DeletesUserStep, SiteAdminsStep, CreatesTokenStep,
   CreatesOwnersTokenStep, DeletesTokenStep, ChangesPermissionStep, GoesOnStep DEF AccountsNext

\* A workspace is deleted, and the roles on it with it.
LEMMA DeletionAccounts ==
  ASSUME AccountsInv, NEW s \in Session, Only(s, {"deleteWorkspace"}), NEW w \in Workspace,
         workspaces' = workspaces \ {w}, RolesCascade(w)
  PROVE  AccountsKept
<1>1. /\ roles' = [roles EXCEPT ![w] = [t \in Team |-> NoRole]]
      /\ UNCHANGED <<organizations, users, admins, teams, members, tokens>>
  BY DEF RolesCascade
<1>2. RolesOK'
  <2>1. /\ roles' \in [Workspace -> [Team -> RoleName \union {NoRole}]]
        /\ \A x \in Workspace, t \in Team : roles'[x][t] = IF x = w THEN NoRole ELSE roles[x][t]
    BY <1>1 DEF AccountsInv, AccountsTables, RolesOK
  <2> QED BY <1>1, <2>1 DEF AccountsInv, AccountsTables, RolesOK, TeamExists
<1>3. AccountsTables'
  BY <1>1, <1>2 DEF AccountsInv, AccountsTables, UsersOK, TeamsOK, MembersOK, TokensOK, TeamExists
<1>4. TeamsGoForward /\ OwnersManage
  BY <1>1 DEF TeamsGoForward, TeamExists, OwnersManage
<1>5. AccountsRequest(session[s])' /\ ~At(s, "removeTeamMembership", "write")
  BY DEF Only, AccountsRequest, CallOps, TeamChanges, At
<1>6. AccountsInv'
  BY <1>3, <1>4, <1>5, OthersAccounts DEF AccountsInv
<1> QED BY <1>4, <1>5, <1>6, KeptByOthers DEF AccountsKept

-----------------------------------------------------------------------------
(* All together *)

\* Workspaces go only when they are deleted.
LEMMA WorkspacesGrow ==
  ASSUME NEW s \in Session, SettingsNext(s)
  PROVE  workspaces \subseteq workspaces'
BY DEF SettingsNext, CreateWorkspace, UpdateWorkspace, CreateWorkspaceCommits, UpdateWorkspaceCommits, CreateAgentPool,
       UpdateAgentPool, UpdateAgentPoolCommits, DeleteAgentPool, AddTags, RemoveTags, TagWorkspaces, DeleteTags

LEMMA WorkspacesStay ==
  ASSUME NEW s \in Session, VariablesNext(s) \/ StatesNext(s) \/ AccountsNext(s)
  PROVE  UNCHANGED workspaces
<1>1. CASE VariablesNext(s)
  BY <1>1 DEF VariablesNext, CreateVariable, CreateVariableCommits, UpdateVariable, UpdateVariableCommits, DeleteVariable,
              CreateVariableSet, UpdateVariableSet, UpdateVariableSetChecks, UpdateVariableSetCommits, DeleteVariableSet,
              DeleteVariableSetCascades, ApplySetToWorkspaces, DeleteSetFromWorkspaces, DeadlockDetected
<1>2. CASE StatesNext(s)
  BY <1>2 DEF StatesNext, CreateStateVersion, RollbackStateVersion, CreateStateVersionCommits, UploadState, UploadStateCommits,
              UploadsDeadlock, DeleteStateVersion
<1>3. CASE AccountsNext(s)
  BY <1>3 DEF AccountsNext, Authenticate, CreateOrganization, CreateTeam, UpdateTeam, UpdateTeamCommits, DeleteTeam,
              DeleteTeamCommits, AddTeamMembership, AddTeamMembershipCommits, RemoveTeamMembership, ListOwners,
              RemoveTeamMembershipCommits, CreateUser, DeleteUser, Login, LoginCreates, SetSiteAdmins, DemoteAdmins,
              DemoteLocks, PromoteAdmins, CreateToken, DeleteToken, DeleteTokenCommits, CreateOwnersToken, DeleteOwnersToken,
              ChangePermission, ChangePermissionCommits, TeamUnreadable, Refuse
<1> QED BY <1>1, <1>2, <1>3

LEMMA NextKeepsInvariant ==
  ASSUME IInv, Next
  PROVE  /\ IInv'
         /\ [PoolsKept]_<<settings, pools>> /\ [SensitiveKept]_variables
         /\ [StatesKept]_versions /\ [SerialsKept]_current
         /\ OwnersKept /\ OwnersManage
<1> USE DEF IInv
<1> DEFINE Kept == /\ IInv'
                   /\ [PoolsKept]_<<settings, pools>> /\ [SensitiveKept]_variables
                   /\ [StatesKept]_versions /\ [SerialsKept]_current
                   /\ OwnersKept /\ OwnersManage
<1>1. ASSUME NEW s \in Session, SettingsNext(s)
      PROVE  Kept
  <2>1. Only(s, SettingsOps)
    BY <1>1, SettingsOnly
  <2>2. UNCHANGED <<variableVars, stateVars, accountVars>> /\ workspaces \subseteq workspaces'
    BY <1>1, WorkspacesGrow DEF SettingsNext
  <2>3. SettingsInv' /\ [PoolsKept]_<<settings, pools>>
    BY <1>1, SettingsStep
  <2>4. VariablesInv'
    BY <2>1, <2>2, VariablesAside DEF SettingsOps, VariablesOps
  <2>5. StatesInv'
    BY <2>1, <2>2, StatesAside DEF SettingsOps, StatesOps
  <2>6. AccountsKept
    BY <2>1, <2>2, AccountsAside DEF SettingsOps, AccountsOps, CallOps, TeamChanges
  <2> QED BY <2>1, <2>2, <2>3, <2>4, <2>5, <2>6 DEF AccountsKept, Only, variableVars, stateVars
<1>2. ASSUME NEW s \in Session, VariablesNext(s)
      PROVE  Kept
  <2>1. Only(s, VariablesOps)
    BY <1>2, VariablesOnly
  <2>2. UNCHANGED <<settingVars, stateVars, accountVars>> /\ UNCHANGED workspaces
    BY <1>2, WorkspacesStay DEF VariablesNext
  <2>3. VariablesInv' /\ [SensitiveKept]_variables
    BY <1>2, VariablesStep
  <2>4. SettingsInv'
    BY <2>1, <2>2, SettingsAside DEF SettingsOps, VariablesOps
  <2>5. StatesInv'
    BY <2>1, <2>2, StatesAside DEF VariablesOps, StatesOps
  <2>6. AccountsKept
    BY <2>1, <2>2, AccountsAside DEF VariablesOps, AccountsOps, CallOps, TeamChanges
  <2> QED BY <2>1, <2>2, <2>3, <2>4, <2>5, <2>6 DEF AccountsKept, Only, settingVars, stateVars
<1>3. ASSUME NEW s \in Session, StatesNext(s)
      PROVE  Kept
  <2>1. Only(s, StatesOps)
    BY <1>3, StatesOnly
  <2>2. UNCHANGED <<settingVars, variableVars, accountVars>> /\ UNCHANGED workspaces
    BY <1>3, WorkspacesStay DEF StatesNext
  <2>3. StatesInv' /\ [StatesKept]_versions /\ [SerialsKept]_current
    BY <1>3, StatesStep
  <2>4. SettingsInv'
    BY <2>1, <2>2, SettingsAside DEF SettingsOps, StatesOps
  <2>5. VariablesInv'
    BY <2>1, <2>2, VariablesAside DEF VariablesOps, StatesOps
  <2>6. AccountsKept
    BY <2>1, <2>2, AccountsAside DEF StatesOps, AccountsOps, CallOps, TeamChanges
  <2> QED BY <2>1, <2>2, <2>3, <2>4, <2>5, <2>6 DEF AccountsKept, Only, settingVars, variableVars
<1>4. ASSUME NEW s \in Session, AccountsNext(s)
      PROVE  Kept
  <2>1. AccountsKept /\ Only(s, AccountsOps)
    BY <1>4, AccountsStep
  <2>2. UNCHANGED <<settingVars, variableVars, stateVars>> /\ UNCHANGED workspaces
    BY <1>4, WorkspacesStay DEF AccountsNext
  <2>3. SettingsInv'
    BY <2>1, <2>2, SettingsAside DEF SettingsOps, AccountsOps, CallOps, TeamChanges
  <2>4. VariablesInv'
    BY <2>1, <2>2, VariablesAside DEF VariablesOps, AccountsOps, CallOps, TeamChanges
  <2>5. StatesInv'
    BY <2>1, <2>2, StatesAside DEF StatesOps, AccountsOps, CallOps, TeamChanges
  <2> QED BY <2>1, <2>2, <2>3, <2>4, <2>5 DEF AccountsKept, Only, settingVars, variableVars, stateVars
<1>5. ASSUME NEW s \in Session, (\E w \in Workspace : DeleteWorkspace(s, w)) \/ DeleteWorkspaceStatement(s) \/ DeleteWorkspaceCommits(s)
      PROVE  Kept
  <2>1. Only(s, {"deleteWorkspace"})
    BY <1>5, DeletionOnly
  <2>2. SettingsInv' /\ PoolsKept
    BY <1>5, DeletionSettings
  <2>3. CASE UNCHANGED <<workspaces, variableVars, stateVars, accountVars>>
    <3>1. VariablesInv' /\ StatesInv'
      BY <2>1, <2>3, VariablesAside, StatesAside DEF VariablesOps, StatesOps
    <3>2. AccountsKept
      BY <2>1, <2>3, AccountsAside DEF AccountsOps, CallOps, TeamChanges
    <3> QED BY <2>1, <2>2, <2>3, <3>1, <3>2 DEF AccountsKept, Only, variableVars, stateVars
  <2>4. ASSUME NEW w \in Workspace, workspaces' = workspaces \ {w}, VariablesCascade(w), StatesCascade(w), RolesCascade(w),
               session'[s] = Idle
        PROVE  Kept
    <3>1. VariablesInv' /\ SensitiveKept
      BY <2>1, <2>4, DeletionVariables
    <3>2. StatesInv' /\ StatesKept /\ SerialsKept
      BY <2>1, <2>4, DeletionStates
    <3>3. AccountsKept
      BY <2>1, <2>4, DeletionAccounts
    <3> QED BY <2>1, <2>2, <3>1, <3>2, <3>3 DEF AccountsKept, Only
  <2>5. CASE DeleteWorkspaceCommits(s)
    <3>1. session'[s] = Idle
      BY <2>5 DEF DeleteWorkspaceCommits, End
    <3>2. session[s].workspace \in Workspace
      BY <2>5 DEF DeleteWorkspaceCommits, At, SettingsInv, SettingsRequest
    <3> QED BY <2>4, <2>5, <3>1, <3>2 DEF DeleteWorkspaceCommits
  <2>6. CASE (\E w \in Workspace : DeleteWorkspace(s, w)) \/ DeleteWorkspaceStatement(s)
    BY <2>3, <2>6 DEF DeleteWorkspace, DeleteWorkspaceStatement
  <2> QED BY <1>5, <2>5, <2>6
<1> QED BY <1>1, <1>2, <1>3, <1>4, <1>5 DEF Next

\* A request that waits changes nothing.
LEMMA StutteringKeepsInvariant ==
  ASSUME IInv, UNCHANGED vars
  PROVE  /\ IInv'
         /\ [PoolsKept]_<<settings, pools>> /\ [SensitiveKept]_variables
         /\ [StatesKept]_versions /\ [SerialsKept]_current
         /\ [OwnersKept]_<<session, members>> /\ [OwnersManage]_<<session, teams, members>>
<1> USE DEF IInv
<1>1. /\ UNCHANGED <<workspaces, session, settings, pools, tags, tagged, variables, sets, versions, current, unchecked>>
      /\ UNCHANGED <<organizations, users, admins, teams, members, roles, tokens>>
  BY DEF vars, requestVars, settingVars, variableVars, stateVars, accountVars
<1>2. SettingsInv'
  BY <1>1 DEF SettingsInv, SettingsTypeOK, TagsExist, SettingsRequest, PoolUpdateAllowed, AssignedWorkspaces
<1>3. VariablesInv'
  <2>1. VariablesTypeOK' /\ NoConflicts' /\ ParentsExist'
    BY <1>1 DEF VariablesInv, VariablesTypeOK, NoConflicts, ParentsExist, InConflict, Exists, listGlobalVariables, listVariables
  <2>2. \A t \in Session : VariablesRequest(session[t])'
    BY <1>1 DEF VariablesInv, VariablesRequest, CreatesVariable, UpdatesVariable, UpdatesSet, Exists,
                checkVariable, checkSet, checkConflicts, Scope, listGlobalVariables, listVariables
  <2>3. \A t, u \in Session : LocksVariables(t)' /\ LocksVariables(u)' => t = u
    BY <1>1 DEF VariablesInv, LocksVariables
  <2> QED BY <2>1, <2>2, <2>3 DEF VariablesInv
<1>4. StatesInv'
  BY <1>1 DEF StatesInv, StatesTypeOK, CurrentHasState, PendingIsAhead, OneWriter, StatesRequest, Pending, Stored
<1>5. AccountsInv'
  <2>1. AccountsTables'
    BY <1>1 DEF AccountsInv, AccountsTables, UsersOK, TeamsOK, MembersOK, RolesOK, TokensOK, TeamExists
  <2>2. \A t \in Session : AccountsRequest(session[t])'
    BY <1>1 DEF AccountsInv, AccountsRequest, CallRequest, TeamExists
  <2> QED BY <2>1, <2>2 DEF AccountsInv
<1> QED BY <1>1, <1>2, <1>3, <1>4, <1>5

\* A behaviour starts with tables that agree, and without requests.
LEMMA InitIsGood == Init => IInv
<1> SUFFICES ASSUME Init
             PROVE  IInv
  OBVIOUS
<1> DEFINE start == budget.start
<1>1. MayStart(start) /\ session = [s \in Session |-> Idle] /\ workspaces = start.workspaces
  BY StartAssumption DEF Init, RequestsInit
<1>2. \A s \in Session : session[s].op = "idle"
  BY <1>1 DEF Idle
<1>3. SettingsInv
  <2>1. /\ settings = [w \in Workspace |-> NoSettings] /\ pools = start.pools
        /\ tags = {} /\ tagged = [w \in Workspace |-> {}]
    BY DEF Init, SettingsInit
  <2>2. /\ start.workspaces \subseteq Workspace
        /\ start.pools \in [Pool -> {NoAgentPool} \union
                             [exists : {TRUE}, scoped : BOOLEAN, allowed : SUBSET start.workspaces]]
    BY <1>1 DEF MayStart
  <2>3. NoSettings \in [mode : Mode, connected : BOOLEAN, tagsRegex : BOOLEAN, patterns : BOOLEAN]
    BY DEF NoSettings, Mode
  <2> HIDE DEF start
  <2>4. ASSUME NEW p \in Pool
        PROVE  /\ pools[p] \in PoolRow
               /\ ~pools[p].exists => ~pools[p].scoped /\ pools[p].allowed = {}
    <3>1. CASE pools[p] = NoAgentPool
      BY <3>1 DEF PoolRow, NoAgentPool
    <3>2. CASE pools[p] \in [exists : {TRUE}, scoped : BOOLEAN, allowed : SUBSET start.workspaces]
      BY <2>2, <3>2 DEF PoolRow
    <3> QED BY <2>1, <2>2, <3>1, <3>2
  <2>5. pools \in [Pool -> PoolRow]
    BY <2>1, <2>2, <2>4
  <2>6. SettingsTypeOK
    BY <1>1, <2>1, <2>2, <2>3, <2>5 DEF SettingsTypeOK, PoolRow
  <2>7. TagsExist
    BY <2>1 DEF TagsExist
  <2>8. \A s \in Session : SettingsRequest(session[s])
    BY <1>2 DEF SettingsRequest
  <2> QED BY <2>4, <2>6, <2>7, <2>8 DEF SettingsInv
<1>4. VariablesInv
  <2> DEFINE someSets == { x \in VariableSet : start.sets[x].exists }
             globalSets == { x \in VariableSet : start.sets[x].global }
  <2>1. variables = start.variables /\ sets = start.sets
    BY DEF Init, VariablesInit
  <2>2. /\ start.workspaces \subseteq Workspace
        /\ start.sets \in [VariableSet -> {NoSet} \union
             [name : SetName, global : BOOLEAN, workspaces : SUBSET start.workspaces, exists : {TRUE}]]
        /\ start.variables \in [Variable -> {NoRow} \union RowOf(start.workspaces \union someSets)]
        /\ \A u, v \in { v \in Variable : start.variables[v] # NoRow } :
             u # v /\ (start.variables[u].parent = start.variables[v].parent
                       \/ {start.variables[u].parent, start.variables[v].parent} \subseteq globalSets)
             => start.variables[u].key # start.variables[v].key
    BY <1>1 DEF MayStart
  <2> HIDE DEF start
  <2>3. sets \in [VariableSet -> SetRow]
    <3>1. ASSUME NEW x \in VariableSet
          PROVE  sets[x] \in SetRow
      <4>1. CASE sets[x] = NoSet
        BY <4>1 DEF SetRow, NoSet
      <4>2. CASE sets[x] \in [name : SetName, global : BOOLEAN, workspaces : SUBSET start.workspaces, exists : {TRUE}]
        BY <2>2, <4>2 DEF SetRow
      <4> QED BY <2>1, <2>2, <4>1, <4>2
    <3> QED BY <2>1, <2>2, <3>1
  <2>4. \A v \in Variable : variables[v] # NoRow => variables[v] \in VariableRow
    BY <2>1, <2>2 DEF VariableRow, RowOf
  <2>5. VariablesTypeOK
    <3>1. variables \in [Variable -> {NoRow} \union VariableRow]
      BY <2>1, <2>2, <2>4
    <3> QED BY <2>3, <3>1 DEF VariablesTypeOK, VariableRow, RowOf, SetRow
  <2>6. Distinct
    BY <2>1, <2>2 DEF Distinct, Together, Global, Exists
  <2>7. NoConflicts
    BY <2>5, <2>6, DistinctRows
  <2>8. ASSUME NEW v \in Variable, NEW x \in VariableSet, Exists(v), variables[v].parent = x
        PROVE  sets[x].exists
    BY <2>1, <2>2, <2>8, VariablesAssumption DEF Exists, RowOf
  <2>9. \A s \in Session : ~LocksVariables(s) /\ VariablesRequest(session[s])
    BY <1>2 DEF LocksVariables, VariablesRequest
  <2> QED BY <2>5, <2>7, <2>8, <2>9 DEF VariablesInv, ParentsExist
<1>5. StatesInv
  <2>1. versions = [v \in Version |-> NoVersion] /\ current = [w \in Workspace |-> None] /\ unchecked = {}
    BY DEF Init, StatesInit
  <2>2. StatesTypeOK
    BY <2>1 DEF StatesTypeOK
  <2>3. CurrentHasState /\ PendingIsAhead
    BY <2>1 DEF CurrentHasState, PendingIsAhead
  <2>4. OneWriter /\ \A s \in Session : StatesRequest(session[s])
    BY <1>2 DEF OneWriter, StatesRequest
  <2> QED BY <2>2, <2>3, <2>4 DEF StatesInv
<1>6. AccountsInv
  <2>1. /\ organizations = {Home} /\ users = start.users /\ admins = start.admins
        /\ teams = start.teams /\ members = start.members
        /\ roles = [w \in Workspace |-> [t \in Team |-> NoRole]]
        /\ tokens = [k \in Token |-> UnusedToken]
    BY DEF Init, AccountsInit
  <2>2. /\ start.users \subseteq User /\ start.admins \subseteq start.users
        /\ start.teams \in [Team -> {UnusedTeam} \union [name : TeamName, organization : {Home}, manage : Manages]]
        /\ start.members \in [Team -> SUBSET start.users]
        /\ \A t \in Team : start.teams[t] = UnusedTeam => start.members[t] = {}
    BY <1>1 DEF MayStart
  <2> HIDE DEF start
  <2>3. Home \in Org /\ NoOne \notin Org
    BY AccountsAssumption
  <2>4. UsersOK
    BY <2>1, <2>2, <2>3 DEF UsersOK
  <2>5. \A t \in Team : TeamExists(t) <=> teams[t] # UnusedTeam
    <3>1. GoneTeam = [name |-> "gone", organization |-> NoOne, manage |-> {}]
      BY DEF GoneTeam, UnusedTeam
    <3>2. ASSUME NEW t \in Team
          PROVE  teams[t] # GoneTeam
      BY <2>1, <2>2, <2>3, <3>1 DEF UnusedTeam
    <3> QED BY <3>2 DEF TeamExists
  <2>6. TeamsOK
    <3>1. \A t \in Team : /\ teams[t] \in TeamState
                          /\ TeamExists(t) => teams[t].organization \in organizations
      BY <2>1, <2>2, <2>3, <2>5 DEF TeamState
    <3> QED BY <2>1, <2>2, <3>1 DEF TeamsOK
  <2>7. MembersOK
    <3>1. \A t \in Team : members[t] \in SUBSET User
      BY <2>1, <2>2
    <3> QED BY <2>1, <2>2, <2>5, <3>1 DEF MembersOK
  <2>8. RolesOK
    BY <2>1 DEF RolesOK
  <2>9. TokensOK
    BY <2>1 DEF TokensOK, TokenState, UnusedToken
  <2>10. \A s \in Session : AccountsRequest(session[s])
    BY <1>2 DEF AccountsRequest, CallOps, TeamChanges
  <2> QED BY <2>4, <2>6, <2>7, <2>8, <2>9, <2>10 DEF AccountsInv, AccountsTables
<1> QED BY <1>1, <1>3, <1>4, <1>5, <1>6 DEF IInv

\* What the requests have checked and what the tables promise, kept by every
\* request at every one of its statements (the locks and the transactions of
\* internal/workspace, variable, state, runner, organization, team and user).
THEOREM Invariant == Spec => []IInv
<1>1. IInv /\ [Next]_vars => IInv'
  BY NextKeepsInvariant, StutteringKeepsInvariant
<1> QED BY InitIsGood, <1>1, PTL DEF Spec

LEMMA InvariantMeansAgreement == IInv => TablesAgree
BY TypedTables DEF IInv, SettingsInv, VariablesInv, StatesInv, AccountsInv, TablesAgree, TypeOK

\* Rows refer to rows that exist, no two variables of a workspace, a set or the
\* global sets are in conflict, the current version of a workspace has its
\* state, and the tags of a workspace exist, whatever requests are handled at
\* the same time (conflict_checker.go, state/version.go, the trigger delete_tags,
\* and the keys of the tables in migrations/001).  Tags that no workspace has are
\* not among them: see TagsAreInUse.
THEOREM TablesAlwaysAgree == Spec => []TablesAgree
BY Invariant, InvariantMeansAgreement, PTL

\* What no step does, from the invariant.
LEMMA StepsKeep ==
  IInv /\ [Next]_vars =>
    /\ [PoolsKept]_<<settings, pools>> /\ [SensitiveKept]_variables
    /\ [StatesKept]_versions /\ [SerialsKept]_current
    /\ [OwnersKept]_<<session, members>> /\ [OwnersManage]_<<session, teams, members>>
BY NextKeepsInvariant, StutteringKeepsInvariant

\* No update takes a pool away from a workspace that uses it, or makes a
\* sensitive variable readable: what the update has checked is still so when it
\* writes (runner/pool.go, update; variable/variable.go, update).
THEOREM NothingIsTakenBack == Spec => UpdatesTakeNothingBack
<1>1. IInv /\ [Next]_vars => [PoolsKept]_<<settings, pools>> /\ [SensitiveKept]_variables
  BY StepsKeep
<1> QED BY Invariant, <1>1, PTL DEF Spec, UpdatesTakeNothingBack, PoolIsNotTakenAway, SensitiveStaysSensitive,
                                    PoolsKept, SensitiveKept

\* The state of a version is written once; what is pending when another version
\* becomes current is discarded, also where serials go back; and the current
\* serial of a workspace does not go back unless a version was inserted with a
\* serial that the check would have refused by then: after the race of two
\* creations, or a rollback to an older serial (state/version.go,
\* uploadStateAndOutputs; state/db.go, discardAnyPending).
THEOREM StatesOnlyMoveForward == Spec => StatesMoveForward
<1>1. IInv /\ [Next]_vars => [StatesKept]_versions /\ [SerialsKept]_current
  BY StepsKeep
<1> QED BY Invariant, <1>1, PTL DEF Spec, StatesMoveForward, StateWrittenOnce, OvertakenIsDiscarded, OvertakenIsNotUploaded,
                                    StatesKept, SerialsKept, PendingDiscarded, SerialsGoForward

\* One removal leaves a team of owners a member, and teams change only at the
\* hands of those who were owners of their organization when they were
\* authenticated (user/service.go, RemoveTeamMembership; team/service.go;
\* authz/role.go).
THEOREM OwnersAlwaysGovern == Spec => OwnersGovern
<1>1. IInv /\ [Next]_vars => [OwnersKept]_<<session, members>> /\ [OwnersManage]_<<session, teams, members>>
  BY StepsKeep
<1> QED BY Invariant, <1>1, PTL DEF Spec, OwnersGovern, OwnersAreKept, OwnersManageTeams, OwnersKept, OwnersManage
=============================================================================
