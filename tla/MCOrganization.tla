--------------------------- MODULE MCOrganization ---------------------------
(* Instances of Organization for TLC. *)
EXTENDS Organization, TLC

CONSTANTS v1, v2, v3

Symmetry == Permutations(Session) \union Permutations(Version)

NoVars == [v \in Variable |-> NoRow]
NoSets == [x \in VariableSet |-> NoSet]
NoPools == [p \in Pool |-> NoAgentPool]

Row(parent, key) == [parent |-> parent, key |-> key, sensitive |-> FALSE]
Set(name, global, applied) == [name |-> name, global |-> global, workspaces |-> applied, exists |-> TRUE]

NoTeams == [t \in Team |-> UnusedTeam]
NoMembers == [t \in Team |-> {}]
TeamNamed(name, manage) == [name |-> name, organization |-> Home, manage |-> manage]

\* An organization with a workspace and an owner.
Fresh == [workspaces |-> {"w1"}, pools |-> NoPools, variables |-> NoVars, sets |-> NoSets,
          users |-> {"u1", SiteAdmin}, admins |-> {},
          teams |-> [NoTeams EXCEPT !["t1"] = TeamNamed("owners", {})],
          members |-> [NoMembers EXCEPT !["t1"] = {"u1"}]]

\* Two users, one of them or both owners; a team that manages workspaces or not.
Owned(owners) == [Fresh EXCEPT !.users = @ \union {"u2"}, !.members["t1"] = owners]
Staffed == [Owned({"u1"}) EXCEPT !.teams["t2"] = TeamNamed("devs", {}), !.members["t2"] = {"u2"}]
Managed == [Owned({"u1"}) EXCEPT !.teams["t2"] = TeamNamed("devs", {"workspaces"}), !.members["t2"] = {"u2"}]

\* A pool open to all, and two workspaces.
Pooled == [Fresh EXCEPT !.workspaces = {"w1", "w2"},
                        !.pools = [NoPools EXCEPT !["p1"] = [exists |-> TRUE, scoped |-> TRUE, allowed |-> {}]]]

\* A pool that is open to no workspace.
Restricted == [Fresh EXCEPT !.pools = [NoPools EXCEPT !["p1"] = [exists |-> TRUE, scoped |-> FALSE, allowed |-> {}]]]

\* Two sets and a workspace with the same key in each, one set global.
Layered == [Fresh EXCEPT !.variables = v1 :> Row("g1", "k1") @@ v2 :> Row("g2", "k1") @@ v3 :> NoRow,
                         !.sets = [NoSets EXCEPT !["g1"] = Set(1, TRUE, {}), !["g2"] = Set(2, FALSE, {"w1"})]]

\* Two sets that are not global, applied to the same workspace.
Scoped == [Fresh EXCEPT !.variables = v1 :> Row("g1", "k1") @@ v2 :> Row("g2", "k1") @@ v3 :> Row("w1", "k2"),
                        !.sets = [NoSets EXCEPT !["g1"] = Set(1, FALSE, {"w1"}), !["g2"] = Set(2, FALSE, {"w1"})]]

\* One thing is changed at a time, or two that belong together.
Keep == [key |-> {}, sensitive |-> {}]
MCVariableOptions == { [Keep EXCEPT !.key = {k}] : k \in Key } \union
  { [Keep EXCEPT !.sensitive = {TRUE}], [key |-> {"k1"}, sensitive |-> {FALSE}] }
KeepSet == [name |-> {}, global |-> {}, workspaces |-> {}]
MCSetOptions == { [KeepSet EXCEPT !.global = {TRUE}], [KeepSet EXCEPT !.name = {3}],
                  [KeepSet EXCEPT !.global = {FALSE}, !.workspaces = {{"w1"}}] }
MCSettingOptions ==
  { [NoOptions EXCEPT !.mode = {m}] : m \in Mode } \union
  { [NoOptions EXCEPT !.always = TRUE], [NoOptions EXCEPT !.patterns = {TRUE}], [NoOptions EXCEPT !.patterns = {FALSE}],
    [NoOptions EXCEPT !.connect = TRUE], [NoOptions EXCEPT !.connect = TRUE, !.tagsRegex = TRUE],
    [NoOptions EXCEPT !.connect = TRUE, !.tagsRegex = TRUE, !.patterns = {TRUE}],
    [NoOptions EXCEPT !.disconnect = TRUE] }

\* What those with an account ask for.
MCCalls ==
  [op : {"createOrganization"}, organization : Org \ {Home}] \union
  { [op |-> "createTeam", organization |-> o, name |-> "devs", manage |-> {}] : o \in Org } \union
  { [op |-> "createTeam", organization |-> Home, name |-> "owners", manage |-> {}] } \union
  [op : {"updateTeam"}, team : {"t1", "t2"}, name : TeamName, manage : {{"vcs"}}] \union
  [op : {"deleteTeam"}, team : {"t1", "t2"}] \union
  [op : {"addTeamMembership"}, team : {"t1", "t2"}, users : {{"u2"}}] \union
  [op : {"removeTeamMembership"}, team : {"t1", "t2"}, users : {{"u1"}, {"u2"}, {"u1", "u2"}}] \union
  [op : {"createUser"}, user : {"u2"}] \union
  [op : {"deleteUser"}, user : {"u1", "u2"}] \union
  [op : {"createToken"}] \union [op : {"deleteToken"}, token : {"k1"}] \union
  [op : {"createTeamToken", "deleteTeamToken"}, team : {"t1"}] \union
  [op : {"createOrganizationToken", "deleteOrganizationToken"}, organization : {Home}] \union
  [op : {"setPermission"}, workspace : {"w1"}, team : {"t2"}, role : {"admin", "read"}] \union
  [op : {"unsetPermission"}, workspace : {"w1"}, team : {"t2"}]

TeamOps == {"createTeam", "updateTeam", "deleteTeam", "addTeamMembership", "removeTeamMembership"}
TokenOps == {"createToken", "deleteToken", "createTeamToken", "deleteTeamToken",
             "createOrganizationToken", "deleteOrganizationToken"}

Nothing == [start |-> Fresh, ops |-> {}, calls |-> 0, logins |-> 0, starts |-> 0, settings |-> 0, poolChanges |-> 0, tags |-> 0, variables |-> 0, sets |-> 0,
            creations |-> 0, rollbacks |-> 0, uploads |-> 0, deletions |-> 0, removals |-> 0]

MCBudgets == {
  [Nothing EXCEPT !.start = Pooled, !.settings = 2, !.poolChanges = 2],
  [Nothing EXCEPT !.start = Restricted, !.settings = 2],
  [Nothing EXCEPT !.start = [Pooled EXCEPT !.workspaces = {}], !.settings = 1, !.poolChanges = 1],
  [Nothing EXCEPT !.removals = 2],
  [Nothing EXCEPT !.start = Pooled, !.settings = 1, !.tags = 3, !.removals = 1],
  [Nothing EXCEPT !.start = Pooled, !.tags = 3, !.removals = 2],
  [Nothing EXCEPT !.variables = 3, !.sets = 1],
  [Nothing EXCEPT !.start = Layered, !.variables = 1, !.sets = 2],
  [Nothing EXCEPT !.start = Layered, !.variables = 2, !.sets = 1],
  [Nothing EXCEPT !.start = Scoped, !.variables = 1, !.sets = 2, !.removals = 1],
  [Nothing EXCEPT !.creations = 2, !.uploads = 2, !.deletions = 1],
  [Nothing EXCEPT !.creations = 2, !.uploads = 1, !.rollbacks = 1, !.removals = 1],
  [Nothing EXCEPT !.start = Owned({"u1", "u2"}), !.ops = TeamOps, !.calls = 2],
  [Nothing EXCEPT !.start = Owned({"u1"}), !.ops = {"createOrganization", "createTeam", "deleteUser", "createUser"}, !.calls = 3],
  [Nothing EXCEPT !.start = Staffed, !.ops = {"setPermission", "unsetPermission", "removeTeamMembership"}, !.calls = 3],
  [Nothing EXCEPT !.start = Managed, !.ops = TeamOps \union {"setPermission", "unsetPermission"}, !.calls = 2, !.removals = 1],
  [Nothing EXCEPT !.start = Owned({"u1"}), !.ops = {"createOrganization", "updateTeam", "addTeamMembership"}, !.calls = 3],
  [Nothing EXCEPT !.start = Owned({"u1"}), !.ops = TokenOps \union {"deleteUser"}, !.calls = 3],
  [Nothing EXCEPT !.start = [Owned({"u1"}) EXCEPT !.admins = {"u2"}], !.ops = {"deleteUser"}, !.calls = 1, !.logins = 1, !.starts = 2] }
=============================================================================
