SPECIFICATION Spec
CONSTANTS
  v1 = v1
  v2 = v2
  v3 = v3
  Workspace = {"w1", "w2"}
  Session = {s1, s2}
  Pool = {"p1"}
  TagName = {"t1", "t2"}
  VariableSet = {"g1", "g2"}
  Variable = {v1, v2, v3}
  Key = {"k1", "k2"}
  TerraformKey = {"k1"}
  SetName = {1, 2, 3}
  Version = {x1, x2, x3}
  MaxSerial = 2
  State = {"a", "b"}
  User = {"u1", "u2", "site-admin"}
  Team = {"t1", "t2", "t3"}
  Org = {"o1", "o2"}
  TeamName = {"owners", "devs"}
  Token = {"k1", "k2", "k3"}
  SiteAdmin = "site-admin"
  Home = "o1"
  RestrictOrganizationCreation = FALSE
  Calls <- MCCalls
  VariableOptions <- MCVariableOptions
  SetOptions <- MCSetOptions
  SettingOptions <- MCSettingOptions
  Budgets <- MCBudgets
SYMMETRY Symmetry
INVARIANTS TablesAgree MergeFollowsPrecedence
PROPERTIES  UpdatesTakeNothingBack OwnersGovern
CHECK_DEADLOCK FALSE
