SPECIFICATION Spec
CONSTANTS
  Provider = {"p1", "p2"}
  Repo = {"r1"}
  Resource = {"w1", "w2", "m1"}
  SkipRepohook = {"p2"}
  Session = {s1, s2}
  Workspace = {"w1", "w2"}
  Module = {"m1"}
  Settings <- MCSettings
  InitialTag = {"v2", "x"}
  VersionOf <- MCVersionOf
  RepoOf <- MCRepoOf
  Budgets <- MCBudgets
SYMMETRY Symmetry
INVARIANTS HooksFollowConnections RunsFollowEvents TagsPublished
CHECK_DEADLOCK FALSE
