SPECIFICATION Spec
CONSTANTS
  Run = {r1, r2}
  Workspace = {w1}
  Runner = {n1}
  User = {u1}
  Nobody = Nobody
SYMMETRY Symmetry
INVARIANTS
  TypeOK
  LiveJobMatchesRun
  RunMatchesPhases
  ApplyFollowsPlan
  LockingRunIsLatest
CHECK_DEADLOCK FALSE
