SPECIFICATION FairSpec
CONSTANTS
  Run = {r1, r2}
  Workspace = {w1}
  User = {u1}
  Nobody = Nobody
  BufferSize = 1
  MaxCrashes = 0
  CostEstimation = TRUE
  Deletable = {}
  Signalable = {r1}
PROPERTIES
  WaitingRunsAreServed
CHECK_DEADLOCK FALSE
