SPECIFICATION Spec
CONSTANTS
  Run = {r1, r2}
  Workspace = {w1}
  User = {u1}
  Nobody = Nobody
  BufferSize = 2
  MaxCrashes = 1
  CostEstimation = FALSE
  Deletable = {r1, r2}
  Signalable = {}
SYMMETRY Symmetry
INVARIANTS RunsAreKnown OneActiveRun
PROPERTIES FirstComeFirstServed ActiveRunKeepsLock
CHECK_DEADLOCK FALSE
