SPECIFICATION Spec
CONSTANTS
  Job = {j1, j2}
  Runner = {n1}
  Nobody = Nobody
  BufferSize = 2
  MaxJobs = 1
  KubeRunners = {}
  AgentRunners = {}
  AgentJobs = {}
  Fallible = {n1}
  Latecomers = {n1}
  Deletable = {j1, j2}
  LateEvents = TRUE
  MaxCrashes = 1
SYMMETRY Symmetry
INVARIANTS JobsAreKnown CacheAgreesWhenQuiet
CHECK_DEADLOCK FALSE
