SPECIFICATION FairSpec
CONSTANTS
  Job = {j1, j2}
  Runner = {n1, n2}
  Nobody = Nobody
  BufferSize = 1
  MaxJobs = 1
  KubeRunners = {n1}
  AgentRunners = {n1, n2}
  AgentJobs = {j1, j2}
  Fallible = {n1}
  Latecomers = {}
  Deletable = {}
  LateEvents = FALSE
  MaxCrashes = 0
PROPERTY JobsAreAllocated
CHECK_DEADLOCK FALSE
