\* Server runners, agents and the kubernetes executor; two provider versions.
SPECIFICATION Spec
CONSTANTS
  Job <- MCJob
  MaxPolls = 2
  MaxRemotePolls = 1
  Remote = {TRUE, FALSE}
  Kube = {TRUE, FALSE}
  PluginCache = TRUE
  Version = {"v1", "v2"}
  Offered <- MCOffered
INVARIANTS EngineIsPrepared ResultsAreStored
PROPERTIES CancelationIsHeeded JobReported
CHECK_DEADLOCK FALSE
