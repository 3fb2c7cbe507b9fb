SPECIFICATION FairSpec
CONSTANTS
  Run = {r1}
  Workspace = {w1}
  Runner = {n1, n2}
  User = {u1}
  Nobody = Nobody
PROPERTIES
  StartedOnce
  DoneStaysDone
  ImplementsLifecycle
  InProgressEnds
CHECK_DEADLOCK FALSE
