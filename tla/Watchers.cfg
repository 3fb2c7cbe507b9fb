SPECIFICATION Spec
CONSTANTS
  Sub = {"reporter", "triggerer", "notifier"}
  BufferSize = 2
  Workspace = {"w1", "w2"}
  Config = {c1, c2}
  URL = {"web", "topic"}
  Row <- MCRow
  MaxRuns = 3
  Budgets <- MCBudgets
INVARIANTS CommitStatusIsCurrent TriggersWhenApplied NotifierIsCurrent
CHECK_DEADLOCK FALSE
