SPECIFICATION Spec
CONSTANTS
  Sub = {p1}
  BufferSize = 2
  MaxBytes = 2
  MaxFaults = 2
INVARIANTS NoSilentGap LogsAreKept
PROPERTY PageCatchesUp
CHECK_DEADLOCK FALSE
