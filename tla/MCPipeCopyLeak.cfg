SPECIFICATION Spec
CONSTANTS
  Receivers = {n1, n2}
  Data = {d1}
  MaxTensors = 1
  MaxMessages = 2
  MaxRuns = 2
CHECK_DEADLOCK FALSE
INVARIANT RunsAreIsolated
