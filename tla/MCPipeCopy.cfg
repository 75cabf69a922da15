SPECIFICATION Spec
CONSTANTS
  Receivers = {n1, n2, n3}
  Data = {d1, d2}
  MaxTensors = 2
  MaxMessages = 3
  MaxRuns = 2
SYMMETRY Symmetry
CHECK_DEADLOCK FALSE
INVARIANTS
  QueueMatchesReceivers
  ReceivedInOrder
  NothingLost
