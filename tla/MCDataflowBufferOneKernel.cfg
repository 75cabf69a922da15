SPECIFICATION Spec
CONSTANTS
  Producer = kernel
  Consumer = kernel
  Cap = 2
  Data = {d1, d2}
  Zero = zero
  Empty = empty
  NoBlock = NoBlock
  MaxReads = 2
  StaleHandles = TRUE
CHECK_DEADLOCK FALSE
INVARIANTS
  SlotsMatchCounters
