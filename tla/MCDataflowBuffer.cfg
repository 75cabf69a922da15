SPECIFICATION Spec
CONSTANTS
  Producer = producer
  Consumer = consumer
  Cap = 3
  Data = {d1, d2}
  Zero = zero
  Empty = empty
  NoBlock = NoBlock
  MaxReads = 2
  StaleHandles = FALSE
CHECK_DEADLOCK FALSE
INVARIANTS
  HandlesFollowRing
  NothingPendingAtExit
PROPERTIES
  OneEndAtATime
  ImplementsChannel
