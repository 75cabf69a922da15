SPECIFICATION Spec
CONSTANTS
  Producer = producer
  Consumer = consumer
  Cap = 2
  Data = {d1, d2}
  Zero = zero
  Empty = empty
  NoBlock = NoBlock
  MaxReads = 1
  StaleHandles = TRUE
CHECK_DEADLOCK FALSE
PROPERTIES
  PopsOnlyWaitedSlot
