SPECIFICATION Spec
CONSTANTS
  Programs <- Lopsided
  AllPipes <- MCPipes
  Rounds = 2
  MaxSemaphoreIds = 3
  BlockCount = 2
INVARIANTS
  ReceiversPublishOneAddress
CHECK_DEADLOCK FALSE
