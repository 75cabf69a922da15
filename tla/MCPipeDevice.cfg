SPECIFICATION Spec
CONSTANTS
  Programs <- MCPrograms
  AllPipes <- MCPipes
  Rounds = 2
  MaxSemaphoreIds = 3
  BlockCount = 2
INVARIANTS
  DomainsAreSound
  OneThreadPerEnd
  GuardsAreKept
  ReadyNeverPassesExpected
  AddressIsOfThisPipe
PROPERTIES
  ConsumerGetsItsTransfer
  ImplementsTransfer
  Terminates
CHECK_DEADLOCK FALSE
