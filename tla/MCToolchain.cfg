SPECIFICATION ToolchainSpec
CONSTANTS
  Trips = 2
  TileSize = 2
  TileSide = 2
  MaxSteps = 3
  MaxCalls = 3
  MaxCBs = 3
  Operations <- LaunchOperations
  Calls <- LaunchCalls
  Argv <- CommandLine
  DefaultBudget = 8
  MaxRows = 4
  MaxRuns = 1
  MaxHardwareSemaphoreIds = 16
  NodeIds = {0, 1}
  L1Budget = 20000
  SemaphoreBytes = 16
INVARIANTS
  EveryCopyIsWaitedFor
  ActiveSetIsWhoTakesPart
  WorkIsSplitExactly
  LocalityIsOwnership
  CollectivesReachAll
  KernelIsThisCalls
  GoodCallsSucceed
  CompiledMeansPython
  BlockHoldsItsMeaning
  CompiledTypeIsTheBlocks
  ReportsAreTheRun
  NodesKeepToThemselves
  ProgramHoldsTogether
  CopiesAgree
  RegistersKeepValues
CHECK_DEADLOCK FALSE
