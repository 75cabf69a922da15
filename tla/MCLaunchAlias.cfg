SPECIFICATION LaunchSpec
CONSTANTS
  Operations <- AliasOperations
  Calls <- AliasCalls
  Argv <- NoArgv
  MaxCalls = 2
  MaxCBs = 32
  DefaultBudget = 8
INVARIANTS
  ArgumentsReachTheirParameters
CHECK_DEADLOCK FALSE
