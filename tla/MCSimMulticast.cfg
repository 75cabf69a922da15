SPECIFICATION Spec
CONSTANTS
  s = s
  r1 = r1
  r2 = r2
  KernelOrder <- MCKernelOrder
  Dfbs <- MCDfbs
  Cap <- MCCap
  Pipes <- MCPipes
  Receivers <- MCReceivers
  Scripts <- MCScripts
CHECK_DEADLOCK FALSE
INVARIANT ResumedCallsSucceed
