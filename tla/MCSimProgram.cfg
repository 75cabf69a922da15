SPECIFICATION Spec
CONSTANTS
  a = a
  b = b
  c = c
  LongScript = 3
  ShortScript = 2
  KernelOrder <- MCKernelOrder
  Dfbs <- MCDfbs
  Cap <- MCCap
  Pipes <- MCPipes
  Receivers <- MCReceivers
  Scripts <- MCScripts
CHECK_DEADLOCK FALSE
INVARIANTS
  AnswerIsRight
  ResumedCallsSucceed
PROPERTIES
  PassedAtMostOnce
  Termination
