SPECIFICATION BlocksSpec
CONSTANTS
  MaxReads = 4
  Blocks = {b1, b2, b3}
  Temporary = temporary
INVARIANTS ExpectedIsAccepted StateMatchesCopies LostReadIsReported SourcesNeverRefuse
PROPERTY ReleasedIsQuiet
