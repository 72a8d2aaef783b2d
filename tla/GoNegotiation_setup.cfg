SPECIFICATION FairSpec
CONSTANTS
  IDs = {i1, i2}
  RecordLen = 2
  MaxSent = 3
INVARIANTS
  OnlyAgreedConnections
  HandoffIsSafe
  FailureCleansUp
PROPERTIES
  FirstErrorReturned
  SetupEnds
CHECK_DEADLOCK FALSE
