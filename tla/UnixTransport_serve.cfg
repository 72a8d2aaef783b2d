SPECIFICATION FairSpec
CONSTANTS
  Listeners = {l1, l2}
  Own = l1
  Streams = {x1}
  None = None
INVARIANTS
  PathOwnership
  ServeDrains
PROPERTIES
  ServeEnds
CHECK_DEADLOCK FALSE
