SPECIFICATION FairSpec
CONSTANTS
  Calls = {c1, c2}
  Requests = {r1, r2}
  WireIDs = {w1}
  MaxID = 1
  MaxCalls = 2
  MaxOwned = 2
  MaxHandlers = 1
  MaxQueued = 1
  None = None
INVARIANTS
  NothingLeaks
PROPERTIES
  ConformingNeverDuplicate
  ImplementsContract
  TerminalWakesAll
CHECK_DEADLOCK FALSE
