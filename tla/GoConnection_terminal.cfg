SPECIFICATION FairSpec
CONSTANTS
  Calls = {c1}
  Requests = {r1}
  WireIDs = {w1}
  MaxID = 0
  None = None
INVARIANTS
  TerminalDrained
PROPERTIES
  NothingStartsAfterTerminal
  TerminalWakesAll
  CancelReturns
