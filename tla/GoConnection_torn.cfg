SPECIFICATION Spec
CONSTANTS
  Calls = {c1, c2}
  Requests = {}
  WireIDs = {w1}
  MaxID = 1
  None = None
SYMMETRY Symmetry
INVARIANTS
  FramesNotInterleaved
