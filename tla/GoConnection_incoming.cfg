SPECIFICATION ServingSpec
CONSTANTS
  Calls = {}
  Requests = {r1, r2, r3}
  WireIDs = {w1}
  MaxID = 0
  None = None
INVARIANTS
  OneGenerationPerID
PROPERTIES
  ConformingNeverDuplicate
  RequestsAnswered
