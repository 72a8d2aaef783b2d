SPECIFICATION Spec
CONSTANTS
  Jobs = {j1, j2}
  Wants <- MCExports
  MaxEdits = 1
PROPERTIES
  RepairsInterrupted
CHECK_DEADLOCK FALSE
