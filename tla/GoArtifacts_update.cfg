SPECIFICATION Spec
CONSTANTS
  Jobs = {j1, j2}
  Wants <- MCWants
  MaxEdits = 2
SYMMETRY Symmetry
INVARIANTS
  NeverStuck
PROPERTIES
  SuccessIsComplete
  ForeignKept
CHECK_DEADLOCK FALSE
