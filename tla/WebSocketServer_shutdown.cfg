SPECIFICATION FairSpec
CONSTANTS
  Requests = {r1, r2}
  Shutdowns = {serve, s1}
  Serve = serve
INVARIANTS
  ShutdownDrains
  NoLeak
PROPERTIES
  ShutdownReturns
CHECK_DEADLOCK FALSE
