CONSTANTS
  Threads = {t1, t2}
  KeyLimit = 2
  ITERATIONS = 2
  MayFail = TRUE
  MaxCalls = 2
SPECIFICATION Spec
INVARIANTS
  KeyIsShared
  SeesTheInnermost
  BoxesAreFreed
