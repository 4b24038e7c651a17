CONSTANTS
  Threads = {t1, t2, t3}
  MayUnwind = TRUE
  None = none
  Torn = torn
  MaxCalls = 2
SPECIFICATION Spec
INVARIANTS
  OneAnswer
  InitRunsAtMostOnce
PROPERTIES
  EveryCallReturns
