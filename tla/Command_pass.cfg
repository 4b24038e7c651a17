\* output and a program may wait for each other once a poll has failed for good,
\* so the system may stop; OutputReturns says that output stops in no other way.
CONSTANTS
  PipeCap = 2
  Chunk = 1
  MaxWrites = 3
  PollMayFail = TRUE
  SetpgidMayFail = TRUE
  None = none
SPECIFICATION Spec
INVARIANTS
  DoneIsComplete
  AnswersAreTheCode
  KillReachesTheGroup
PROPERTIES
  OutputReturns
CHECK_DEADLOCK FALSE
