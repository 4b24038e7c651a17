CONSTANTS
  Spawners = {s1, s2}
  MaxFd = 13
  Closed = closed
  Std = std
  Null = null
  File = file
  NotYet = notyet
  Exit127 = exit127
SPECIFICATION FdsSpec
SYMMETRY Symmetry
CHECK_DEADLOCK FALSE
INVARIANTS
  StreamsAreItsOwn
  EndsAreAccounted
