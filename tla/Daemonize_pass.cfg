CONSTANTS
  Launches = {l1, l2}
  Locking = {l1, l2}
  SigpipeIgnored = FALSE
  Empty = empty
  Stale = stale
SPECIFICATION Spec
INVARIANTS
  ExitCodeIsTrue
  PidFileNamesTheOwner
PROPERTY ParentIsReleased
CHECK_DEADLOCK FALSE
