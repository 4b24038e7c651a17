CONSTANTS
  Launches = {l1}
  Locking = {l1}
  SigpipeIgnored = FALSE
  Empty = empty
  Stale = stale
SPECIFICATION SpecCode
PROPERTY ParentIsReleased
CHECK_DEADLOCK FALSE
