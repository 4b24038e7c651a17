\* The pipe fills up before the signals run out, and one read takes more than
\* one byte.
CONSTANTS
  Signal = {Term, Int, Hup}
  PipeCap = 3
  BufLen = 2
  MaxRaises = 5
SPECIFICATION Spec
INVARIANTS
  StopIsNotLost
PROPERTY StopIsReported
CHECK_DEADLOCK FALSE
