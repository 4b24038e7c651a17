CONSTANTS
  Main = main
  Children = {a, b}
  None = none
  MayUnwind = TRUE
  MaxMoves = 2
SPECIFICATION Spec
CHECK_DEADLOCK FALSE
INVARIANTS
  ClosureIsUsedOnce
  SlotOutlivesTheThread
  NobodyIsLeftBehind
PROPERTIES
  EveryWaitEnds
