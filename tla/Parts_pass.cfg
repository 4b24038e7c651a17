SPECIFICATION Spec
CONSTANTS
  Bytes = {"/", ".", "a"}
  MaxLen = 6
  Keys <- EnvKeys
  Values <- EnvValues
  Environs <- EnvLists
  MaxBuilder = 2
  Walkers = {p, q}
  TempNames <- TwoTemps
  Attempts = 2
  MaxMeddles = 1
  LastByte = 4
  Cap = 2
  Chunk = 2
  Threshold = 2
  MaxFaults = 2
  Callers = {a, b, c}
  PathBytes = {"x", "y", "z", "a", "b"}
  Paths <- SocketPaths
  SunPath = 3
  MaxFd = 3
  Limit = 8
  Page = 2
  MinAlign = 4
  Aligns = {1, 2, 4, 8}
  Sizes = {0, 1, 2, 3, 4, 8}
  Owners = {a, b}
  LockThreads = {a, b, c}
  GuardIds = {1, 2}
  Threads = {t1, t2, t3}
  Free = free
INVARIANTS
  SplitsAtTheLast
  EditsKeepTheRest
  ChildIsToldAll
  OutsideIsSafe
  WalksFinish
  TempDirIsOwn
  LinesAreWhole
  NoSilentLoss
  FdsAreOwned
  MemoryIsAsAsked
  WritersAreAlone
  CountIsTold
PROPERTY
  EveryTransferEnds
