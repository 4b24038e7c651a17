SPECIFICATION Spec
CONSTANTS
  Walkers = {p}
  TempNames <- OneTemp
  Attempts = 1
  MaxMeddles = 1
INVARIANT LinksAreNotFollowed
CHECK_DEADLOCK FALSE
