CONSTANTS
  NumBoards = 4
  MAX_MINOR = 3
  MaxLoads = 2
SPECIFICATION Spec
INVARIANT LoadInv
INVARIANT HandlerHasWhatItUses
INVARIANT NothingLeaks
INVARIANT ListedSinceFailure
CHECK_DEADLOCK FALSE
