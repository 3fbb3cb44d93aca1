CONSTANTS
  PoolSize = 3
  MaxEvents = 4
  MaxPutBacks = 2
  Overlap = TRUE
SPECIFICATION Spec
INVARIANT PullsOnlyWhatWasPushed
