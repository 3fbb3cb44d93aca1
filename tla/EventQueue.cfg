CONSTANTS
  PoolSize = 3
  MaxEvents = 5
  MaxPutBacks = 2
  Overlap = FALSE
SPECIFICATION FairSpec
INVARIANT QueueInv
PROPERTY ImplementsFIFO
PROPERTY EventsLeaveQueue
