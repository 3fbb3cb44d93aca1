CONSTANTS
  Configurations <- MCConfigurations
  MaxTriggers = 2
  MaxRuns = 2
  Rollover = 6
  Skew = 1
  Gaps = {1, 3, 5}
  LeftOver = {0}
  MatchingTTTRequirement = 2
  MaxNumberEventsPerFile = 2
  BoardMemory = 1
  QueueCapacity = 1
SPECIFICATION FairSpec
INVARIANT TypeOK
INVARIANT EventsAccounted
INVARIANT PairsAreOneTrigger
INVARIANT NoPartnerMissed
PROPERTY EventsLeaveQueues
