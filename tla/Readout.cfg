CONSTANTS
  nDigitizers = 2
  Configs = {"soft", "normal"}
  TriggerType <- MCTriggerType
  MaxNumEventsBLT = 2
  MaxTriggers = 2
  MaxRuns = 2
  MaxFailures = 1
SPECIFICATION FairSpec
INVARIANT ReadoutInv
INVARIANT BuffersFollowRun
INVARIANT RunsAsConfigured
PROPERTY RecordedTogether
PROPERTY PushesAreNew
PROPERTY EventsReadOut
CHECK_DEADLOCK FALSE
