CONSTANTS
  cfgA = cfgA
  cfgB = cfgB
  Configs <- MCConfigs
  FirstConfig = cfgA
  Targets = {1}
  MaxCount = 1
  MaxCommands <- MCMaxCommands
  MaxPending = 1
SPECIFICATION FairSpec
INVARIANT ThreadsInStep
INVARIANT RunsLabelled
PROPERTY ImplementsDataTaking
PROPERTY CommandsComplete
CHECK_DEADLOCK FALSE
