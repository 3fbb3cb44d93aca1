CONSTANTS
  cfgA = cfgA
  cfgB = cfgB
  Configs <- MCConfigs
  PreviousConfig = cfgA
  NeventsTarget = 1
  MaxCommands = 1
  Paced = TRUE
  SpuriousWakeups = FALSE
  Commands <- OnlyRestart
SPECIFICATION FairSpec
PROPERTY CommandsComplete
CHECK_DEADLOCK FALSE
