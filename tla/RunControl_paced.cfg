CONSTANTS
  cfgA = cfgA
  cfgB = cfgB
  Configs <- MCConfigs
  PreviousConfig = cfgA
  NeventsTarget = 1
  MaxCommands = 3
  Paced = TRUE
  SpuriousWakeups = FALSE
  Commands <- MCPacedCommands
SPECIFICATION FairSpec
INVARIANT NoCommandDuringConfiguration
INVARIANT RunsLabelled
PROPERTY CommandsComplete
PROPERTY StopReachesDisk
PROPERTY QuitEndsProgram
CHECK_DEADLOCK FALSE
