CONSTANTS
  cfgA = cfgA
  cfgB = cfgB
  Configs <- MCConfigs
  PreviousConfig = cfgA
  NeventsTarget = 1
  MaxCommands = 3
  Paced = FALSE
  SpuriousWakeups = TRUE
  Commands <- CommandNames
SPECIFICATION Spec
INVARIANT ReadsOnlyWhileAcquiring
INVARIANT RunControlInv
PROPERTY ImplementsDataTaking
CHECK_DEADLOCK FALSE
