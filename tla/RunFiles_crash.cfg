CONSTANTS
  Configs = {trigger, cosmic}
  DefaultConfig = trigger
  AutoSaveEvery = 2
  MaxNumberEventsPerFile = 2
  MaxEvents = 3
  MaxRuns = 3
  MaxSubruns = 2
  MaxFiles = 6
  MaxFailures = 2
  CrashAnywhere = TRUE
SPECIFICATION Spec
PROPERTY FilesNeverReplaced
CHECK_DEADLOCK FALSE
