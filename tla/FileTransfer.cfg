CONSTANTS
  Configs = {trigger, cosmic}
  DefaultConfig = trigger
  AutoSaveEvery = 2
  MaxNumberEventsPerFile = 2
  MaxEvents = 2
  MaxRuns = 2
  MaxSubruns = 2
  MaxFiles = 2
  MaxFailures = 1
  CrashAnywhere = FALSE
  MaxScripts = 2
  NoFile = NoFile
SPECIFICATION TransferSpec
INVARIANT FilesInv
INVARIANT EventsAccounted
INVARIANT EventsLabelled
INVARIANT TransfersComplete
PROPERTY FilesNeverReplaced
CHECK_DEADLOCK FALSE
