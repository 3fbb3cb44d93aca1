CONSTANTS
  Threads = {t1, t2}
  Slaves = {s1, s2}
  NoThread = NoThread
  NoSlave = NoSlave
  AnswerSize <- MCAnswerSize
  MayOpen <- MCMayOpen
  t1 = t1
  s1 = s1
  MaxCalls = 2
  MaxLinkFails = 1
  MaxIrqs = 1
SPECIFICATION FairSpec
INVARIANT TypeOK
INVARIANT AnswerIsOwn
PROPERTY OthersProceed
PROPERTY WaitersWake
CHECK_DEADLOCK FALSE
