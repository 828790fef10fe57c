SPECIFICATION FairSpec
CONSTANTS
  c1 = c1
  c2 = c2
  c3 = c3
  NoCaller = NoCaller
  Callers = {c1, c2, c3}
  QueueSize = 1
  BatchSizes = {1, 2}
INVARIANTS
  TypeOK
  NoLostWakeup
PROPERTIES
  KeepsWriterPromise
  SleepersLeave
  AcceptedIsAnswered
  CloseReturns
CHECK_DEADLOCK FALSE
