CONSTANTS
  N = 2
  NULL = NULL
  NewLine = 0
  MaxFd = 6
  main = main
  timestamps = timestamps
  DESTROYED = DESTROYED
  c1 = c1
  c2 = c2
  c3 = c3
  t1 = t1
  t2 = t2
  t3 = t3
  Client = {c1}
  ThreadId = {t1}
  CachedStacks = 1
  Script <- LinesScript
  Rude = {c1}
  Arrival = "any"
  Scenario <- EndsOfServer
  Faults <- FaultKinds
  BUF_LEN = 4
  UintWidth = 8
  Timestamp <- StampLine
SPECIFICATION FairSpec
INVARIANT CrashesOnlyWhereKnown
PROPERTIES
  ShutdownCompletes
  AnsweringEnds
  GivingUpEnds
CHECK_DEADLOCK FALSE
