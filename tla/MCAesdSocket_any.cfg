CONSTANTS
  N = 2
  NULL = NULL
  NewLine = 0
  MaxFd = 6
  main = main
  timestamps = timestamps
  DESTROYED = DESTROYED
  c1 = c1
  c2 = c2
  c3 = c3
  t1 = t1
  t2 = t2
  t3 = t3
  Client = {c1, c2}
  ThreadId = {t1, t2}
  CachedStacks = 0
  Script <- MixedScript
  Rude = {}
  Arrival = "any"
  Scenario <- DeviceOnly
  Faults = {"accept", "pthread_create"}
  BUF_LEN = 4
  UintWidth = 8
  Timestamp <- StampLine
SPECIFICATION Spec
INVARIANTS
  TypeOK
  MutexDiscipline
  NodesOutliveThreads
  CrashesOnlyWhereKnown
CHECK_DEADLOCK FALSE
