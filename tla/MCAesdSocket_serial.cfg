CONSTANTS
  N = 2
  NULL = NULL
  NewLine = 0
  MaxFd = 8
  main = main
  timestamps = timestamps
  DESTROYED = DESTROYED
  c1 = c1
  c2 = c2
  c3 = c3
  t1 = t1
  t2 = t2
  t3 = t3
  Client = {c1, c2}
  ThreadId = {t1, t2}
  CachedStacks = 2
  Script <- LinesScript
  Rude = {}
  Arrival = "serial"
  Scenario <- DeviceOnly
  Faults = {}
  BUF_LEN = 2
  UintWidth = 8
  Timestamp <- StampLine
SPECIFICATION Spec
INVARIANTS
  OwnsDataFile
CHECK_DEADLOCK FALSE
