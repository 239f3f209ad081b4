CONSTANTS
  N = 2
  NULL = NULL
  NewLine = 0
  MaxFd = 6
  main = main
  timestamps = timestamps
  DESTROYED = DESTROYED
  c1 = c1
  c2 = c2
  c3 = c3
  t1 = t1
  t2 = t2
  t3 = t3
  Client = {c1, c2, c3}
  ThreadId = {t1, t2, t3}
  CachedStacks = 3
  Script <- AloneScript
  Rude = {}
  Arrival = "alone"
  Scenario <- BothBuilds
  Faults = {}
  BUF_LEN = 2
  UintWidth = 8
  Timestamp <- StampLine
SPECIFICATION FairSpec
INVARIANTS
  OwnsDataFile
  ReplyIsContents
  DescriptorsReturned
PROPERTIES
  EveryClientServed
CHECK_DEADLOCK FALSE
