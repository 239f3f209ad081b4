CONSTANTS
  N = 2
  NULL = NULL
  ZERO_SIZE_PTR = ZERO_SIZE_PTR
  FREE = FREE
  a = a
  nl = nl
  nul = nul
  junk = junk
  NewLine = nl
  NUL = nul
  Junk = junk
  Byte <- Bytes
  Thread = {t1, t2}
  File = {f1}
  Addr = {m1, m2, m3, m4, m5, m6, m7, m8, m9}
  Payload <- AllWrites
  ReadCounts = {2}
  Seeks <- NoSeeks
  Seektos <- NoSeektos
  Faults <- FaultKinds
  MaxWrites = 3
SPECIFICATION FairSpec
INVARIANTS
  TypeOK
  LockDiscipline
  HeapSafe
PROPERTIES
  LeaksOnlyWhereKnown
  AmountStoredUnlessKreallocFails
  
  ReadReturnsStream
  EveryCallReturns
