CONSTANTS
  N = 2
  NULL = NULL
  ZERO_SIZE_PTR = ZERO_SIZE_PTR
  FREE = FREE
  a = a
  nl = nl
  nul = nul
  junk = junk
  NewLine = nl
  NUL = nul
  Junk = junk
  Byte <- Bytes
  Thread = {t1, t2}
  File = {f1, f2}
  Addr = {m1, m2, m3, m4, m5, m6, m7, m8, m9}
  Payload <- SplitWrites
  ReadCounts = {1}
  Seeks <- SomeSeeks
  Seektos <- SomeSeektos
  Faults = {"kmalloc write_buffer", "signal"}
  MaxWrites = 3
SYMMETRY CallerSymmetry
SPECIFICATION ExclusiveSpec
INVARIANTS
  BuffSizeCoversStream
PROPERTIES
  RefinesCommandLog
  RefinesAtomicDevice
  SeekToIsZeroReferencedUnwrapped
