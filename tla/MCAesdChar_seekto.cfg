CONSTANTS
  N = 2
  NULL = NULL
  ZERO_SIZE_PTR = ZERO_SIZE_PTR
  FREE = FREE
  a = a
  nl = nl
  nul = nul
  junk = junk
  NewLine = nl
  NUL = nul
  Junk = junk
  Byte <- Bytes
  Thread = {t1}
  File = {f1}
  Addr = {m1, m2, m3, m4, m5, m6, m7, m8, m9}
  Payload <- MixedWrites
  ReadCounts = {1}
  Seeks <- NoSeeks
  Seektos <- AllSeektos
  Faults = {}
  MaxWrites = 4
SPECIFICATION Spec
PROPERTY SeekToIsZeroReferenced
