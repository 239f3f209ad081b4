CONSTANTS
  N = 3
  NULL = NULL
  Pointers = {p1, p2}
  MaxSize = 2
  Entries <- MCEntries
SPECIFICATION Spec
INVARIANTS TypeOK FindIsConcatenation
PROPERTY RefinesRecentWrites
