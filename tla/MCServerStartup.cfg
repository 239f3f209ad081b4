CONSTANT MaxFd = 5
SPECIFICATION FairSpec
INVARIANTS
  TypeOK
  BeginsAsAssumed
PROPERTY Settles
CHECK_DEADLOCK FALSE
