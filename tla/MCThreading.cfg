CONSTANTS
  Task = {t1, t2, t3}
  NULL = NULL
  Faults = {"malloc", "pthread_create", "usleep", "pthread_mutex_lock", "pthread_mutex_unlock"}
SPECIFICATION FairSpec
INVARIANTS
  TypeOK
  LossIsReported
PROPERTIES
  BlocksAreFreed
CHECK_DEADLOCK FALSE
