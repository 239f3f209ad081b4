CONSTANTS
  Faults = {"system", "open", "fork", "dup2", "execv", "waitpid", "kill"}
  MaxCalls = 2
SPECIFICATION FairSpec
INVARIANT SuccessIsReported
PROPERTIES
  WrongTrueOnlyWhereKnown
  EveryCallReturns
CHECK_DEADLOCK FALSE
