CONSTANTS
  Faults = {"waitpid", "kill"}
  MaxCalls = 1
SPECIFICATION FairSpec
PROPERTY TrueMeansSucceeded
CHECK_DEADLOCK FALSE
