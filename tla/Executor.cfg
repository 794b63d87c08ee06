SPECIFICATION FairSpec
CONSTANTS
  N = 3
  Safe = {1, 2}
  Bash = {2, 3}
  KeyOf <- MCDistinct
  Streaming = TRUE
INVARIANTS
  ExclusiveStatus
  ResultsComplete
PROPERTIES
  StartedOnce
  CancelStands
  CollectReturns
CHECK_DEADLOCK FALSE
