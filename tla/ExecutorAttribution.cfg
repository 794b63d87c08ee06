SPECIFICATION Spec
CONSTANTS
  N = 3
  Safe = {1, 2, 3}
  Bash = {}
  KeyOf <- MCRepeated
  Streaming = TRUE
INVARIANT ResultsAttributed
CHECK_DEADLOCK FALSE
