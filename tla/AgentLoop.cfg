SPECIFICATION Spec
SYMMETRY MCSymmetry
CONSTANTS
  Children = {c1, c2}
  MaxSteps = 4
  TokenLimit = 3
  ChildTokens = 1
  StopLimit = 1
  BlockLimit = 2
  BlockReasons = {diff, evidence}
  TestLimit = 2
  Followups = 2
  RecoveryLimit = 1
INVARIANTS
  FinalTurn
  SuccessEarned
  ReservedForChildren
  CompletedConverged
  CancelStops
PROPERTY LegalMoves
CHECK_DEADLOCK FALSE
