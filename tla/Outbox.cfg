SPECIFICATION FairSpec
CONSTANTS
  old = old
  new = new
  NoRelay = NoRelay
  Facts = {1, 2, 3}
  AggregateOf <- MCAggregateOf
  VersionOf <- MCVersionOf
  Foreign = {3}
  Malformed = {}
  Relays = {old, new}
  Steady = {new}
  MaxAttempts = 2
  BatchLimit = 2
INVARIANTS
  AggregateOrder
PROPERTIES
  ClaimsRespected
  ImplementsLedger
  FactsSettled
CHECK_DEADLOCK FALSE
