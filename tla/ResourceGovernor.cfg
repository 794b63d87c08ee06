SPECIFICATION Spec
CONSTANTS
  a1 = a1
  a2 = a2
  b1 = b1
  worker = worker
  event = event
  rootA = rootA
  rootB = rootB
  run1 = run1
  NoRun = NoRun
  Requests = {a1, a2, b1}
  Kinds = {worker, event}
  Renewable = {worker}
  Roots = {rootA, rootB}
  Runs = {run1}
  RootOf <- MCRootOf
  RunOf <- MCRunOf
  Need <- MCNeed
  Limit <- MCLimit
  RootLimit <- MCRootLimit
  QueueMax = 2
  RunLimits = {0, 1}
  Usages = {1}
  Mode = "enforce"
INVARIANTS
  AccountsMatchLeases
  CapacityRespected
  QueueMatchesOutcomes
  NoLostLease
PROPERTIES
  ImplementsPool
  OvertakesOnlyBlocked
CHECK_DEADLOCK FALSE
