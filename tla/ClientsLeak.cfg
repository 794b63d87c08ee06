SPECIFICATION ClientSpec
CONSTANTS
  s1 = s1
  s2 = s2
  g1 = g1
  g2 = g2
  w1 = w1
  worker = worker
  worktree = worktree
  rootA = rootA
  rootB = rootB
  noRun = noRun
  NoRun = noRun
  Requests = {g1, g2}
  Kinds = {worker}
  Renewable = {worker}
  Roots = {rootA, rootB}
  Runs = {rootA}
  RootOf <- MCRootOf
  RunOf <- MCRunOf
  Need <- MCNeed
  Limit <- MCTight
  RootLimit <- MCNone
  QueueMax = 2
  RunLimits = {1}
  Usages = {0}
  Mode = "enforce"
  ClientOf <- MCClientOf
  WorkerKind = worker
INVARIANT CapacityReturned
CHECK_DEADLOCK FALSE
