SPECIFICATION FairClientSpec
CONSTANTS
  s1 = s1
  s2 = s2
  g1 = g1
  g2 = g2
  w1 = w1
  worker = worker
  worktree = worktree
  rootA = rootA
  rootB = rootB
  noRun = noRun
  NoRun = noRun
  Requests = {s1, s2, w1}
  Kinds = {worker, worktree}
  Renewable = {worker, worktree}
  Roots = {rootA, rootB}
  Runs = {rootA}
  RootOf <- MCRootOf
  RunOf <- MCRunOf
  Need <- MCNeed
  Limit <- MCTwoWorkers
  RootLimit <- MCNone
  QueueMax = 2
  RunLimits = {1}
  Usages = {0}
  Mode = "enforce"
  ClientOf <- MCClientOf
  WorkerKind = worker
INVARIANTS
  OneSerialWorker
  RunAccountMatchesLeases
PROPERTY CallersAnswered
CHECK_DEADLOCK FALSE
