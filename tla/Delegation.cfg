SPECIFICATION Spec
SYMMETRY MCSymmetry
CONSTANTS
  scan = scan
  fix = fix
  Names = {scan, fix}
  Order <- MCOrder
  Dep <- MCDep
  Required = {scan, fix}
  Writers = {fix}
  MaxRetries = 1
  Retriers = {r1, r2}
  Reviewers = {v1, v2}
  Commands = {TRUE, FALSE}
  MaxRequests = 2
  MaxFaults = 1
  Outcomes = {"completed", "cancelled"}
INVARIANTS
  FactsTellTheEnd
  CompletedIsEarned
  DependenciesFirst
PROPERTIES
  NeverRequeued
  ReplacementsWhole
CHECK_DEADLOCK FALSE
