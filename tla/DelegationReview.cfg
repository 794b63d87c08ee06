SPECIFICATION Spec
CONSTANTS
  scan = scan
  fix = fix
  Names = {scan, fix}
  Order <- MCOrder
  Dep <- MCDep
  Required = {scan, fix}
  Writers = {fix}
  MaxRetries = 1
  Retriers = {}
  Reviewers = {}
  Commands = {FALSE}
  MaxRequests = 0
  MaxFaults = 0
  Outcomes = {"completed", "failed"}
INVARIANT WorktreesReviewed
CHECK_DEADLOCK FALSE
