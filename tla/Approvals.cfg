SPECIFICATION Spec
CONSTANTS
  edit = edit
  run = run
  push = push
  allowEdit = allowEdit
  denyEdit = denyEdit
  allowRun = allowRun
  allowPush = allowPush
  Calls = {edit, run, push}
  AgentOf <- MCAgentOf
  Answers = {allowEdit, denyEdit, allowRun, allowPush}
  To <- MCTo
  Verdict <- MCVerdict
  Cancels = {c1, c2}
INVARIANTS
  WaitersReachable
  AllowedByUser
  AcceptedCounts
PROPERTIES
  CancelledStays
  DecisionsWake
CHECK_DEADLOCK FALSE
