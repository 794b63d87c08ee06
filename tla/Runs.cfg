SPECIFICATION Spec
CONSTANTS
  first = first
  again = again
  other = other
  plain = plain
  plan = plan
  Requests = {first, again, other, plain, plan}
  RouteOf <- MCRouteOf
  KeyOf <- MCKeyOf
  PromptOf <- MCPromptOf
  Cancels = {c1, c2}
  NoKey = noKey
  NoRun = noRun
  MaxRestarts = 1
INVARIANTS
  OneActiveRun
  KeyNamesOneRun
  ExecutedOnce
  TerminalFactOnce
CHECK_DEADLOCK FALSE
