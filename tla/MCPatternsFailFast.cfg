CONSTANTS
  MaxItems = 3
  MaxCap = 2
  MoreCalls = {}
SPECIFICATION Spec
INVARIANT FailFastAborts
CHECK_DEADLOCK FALSE
