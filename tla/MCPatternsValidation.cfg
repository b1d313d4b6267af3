CONSTANTS
  MaxItems = 3
  MaxCap = 2
  MoreCalls = {}
SPECIFICATION Spec
INVARIANT OnlyValidDispatched
CHECK_DEADLOCK FALSE
