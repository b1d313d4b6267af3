CONSTANTS
  Calls = {c1}
  Tasks = {t1, t2, t3}
  Timeout = 2
SPECIFICATION Spec
INVARIANT OverallTimeout
CHECK_DEADLOCK FALSE
