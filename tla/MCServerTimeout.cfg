CONSTANTS
  Requests = {r1, r2}
  RequestTimeout = 2
  ShutdownTimeout = 3
SPECIFICATION Spec
INVARIANT TimeoutCountsDrain
CHECK_DEADLOCK FALSE
