CONSTANTS
  Requests = {r1, r2}
  RequestTimeout = 2
  ShutdownTimeout = 3
  Inits = {main, lib}
  Main = main
  NoProvider = NoProvider
SPECIFICATION ServiceFairSpec
INVARIANTS
  NothingUnflushed
PROPERTIES
  ShutdownReturns
  NoRequestAbandoned
CHECK_DEADLOCK FALSE
