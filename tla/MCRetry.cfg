CONSTANT MaxRetries = 4
SPECIFICATION FairSpec
INVARIANTS
  ExhaustedCounts
  CancelStopsAttempts
PROPERTIES
  CancelWakes
CHECK_DEADLOCK FALSE
