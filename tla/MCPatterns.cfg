CONSTANTS
  MaxItems = 3
  MaxCap = 2
  MoreCalls <- ProgramCalls
  Free = Free
SPECIFICATION ExampleSpec
INVARIANTS
  OrderNeverShows
  CapHolds
  PipelineStops
  ExamplesAsDocumented
PROPERTIES
  PatternReturns
CHECK_DEADLOCK FALSE
