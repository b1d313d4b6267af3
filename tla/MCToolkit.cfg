CONSTANTS
  MaxFires = 2
  MaxMishaps = 2
  MaxWalks = 2
  WordMax = 4
  MaxAttempts = 2
  SymbolBits = 2
  ByteBits = 3
  WordBits = 5
  Alphabet <- FourSymbols
  CheckOnly <- OneMore
  MaxWorkflowIdLen = 7
  MaxText = 4
  MaxData = 3
  MaxRetries = 2
  MaxBody = 2
  JobSources <- UpToTwo
  Trees <- SmallTrees
  Maps <- SmallMaps
  Templates <- SmallTemplates
  FileLists <- TwoLayers
  Environments <- SmallEnvironments
SPECIFICATION ToolkitSpec
INVARIANTS
  FireSyncsAll
  WalkAccounts
  LimitsHold
  CodecExact
  ReplayAgrees
  RestOutcome
  LayersWin
CHECK_DEADLOCK FALSE
