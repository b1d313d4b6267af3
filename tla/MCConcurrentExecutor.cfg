CONSTANTS
  Calls = {c1}
  Tasks = {t1, t2, t3}
  Timeout = 2
SPECIFICATION FairSpec
INVARIANTS
  TypeOK
  OkMeansComplete
  SettledOnReturn
PROPERTIES
  StragglersStop
  TimedCallReturns
  RefinesTaskGroup
CHECK_DEADLOCK FALSE
