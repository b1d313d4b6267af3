CONSTANTS
  Executions = {e1, e2}
  NumPartitions = 3
  Start <- MCStart
  End <- MCEnd
  MaxPerExec = 2
  MaxFaults = 2
SPECIFICATION FairSpec
INVARIANTS
  TypeOK
  CursorCoversOnlyApplied
  FinishedMeansSynced
PROPERTIES
  StartedJobFinishes
  RefinesResumableSync
