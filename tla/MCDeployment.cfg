CONSTANTS
  old = old
  new = new
  ops = ops
  t1 = t1
  s1 = s1
  Tasks = {t1}
  Workers = {old, new}
  Handlers <- MCHandlers
  Slots = 1
  MaxAttempts = 2
  HeartbeatTimeout = 2
  Callers = {old, new, ops}
  Ops = {ops}
  Schedules = {s1}
  Absent = Absent
  MaxLate = 1
  Plan <- MCPlan
  Kinds <- MCKinds
SPECIFICATION FairSpec
INVARIANTS
  RunsOnlyPlanned
  HeartbeatKeepsAlive
  RetriesAreTimeouts
  DrainFinishesWork
PROPERTY WorkerStops
CHECK_DEADLOCK FALSE
