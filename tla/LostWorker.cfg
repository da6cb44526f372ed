SPECIFICATION FairSpec
CONSTANTS
  Queued = {q1}
  Direct = {}
  Workers = {w1}
  Cancels = {}
  MaxRetries = 1
  MaxRedeliveries = 1
  MaxFaults = 0
  NoJob = NoJob
  Idle = Idle
  NoTask = NoTask
INVARIANTS
  TypeOK
  RenderBudget
  CopiesBounded
PROPERTIES
  WorkDrains
CHECK_DEADLOCK FALSE
