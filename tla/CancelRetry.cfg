SPECIFICATION FairSpec
CONSTANTS
  Queued = {q1}
  Direct = {}
  Workers = {w1}
  Cancels = {q1}
  MaxRetries = 1
  MaxRedeliveries = 0
  MaxFaults = 1
  NoJob = NoJob
  Idle = Idle
  NoTask = NoTask
INVARIANTS
  FailedIsOver
PROPERTIES
  CancelledStaysQuiet
  ImplementsTracker
  WorkDrains
CHECK_DEADLOCK FALSE
