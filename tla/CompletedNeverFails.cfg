SPECIFICATION Spec
CONSTANTS
  Queued = {q1}
  Direct = {}
  Workers = {w1}
  Cancels = {}
  MaxRetries = 1
  MaxRedeliveries = 0
  MaxFaults = 1
  NoJob = NoJob
  Idle = Idle
  NoTask = NoTask
INVARIANTS
  CompletedNeverFails
CHECK_DEADLOCK FALSE
