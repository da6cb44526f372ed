SPECIFICATION FairSpec
CONSTANTS
  Queued = {}
  Direct = {d1, d2}
  Workers = {w1}
  Cancels = {d1}
  MaxRetries = 0
  MaxRedeliveries = 0
  MaxFaults = 0
  NoJob = NoJob
  Idle = Idle
  NoTask = NoTask
INVARIANTS
  CompletedIsRendered
  CompletedEventIsTrue
PROPERTIES
  DirectSettles
CHECK_DEADLOCK FALSE
