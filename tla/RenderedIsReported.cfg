SPECIFICATION FairSpec
CONSTANTS
  Queued = {}
  Direct = {d1}
  Workers = {w1}
  Cancels = {}
  MaxRetries = 0
  MaxRedeliveries = 0
  MaxFaults = 0
  NoJob = NoJob
  Idle = Idle
  NoTask = NoTask
PROPERTIES
  RenderedIsReported
CHECK_DEADLOCK FALSE
