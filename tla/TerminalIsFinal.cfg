SPECIFICATION Spec
CONSTANTS
  Queued = {q1}
  Direct = {}
  Workers = {w1}
  Cancels = {}
  MaxRetries = 0
  MaxRedeliveries = 0
  MaxFaults = 0
  NoJob = NoJob
  Idle = Idle
  NoTask = NoTask
PROPERTIES
  TerminalIsFinal
CHECK_DEADLOCK FALSE
