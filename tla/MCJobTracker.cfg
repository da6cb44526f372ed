SPECIFICATION Spec
CONSTANTS
  Jobs = {j1}
  Clients = {c1, c2}
  Prompts = {p1, p2}
  NoPrompt = NoPrompt
  MaxRetries = 1
  NoJob = NoJob
  Idle = Idle
SYMMETRY Symmetry
INVARIANTS
  TypeOK
  RecordsCoherent
PROPERTIES
  CancelIsFinal
  CompletedNotDowngraded
