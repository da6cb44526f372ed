SPECIFICATION MachinesSpec
CONSTANTS
  Templates <- SmallTemplates
  Requests <- SmallParameters
  TextClasses <- SmallTextClasses
  Jobs = {j1, j2, j3}
  Statuses <- SmallStatuses
  Times <- SmallTimes
  Stores <- SmallStores
  Limits <- SmallLimits
  Offsets <- SmallOffsets
  MaxWrites = 1
  MaxRepeats = 1
  AnyStatus = AnyStatus
  NoJob = NoJob
  Unreadable = Unreadable
  Files <- SmallFiles
  MaxFile = 6
  Lines <- SmallLines
  ChunkSize = 2
  MaxBytes = 3
  Histories <- SmallHistories
  Escapes <- SmallEscapes
  NoOutput = NoOutput
  Users = {u1, u2}
  Keys = {k1, k2}
  Calls = {r1, r2}
  TokenLife = 1
  MaxClock = 1
  MaxTokens = 1
  Nobody = Nobody
INVARIANTS
  MachineTypeOK
  Injected
  FailsIffBroken
  StandingJobsFound
  PagesFit
  TailIsTail
  ParsedOutputs
  UrlServesOutput
  RevokedAreOut
PROPERTY
  NoRightsReturn
SYMMETRY Symmetry
CHECK_DEADLOCK FALSE
