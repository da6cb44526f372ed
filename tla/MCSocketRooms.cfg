SPECIFICATION Spec
CONSTANTS
  Jobs = {j1}
  Publishers = {p1, p2}
  Sids = {s1}
  Calls = {c1, c2}
  MaxOps = 3
  MaxFaults = 1
  NoJob = NoJob
  Idle = Idle
  NoEntry = NoEntry
  NoCall = NoCall
  NoNews = NoNews
INVARIANTS
  TypeOK
  NoMissedEnd
  EntriesEnd
SYMMETRY Symmetry
CHECK_DEADLOCK FALSE
