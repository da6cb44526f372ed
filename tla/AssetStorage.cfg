SPECIFICATION FairSpec
CONSTANTS
  Uploads = {u1}
  Outputs = {o1}
  Spellings = {plain, dotted}
  Registrations = {r1, r2}
  FromWorker = {r2}
  Deletes = {d1}
  Cleanups = {c1}
  MaxSize = 2
  MaxFaults = 1
  NoPath = NoPath
  NoAsset = NoAsset
INVARIANTS
  TypeOK
  RowHasFile
  NoOrphanUpload
  RemovedIsGone
  SameAsset
PROPERTIES
  ExpiredUploadsGo
CHECK_DEADLOCK FALSE
