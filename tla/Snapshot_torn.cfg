SPECIFICATION SnapshotSpec
CONSTANTS
  Node <- Two
  Col <- OneCol
  Rec <- OneRec
  LogicalSize = 8
  Retention = 0
  ResumeAge = 1
  MaxBatch = 1
  Fresh = {2}
  PullFrom <- PullTorn
  Collecting = {}
  Writes <- WritesTorn
  UserWrites <- UserTorn
  Wanted <- NoPush
  MaxNow = 0
  MaxEvents = 0
INVARIANTS VectorIsShown
CHECK_DEADLOCK FALSE
