SPECIFICATION ApplyFairSpec
CONSTANTS
  Node <- Two
  Col <- OneCol
  Rec <- OneRec
  ColOf <- RecCol
  Content = {1}
  InitialSchema <- Absent
  LogicalSize = 2
  QueueCap = 1
  ApplyBatch = 1
  MaxPending = 1
  Handlers = 1
  Writes <- CreatorWrites
  WriteTypes <- Creators
  MaxWall = 0
  MaxFailures = 1
  MaxRestarts = 0
INVARIANTS ApplyTypeOK Accounted
PROPERTIES QueueDrains
CHECK_DEADLOCK FALSE
