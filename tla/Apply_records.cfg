SPECIFICATION ApplySpec
CONSTANTS
  Node <- Two
  Col <- OneCol
  Rec <- OneRec
  ColOf <- RecCol
  Content = {1}
  InitialSchema <- Present
  LogicalSize = 2
  QueueCap = 2
  ApplyBatch = 2
  MaxPending = 1
  Handlers = 1
  Writes <- RecordWriteCounts
  WriteTypes <- RecordWriters
  MaxWall = 0
  MaxFailures = 1
  MaxRestarts = 1
INVARIANTS RowIsWinner Accounted Converged
PROPERTIES VersionsAdvance
CHECK_DEADLOCK FALSE
