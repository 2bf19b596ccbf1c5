SPECIFICATION ApplySpec
CONSTANTS
  Node <- Two
  Col <- OneCol
  Rec <- OneRec
  ColOf <- RecCol
  Content = {1}
  InitialSchema <- Present
  LogicalSize = 2
  QueueCap = 1
  ApplyBatch = 1
  MaxPending = 1
  Handlers = 1
  Writes <- OneWriteCount
  WriteTypes <- OneWriter
  MaxWall = 0
  MaxFailures = 0
  MaxRestarts = 1
INVARIANTS AlwaysConverges
CHECK_DEADLOCK FALSE
