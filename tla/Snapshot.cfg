SPECIFICATION SnapshotSpec
CONSTANTS
  Node <- Three
  Col <- OneCol
  Rec <- TwoRec
  LogicalSize = 8
  Retention = 0
  ResumeAge = 1
  MaxBatch = 1
  Fresh = {2}
  PullFrom <- PullMC
  Collecting = {1}
  Writes <- WritesMC
  UserWrites <- UserMC
  Wanted <- WantedMC
  MaxNow = 1
  MaxEvents = 1
INVARIANTS SnapshotTypeOK 
PROPERTIES ReconcilesWhatIsGone 
CHECK_DEADLOCK FALSE
