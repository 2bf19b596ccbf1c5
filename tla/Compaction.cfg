SPECIFICATION CompactionFairSpec
CONSTANTS
  Node <- Two
  Rec <- TwoRec
  LogicalSize = 4
  Skew <- NoSkew
  Retention = 1
  Interval = 0
  MaxBatch = 1
  Writes <- WritesMC
  UserWrites <- UserMC
  Lossy = {2}
  PullFrom <- PullMC
  Wanted <- WantedMC
  PassTimes <- TimesMC
  MaxNow = 2
  MaxEvents = 1
INVARIANTS CompactionTypeOK NoResurrection ClockPassesFence LogIsApplied 
PROPERTIES RepairsAreDue GarbageGoes
CHECK_DEADLOCK FALSE
