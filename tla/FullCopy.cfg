SPECIFICATION CopyFairSpec
CONSTANTS
  Seed = 2
  Client = 1
  Key = {"r", "c"}
  Schema = {"c"}
  LogicalSize = 16
  Size = 2
  Chunk = 2
  Writes <- WritesMC
  UserWrites <- UserMC
  MaxSnapshots = 2
  MaxResyncs = 1
  MaxEvents = 2
INVARIANTS CopyTypeOK CopyIsWhole  NoWriteLost NumbersAreFresh
PROPERTIES  StartEnds
CHECK_DEADLOCK FALSE
