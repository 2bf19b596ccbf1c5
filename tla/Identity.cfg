SPECIFICATION IdentityFairSpec
CONSTANTS
  Process = {1, 2, 3}
  Original = 1
  Clone = 2
  Id = {1, 2, 3, 4}
  FirstId <- FirstIdMC
  LogicalSize = 16
  Configs <- ConfigsMC
  Writes <- WritesMC
INVARIANTS IdentityTypeOK   NoFalseAlarm
PROPERTIES StrictIdsStay 
CHECK_DEADLOCK FALSE
