SPECIFICATION ClockSpec
CONSTANTS
  LogicalSize = 3
  MaxWall = 2
  MaxEvents = 4
INVARIANTS ClockTypeOK IssuedIncreases
