SPECIFICATION FairSpec
CONSTANTS
  Resolution = 2
  WallClock = 9
  NavigationTimeout = 3
  ActionTimeout = 2
  MaxActions = 3
  MaxUnguarded = 3
INVARIANTS TypeOK OverrunIsUnguarded
PROPERTIES NeverGivenUpEarly SessionEnds
