SPECIFICATION FairSpec
CONSTANTS
  Resolution = 1
  WallClock = 5
  NavigationTimeout = 3
  ActionTimeout = 2
  MaxActions = 3
  MaxUnguarded = 3
PROPERTIES OperationCodesMeanTheOperation
