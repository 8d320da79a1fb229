SPECIFICATION LiveSpec
CONSTANTS
  c1 = c1
  c2 = c2
  Callers = {c1, c2}
  None = None
  Ops = {"start", "close", "navigate", "inspect", "click", "finish"}
  MaxActions = 2
  MaxElements = 1
  MaxBackground = 1
  GenLimit = 2
  AwaitStart = TRUE
  Faults = {}
PROPERTIES CallsReturn EventuallyReleased
