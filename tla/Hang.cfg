SPECIFICATION TimedSpec
CONSTANTS
  c1 = c1
  c2 = c2
  Callers = {c1, c2}
  None = None
  Ops = {"start", "inspect", "click"}
  MaxActions = 2
  MaxElements = 1
  MaxBackground = 0
  GenLimit = 2
  AwaitStart = TRUE
  Faults = {}
PROPERTIES CallsReturn
