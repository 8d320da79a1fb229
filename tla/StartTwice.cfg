SPECIFICATION Spec
CONSTANTS
  c1 = c1
  c2 = c2
  Callers = {c1, c2}
  None = None
  Ops = {"start", "close"}
  MaxActions = 1
  MaxElements = 1
  MaxBackground = 0
  GenLimit = 1
  AwaitStart = FALSE
  Faults = {}
PROPERTIES StartedOnce
