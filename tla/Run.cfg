SPECIFICATION RunSpec
CONSTANTS
  Runner = task
  Callers = {task}
  None = None
  Ops = {"start", "close", "navigate", "inspect", "click", "type", "diagnostics", "screenshot", "finish", "help"}
  MaxActions = 7
  MaxElements = 1
  MaxBackground = 1
  GenLimit = 7
  AwaitStart = TRUE
  Faults = {"error"}
INVARIANTS ResultIsHonest LeakHasACause
PROPERTIES RunEnds
