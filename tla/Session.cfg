SPECIFICATION Spec
CONSTANTS
  c1 = c1
  c2 = c2
  Callers = {c1, c2}
  None = None
  Ops = {"start", "close", "navigate", "inspect", "click", "type", "diagnostics", "screenshot", "finish", "help"}
  MaxActions = 3
  MaxElements = 1
  MaxBackground = 1
  GenLimit = 3
  AwaitStart = TRUE
  Faults = {"cancel", "error"}
SYMMETRY CallerSymmetry
INVARIANTS TypeOK OneAtATime LockIsWorked BudgetHolds ReferencesAnswer TargetIsCurrent CleanupComplete
PROPERTIES NeverReissued ClosedIsFinal BlameIsFresh DeniedIsReported KeepsContract
