SPECIFICATION Spec
CONSTANTS
  MaxCandidates = 4
  MaxActions = 3
  MaxElements = 2
INVARIANTS TypeOK AnswerIsRight NothingIsLost DisposedOnce
PROPERTIES ScanKeepsContract
