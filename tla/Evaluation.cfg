SPECIFICATION Spec
CONSTANTS
  a = a
  b = b
  train = train
  test = test
  fa = fa
  fb = fb
  start = start
  later = later
  h1 = h1
  h2 = h2
  None = None
  Malformed = Malformed
  Paths <- MCPaths
  Splits <- MCSplits
  Ids <- MCIds
  Families = {fa, fb}
  Objectives <- MCObjectives
  Points = {start, later}
  Histories = {h1, h2}
  Snapshots = {1, 2}
  Lists <- MCLists
  Good <- MCGood
  MaxEdits = 2
  Alternatives <- MCAlternatives
  Observations <- MCObservations
  Decisions <- MCDecisions
  Terminals <- MCTerminals
INVARIANTS CorpusTypeOK LoadsTheWellFormed DriftIsNoticed PraiseIsEarned BlameHasARival
