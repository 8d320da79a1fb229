SPECIFICATION Spec
CONSTANTS
  console = console
  network = network
  Channels = {console, network}
  MaxArtifacts = 2
  MaxCalls = 3
  MaxSessions = 2
  Interrupts = TRUE
  Capacity = 2
  MaxEvents = 4
SYMMETRY ChannelSymmetry
INVARIANTS ScreenshotTypeOK PageRestored ReportedIsComplete
INVARIANTS DiagnosticsTypeOK BufferIsTail AnswerIsHonest AnswerIsNewest
PROPERTIES NeverOverwritten
