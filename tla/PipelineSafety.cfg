CONSTANTS
  Block = {0, 1}
  None = None
  PendingCap = 2
  ThinkingCap = 1
  FirstContent = 2
  Idle = 2
  PingEvery = 1
  MaxPings = 1
  MaxDeltas = 2
  MaxEvents = 8
SPECIFICATION FairSpec
INVARIANTS ClientStreamIsLegal ContentSurvives ThinkingStaysHidden
PROPERTY WaitsEnd
CHECK_DEADLOCK FALSE
