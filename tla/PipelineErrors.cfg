CONSTANTS
  Block = {0}
  None = None
  PendingCap = 2
  ThinkingCap = 1
  FirstContent = 2
  Idle = 2
  PingEvery = 1
  MaxPings = 0
  MaxDeltas = 1
  MaxEvents = 4
SPECIFICATION Spec
INVARIANT ErrorsAreFinal
CHECK_DEADLOCK FALSE
