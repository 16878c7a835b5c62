SPECIFICATION RequestSpec
CONSTANTS
  None = None
  MaxTurns = 2
  MaxItems = 2
  MaxCalls = 2
  SearchTurns = 2
  Request = {r1}
  Entry = {e1}
  Forced = {e1}
  Fingerprint = {f1, f2}
  Refuses = {f1}
  Early = {b1}
  Late = {l1}
  Patch = {p1}
  MaxRows = 1
  MaxEdits = 0
  MaxTokens = 1
  MaxSegments = 1
INVARIANT CallsAreAnswered
CHECK_DEADLOCK FALSE
