SPECIFICATION RequestSpec
CONSTANTS
  None = None
  MaxTurns = 2
  MaxItems = 2
  MaxCalls = 2
  SearchTurns = 1
  Request = {r1, r2}
  Entry = {e1}
  Forced = {e1}
  Fingerprint = {f1, f2}
  Refuses = {f1}
  Early = {b1}
  Late = {l1}
  Patch = {p1}
  MaxRows = 1
  MaxEdits = 1
  MaxTokens = 1
  MaxSegments = 2
INVARIANTS TypeOK CallsAreAnswered  TokensAreCounted
PROPERTIES LearningIsEarned RepairEnds
CHECK_DEADLOCK FALSE
