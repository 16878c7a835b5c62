CONSTANTS
  x1 = x1
  x2 = x2
  b = b
  Request = {r1, r2}
  Session = {s1}
  Candidate = {x1, x2}
  Breaker = {b}
  Pair = {x1, x2}
  BreakerOf <- OneBreaker
  PairOf <- OwnPairs
  Plans <- TwoKeys
  None = None
  MaxInflight = 1
  MaxAttempts = 2
  MaxFixes = 0
  Budget = 0
  CoolFor = 2
  MaxNow = 1
  FailureThreshold = 1
  SuccessThreshold = 1
  OpenFor = 1
  ErrorRatePct = 60
  MinRequests = 0
  MaxTokensOf = {1024, 100000}
  Limits = {1000, 8192, 40000}
  BudgetsOf = {500, 20000}
  MaxBlocks = 2
  MaxTools = 2
  MaxOps = 2
  ArrayKeep = 1
  DepthLimit = 2
SPECIFICATION RepairSpec
SYMMETRY Symmetry
INVARIANTS RequestsAreConcluded ThinkingFits RepairsCompose PlacesAgree WordsStay
