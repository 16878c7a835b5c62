CONSTANTS
  x1 = x1
  x2 = x2
  b = b
  Request = {r1, r2}
  Session = {}
  Candidate = {x1}
  Breaker = {b}
  Pair = {x1}
  BreakerOf <- OneBreaker
  PairOf <- OwnPairs
  Plans <- OneCandidate
  None = None
  MaxInflight = 2
  MaxAttempts = 1
  MaxFixes = 1
  Budget = 2
  CoolFor = 2
  MaxNow = 2
  FailureThreshold = 1
  SuccessThreshold = 1
  OpenFor = 1
  ErrorRatePct = 60
  MinRequests = 0
SPECIFICATION FairSpec
PROPERTIES ImplementsCircuit AnsweredOrRefused
