CONSTANTS
  x1 = x1
  x2 = x2
  b = b
  Request = {r1}
  Session = {}
  Candidate = {x1}
  Breaker = {b}
  Pair = {x1}
  BreakerOf <- OneBreaker
  PairOf <- OwnPairs
  Plans <- OneCandidate
  None = None
  MaxInflight = 1
  MaxAttempts = 1
  MaxFixes = 0
  Budget = 1
  CoolFor = 2
  MaxNow = 1
  FailureThreshold = 1
  SuccessThreshold = 1
  OpenFor = 1
  ErrorRatePct = 60
  MinRequests = 0
SPECIFICATION FairSpec
PROPERTY EveryRequestIsAnswered
