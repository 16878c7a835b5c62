SPECIFICATION RoutingSpec
CONSTANTS
  a = a
  b = b
  c = c
  Key = {k1}
  Model = {m}
  Every = Every
  Worker = {w1, w2}
  Clearer = {c1}
  Deletable = {k1}
  Nobody = Nobody
  Hint = {1}
  BackoffBase = 1
  BackoffMax = 2
  QueueCap = 2
  MaxNow = 2
  MaxHits = 1
  Session = {s1}
  Target = {x, y}
  None = None
  Interval = 2
  Ttl = 3
  SessionsMaxNow = 6
  Candidate = {a, b, c}
  Pools <- ThreeOrNone
  Attributes <- Ranked
  Hash <- HashABC
  Unused = Unused
SYMMETRY Symmetry
INVARIANTS TypeOK TablesFollowMaps HolderGoesOn PlanFollowsTheRules
