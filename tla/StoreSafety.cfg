CONSTANTS
  c = c
  Channel = {c}
  Key = {k1, k2}
  Entry = {e1}
  ChannelOf <- OneChannel
  Request = {r1}
  Task = {x1, x2}
  QueueCap = 1
  Faults = TRUE
  Name = {P, B}
  Route = {H, R}
  PresetName = P
  Home = H
  Header = {h1, h2}
  Secret = {x1, x2}
  Model = {m1}
  MaxId = 2
  MaxEdits = 3
  MaxPending = 1
  None = None
  Admin = {a1}
  Owner = {o1, o2}
  MaxRow = 3
  MaxLayers = 2
  FirstPlace = 1
  JsonName = {B}
  Hash = {h1, h2}
  Rule = {r}
  Label = {l}
  Retention = 1
  Keep = 2
  LedgerMaxNow = 4
  MaxRequests = 3
  Client = {x1, x2}
  Address = {a}
  Word = {y1, y2}
  Cookie = {y1, y2}
  MaxFailures = 1
  Window = 1
  Ttl = 2
  MaxClock = 3
  MaxLogins = 5
  Kind = {x1, x2}
  Floor = 2
  Intervals = {0, 3}
  MaxHour = 3
  Handler = {x1, x2}
  MaxSlot = 2
  MaxChanges = 4
  Token = {y1, y2}
  Options = {l, r}
  Bundle = {y1, y2}
  Broken = Broken
  Upload = {x1, x2}
  MaxSecond = 1
  Searcher = {s1}
  ApiKey = {x1, x2}
  MaxBackend = 2
  MaxAlter = 4
  Wait = {1}
  MaxInstant = 1
  Pending = 1
  Unused = Unused
SPECIFICATION StoreSpec
SYMMETRY Symmetry
INVARIANTS StoreTypeOK PoolIsClosed RejectionIsQueued 
INVARIANTS LimitsHold AccessIsCurrent DeploymentsAreOwn SearchesGoInOrder
PROPERTIES PagesAreTakenWhole LogIsKept
CHECK_DEADLOCK FALSE
