SPECIFICATION FairSpec
CONSTANTS
  Channel = {c1}
  Model = {m1}
  Every = Every
  NoKey = NoKey
  Attempt = {a1, a2, a3}
  FailureThreshold = 2
  SuccessThreshold = 2
  OpenFor = 2
  ErrorRatePct = 60
  MinRequests = 3
  IdleFor = 2
  MaxNow = 7
INVARIANTS TypeOK BreakersAreConsistent HeldSlotHasHolder
PROPERTIES OpenUntilExpired SlotIsGivenBack ImplementsCircuit
