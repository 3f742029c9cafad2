SPECIFICATION HandlerSpec
CONSTANTS
  tier1 = tier1
  tier2 = tier2
  tier3 = tier3
  NoPlacement = none
  Nobody = nobody
  BuiltinChecker = builtin
  Placements = {tier1, tier3}
  BootPlacements = {tier1, tier3}
  OwnHealthCheck = {}
  Checkers = {builtin}
  Routable = {tier1, tier3}
  DefaultPlacement = tier3
  Fallback <- ChainFallback
  ConcurrencyLimit <- SmallLimits
  MaxBody <- BodyLimits
  BodySizes <- SomeBodies
  Requests = {r1, r2, r3}
  FailureThreshold = 2
  CounterRange = 4
SYMMETRY Interchangeable
INVARIANTS
  HandlerTypeOK
  SlotAccounting
  HalfOpenIsProbed
PROPERTY
  ImplementsBulkhead
