SPECIFICATION FairHandlerSpec
CONSTANTS
  tier1 = tier1
  tier2 = tier2
  tier3 = tier3
  NoPlacement = none
  Nobody = nobody
  BuiltinChecker = builtin
  Placements = {tier1, tier2, tier3}
  BootPlacements = {tier1, tier2, tier3}
  OwnHealthCheck = {}
  Checkers = {builtin}
  Routable = {tier1, tier3}
  DefaultPlacement = tier1
  Fallback <- RingFallback
  ConcurrencyLimit <- OneEach
  MaxBody <- BodyLimitsOfRing
  BodySizes <- SomeBodies
  Requests = {r1, r2}
  FailureThreshold = 1
  CounterRange = 2
INVARIANTS
  OpenCircuitNotBypassed
  EveryProbeCounts
PROPERTIES
  EveryRequestAnswered
  HalfOpenResolves
  OpenCircuitsAreRetried
