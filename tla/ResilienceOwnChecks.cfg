SPECIFICATION ResilienceSpec
CONSTANTS
  Placements = {tier1, tier2, tier3, dedicated}
  BootPlacements = {tier1, tier2, tier3}
  OwnHealthCheck = {tier1, tier2}
  Checkers = {builtin, tier1, tier2}
  BuiltinChecker = builtin
  Nobody = nobody
INVARIANTS
  EveryProbeCounts
CHECK_DEADLOCK FALSE
