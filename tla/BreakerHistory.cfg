SPECIFICATION HistorySpec
CONSTANTS
  Placements = {tier1, tier2}
  FailureThreshold = 3
  CounterRange = 8
INVARIANTS
  BreakerTypeOK
  ClosedBelowThreshold
PROPERTY
  ImplementsContract
