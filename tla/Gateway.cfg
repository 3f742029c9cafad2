SPECIFICATION GatewaySpec
CONSTANTS
  acme = acme
  stranger = stranger
  visa = visa
  tier1 = tier1
  tier3 = tier3
  v1 = v1
  v2 = v2
  urlA = urlA
  urlB = urlB
  Placements = {tier1, tier3, visa}
  Tiers = {tier1, tier3}
  NoVersion = noversion
  NoFallback = nofallback
  EmptyKey = emptykey
  BadUrl = badurl
  Null = null
  NoRoute = noroute
  Unparsable = unparsable
  Missing = missing
  NoConfig = noconfig
  EditsAnytime = TRUE
  Callers = {r1}
  Keys = {acme, stranger}
  Contents <- Files
  Edits <- Rollouts
  Broadcasts = {}
  FollowsFile = TRUE
  NoUrl = nourl
  Nothing = nothing
INVARIANTS
  GatewayTypeOK
  RolloutsKeepRouting
  PartsChangeAtomically
  EndpointsOfOneConfig
  FailoversHaveEndpoints
CHECK_DEADLOCK FALSE
