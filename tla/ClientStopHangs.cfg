SPECIFICATION PushSpec
CONSTANTS
  acme = acme
  tier1 = tier1
  tier3 = tier3
  urlA = urlA
  urlB = urlB
  Placements = {tier1, tier3}
  Tiers = {tier1, tier3}
  NoVersion = noversion
  NoFallback = nofallback
  EmptyKey = emptykey
  BadUrl = badurl
  Null = null
  NoRoute = noroute
  Unparsable = unparsable
  Missing = missing
  NoConfig = noconfig
  EditsAnytime = TRUE
  FollowsFile = FALSE
  NoConn = noconn
  Conns = {k1}
  PeerConns = {}
  Capacity = 1
  Contents <- BootstrapFile
  Edits <- NoEdits
  Broadcasts <- Published
PROPERTY
  StopStops
