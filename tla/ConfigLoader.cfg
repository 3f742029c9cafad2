SPECIFICATION DebugSpec
CONSTANTS
  acme = acme
  visa = visa
  tier1 = tier1
  tier3 = tier3
  v1 = v1
  v2 = v2
  urlA = urlA
  urlB = urlB
  Placements = {tier1, tier3, visa}
  Tiers = {tier1, tier3}
  NoVersion = noversion
  NoFallback = nofallback
  EmptyKey = emptykey
  BadUrl = badurl
  Null = null
  NoRoute = noroute
  Contents <- AllFiles
  Edits <- AnyEdit
  Broadcasts = {}
  Unparsable = unparsable
  Missing = missing
  NoConfig = noconfig
  FollowsFile = TRUE
  Viewers = {d1, d2}
  EditsAnytime = FALSE
INVARIANTS
  LoaderTypeOK
  LastKnownGood
  ChecksumTellsActive
  DebugTypeOK
  AnswersMoveForward
PROPERTIES
  BadReloadsAreSurvived
  SettledFileIsServed
CHECK_DEADLOCK FALSE
