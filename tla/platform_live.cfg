\* Two operators, one of which never comes up, and the observability stack, which may come late.
SPECIFICATION FairSpec
CONSTANTS
  rds = rds
  crunchy = crunchy
  plugin = plugin
  quickstarts = quickstarts
  observability = observability
  NoPlatform = NoPlatform
  Platforms <- OperatorsAndStack
  Kind <- KindOfPlatform
  Stuck <- OneStuck
  Present <- None
  MaxMishaps = 1
PROPERTY OthersInstalled
CHECK_DEADLOCK FALSE
