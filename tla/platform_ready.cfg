\* The console plugin's roll-out before and after the pass that finishes.
SPECIFICATION FairSpec
CONSTANTS
  rds = rds
  crunchy = crunchy
  plugin = plugin
  quickstarts = quickstarts
  observability = observability
  NoPlatform = NoPlatform
  Platforms <- PluginAndQuickstarts
  Kind <- KindOfPlatform
  Stuck <- None
  Present <- None
  MaxMishaps = 0
PROPERTY ReadyReported
CHECK_DEADLOCK FALSE
