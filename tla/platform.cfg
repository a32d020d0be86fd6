\* An operator, the console plugin and the observability stack: faults and losses around every step of a pass.
SPECIFICATION Spec
CONSTANTS
  rds = rds
  crunchy = crunchy
  plugin = plugin
  quickstarts = quickstarts
  observability = observability
  NoPlatform = NoPlatform
  Platforms <- ThreeKinds
  Kind <- KindOfPlatform
  Stuck <- None
  Present <- OnePresent
  MaxMishaps = 1
INVARIANTS TypeOK ReadyMeansSuccess ReadyMeansComplete
CHECK_DEADLOCK FALSE
