\* One mishap in what the platform controller keeps in order.
SPECIFICATION Spec
CONSTANTS
  Hooks <- TwoHooks
  AuthTypes <- ThreeAuthTypes
  MaxOps = 1
  MaxLag = 1
INVARIANT TypeOK
PROPERTIES UserObjectsKept WebhooksSettle ConversionRestored RDSUpgraded RemoteWriteRestored
CHECK_DEADLOCK FALSE
