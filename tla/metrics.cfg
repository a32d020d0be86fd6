SPECIFICATION Spec
CONSTANTS
  Kinds <- TwoKinds
  Providers <- TwoProviders
  MaxOps = 3
  MaxFaults = 1
INVARIANTS TypeOK GaugesAtRest
PROPERTIES GaugeSettles PhaseSettles
CHECK_DEADLOCK FALSE
