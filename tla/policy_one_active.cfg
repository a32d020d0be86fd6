\* Two policies at the start of the operator and nobody who touches them.
SPECIFICATION Spec
CONSTANTS
  cluster = cluster
  p2 = p2
  Nobody = Nobody
  Policies <- Two
  DefaultPolicy = cluster
  MaxOps = 0
  MaxLag = 2
INVARIANTS AtMostOneActiveWhenIdle
CHECK_DEADLOCK FALSE
