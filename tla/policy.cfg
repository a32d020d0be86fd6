\* Two policies: every race between their reconciles, deletions and restarts.
SPECIFICATION FairSpec
CONSTANTS
  cluster = cluster
  p2 = p2
  Nobody = Nobody
  Policies <- Two
  DefaultPolicy = cluster
  MaxOps = 1
  MaxLag = 2
INVARIANTS TypeOK IInv SomeActiveWhenIdle ReconciledWhenIdle
PROPERTIES DemotedOnlyForAnother EventuallyActive
CHECK_DEADLOCK FALSE
