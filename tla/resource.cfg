\* An object of each kind and its provider object: each mirrors the other, and the object becomes ready.
SPECIFICATION FairSpec
CONSTANTS
  Kinds <- AllKinds
  Specs <- TwoSpecs
  MaxOps = 2
  MaxFaults = 1
INVARIANTS TypeOK SpecMirroredWhenIdle StatusMirroredWhenIdle
PROPERTIES ReadyForOwnSpec EventuallyReady ImplementsMirror
CHECK_DEADLOCK FALSE
