\* Instances of Mongo Atlas.
SPECIFICATION Spec
CONSTANTS
  Objects <- AtlasInstance
  Values <- TwoValues
  Nil = Nil
  MaxOps = 1
INVARIANT AlphaSeesItsWrite
CHECK_DEADLOCK FALSE
