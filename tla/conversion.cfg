\* Clients of both versions, all kinds; instances of a provider (RDS) whose
\* parameters do not repeat the fields of the spec; providers of two kinds.
SPECIFICATION Spec
CONSTANTS
  Objects <- AllKinds
  Values <- TwoValues
  Nil = Nil
  MaxOps = 2
INVARIANTS TypeOK AlphaSeesItsWrite
PROPERTIES AlphaWriteStable UneditedWriteKeeps
CHECK_DEADLOCK FALSE
