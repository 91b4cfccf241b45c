SPECIFICATION Spec
CONSTANTS
  XLEN = 2
  Pow2 <- PowersOfTwo
  Operand <- Word
INVARIANTS
  TypeOK
  ResultRight
  DueOnce
  DivisionInvariant
PROPERTIES
  ImplementsExecUnit
