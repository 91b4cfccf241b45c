SPECIFICATION Spec
CONSTANTS
  XLEN = 4
  Pow2 <- PowersOfTwo
  WordAnd <- BitAnd
  WordOr <- BitOr
  WordXor <- BitXor
  Operand <- Boundaries
INVARIANTS
  ResultRight
  BranchRight
PROPERTIES
  ImplementsExecUnit
