SPECIFICATION Spec
CONSTANTS
  XLEN = 2
  Pow2 <- PowersOfTwo
  WordAnd <- BitAnd
  WordOr <- BitOr
  WordXor <- BitXor
  NumRegs = 2
  MaxWait = 0
  Programs <- SmallPrograms
  DebugAccesses <- NoDebugger
  MayHalt = FALSE
  MayReset = TRUE
PROPERTIES
  ImplementsCore
  ImplementsIsa
