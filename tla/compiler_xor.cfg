CONSTANTS
    ImmBits = 6
    Depth = 120
    Inputs <- OrXorInputs
    Nodes <- MCNodes
    Pow2 <- PowersOfTwo
    WordAnd <- BitAnd
    WordOr <- BitOr
    WordXor <- BitXor
SPECIFICATION Spec
INVARIANT OutputRight
CHECK_DEADLOCK FALSE
