CONSTANTS
    ImmBits = 6
    Depth = 120
    Inputs <- MCInputs
    Nodes <- MCNodes
    Pow2 <- PowersOfTwo
    WordAnd <- BitAnd
    WordOr <- BitOr
    WordXor <- BitXor
SPECIFICATION Spec
INVARIANTS TypeOK ParsesBack SlotsDisjoint ImageRight StackDiscipline OutputRight
PROPERTY Ends
CHECK_DEADLOCK FALSE
