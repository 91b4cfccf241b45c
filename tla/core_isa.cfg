SPECIFICATION Spec
CONSTANTS
  WordSize = 8
  NumRegs = 3
  DivTicks = 2
  MaxWait = 1
  Programs <- FourPrograms
  DebugAccesses <- Reader
  MayHalt = TRUE
  MayReset = TRUE
INVARIANTS
  TypeOK
  ScoreboardExact
  ExecHoldsOne
  RedirectKept
  OperandsCurrent
  AnswersReachTheirOwner
  HaltedIsTrue
PROPERTIES
  ImplementsIsa
  HaltFreezes
  FetchRequestHeld
