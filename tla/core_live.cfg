SPECIFICATION LiveSpec
CONSTANTS
  WordSize = 8
  NumRegs = 3
  DivTicks = 2
  MaxWait = 1
  Programs <- ThreePrograms
  DebugAccesses <- NoDebugger
  MayHalt = TRUE
  MayReset = FALSE
PROPERTIES
  HaltHappens
  Retires
