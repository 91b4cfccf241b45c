SPECIFICATION Spec
CONSTANTS
  ByteSize = 12
  MemSize = 2
  TIMEOUT_TICKS = 3
  RESET_TICKS = 2
  NUM_TICKS = 1
  NumIds = 2
  MaxGap = 1
  Sessions <- EmptyReadSession
INVARIANTS
  ReadLengthRight
