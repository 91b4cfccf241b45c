SPECIFICATION Spec
CONSTANTS
  ByteSize = 2
  Words = 1
  StoreData <- OneLane
PROPERTIES
  ImplementsByteMemory
