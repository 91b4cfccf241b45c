SPECIFICATION Spec
CONSTANTS
  Addr = {0, 1}
  Value = {0, 1}
  BadData = 1
  Contents <- ZeroAndOne
  Requests <- DataAndFetch
INVARIANTS
  TypeOK
  RefusedIsNext
PROPERTIES
  ImplementsSharedMemory
