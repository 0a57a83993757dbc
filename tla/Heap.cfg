SPECIFICATION HeapSpec
CONSTANTS
  HEADER = 2
  HEAP_SIZE = 12
  RequestSizes = {0, 1, 2, 3}
INVARIANTS
  HeapTypeOK
  BlocksTile
  IdleHeapIsNew
PROPERTIES
  KeepsWhatIsHeld
CHECK_DEADLOCK FALSE
