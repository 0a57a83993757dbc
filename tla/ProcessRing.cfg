SPECIFICATION Spec
CONSTANTS
  PAGE_FRAME_MAX_COUNT = 8
  KERNEL_PAGE_COUNT = 1
  HEAP_PAGE_COUNT = 1
  MAX_PROCESS = 4
  MAX_PROCESS_FRAMES = 2
  HEAP_INDEX = 2
  KERNEL_INDEX = 3
  RequestSizes = {1, 4}
  BootSize = 1
  BootPrograms = 2
INVARIANTS
  RingWellFormed
  StatesAgree
  CleanSafe
  KernelPreemptible
PROPERTIES
  TerminatedUntilCleaned
  RoundRobinOrder
