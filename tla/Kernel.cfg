SPECIFICATION KernelFairSpec
CONSTANTS
  PAGE_FRAME_MAX_COUNT = 7
  KERNEL_PAGE_COUNT = 1
  HEAP_PAGE_COUNT = 1
  MAX_PROCESS = 3
  MAX_PROCESS_FRAMES = 3
  HEAP_INDEX = 3
  KERNEL_INDEX = 4
  RequestSizes = {4, 8}
  BootSize = 1
  BootPrograms = 2
  WindowsPerProcess = 1
  Handle <- MCHandle
  Owner <- MCOwner
  Xlen <- MCSize
  Ylen <- MCSize
  Place <- MCPlace
  SCREEN_WIDTH = 0
  SCREEN_HEIGHT = 0
  Background = NoWindow
  MAX_WINDOW_NUM = 2
INVARIANTS
  IInv
  FramesOwnedOnce
  FramesAccounted
  AddressSpace
  WindowsHaveOwners
  OwnersHaveWindows
PROPERTIES
  Reaped
  Scheduled
  WindowsGoWithProcess
