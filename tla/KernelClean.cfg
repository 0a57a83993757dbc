SPECIFICATION KernelSpec
CONSTANTS
  PAGE_FRAME_MAX_COUNT = 8
  KERNEL_PAGE_COUNT = 1
  HEAP_PAGE_COUNT = 1
  MAX_PROCESS = 3
  MAX_PROCESS_FRAMES = 2
  HEAP_INDEX = 2
  KERNEL_INDEX = 3
  RequestSizes = {1}
  BootSize = 1
  BootPrograms = 2
  WindowsPerProcess = 2
  Handle <- MCHandle
  Owner <- MCOwner
  Xlen <- MCSize
  Ylen <- MCSize
  Place <- MCPlace
  SCREEN_WIDTH = 0
  SCREEN_HEIGHT = 0
  Background = NoWindow
  MAX_WINDOW_NUM = 4
INVARIANTS NoWindowOfTheDead
