SPECIFICATION MCSpec
CONSTANTS
  XLEN = 3
  YLEN = 2
  PROMPT = 1
  INPUT_BUFFER_SIZE = 4
  HISTORY = 2
  WORD = 64
  PAGE_ROW = 1
  Outputs <- MCOutputs
  Listings = {1, 2, 4}
  Codes = {28, 30, 14, 15, 75, 77, 72, 80, 1}
  Entered <- MCEntered
  MAX_LINE = 5
INVARIANTS
  ShellTypeOK
  LineFits
  PageOnScreen
PROPERTIES
  RunsWhatIsShown
  ActedOnOnce
