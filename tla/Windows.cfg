SPECIFICATION WinSpec
CONSTANTS
  Handle <- MCHandle
  Owner <- MCOwner
  Xlen <- MCXlen
  Ylen <- MCYlen
  Place <- MCPlace
  MAX_WINDOW_NUM = 3
  SCREEN_WIDTH = 2
  SCREEN_HEIGHT = 2
  Background = "empty"
INVARIANTS
  WinTypeOK
  BooksAgree
  HidesNest
PROPERTIES
  ShowsThePile
