SPECIFICATION MCSpec
CONSTANTS
  Folder = {h1, h2, h3}
  Root = root
  Nowhere = nowhere
  Junk = junk
  None = none
  Garbled = garbled
  Dotted <- MCDotted
  CommandLines <- MCCommandLines
  Trees <- MCTrees
SYMMETRY FolderSymmetry
PROPERTIES
  MvDeletesOnlyCopied
CHECK_DEADLOCK FALSE
