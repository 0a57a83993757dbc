SPECIFICATION MCSpec
CONSTANTS
  Folder = {h1, h2, h3, h4, h5}
  Root = root
  Nowhere = nowhere
  Junk = junk
  None = none
  Garbled = garbled
  Dotted <- MCDottedMore
  CommandLines <- MCCopyLines
  Trees <- MCCopyTrees
SYMMETRY FolderSymmetry
PROPERTIES
  CopyIsComplete
CHECK_DEADLOCK FALSE
