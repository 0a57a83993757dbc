SPECIFICATION MCSpec
CONSTANTS
  CLUSTER_COUNT = 7
  ROOT_CLUSTER_NUMBER = 2
  ENTRY_COUNT = 2
  CLUSTER_SIZE = 2
  FOLDER_SIZE = 32
  SIZE_LIMIT = 64
  END_OF_FILE = 99
  Names = {a, b}
  Exts = {"x", ""}
  NoExt = ""
  FileSizes = {1, 3}
SYMMETRY NameSymmetry
INVARIANTS
  FsTypeOK
  ChainsDisjoint
  DirectoriesKnowTheirEntry
  FindsByName
PROPERTIES
  KeepsFiles
  DeletesWhatIsAsked
