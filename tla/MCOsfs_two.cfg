SPECIFICATION Spec
CONSTANTS
  p1 = p1
  p2 = p2
  fa = fa
  fb = fb
  long = long
  Procs = {p1, p2}
  Names = {fa, fb}
  LongNames = {}
  INODE_COUNT = 4
  DATA_BLOCK_COUNT = 7
  BLOCK_SIZE = 1
  MAX_DIR_ENTRIES = 2
  OSFS_MAX_EXTENTS = 2
  U32 = 16
  Vals = {0}
  Positions = {0, 1}
  Lens = {1, 2}
  Truncating = {}
  DentryKinds = {"create"}
SYMMETRY FileSymmetry
INVARIANTS
  FilesDisjoint
  ExtentsDisjoint
  BlocksAccounted
  BlockCountsRight
  HeldBlockValid
  NoInternalError
PROPERTY MappingStable
CHECK_DEADLOCK FALSE
