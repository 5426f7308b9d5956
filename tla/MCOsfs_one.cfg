SPECIFICATION Spec
CONSTANTS
  p1 = p1
  p2 = p2
  fa = fa
  fb = fb
  long = long
  Procs = {p1, p2}
  Names = {fa, fb, long}
  LongNames = {long}
  INODE_COUNT = 4
  DATA_BLOCK_COUNT = 4
  BLOCK_SIZE = 2
  MAX_DIR_ENTRIES = 1
  OSFS_MAX_EXTENTS = 1
  U32 = 16
  Vals = {0}
  Positions = {1, 33}
  Lens = {3}
  Truncating = {fa}
  DentryKinds = {"create", "lookup"}
SYMMETRY Symmetry
INVARIANTS
  TypeInv
  FsInv
  InodesAccounted
  DentriesPinned
  SizeMapped
CHECK_DEADLOCK FALSE
