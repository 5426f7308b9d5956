SPECIFICATION Spec
CONSTANTS
  p1 = p1
  p2 = p2
  fa = fa
  fb = fb
  long = long
  Procs = {p1, p2}
  Names = {fa, fb, long}
  LongNames = {long}
  INODE_COUNT = 4
  DATA_BLOCK_COUNT = 4
  BLOCK_SIZE = 2
  MAX_DIR_ENTRIES = 1
  OSFS_MAX_EXTENTS = 1
  U32 = 16
  Vals = {0}
  Positions = {0, 1, 2}
  Lens = {1, 3}
  Truncating = {fa}
  DentryKinds = {"create", "lookup"}
INVARIANT SizesAgree
CHECK_DEADLOCK FALSE
