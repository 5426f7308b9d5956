SPECIFICATION FairSpec
CONSTANTS
  p1 = p1
  p2 = p2
  fa = fa
  fb = fb
  long = long
  Procs = {p1, p2}
  Names = {fa, fb}
  LongNames = {}
  INODE_COUNT = 4
  DATA_BLOCK_COUNT = 5
  BLOCK_SIZE = 2
  MAX_DIR_ENTRIES = 2
  OSFS_MAX_EXTENTS = 1
  U32 = 16
  Vals = {7}
  Positions = {1}
  Lens = {2}
  Truncating = {}
  DentryKinds = {"create"}
PROPERTIES ImplementsFiles CallsReturn
CHECK_DEADLOCK FALSE
