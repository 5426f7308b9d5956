SPECIFICATION MountedSpec
CONSTANTS
  p1 = p1
  p2 = p2
  fa = fa
  fb = fb
  Procs = {p1}
  Names = {fa, fb}
  LongNames = {}
  INODE_COUNT = 4
  DATA_BLOCK_COUNT = 4
  BLOCK_SIZE = 1
  MAX_DIR_ENTRIES = 2
  OSFS_MAX_EXTENTS = 1
  U32 = 16
  Vals = {0}
  Positions = {0}
  Lens = {1}
  Truncating = {}
  DentryKinds = {"create", "lookup"}
  MaxMounts = 2
  Rooms = {1, 2, 3}
  Seeks = {0, 1, 3, 5}
INVARIANTS
  MountLifetime
  MountedConsistent
  ListingExact
PROPERTY ListingComplete
CHECK_DEADLOCK FALSE
