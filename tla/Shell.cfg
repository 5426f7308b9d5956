SPECIFICATION FairSpec
CONSTANTS
  Dirs = {"d1", "d2"}
  FileNames = {"f", "g", "locked"}
  Locked = {"locked"}
  Emits <- Programs
  PIPE = 2
  Lines <- TypedLines
  MaxLines = 3
  MAX_RECORD_NUM = 2
INVARIANTS
  RecordShowsLast
  PromptClean
  OutputsRight
PROPERTY LineEnds
CHECK_DEADLOCK FALSE
