SPECIFICATION FairSpec
CONSTANTS
  Processes = {1, 2}
  Workloads <- AloneOrTwice
  matrix_row_x = 2
  matrix_row_y = 2
  matrix_col_y = 1
  x <- MatrixX
  y <- MatrixY
  BUFSIZE = 6
  HELLO_LEN = 2
  INFO_LEN = 2
INVARIANTS
  PrintsProduct
  BufTerminated
  HellosRead
  ListsThreads
  EntryServes
PROPERTY ProgramEnds
CHECK_DEADLOCK FALSE
