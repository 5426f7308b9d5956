SPECIFICATION Spec
CONSTANTS
  Inputs <- Files
  Launches = 1
  MaxSegs = 2
  Faults = {"sem_init"}
INVARIANT SenderCleansUp
CHECK_DEADLOCK FALSE
