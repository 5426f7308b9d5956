SPECIFICATION FairSpec
CONSTANTS
  Inputs <- Files
  Launches = 2
  MaxSegs = 3
  Faults = {"shmget", "shmat", "sem_init", "fopen"}
INVARIANTS TypeOK TokensConserved ReceiverCleansUp NothingLeft
PROPERTIES ImplementsMailbox AllDelivered
CHECK_DEADLOCK FALSE
