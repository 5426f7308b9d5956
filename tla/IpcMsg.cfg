SPECIFICATION FairSpec
CONSTANTS
  Inputs <- Files
  Launches = 2
  MaxQueues = 3
  QueueMax = 2
  Faults = {"msgget", "fopen"}
INVARIANT NothingLeft
PROPERTIES ImplementsMailbox AllDelivered
CHECK_DEADLOCK FALSE
