SPECIFICATION FairSpec
CONSTANT ITERS = 5
INVARIANT PrintsTotal
PROPERTIES ImplementsSpinLock Finishes
CHECK_DEADLOCK FALSE
