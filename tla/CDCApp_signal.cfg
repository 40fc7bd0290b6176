SPECIFICATION FairSpec
CONSTANTS
  NumWorkers = 1
  Interruptible <- Anywhere
  MaxEvents = 2
  MaxBatches = 2
PROPERTIES
  SignalEndsRun
CHECK_DEADLOCK FALSE
