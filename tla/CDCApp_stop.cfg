SPECIFICATION FairSpec
CONSTANTS
  NumWorkers = 2
  Interruptible <- OutsideLock
  MaxEvents = 3
  MaxBatches = 2
INVARIANTS
  TypeOK
  DrainsBeforeClosing
  OneBatchAfterStop
  LeftClosesAll
PROPERTIES
  SignalEndsRun
  WorkersEnd
  OneShotReturns
  StopIsHeeded
  ImplementsRunLoop
