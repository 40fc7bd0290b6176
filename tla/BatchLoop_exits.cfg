SPECIFICATION FairSpec
CONSTANTS
  Arguments <- EveryExit
  Initial = 2
  MaxBacklog = 4
  MaxIdle = 2
INVARIANTS
  TypeOK
  DrainCatchesUp
  BatchIsPrefix
PROPERTIES
  DrainReturns
  WindowRecovers
  DrainProgresses
  ImplementsRunLoop
