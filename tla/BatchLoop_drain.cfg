SPECIFICATION FairSpec
CONSTANTS
  Arguments <- OneLoop
  Initial = 2
  MaxBacklog = 2
  MaxIdle = 3
INVARIANTS
  DrainSawIdleListens
