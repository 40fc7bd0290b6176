SPECIFICATION Spec
CONSTANTS
  c1 = c1
  c2 = c2
  Consumer <- WithSuccessor
  First = c1
  NumSinks = 1
  MaxConnections = 1
INVARIANTS
  ReentryReconnects
