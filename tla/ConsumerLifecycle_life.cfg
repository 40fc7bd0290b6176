SPECIFICATION Spec
CONSTANTS
  c1 = c1
  c2 = c2
  Consumer <- WithSuccessor
  First = c1
  NumSinks = 2
  MaxConnections = 3
INVARIANTS
  TypeOK
  OpenMeansConnected
  BatchOnLeaseConnection
  ClosesOnlyItsOwn
  ClosedBehind
  NothingLeaks
