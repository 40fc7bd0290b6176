SPECIFICATION Spec
CONSTANTS
  Session = {s1, s2}
  LakeConnection = lake
  Nobody = nobody
  NumSinks = 2
  Required <- FirstSink
  Options <- LeaseOptions
  MaxAttempts = 2
  MaxWindow = 2
  MaxHead = 3
  MaxFaults = 2
SYMMETRY Sessions
INVARIANTS
  TypeOK
  IInv
  NoLoss
  HolderDeliversNext
  RedeliversOnlyIfDisplaced
PROPERTIES
  CursorAdvancesContiguously
  CommitRefusedOnlyIfDisplaced
  OnlyTakeoverDisplacesLive
  OwnExistsOnlyAfterRetry
