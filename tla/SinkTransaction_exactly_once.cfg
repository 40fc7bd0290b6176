SPECIFICATION Spec
CONSTANTS
  Session = {s1, s2}
  Nobody = nobody
  MaxAttempts = 2
  MaxWindow = 2
  MaxHead = 3
  MaxFaults = 3
SYMMETRY Sessions
INVARIANTS
  TypeOK
  IInv
  OneCopy
  CommitIsComplete
PROPERTIES
  ImplementsExactlyOnce
