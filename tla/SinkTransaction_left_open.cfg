SPECIFICATION Spec
CONSTANTS
  Session = {s1}
  Nobody = nobody
  MaxAttempts = 2
  MaxWindow = 2
  MaxHead = 2
  MaxFaults = 1
INVARIANTS
  NoRowsLeftBehind
