SPECIFICATION Spec
CONSTANTS
  Session = {s1, s2, s3}
  LakeConnection = lake
  Nobody = nobody
  NumSinks = 2
  Required <- FirstSink
  Options <- DisplacingOptions
  MaxAttempts = 2
  MaxWindow = 2
  MaxHead = 2
  MaxFaults = 0
SYMMETRY Sessions
PROPERTIES
  ImplementsDurableCursor
