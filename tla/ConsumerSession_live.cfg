SPECIFICATION FairSpec
CONSTANTS
  Session = {s1, s2}
  LakeConnection = lake
  Nobody = nobody
  NumSinks = 2
  Required <- FirstSink
  Options <- DefaultOptions
  MaxAttempts = 2
  MaxWindow = 2
  MaxHead = 2
  MaxFaults = 1
PROPERTIES
  SetupEnds
  CaughtUp
