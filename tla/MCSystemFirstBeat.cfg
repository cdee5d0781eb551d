SPECIFICATION SysSafetySpec
CONSTANTS
  e1 = e1
  Heart <- MCEngine
  Queue <- MCEngine
  MaxId = 3
  Interval = 4
  Floor = 10
  Drift = 1
PROPERTIES
  FailureMeansSilence
