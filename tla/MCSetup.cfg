SPECIFICATION Spec
CONSTANTS
  Ips <- MCIps
  Transports <- MCTransports
  Intervals <- MCIntervals
  Bindable <- MCBindable
  Connectable <- MCConnectable
  Overlapping <- MCOverlapping
  StartPort = 50
  Attempts = 3
  MaxLength = 7
INVARIANTS
  FactoryTypeOK
  ParserAgrees
  EnginesReachHub
  FailureLeavesMonitor
PROPERTIES
  GetWorks
CHECK_DEADLOCK FALSE
