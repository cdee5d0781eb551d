SPECIFICATION Spec
CONSTANTS
  internal = internal
  s1 = s1
  t1 = t1
  t2 = t2
  Socket <- MCSocket
  Internal = internal
  Timer <- MCTimer
  MinDelay = 2
  MaxDelay = 3
  MaxBack = 1
INVARIANTS
  TypeOK
  TimersKept
PROPERTIES
  EveryTimerFires
  PassShrinks
