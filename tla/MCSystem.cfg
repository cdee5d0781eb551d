SPECIFICATION SysSpec
CONSTANTS
  e1 = e1
  Heart <- MCEngine
  Queue <- MCEngine
  MaxId = 3
  Interval = 4
  Floor = 10
  Drift = 1
INVARIANTS
  SysTypeOK
  RegisteredIsOwn
PROPERTIES
  PromptNeverPurged
  PromptFailedByPastOnly
  ServingKept
  AcceptedNameKept
  SecondBeatRegisters
  PromptRegistered
