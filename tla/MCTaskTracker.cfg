SPECIFICATION Spec
CONSTANTS
  m1 = m1
  t1 = t1
  t2 = t2
  MuxMsg <- MCMuxMsg
  TaskMsg <- MCTaskMsg
  Eid <- MCEid
INVARIANTS
  TypeOK
  TaskStateAgrees
  PendingXorCompleted
  UnassignedPending
PROPERTY
  ImplementsLifecycle
