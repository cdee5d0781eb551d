SPECIFICATION Spec
CONSTANTS
  h1 = h1
  q1 = q1
  m1 = m1
  t1 = t1
  Heart <- MCHeart
  Queue <- MCQueue
  MuxMsg <- MCMuxMsg
  TaskMsg <- MCTaskMsg
  MaxId = 2
PROPERTY
  ImplementsTaskTracker
